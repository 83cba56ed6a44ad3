------------------------------- MODULE Fields -------------------------------
(***************************************************************************)
(* The tree of host variables that ocesql builds from WORKING-STORAGE      *)
(* (struct cb_field in ocesql.h), and what the emission asks of it.        *)
(*                                                                         *)
(* A field is a place in the sequence tree.f of all that were allocated;   *)
(* the pointers parent, children and sister are places, 0 standing for     *)
(* NULL.  tree.current is current_field and tree.first description_field   *)
(* of parser.y; the tree is what they reach.                               *)
(***************************************************************************)
EXTENDS Integers, SequencesExt

CONSTANT Pictures    \* picture text -> its symbols with their repetitions

ASSUME PicturesAssumption ==
    \A text \in DOMAIN Pictures : Pictures[text] \in Seq(STRING \X Nat)

Null == 0

NoTree == [f |-> <<>>, current |-> Null, first |-> Null]

Field(level, name) ==
    [sname |-> name, level |-> level,
     parent |-> Null, children |-> Null, sister |-> Null,
     usage |-> "NONE", occurs |-> 0, pictype |-> {}, picnsize |-> 0,
     scale |-> 0, have_sign |-> FALSE, sign_leading |-> FALSE,
     separate |-> FALSE]

(* The bits of pictype.  *)
ALPHANUMERIC == {"ALPHABETIC", "NUMERIC"}
NUMERIC      == {"NUMERIC"}
NATIONAL     == {"NATIONAL"}

-----------------------------------------------------------------------------
(* Levels 66, 77, 78 and 88 never get here: the scanner swallows them.     *)
cb_get_level(level) == level \in 1..49

cb_field_founder(f, i) ==
    LET up[k \in 1..Len(f)] == IF f[k].parent = Null THEN k ELSE up[f[k].parent]
    IN  up[i]

(* The slip: the walk looks no farther up than the parent.                 *)
SlipSameLevel(f, p, level) ==
    IF f[p].level = level THEN p
    ELSE LET q == f[p].parent IN IF q # Null /\ f[q].level = level THEN q ELSE Null

(* The ancestor of p, or p, at this level; Null when a lower level number  *)
(* is met first.                                                           *)
SameLevel(f, p, level) ==
    LET up[k \in 0..Len(f)] ==
            IF k = Null \/ f[k].level < level THEN Null
            ELSE IF f[k].level = level THEN k ELSE up[f[k].parent]
    IN  up[p]

(* The slip: a sister forgets whose child it is.                           *)
SlipSister(f, elder, x) ==
    Append([f EXCEPT ![elder].sister = Len(f) + 1], x)

Sister(f, elder, x) ==
    LET new == Len(f) + 1
    IN  Append([f EXCEPT ![elder].sister = new], [x EXCEPT !.parent = f[elder].parent])

Child(f, parent, x) ==
    Append([f EXCEPT ![parent].children = Len(f) + 1], [x EXCEPT !.parent = parent])

(* The fields after a declaration; unchanged when the code returns NULL,   *)
(* and the clauses that follow then change the field before.               *)
Linked(f, last, level, name) ==
    LET x     == Field(level, name)
        elder == SameLevel(f, last, level)
    IN  IF ~cb_get_level(level) THEN f
        ELSE IF level = 1
             THEN IF last = Null THEN Append(f, x) ELSE Sister(f, cb_field_founder(f, last), x)
        ELSE IF level > f[last].level THEN Child(f, last, x)
        ELSE IF elder # Null THEN Sister(f, elder, x)
        ELSE f

(* Without a field before it only level 1 is accepted: the program stops.  *)
Orphan(tree, level) == cb_get_level(level) /\ level # 1 /\ tree.current = Null

cb_build_field_tree(tree, level, name) ==
    LET f == Linked(tree.f, tree.current, level, name)
    IN  [tree EXCEPT !.f = f,
                     !.current = IF Len(f) > Len(tree.f) THEN Len(f) ELSE @]

(* One symbol of a picture, with its repetitions.  Symbols that are not    *)
(* known are skipped; a bad order abandons the picture.                    *)
Symbol(p, s) ==
    LET c == s[1]
        n == s[2]
        Cat(bits) == [p EXCEPT !.pictype = @ \cup bits, !.any = TRUE]
    IN  CASE c \in {"X", "N"} ->
               [Cat(IF c = "X" THEN ALPHANUMERIC ELSE NATIONAL) EXCEPT
                   !.ok = @ /\ ~p.sign /\ ~p.point, !.digits = @ + n]
          [] c = "9" -> [Cat(NUMERIC) EXCEPT
                            !.digits = @ + n, !.scale = @ + IF p.point THEN n ELSE 0]
          [] c = "S" -> [p EXCEPT !.ok = @ /\ ~p.any /\ ~p.sign /\ n = 1,
                                  !.pictype = @ \cup NUMERIC, !.sign = TRUE]
          [] c = "V" -> [Cat(NUMERIC) EXCEPT
                            !.ok = @ /\ ~p.point /\ n = 1
                                     /\ "ALPHABETIC" \notin p.pictype,
                            !.point = TRUE]
          [] OTHER   -> [p EXCEPT !.any = TRUE]

NoSymbol == [ok |-> TRUE, any |-> FALSE, pictype |-> {}, sign |-> FALSE,
             point |-> FALSE, digits |-> 0, scale |-> 0]

Symbols(q) ==
    LET upto[i \in 0..Len(q)] == IF i = 0 THEN NoSymbol ELSE Symbol(upto[i - 1], q[i])
    IN  upto[Len(q)]

build_picture(x, text) ==
    LET p == Symbols(Pictures[text])
    IN  IF ~p.ok THEN x
        ELSE [x EXCEPT !.picnsize = p.digits, !.scale = p.scale,
                       !.have_sign = p.sign, !.pictype = p.pictype]

(* The clauses of a data description change current_field.                 *)
Clause(x, w) ==
    CASE w.kind = "PICTURE"  -> build_picture(x, w.text)
      [] w.kind \in {"FLOAT", "DOUBLE", "PACKED"} -> [x EXCEPT !.usage = w.kind]
      [] w.kind = "WORD"     -> [x EXCEPT !.usage = "OTHER"]
      [] w.kind = "OCCURS"   -> [x EXCEPT !.occurs = w.n]
      [] w.kind = "LEADING"  -> [x EXCEPT !.sign_leading = TRUE]
      [] w.kind = "SEPARATE" -> [x EXCEPT !.separate = TRUE]
      [] OTHER               -> x

Clauses(x, t) ==
    LET upto[i \in 0..Len(t)] == IF i = 0 THEN x ELSE Clause(upto[i - 1], t[i])
    IN  upto[Len(t)]

-----------------------------------------------------------------------------
(* Depth first, the sisters before the children.                           *)
getfieldbynamefrom(f, name, i) ==
    LET found[k \in 0..Len(f)] ==
            IF k = Null \/ f[k].sname = name THEN k
            ELSE IF found[f[k].sister] # Null THEN found[f[k].sister]
            ELSE found[f[k].children]
    IN  found[i]

getfieldbyname(tree, name) == getfieldbynamefrom(tree.f, name, tree.first)

Sisters(f, i) ==
    LET row[k \in 0..Len(f)] == IF k = Null THEN <<>> ELSE <<k>> \o row[f[k].sister]
    IN  row[i]

Children(f, i) == Sisters(f, f[i].children)

(* HVARTYPE_ of a numeric field; 0 when the usage is not supported.        *)
NumericType(x) ==
    CASE x.usage = "PACKED"        -> IF x.have_sign THEN 9 ELSE 8
      [] x.usage = "BINARY_NATIVE" -> IF x.have_sign THEN 14 ELSE 13
      [] x.usage = "NONE"          -> IF ~x.have_sign THEN 1
                                      ELSE IF x.sign_leading
                                           THEN IF x.separate THEN 4 ELSE 5
                                           ELSE IF x.separate THEN 2 ELSE 3
      [] OTHER                     -> 0

VARTYPE_GROUP == 22

Unset == -1    \* tmp_type is read without having been set

(* [ret, type, digits, scale]; ret is the error number, 0 for none.        *)
gethostvarianttype(tree, name) ==
    LET f == tree.f
        i == getfieldbyname(tree, name)
        x == f[i]
        Is(type) == [ret |-> 0, type |-> type, digits |-> x.picnsize, scale |-> -x.scale]
        Bad(ret) == [ret |-> ret, type |-> 0, digits |-> 0, scale |-> 0]
    IN  CASE i = Null -> Bad(1)
          [] i # Null /\ x.pictype = {} ->
               IF x.occurs > 0 /\ \E c \in ToSet(Children(f, i)) : f[c].children # Null
               THEN Bad(2) ELSE Is(VARTYPE_GROUP)
          [] i # Null /\ x.pictype = NUMERIC ->
               IF NumericType(x) = 0 THEN Bad(30) ELSE Is(NumericType(x))
          [] i # Null /\ x.pictype = ALPHANUMERIC -> Is(16)
          [] i # Null /\ x.pictype = NATIONAL     -> Is(24)
          [] i # Null /\ x.pictype = ALPHANUMERIC \cup {"VARYING"} -> Is(30)
          [] i # Null /\ x.pictype = NATIONAL \cup {"VARYING"}     -> Is(31)
          [] OTHER -> Is(Unset)

(* Bytes of a row of a group: a national character has two.                *)
get_host_group_length(f, group) ==
    FoldLeft(LAMBDA sum, c : sum + f[c].picnsize * IF "NATIONAL" \in f[c].pictype THEN 2 ELSE 1,
             0, Children(f, group))

(* Rows of a group whose members are tables: the shortest of them, none    *)
(* when a member is no table.                                              *)
get_host_group_table_info(f, group) ==
    FoldLeft(LAMBDA rows, c :
                IF f[c].occurs = 0 THEN 0
                ELSE IF rows = -1 \/ f[c].occurs < rows THEN f[c].occurs ELSE rows,
             -1, Children(f, group))

(* What SetHostTable is told of a group.                                   *)
TableInfo(f, group) ==
    [iteration |-> IF f[group].occurs # 0 THEN f[group].occurs
                                          ELSE get_host_group_table_info(f, group),
     length    |-> get_host_group_length(f, group),
     is_parent |-> f[group].occurs # 0]

NoTable == [iteration |-> 0, length |-> 0, is_parent |-> FALSE]

(* A VARYING field becomes a group of its length and its text, and keeps   *)
(* its own picture with the bit VARYING.                                   *)
parameter_split(f, i) ==
    LET len == [Field(f[i].level + 1, f[i].sname \o "-LEN") EXCEPT
                   !.parent = i, !.sister = Len(f) + 2, !.pictype = NUMERIC,
                   !.usage = "BINARY_NATIVE", !.have_sign = TRUE, !.picnsize = 10]
        arr == [Field(f[i].level + 1, f[i].sname \o "-ARR") EXCEPT
                   !.parent = i, !.pictype = f[i].pictype, !.picnsize = f[i].picnsize]
    IN  [f EXCEPT ![i].children = Len(f) + 1,
                  ![i].pictype = (IF @ = NATIONAL THEN NATIONAL ELSE ALPHANUMERIC) \cup {"VARYING"}]
        \o <<len, arr>>
=============================================================================
