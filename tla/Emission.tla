------------------------------ MODULE Emission ------------------------------
(***************************************************************************)
(* What ocesql writes for one entry of the list (ppout.c): the calls of    *)
(* the run-time library with their arguments, and the texts of the         *)
(* statements cut into lines of WORKING-STORAGE.                           *)
(*                                                                         *)
(* The output is a sequence of items: a CALL, its END-CALL (with the       *)
(* period, if the statement had one), a FILLER, and the messages of the    *)
(* error file, kept where they are written.  A return in the middle of an  *)
(* emission leaves the sequence without its end; a crash ends ocesql.      *)
(***************************************************************************)
EXTENDS Scanner, FiniteSets

CONSTANT Spellings    \* text of a token -> its bytes: "D" in the range of a
                      \* leading byte of a double-byte character, "s" not

ASSUME SpellingsAssumption ==
    \A text \in DOMAIN Spellings : Spellings[text] \in Seq({"D", "s"})

Call(fn, args) == <<[kind |-> "call", fn |-> fn, args |-> args]>>
End(period)    == <<[kind |-> "end", period |-> period]>>
Error(ret, name) == <<[kind |-> "error", ret |-> ret, name |-> name]>>
Crash          == <<[kind |-> "crash"]>>    \* a member of NULL is read

None == [sqlca |-> TRUE]    \* no argument but the SQLCA, or none at all

Type(tree, name) == gethostvarianttype(tree, name)

(* The rest of an emission, unless the name given with AT is no variable.  *)
WithDb(tree, l, rest) ==
    IF l.at /\ Type(tree, l.db).ret # 0 THEN Error(Type(tree, l.db).ret, l.db) ELSE rest

(* The ID form of a call carries the connection.                           *)
Named(l, args) ==
    IF l.at THEN [x \in DOMAIN args \cup {"db"} |-> IF x = "db" THEN l.db ELSE args[x]]
    ELSE args

ppoutputendcall(l) == End(l.period)

Start == Call("StartSQL", None) \o End(FALSE)

(* The slip: the period of the statement is lost.                          *)
SlipEnded(l) == Call("EndSQL", None) \o End(FALSE)

Ended(l) == Call("EndSQL", None) \o ppoutputendcall(l)

-----------------------------------------------------------------------------
(* Host variables as parameters (fn is SetSQLParams, _ppoutputparam) and   *)
(* as places for results (SetResultParams, ppoutputresparam).              *)

SetParam(fn, name, t, iteration) ==
    Call(fn, [host |-> name, type |-> t.type, digits |-> t.digits, scale |-> t.scale,
              first |-> iteration > 0]) \o End(FALSE)

(* One parameter after another until one has no type.                      *)
Each(tree, names, iteration, fn) ==
    FlattenSeq([i \in 1..Len(names) |->
        LET t == Type(tree, names[i])
        IN  IF \E j \in 1..(i - 1) : Type(tree, names[j]).ret # 0 THEN <<>>
            ELSE IF t.ret # 0 THEN Error(t.ret, names[i])
            ELSE SetParam(fn, names[i], t, iteration)])

NamesOf(tree, places) == [i \in 1..Len(places) |-> tree.f[places[i]].sname]

(* The slip: the CALL is begun before the type is asked for.               *)
SlipParam(tree, name, iteration) ==
    LET t == Type(tree, name)
        group == NamesOf(tree, Children(tree.f, getfieldbyname(tree, name)))
    IN  IF t.ret # 0 THEN Call("SetSQLParams", [host |-> name]) \o Error(t.ret, name)
        ELSE Each(tree, IF t.type = VARTYPE_GROUP THEN group ELSE <<name>>,
                  iteration, "SetSQLParams")

(* A group is passed member by member; its own groups are not opened.      *)
ppoutputparam(tree, name, iteration) ==
    LET t == Type(tree, name)
        group == NamesOf(tree, Children(tree.f, getfieldbyname(tree, name)))
    IN  IF t.ret # 0 THEN Error(t.ret, name)
        ELSE Each(tree, IF t.type = VARTYPE_GROUP THEN group ELSE <<name>>,
                  iteration, "SetSQLParams")

Params(tree, l, iteration) ==
    FlattenSeq([i \in 1..Len(l.hosts) |-> ppoutputparam(tree, l.hosts[i], iteration)])

(* The number announced: the calls that were written.                      *)
Count(items, fn) == Cardinality({k \in 1..Len(items) : items[k].kind = "call" /\ items[k].fn = fn})

(* FETCH opens the groups of a group too.                                  *)
ppoutputresgroup(tree, i, iteration) ==
    LET group[k \in 0..Len(tree.f)] ==
            IF k = Null THEN <<>>
            ELSE LET x == tree.f[k]
                     t == Type(tree, x.sname)
                 IN  IF t.ret # 0 THEN Error(t.ret, x.sname)
                     ELSE (IF t.type = VARTYPE_GROUP THEN group[x.children]
                           ELSE SetParam("SetResultParams", x.sname, t, iteration))
                          \o group[x.sister]
    IN  group[i]

SetHostTable(table) == Call("SetHostTable", table) \o End(FALSE)

Failed(items) == items # <<>> /\ Last(items).kind = "error"

-----------------------------------------------------------------------------
(* One operator per command                                                *)

ppoutputconnect(tree, l) ==
    LET fn  == CASE Len(l.hosts) = 0 -> "ConnectShort"
                 [] Len(l.hosts) = 1 -> "ConnectInformal"
                 [] OTHER            -> "Connect"
        bad == SelectInSeq(l.hosts, LAMBDA h : Type(tree, h).ret # 0)
    IN  Call(fn, Named(l, [hosts |-> l.hosts]))
        \o WithDb(tree, l, IF bad # 0 THEN Error(Type(tree, l.hosts[bad]).ret, l.hosts[bad])
                           ELSE ppoutputendcall(l))

(* The number of host variables of the statement is announced, although a  *)
(* group among them sets more than one parameter.                          *)
ppoutputopen(tree, l) ==
    IF l.hosts = <<>> THEN Call("CursorOpen", [cursor |-> l.cursor]) \o ppoutputendcall(l)
    ELSE Start \o Params(tree, l, 0)
         \o Call("CursorOpenParams", [cursor |-> l.cursor, count |-> Len(l.hosts)])
         \o End(FALSE) \o Ended(l)

ppoutputexecprepare(tree, l) ==
    LET p == Params(tree, l, 0)
    IN  IF l.hosts # <<>> /\ Type(tree, l.hosts[1]).ret # 0
        THEN Start \o Error(Type(tree, l.hosts[1]).ret, l.hosts[1])
        ELSE Start \o p
             \o Call("ExecPrepare", Named(l, [prep |-> l.prep, count |-> Count(p, "SetSQLParams")]))
             \o WithDb(tree, l, End(FALSE) \o Ended(l))

(* What FETCH writes for its variables: the first decides whether they are *)
(* a group, and then the others are not looked at.                         *)
FetchResults(tree, l, table) ==
    IF Type(tree, l.res[1]).type = VARTYPE_GROUP
    THEN ppoutputresgroup(tree, tree.f[getfieldbyname(tree, l.res[1])].children, table.iteration)
    ELSE Each(tree, l.res, 0, "SetResultParams")

TableOf(tree, l) ==
    IF Type(tree, l.res[1]).ret = 0 /\ Type(tree, l.res[1]).type = VARTYPE_GROUP
    THEN TableInfo(tree.f, getfieldbyname(tree, l.res[1])) ELSE NoTable

ppoutputfetch(tree, l) ==
    LET table == TableOf(tree, l)
        r     == FetchResults(tree, l, table)
        alone == Type(tree, l.res[1]).type # VARTYPE_GROUP
    IN  IF Type(tree, l.res[1]).ret # 0
        THEN Start \o Error(Type(tree, l.res[1]).ret, l.res[1])
        ELSE IF alone /\ Failed(r) THEN Start \o r
        ELSE Start \o r
             \o (IF table.iteration # 0
                 THEN SetHostTable(table) \o Call("CursorFetchOccurs", [cursor |-> l.cursor])
                 ELSE Call("CursorFetchOne", [cursor |-> l.cursor]))
             \o End(FALSE) \o Ended(l)

(* OCESQLExec of the word itself, between StartSQL and EndSQL.             *)
EndOfTransaction(tree, l, text) ==
    Start \o Call("Exec", Named(l, [word |-> text]))
    \o WithDb(tree, l, End(FALSE) \o Ended(l))

ppoutputcommit(tree, l)   == EndOfTransaction(tree, l, "COMMIT")
ppoutputrollback(tree, l) == EndOfTransaction(tree, l, "ROLLBACK")

(* A group that has no members.                                            *)
Memberless(tree, h) ==
    /\ Type(tree, h).ret = 0 /\ Type(tree, h).type = VARTYPE_GROUP
    /\ Children(tree.f, getfieldbyname(tree, h)) = <<>>

(* The text to prepare is a group of its length and its characters.  The   *)
(* first member is compared before it is known that there is one.          *)
ppoutputprepare(tree, l) ==
    LET h  == l.hosts[1]
        t  == Type(tree, h)
        m  == NamesOf(tree, Children(tree.f, getfieldbyname(tree, h)))
        ok == Len(m) >= 2 /\ m[1] = h \o "-LEN" /\ m[2] = h \o "-ARR"
    IN  Call("Prepare", [prep |-> l.prep, hosts |-> IF t.ret = 0 THEN m ELSE <<>>])
        \o (CASE t.ret # 0                                 -> Error(t.ret, h)
              [] t.ret = 0 /\ t.type # VARTYPE_GROUP       -> Error(13, h)
              [] Memberless(tree, h)                       -> Crash
              [] t.ret = 0 /\ t.type = VARTYPE_GROUP /\ ~Memberless(tree, h) /\ ~ok -> Error(14, h)
              [] OTHER                                     -> ppoutputendcall(l))

ppoutputdisconnect(tree, l) ==
    Call("Disconnect", Named(l, None)) \o WithDb(tree, l, ppoutputendcall(l))

(* A table of host variables: decided by the group of the first one.       *)
OccursOf(tree, l) ==
    LET i == getfieldbyname(tree, l.hosts[1])
    IN  IF \/ l.command \notin {"INSERT", "DELETE", "UPDATE"} \/ i = Null
           \/ tree.f[i].parent = Null
        THEN NoTable ELSE TableInfo(tree.f, tree.f[i].parent)

ppoutputother(tree, l) ==
    IF l.hosts = <<>>
    THEN Call("Exec", Named(l, [sql |-> l.sqlname])) \o WithDb(tree, l, ppoutputendcall(l))
    ELSE LET table == OccursOf(tree, l)
             p     == Params(tree, l, table.iteration)
             args  == Named(l, [sql |-> l.sqlname, count |-> Count(p, "SetSQLParams")])
         IN  Start \o p
             \o (IF table.iteration > 0
                 THEN SetHostTable(table) \o Call("ExecParamsOccurs", args)
                 ELSE Call("ExecParams", args))
             \o WithDb(tree, l, End(FALSE) \o Ended(l))

(* SELECT without INTO comes from DECLARE CURSOR (or from a statement that *)
(* merely contains a query, which command_putother has taken before).      *)
SelectCursor(tree, l) ==
    LET p    == Params(tree, l, 0)
    IN  IF l.hosts = <<>>
        THEN Call("CursorDeclare", Named(l, [cursor |-> l.cursor, sql |-> l.sqlname]))
             \o WithDb(tree, l, ppoutputendcall(l))
        ELSE Start \o p
             \o Call("CursorDeclareParams",
                     Named(l, [cursor |-> l.cursor, sql |-> l.sqlname,
                               count |-> Count(p, "SetSQLParams")]))
             \o WithDb(tree, l, End(FALSE) \o Ended(l))

(* SELECT INTO passes a group member by member.                            *)
SelectInto(tree, l) ==
    LET first == Type(tree, l.res[1])
        group == first.type = VARTYPE_GROUP
        table == TableOf(tree, l)
        names == IF group THEN NamesOf(tree, Children(tree.f, getfieldbyname(tree, l.res[1])))
                 ELSE l.res
        r     == Each(tree, names, table.iteration, "SetResultParams")
        p     == Params(tree, l, table.iteration)
        args  == Named(l, [sql |-> l.sqlname, count |-> Count(p, "SetSQLParams"),
                           results |-> Count(r, "SetResultParams")])
    IN  IF first.ret # 0 THEN Start \o Error(first.ret, l.res[1])
        ELSE IF Failed(r) THEN Start \o r
        ELSE Start \o r \o p
             \o (IF table.iteration # 0
                 THEN SetHostTable(table) \o Call("ExecSelectIntoOccurs", args)
                 ELSE Call("ExecSelectIntoOne", args))
             \o WithDb(tree, l, End(FALSE) \o Ended(l))

PreparedCursor(tree, l) ==
    Call("PreparedCursorDeclare", Named(l, [cursor |-> l.cursor, prep |-> l.prep]))
    \o WithDb(tree, l, ppoutputendcall(l))

CursorClose(l) ==
    Call("CursorClose", [cursor |-> l.cursor]) \o ppoutputendcall(l)

-----------------------------------------------------------------------------
(* Texts cut into lines (substring, sql_string)                            *)

Bytes(piece) ==
    IF piece.text \in DOMAIN Spellings THEN Spellings[piece.text] ELSE <<"s", "s">>

(* The tokens with a blank between them, but none before a comma.          *)
TextBytes(text) ==
    FlattenSeq([i \in 1..Len(text) |->
                  Bytes(text[i]) \o
                  IF i < Len(text) /\ text[i + 1].text # "," THEN <<"s">> ELSE <<>>])

(* The slip: a line is cut where it is full.                               *)
SlipSubstring(b, at, width, end) ==
    IF width >= Len(b) - at + 1 THEN Len(b) - at + 1 ELSE width

(* How many of the bytes from position at the next line takes: width, or   *)
(* one more (one less in the last line of a FILLER) when an odd run of     *)
(* leading bytes ends there.  The run is not followed to the byte at.      *)
substring(b, at, width, end) ==
    LET rest == Len(b) - at + 1
        h    == CHOOSE k \in 1..width :
                   /\ k = width \/ b[at + width - k] # "D"
                   /\ \A j \in 1..(k - 1) : b[at + width - j] = "D"
    IN  IF width >= rest THEN rest
        ELSE IF h % 2 = 0 THEN (IF end THEN width - 1 ELSE width + 1)
        ELSE width

Widths == <<30, 58, 58, 58, 52>>

Behind(b, at, lines) == IF lines = <<>> THEN at ELSE Last(lines).at + Last(lines).n

(* The lines before that were made a byte longer.                          *)
Wider(lines) == Cardinality({i \in 1..Len(lines) : i < 5 /\ lines[i].n > Widths[i]})

(* One more line of a FILLER: its first byte, how many, and EOFFLG, raised *)
(* by the line that finds no more text than it can hold.                   *)
NextLine(b, at, lines) ==
    LET i     == Len(lines) + 1
        width == Widths[i] - IF i = 5 THEN Wider(lines) ELSE 0
        here  == Behind(b, at, lines)
    IN  [at |-> here, n |-> substring(b, here, width, i = 5), eof |-> width >= Len(b) - here + 1]

Full(lines) == lines # <<>> /\ Last(lines).eof

(* The lines of the FILLER that begins with the byte at.                   *)
Lines(b, at) ==
    LET cut[i \in 0..5] ==
            IF i = 0 THEN <<>>
            ELSE IF Full(cut[i - 1]) THEN cut[i - 1]
            ELSE Append(cut[i - 1], NextLine(b, at, cut[i - 1]))
    IN  cut[5]

Filler(b, at) ==
    LET lines == Lines(b, at)
        rest  == Len(b) - at + 1
        short == ~Full(lines) /\ Last(lines).n # 52 - Wider(lines)
    IN  [size |-> IF rest < 256 THEN rest ELSE IF short THEN 255 ELSE 256, lines |-> lines]

sql_string(b) ==
    LET cut[at \in 1..(Len(b) + 1)] ==
            LET filler == Filler(b, at)
            IN  <<filler>> \o IF Full(filler.lines) THEN <<>> ELSE cut[Behind(b, at, filler.lines)]
    IN  cut[1]

outsqlfiller(list) ==
    FlattenSeq([i \in 1..Len(list) |->
        IF list[i].text = <<>> THEN <<>>
        ELSE <<[kind |-> "filler", sql |-> list[i].sqlname, text |-> list[i].text,
                fillers |-> sql_string(TextBytes(list[i].text))]>>])

-----------------------------------------------------------------------------
(* The dispatch on the command                                             *)

ppoutcontext(tree, l) ==
    CASE l.command = "CONNECT" -> ppoutputconnect(tree, l)
      [] l.command = "OPEN"    -> ppoutputopen(tree, l)
      [] l.command = "EXECUTE" -> ppoutputexecprepare(tree, l)
      [] l.command = "FETCH"   -> ppoutputfetch(tree, l)
      [] l.command = "COMMIT"  -> ppoutputcommit(tree, l)
      [] l.command = "COMMIT_RELEASE" -> ppoutputcommit(tree, l) \o ppoutputdisconnect(tree, l)
      [] l.command = "ROLLBACK" -> ppoutputrollback(tree, l)
      [] l.command = "ROLLBACK_RELEASE" ->
            ppoutputrollback(tree, l) \o ppoutputdisconnect(tree, l)
      [] l.command \in {"INSERT", "UPDATE", "DELETE"} -> ppoutputother(tree, l)
      [] l.command = "PREPARE" -> ppoutputprepare(tree, l)
      [] l.command = "DISCONNECT" -> ppoutputdisconnect(tree, l)

Commands == {"CONNECT", "OPEN", "EXECUTE", "FETCH", "COMMIT", "COMMIT_RELEASE", "ROLLBACK",
             "ROLLBACK_RELEASE", "INSERT", "UPDATE", "DELETE", "PREPARE", "DISCONNECT"}

(* The fields that VARYING writes in place of its line.                    *)
VaryingLines(tree, l) ==
    <<[kind |-> "varying", name |-> tree.f[l.varying].sname, size |-> tree.f[l.varying].picnsize]>>

(* later: the entries after l, whose texts WORKING_END writes.             *)
ppbuff(tree, l, later) ==
    CASE l.command \in Commands -> ppoutcontext(tree, l)
      [] l.command \notin Commands /\ l.putother -> ppoutputother(tree, l)
      [] ~l.putother /\ l.command = "INCLUDE" -> <<[kind |-> "copy"]>>
      [] ~l.putother /\ l.command = "WORKING_END" -> outsqlfiller(later)
      [] ~l.putother /\ l.command = "VARYING_PARAM" -> VaryingLines(tree, l)
      [] ~l.putother /\ l.command = "SELECT" ->
            IF l.res = <<>> THEN SelectCursor(tree, l) ELSE SelectInto(tree, l)
      [] ~l.putother /\ l.command = "" /\ l.prep # "" -> PreparedCursor(tree, l)
      [] ~l.putother /\ l.command = "CLOSE" -> CursorClose(l)
      [] OTHER -> <<>>

(* The tree after the emission: VARYING splits its field.                  *)
TreeAfter(tree, l) ==
    IF l.command = "VARYING_PARAM" /\ ~l.putother
    THEN [tree EXCEPT !.f = parameter_split(tree.f, l.varying)] ELSE tree
=============================================================================
