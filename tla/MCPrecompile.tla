---------------------------- MODULE MCPrecompile -----------------------------
(* Programs of a data division, one or two statements and a layout.  A word *)
(* of no interest is T; long literals have national characters at cuts.     *)
EXTENDS Precompile

R(rule)   == Word(rule, rule, 0)
T(text)   == Word("TOKEN", text, 0)
H(name)   == Word("HOST", name, 0)

Lit(before, pairs, after) ==
    [k \in 1..(before + 2 * pairs + after) |->
        IF k > before /\ k <= before + 2 * pairs THEN "D" ELSE "s"]

(* Cut in the first line at an odd and at an even place, in the second, in  *)
(* lines of nothing else, and in the last line of the first FILLER.         *)
Literals == [odd |-> Lit(12, 20, 3), even |-> Lit(13, 20, 0), second |-> Lit(60, 20, 70),
             solid |-> Lit(12, 130, 5), full |-> Lit(245, 9, 40), twice |-> Lit(500, 9, 1)]

MCSpellings == Literals

MCPictures == [N4  |-> <<<<"9", 4>>>>, S32 |-> <<<<"S", 1>>, <<"9", 3>>, <<"V", 1>>, <<"9", 2>>>>,
               X8  |-> <<<<"X", 8>>>>, N3 |-> <<<<"N", 3>>>>]

Field1(level, name, clauses) ==
    <<Word("NUMBER", "", level), Word("WORD", name, 0)>> \o clauses \o <<R(".")>>
Pic(p)     == <<Word("PICTURE", p, 0)>>
Occurs(n)  == <<Word("OCCURS", "", n)>>

Plain3 == <<Field1(1, "A", Pic("N4")), Field1(1, "B", Pic("S32") \o <<R("PACKED")>>),
            Field1(1, "D", Pic("X8"))>>
Group  == <<Field1(1, "G", <<>>), Field1(5, "G1", Pic("X8")), Field1(5, "G2", Pic("N3"))>>
Text   == <<Field1(1, "P", <<>>), Field1(3, "P-LEN", Pic("N4")), Field1(3, "P-ARR", Pic("X8"))>>

(* Up by one level and by two, and on; a group without members.            *)
Deep   == <<Field1(1, "R", <<>>), Field1(5, "S", <<>>), Field1(10, "U", <<>>),
            Field1(15, "A", Pic("N4")), Field1(15, "B", Pic("S32")),
            Field1(10, "V", <<>>), Field1(15, "V1", Pic("X8")), Field1(5, "D", Pic("X8")),
            Field1(5, "G", <<>>), Field1(10, "G1", Pic("X8")), Field1(10, "G2", Pic("N3")),
            Field1(5, "E", <<>>)>>

(* Up to levels that no row has: L, M and N are lost.  Then to one that    *)
(* has a row, behind a lost one.                                           *)
Lost   == <<Field1(1, "R", <<>>), Field1(5, "A", Pic("N4")), Field1(3, "L", Pic("X8")),
            Field1(10, "B", Pic("S32")), Field1(7, "M", <<>>), Field1(10, "G2", Pic("N3")),
            Field1(5, "D", Pic("X8")), Field1(1, "G", <<>>), Field1(10, "G1", Pic("X8")),
            Field1(5, "N", Occurs(2)), Field1(10, "E", <<>>)>>

(* Single items; a table of rows with members in it; a table of members    *)
(* with a VARYING item; a level 77 and a group in a group.                 *)
Divisions ==
    {Plain3 \o Group \o Text,
     <<Field1(1, "R", Occurs(3)), Field1(5, "A", Pic("N4")), Field1(5, "B", Pic("S32")),
       Field1(5, "D", Pic("X8")), Field1(1, "G", Occurs(2)), Field1(3, "G1", Pic("X8")),
       Field1(3, "G2", Pic("N3"))>> \o Text,
     <<Field1(1, "A", Pic("X8") \o <<R("VARYING")>>), <<>>, Field1(1, "Q", <<>>),
       Field1(5, "B", Occurs(2) \o Pic("S32")), Field1(5, "D", Occurs(3) \o Pic("X8")),
       Field1(1, "G", <<>>), Field1(3, "G1", <<>>), Field1(5, "G2", Pic("N3")),
       Field1(77, "W", Pic("N4"))>> \o Text,
     Deep \o Text, Lost \o Text}

Working(fields, gap) ==
    <<<<R("WORKING-STORAGE")>>, <<R("HOST_BEGIN")>>>> \o fields \o <<<<R("HOST_END")>>>>
    \o (IF gap THEN <<<<>>>> ELSE <<>>) \o <<<<R("PROCEDURE DIVISION")>>>>

Comma(a, b) == <<a, T(","), b>>
Body(lit) == <<T("T"), T(lit)>>

Statements ==
    {<<R("CONNECT"), H("A"), R("IDENTIFIED"), H("B"), R("USING"), H("D")>>,
     <<R("CONNECT")>>, <<R("CONNECT"), H("D"), R("AT"), H("A")>>,
     <<R("INSERT"), R("INTO")>> \o Body("odd") \o Comma(H("A"), H("B")),
     <<R("INSERT"), R("INTO")>> \o Body("twice") \o <<H("G")>>,
     <<R("INSERT"), R("INTO"), T("T"), R("SELECT"), T("x"), R("FROM"), T("U")>>,
     <<R("AT"), H("D"), R("UPDATE"), T("T"), H("A"), R("WHERE CURRENT OF"), R("CURNAME")>>,
     <<R("DELETE"), R("FROM")>> \o Body("even"),
     <<R("SELECT")>> \o Body("second") \o <<R("INTO"), H("A"), T(","), H("B"), R("FROM"), T("T")>>
         \o Comma(H("D"), H("G1")),
     <<R("SELECT"), T("x"), R("INTO"), H("G"), R("FROM")>> \o Body("solid"),
     <<R("DECLARE"), T("C"), R("CURSOR"), R("FOR"), R("SELECT"), T("x"), R("FROM")>> \o Body("full"),
     <<R("DECLARE"), T("C"), R("CURSOR"), R("FOR"), R("SELECT"), T("x"), R("FROM"), T("T"), H("D")>>,
     <<R("DECLARE"), T("C"), R("CURSOR"), R("FOR"), T("S")>>,
     <<R("OPEN"), T("C")>>, <<R("OPEN"), T("C"), R("USING")>> \o Comma(H("A"), H("B")),
     <<R("OPEN"), T("C"), R("USING"), H("G")>>,
     <<R("FETCH"), T("C"), R("INTO")>> \o Comma(H("A"), H("D")),
     <<R("FETCH"), T("C"), R("INTO"), H("G")>>, <<R("CLOSE"), T("C")>>,
     <<R("COMMIT")>>, <<R("AT"), H("D"), R("ROLLBACK_RELEASE")>>,
     <<R("PREPARE"), T("S"), R("FROM"), H("P")>>, <<R("PREPARE"), T("S"), R("FROM"), H("A")>>,
     <<R("PREPARE"), T("S"), R("FROM"), H("E")>>,
     <<R("EXECUTE"), T("S")>>, <<R("EXECUTE"), T("S"), R("USING"), H("A"), H("G")>>,
     <<R("DISCONNECT"), T("ALL")>>,
     <<T("CREATE"), T("VIEW"), R("SELECT"), T("x"), R("FROM"), T("T")>>,
     <<R("INSERT"), T("T"), H("A"), H("Z")>>, <<R("FETCH"), T("C"), R("INTO"), H("A"), H("Z")>>,
     <<R("SELECT"), T("("), R("FROM"), T(")"), R("INTO"), H("A")>>}

(* The statements that meet in pairs.                                      *)
Pairing == {st \in Statements : st[1].rule \in {"INSERT", "FETCH", "OPEN", "AT"}}

Begin == R("EXEC SQL")
End1  == R("END-EXEC")
Stop  == R("END-EXEC.")
Move  == R("TEXT")

OneLine(st, e) == <<<<Begin>> \o st \o <<e>>>>
Three(st, e)   == <<<<Move, Begin>>, st, <<e>>>>

Joined(a, b) ==    \* b begins on the line where a ends
    SubSeq(a, 1, Len(a) - 1) \o <<a[Len(a)] \o b[1]>> \o SubSeq(b, 2, Len(b))

Singles(st) == {Three(st, Stop) \o <<<<Move>>>>, OneLine(st, End1) \o <<<<Move>>>>, OneLine(st, Stop)}

Pairs(a, b) == {Three(a, End1) \o <<<<Move>>>> \o Three(b, Stop) \o <<<<Move>>>>,
                OneLine(a, Stop) \o OneLine(b, End1) \o <<<<Move>>>>,
                Joined(Three(a, End1), Three(b, Stop)) \o <<<<Move>>>>,
                Joined(OneLine(a, End1), OneLine(b, Stop)) \o <<<<Move>>>>}

Include(what) == <<R("INCLUDE"), Word(what, what, 0), End1>>

First == Plain3 \o Group \o Text

(* One of the files to be included is not there.                           *)
MCPrograms ==
    {Working(d, TRUE) \o p : d \in Divisions, p \in UNION {Singles(st) : st \in Statements}}
    \cup {Working(First, g) \o p : g \in BOOLEAN,
            p \in UNION {Pairs(a, b) : a \in Pairing, b \in Statements}}
    \cup {Working(First \o <<Include("SQLCA")>>, TRUE) \o <<Include(name)>> \o p :
            name \in {"open", "closed", "missing"}, p \in UNION {Singles(st) : st \in Pairing}}

(* The statement of the one is the last line of its file.                  *)
MCIncluded == [open   |-> <<<<Begin, R("DELETE"), T("U"), Stop>>, <<Move>>>>,
               closed |-> <<<<Move>>, <<Begin, R("DELETE"), T("U"), Stop>>>>]

(* The same verbs as a program may also spell them.                        *)
Lower(st) == [st EXCEPT ![1].text = "delete"]
MCLowercase ==
    {Working(First, TRUE) \o Three(Lower(st), Stop) \o <<<<Move>>>> :
        st \in {x \in Statements : x[1].rule = "DELETE"}}
=============================================================================
