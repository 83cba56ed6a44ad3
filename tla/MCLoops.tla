----------------------------- MODULE MCLoops --------------------------------
(* Loops over files and characters: a report, a name that is cleaned, a     *)
(* text that is prepared. They share nothing; all but one of them are small *)
(* fixed cases, or all together are too many.                               *)
EXTENDS Reports, CleanName, PrepareText

K(id, len) == [id |-> id, len |-> len]

UpTo(n, S) == UNION {[1..m -> S] : m \in 0..n}

(* Two customers of any kind, and three with the middle one shorter, the    *)
(* last one shorter, or all shorter than the one before.                    *)
MCKundeFiles ==
    UpTo(2, {K(id, len) : id \in Ids, len \in 1..2})
    \cup {<<K("a", i), K("b", j), K("a", k)>> : i \in {3}, j \in 1..3, k \in 1..3}

MCKontoFiles == UpTo(3, Ids)

(* Spaces before, in, behind and alone, and a field without any.            *)
MCFields == {<<"x", "y", "z">>, <<" ", "x", "y">>, <<"x", " ", "y">>, <<"y", "x", " ">>,
             <<"x", " ", " ">>, <<" ", " ", "y">>, <<" ", " ", " ">>}

SmallReport == prog = "opgave6" /\ kunder = <<>> /\ konti = <<>> /\ missing = {}
SmallName   == job = "Opgave3" /\ names = <<FullName(<<"x", "y", "z">>, <<"x", "y", "z">>)>>
SmallText   == target = <<>>

LoopsInit ==
    \/ Init /\ SmallReport /\ CleanInit /\ SmallName /\ TextInit
    \/ TextInit /\ SmallText /\ Init /\ SmallReport /\ CleanInit
    \/ TextInit /\ SmallText /\ CleanInit /\ SmallName /\ Init

(* One after another, for they do not meet.                                 *)
AText   == TextNext /\ UNCHANGED <<vars, cleanVars>>
AName   == ended /\ CleanNext /\ UNCHANGED <<vars, textVars>>
AReport == ended /\ who > Customers(job) /\ Next /\ UNCHANGED <<cleanVars, textVars>>

LoopsSpec ==
    /\ LoopsInit
    /\ [][AText \/ AName \/ AReport]_<<vars, cleanVars, textVars>>
    /\ WF_<<vars, cleanVars, textVars>>(AText \/ AName \/ AReport)
=============================================================================
