-------------------------------- MODULE Join ---------------------------------
(***************************************************************************)
(* What the batch reports promise: for each customer of one file, in the   *)
(* order of the file, the head lines, the lines of each account of another *)
(* file that has the customer's id, in the order of that file, and a line  *)
(* of separation. A line is <<customer, account, part>> by positions in    *)
(* the files; account 0 is the head, and the one behind the last account   *)
(* the separation.                                                         *)
(***************************************************************************)
EXTENDS Naturals, Sequences

VARIABLES
    kunder,    \* customer file: records with an id
    konti,     \* account file: the customer's id of each record
    form,      \* how many lines: form.head, form.konto, form.tail
    promised,  \* the program can hold these files
    out        \* the lines written

vars == <<kunder, konti, form, promised, out>>

HeadLines == {<<c, 0, p>> : c \in 1..Len(kunder), p \in 1..form.head}

KontoLines ==
    {x \in (1..Len(kunder)) \X (1..Len(konti)) \X (1..form.konto) :
        kunder[x[1]].id = konti[x[2]]}

TailLines == {<<c, Len(konti) + 1, p>> : c \in 1..Len(kunder), p \in 1..form.tail}

Lines == HeadLines \cup KontoLines \cup TailLines

Before(x, y) ==
    \/ x[1] < y[1]
    \/ x[1] = y[1] /\ x[2] < y[2]
    \/ x[1] = y[1] /\ x[2] = y[2] /\ x[3] < y[3]

Written(q) == {q[i] : i \in 1..Len(q)}

InOrder(q) == \A i, j \in 1..Len(q) : i < j => Before(q[i], q[j])

(* Some lines of the report from its beginning: none missing, none twice.  *)
Begun(q) ==
    /\ InOrder(q)
    /\ Written(q) \subseteq Lines
    /\ \A x \in Written(q), y \in Lines : Before(y, x) => y \in Written(q)

Extends(q, r) == Len(q) <= Len(r) /\ \A i \in 1..Len(q) : r[i] = q[i]

Init == out = <<>>

Write ==
    /\ promised => Extends(out, out') /\ Begun(out')
    /\ UNCHANGED <<kunder, konti, form, promised>>

Spec == Init /\ [][Write]_vars
=============================================================================
