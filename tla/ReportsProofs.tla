---------------------------- MODULE ReportsProofs ----------------------------
(***************************************************************************)
(* The reports write the lines of the join in its order. The invariant     *)
(* says which lines have been written: those of the customers before the   *)
(* present one, and of that one up to a mark that the loop it is in moves. *)
(***************************************************************************)
EXTENDS Reports, SequenceTheorems, TLAPS

First == IF prog = "Opgave9" THEN 1 ELSE 0

Typed ==
    /\ prog \in Reports /\ kunder \in Seq(Kunde) /\ konti \in Seq(Ids)
    /\ phase \in {"konti", "load", "open", "kunder", "match"} \cup Ended
    /\ kpos \in 0..Len(kunder) /\ apos \in 0..Len(konti)
    /\ count = First + (IF prog \in Tables THEN apos ELSE 0)
    /\ DOMAIN array = 1..(IF prog \in Tables THEN apos ELSE 0)
    /\ \A j \in DOMAIN array : array[j] \in 0..Len(konti)
    /\ at \in 1..(Len(konti) + 1)
    /\ navn \in [1..Width -> 0..kpos]
    /\ shown \in Seq([1..Width -> 0..kpos]) /\ Len(shown) = kpos
    /\ opened \in BOOLEAN

(* Which loops a program is in, and what it has read when it is there.     *)
Course ==
    /\ phase \in {"load", "open"} => kpos = 0
    /\ phase = "load" => prog \in Tables
    /\ phase = "konti" /\ prog \in Tables => kpos = 0 /\ apos = 0
    /\ phase \in {"konti", "match"} => prog \in Joins
    /\ (phase = "konti" /\ prog \in Nested) \/ phase = "match" => kpos > 0
    /\ phase \in {"open", "kunder", "match", "done"} /\ prog \in Tables => apos = Len(konti)
    /\ phase = "done" => kpos = Len(kunder)
    /\ phase = "failed" => kpos = 0 \/ prog \in Nested

(* The accounts of the present customer that were looked at, and up to     *)
(* which its lines are written.                                            *)
Passed == IF prog \in Nested THEN apos ELSE at - 1

Mark == CASE phase \in {"konti", "failed"} -> 0
          [] phase = "match"               -> Passed
          [] OTHER                         -> Len(konti) + 1

Under(c, a) == {x \in Report!Lines : x[1] < c \/ (x[1] = c /\ x[2] < a)}
UpToItem(c, a) == {x \in Report!Lines : x[1] < c \/ (x[1] = c /\ x[2] <= a)}

(* q has the lines S, in order.                                            *)
Holds(q, S) ==
    q \in Seq(Report!Lines) /\ Report!InOrder(q) /\ Report!Written(q) = S

Loaded == \A j \in DOMAIN array : array[j] = j

WrittenSofar ==
    Fits => /\ phase # "dead"
            /\ Loaded
            /\ Holds(out, UpToItem(kpos, Mark))

RInv == Typed /\ Course

-----------------------------------------------------------------------------
(* Lines                                                                   *)

LEMMA Forms ==
    ASSUME prog \in Reports
    PROVE  /\ Form[prog].head \in Nat /\ Form[prog].konto \in Nat /\ Form[prog].tail \in Nat
           /\ prog \in Joins => Form[prog].konto > 0
           /\ prog \notin Joins => Form[prog].konto = 0
BY DEF Reports, Answers, Form, Joins, Nested, Tables

(* A line by its three numbers.                                            *)
LEMMA LineIs ==
    ASSUME prog \in Reports, kunder \in Seq(Kunde), konti \in Seq(Ids)
    PROVE  /\ Report!Lines \subseteq Nat \X Nat \X Nat
           /\ \A c, a, p \in Nat :
                <<c, a, p>> \in Report!Lines <=>
                   /\ c \in 1..Len(kunder)
                   /\ \/ a = 0 /\ p \in 1..Form[prog].head
                      \/ /\ a \in 1..Len(konti) /\ p \in 1..Form[prog].konto
                         /\ kunder[c].id = konti[a]
                      \/ a = Len(konti) + 1 /\ p \in 1..Form[prog].tail
<1> DEFINE N == Len(kunder)
           M == Len(konti)
<1>1. N \in Nat /\ M \in Nat
  OBVIOUS
<1>2. Report!HeadLines = {<<c, 0, p>> : c \in 1..N, p \in 1..Form[prog].head}
  BY DEF Report!HeadLines
<1>3. Report!KontoLines = {x \in (1..N) \X (1..M) \X (1..Form[prog].konto) :
                              kunder[x[1]].id = konti[x[2]]}
  BY DEF Report!KontoLines
<1>4. Report!TailLines = {<<c, M + 1, p>> : c \in 1..N, p \in 1..Form[prog].tail}
  BY DEF Report!TailLines
<1>5. Report!Lines = Report!HeadLines \cup Report!KontoLines \cup Report!TailLines
  BY DEF Report!Lines
<1> HIDE DEF N, M
<1>6. Report!Lines \subseteq Nat \X Nat \X Nat
  BY <1>1, <1>2, <1>3, <1>4, <1>5, Forms
<1>7. ASSUME NEW c \in Nat, NEW a \in Nat, NEW p \in Nat
      PROVE  /\ <<c, a, p>> \in Report!HeadLines <=>
                   c \in 1..N /\ a = 0 /\ p \in 1..Form[prog].head
             /\ <<c, a, p>> \in Report!KontoLines <=>
                   /\ c \in 1..N /\ a \in 1..M /\ p \in 1..Form[prog].konto
                   /\ kunder[c].id = konti[a]
             /\ <<c, a, p>> \in Report!TailLines <=>
                   c \in 1..N /\ a = M + 1 /\ p \in 1..Form[prog].tail
  BY <1>1, <1>2, <1>3, <1>4
<1> QED BY <1>5, <1>6, <1>7 DEF N, M

LEMMA BeforeIs ==
    ASSUME NEW c, NEW a, NEW p, NEW d, NEW b, NEW q
    PROVE  Report!Before(<<c, a, p>>, <<d, b, q>>) <=>
              c < d \/ (c = d /\ a < b) \/ (c = d /\ a = b /\ p < q)
BY DEF Report!Before

(* Lines written behind lines that come before them.                       *)
LEMMA Behind ==
    ASSUME NEW S, NEW q \in Seq(S), NEW s \in Seq(S),
           Report!InOrder(q), Report!InOrder(s),
           \A x \in Report!Written(q), y \in Report!Written(s) : Report!Before(x, y)
    PROVE  /\ q \o s \in Seq(S)
           /\ Report!InOrder(q \o s)
           /\ Report!Written(q \o s) = Report!Written(q) \cup Report!Written(s)
           /\ Report!Extends(q, q \o s)
<1>1. /\ q \o s \in Seq(S) /\ Len(q \o s) = Len(q) + Len(s)
      /\ \A i \in 1..(Len(q) + Len(s)) :
            (q \o s)[i] = IF i <= Len(q) THEN q[i] ELSE s[i - Len(q)]
  BY ConcatProperties
<1>2. Len(q) \in Nat /\ Len(s) \in Nat
  OBVIOUS
<1>3. Report!Extends(q, q \o s)
  BY <1>1, <1>2 DEF Report!Extends
<1>4. ASSUME NEW i \in 1..Len(q \o s) PROVE (q \o s)[i] \in Report!Written(q) \cup Report!Written(s)
  <2>1. CASE i <= Len(q)
    BY <1>1, <1>2, <2>1 DEF Report!Written
  <2>2. CASE i > Len(q)
    <3>1. i - Len(q) \in 1..Len(s) /\ (q \o s)[i] = s[i - Len(q)]
      BY <1>1, <1>2, <2>2
    <3> QED BY <3>1 DEF Report!Written
  <2> QED BY <1>1, <1>2, <2>1, <2>2
<1>5. ASSUME NEW i \in 1..Len(q) PROVE q[i] \in Report!Written(q \o s)
  BY <1>1, <1>2 DEF Report!Written
<1>6. ASSUME NEW i \in 1..Len(s) PROVE s[i] \in Report!Written(q \o s)
  <2>1. i + Len(q) \in 1..Len(q \o s) /\ (q \o s)[i + Len(q)] = s[i]
    BY <1>1, <1>2
  <2> QED BY <2>1 DEF Report!Written
<1>7. Report!Written(q \o s) = Report!Written(q) \cup Report!Written(s)
  BY <1>4, <1>5, <1>6 DEF Report!Written
<1>8. ASSUME NEW i \in 1..Len(q \o s), NEW j \in 1..Len(q \o s), i < j
      PROVE  Report!Before((q \o s)[i], (q \o s)[j])
  <2>1. CASE j <= Len(q)
    BY <1>1, <1>2, <1>8, <2>1 DEF Report!InOrder
  <2>2. CASE i > Len(q)
    <3>1. /\ i - Len(q) \in 1..Len(s) /\ j - Len(q) \in 1..Len(s) /\ i - Len(q) < j - Len(q)
          /\ (q \o s)[i] = s[i - Len(q)] /\ (q \o s)[j] = s[j - Len(q)]
      BY <1>1, <1>2, <1>8, <2>2
    <3> QED BY <3>1 DEF Report!InOrder
  <2>3. CASE i <= Len(q) /\ j > Len(q)
    <3>1. /\ i \in 1..Len(q) /\ j - Len(q) \in 1..Len(s)
          /\ (q \o s)[i] = q[i] /\ (q \o s)[j] = s[j - Len(q)]
      BY <1>1, <1>2, <2>3
    <3> QED BY <3>1 DEF Report!Written
  <2> QED BY <1>1, <1>2, <2>1, <2>2, <2>3
<1> QED BY <1>1, <1>3, <1>7, <1>8 DEF Report!InOrder

-----------------------------------------------------------------------------
(* Types, and the course of the program                                    *)

LEMMA InitTyped == Init => RInv
<1> SUFFICES ASSUME Init PROVE RInv
  OBVIOUS
<1> USE ReportsAssumption DEF Init
<1>1. /\ kunder \in Seq(Kunde) /\ konti \in Seq(Ids)
      /\ Len(kunder) \in Nat /\ Len(konti) \in Nat
  OBVIOUS
<1>2. shown \in Seq([1..Width -> 0..kpos]) /\ Len(shown) = kpos
  OBVIOUS
<1>3. navn \in [1..Width -> 0..kpos]
  OBVIOUS
<1>4. DOMAIN array = 1..0
  OBVIOUS
<1>5. /\ count = First + (IF prog \in Tables THEN apos ELSE 0)
      /\ DOMAIN array = 1..(IF prog \in Tables THEN apos ELSE 0)
      /\ \A j \in DOMAIN array : array[j] \in 0..Len(konti)
  BY <1>4 DEF First
<1>6. /\ kpos \in 0..Len(kunder) /\ apos \in 0..Len(konti) /\ at \in 1..(Len(konti) + 1)
      /\ phase \in {"konti", "load", "open", "kunder", "match"} \cup Ended
  BY <1>1
<1>7. Typed
  BY <1>1, <1>2, <1>3, <1>5, <1>6 DEF Typed
<1>8. Course
  BY <1>1 DEF Course, Ended, Joins, Nested, Tables
<1> QED BY <1>7, <1>8 DEF RInv

(* The fields a step leaves alone keep their types.                        *)
LEMMA OpenKontiTyped == RInv /\ OpenKonti => RInv'
<1> SUFFICES ASSUME RInv, OpenKonti PROVE RInv'
  OBVIOUS
<1> USE DEF RInv, Typed, Course, OpenKonti, Rewound, input
<1>1. Len(konti) \in Nat /\ apos' \in 0..Len(konti)
  OBVIOUS
<1>2. prog \in Tables => apos = 0 /\ apos' = 0
  OBVIOUS
<1>3. /\ count' = First' + (IF prog \in Tables THEN apos' ELSE 0)
      /\ DOMAIN array' = 1..(IF prog \in Tables THEN apos' ELSE 0)
  BY <1>2 DEF First
<1>4. Typed'
  BY <1>1, <1>3 DEF Ended
<1>5. Course'
  BY <1>2 DEF Ended, Joins, Nested, Tables
<1> QED BY <1>4, <1>5

LEMMA LoadKontoTyped == RInv /\ LoadKonto => RInv'
<1> SUFFICES ASSUME RInv, LoadKonto PROVE RInv'
  OBVIOUS
<1> USE DEF RInv, Typed, Course, input, Ended
<1>1. prog \in Tables /\ apos \in 0..Len(konti) /\ Len(konti) \in Nat
  BY DEF LoadKonto
<1>2. Entry = apos + 1
  BY <1>1 DEF Entry, First, Tables
<1>3. PICK x \in 0..Len(konti) : array' = Put(array, apos + 1, x)
  BY <1>1, <1>2 DEF LoadKonto
<1>4. DOMAIN array' = 1..(apos + 1)
  BY <1>1, <1>3 DEF Put
<1>5. \A j \in DOMAIN array' : array'[j] \in 0..Len(konti)
  BY <1>1, <1>3 DEF Put
<1>6. Typed'
  BY <1>1, <1>4, <1>5 DEF LoadKonto, First
<1>7. Course'
  BY <1>1 DEF LoadKonto, Joins, Nested, Tables
<1> QED BY <1>6, <1>7

LEMMA ReadKundeTyped == RInv /\ ReadKunde => RInv'
<1> SUFFICES ASSUME RInv, ReadKunde PROVE RInv'
  OBVIOUS
<1> USE DEF RInv, Typed, Course, input, Ended
<1>1. kpos \in Nat /\ Len(kunder) \in Nat /\ Len(konti) \in Nat
  OBVIOUS
<1>2. Formatted(kpos + 1) \in [1..Width -> 0..(kpos + 1)]
  BY <1>1 DEF Formatted
<1>3. navn' \in [1..Width -> 0..kpos']
  BY <1>2 DEF ReadKunde
<1>4. shown \in Seq([1..Width -> 0..(kpos + 1)])
  <2>1. [1..Width -> 0..kpos] \subseteq [1..Width -> 0..(kpos + 1)]
    BY <1>1
  <2> QED BY <2>1
<1>5. shown' \in Seq([1..Width -> 0..kpos']) /\ Len(shown') = kpos'
  BY <1>2, <1>4 DEF ReadKunde
<1>6. Typed'
  BY <1>1, <1>3, <1>5 DEF ReadKunde, First, Nested, Tables
<1>7. Course'
  BY <1>1 DEF ReadKunde, Joins, Nested, Tables
<1> QED BY <1>6, <1>7

LEMMA MatchTyped == RInv /\ (ReadKonto \/ CloseKonti \/ MatchKonto \/ EndOfMatch) => RInv'
<1> SUFFICES ASSUME RInv, ReadKonto \/ CloseKonti \/ MatchKonto \/ EndOfMatch PROVE RInv'
  OBVIOUS
<1> USE DEF RInv, Typed, Course, input, Ended
<1>1. CASE ReadKonto
  BY <1>1 DEF ReadKonto, First, Nested, Tables, Joins
<1>2. CASE CloseKonti
  BY <1>2 DEF CloseKonti, EndOfKonti, First, Nested, Tables, Joins
<1>3. CASE MatchKonto
  BY <1>3 DEF MatchKonto, Past, First, Nested, Tables, Joins
<1>4. CASE EndOfMatch
  BY <1>4 DEF EndOfMatch, EndOfKonti, First, Nested, Tables, Joins
<1> QED BY <1>1, <1>2, <1>3, <1>4

LEMMA NextTyped == RInv /\ [Next]_vars => RInv'
<1> SUFFICES ASSUME RInv, [Next]_vars PROVE RInv'
  OBVIOUS
<1>1. CASE EndOfLoad \/ OpenKunder \/ EndOfKunder
  BY <1>1
  DEF RInv, Typed, Course, EndOfLoad, OpenKunder, EndOfKunder, input, First, Ended,
      Joins, Nested, Tables
<1>2. CASE UNCHANGED vars
  BY <1>2 DEF RInv, Typed, Course, vars, input, First
<1> QED
  BY <1>1, <1>2, OpenKontiTyped, LoadKontoTyped, ReadKundeTyped, MatchTyped DEF Next

-----------------------------------------------------------------------------
(* What is written                                                         *)

Item(c, a, n) == [p \in 1..n |-> <<c, a, p>>]

(* The lines of one item, written behind all lines under it.               *)
LEMMA Adds ==
    ASSUME Typed, NEW c \in Nat, NEW a \in Nat, NEW n \in Nat, NEW q,
           Holds(q, Under(c, a)),
           \A p \in Nat : <<c, a, p>> \in Report!Lines <=> p \in 1..n
    PROVE  /\ Holds(q \o Item(c, a, n), UpToItem(c, a))
           /\ Report!Extends(q, q \o Item(c, a, n))
<1> DEFINE s == Item(c, a, n)
<1>1. Report!Lines \subseteq Nat \X Nat \X Nat
  BY LineIs DEF Typed
<1>2. s \in Seq(Report!Lines) /\ Len(s) = n /\ \A p \in 1..n : s[p] = <<c, a, p>>
  BY DEF Item
<1>3. Report!InOrder(s)
  <2> SUFFICES ASSUME NEW i \in 1..n, NEW j \in 1..n, i < j PROVE Report!Before(s[i], s[j])
    BY <1>2 DEF Report!InOrder
  <2>1. s[i] = <<c, a, i>> /\ s[j] = <<c, a, j>>
    BY <1>2
  <2> QED BY <2>1, BeforeIs
<1>4. Report!Written(s) = {<<c, a, p>> : p \in 1..n}
  BY <1>2 DEF Report!Written
<1>5. ASSUME NEW x \in Under(c, a), NEW y \in Report!Written(s) PROVE Report!Before(x, y)
  BY <1>1, <1>4 DEF Under, Report!Before
<1>6. UpToItem(c, a) = Under(c, a) \cup Report!Written(s)
  BY <1>1, <1>4 DEF Under, UpToItem
<1>7. q \in Seq(Report!Lines) /\ Report!InOrder(q) /\ Report!Written(q) = Under(c, a)
  BY DEF Holds
<1> HIDE DEF s
<1>8. /\ q \o s \in Seq(Report!Lines) /\ Report!InOrder(q \o s)
      /\ Report!Written(q \o s) = Under(c, a) \cup Report!Written(s)
      /\ Report!Extends(q, q \o s)
  BY <1>2, <1>3, <1>5, <1>7, Behind
<1> QED BY <1>6, <1>8 DEF Holds, s

(* Which lines are under an item.                                          *)
LEMMA Unders ==
    ASSUME Typed, NEW c \in 1..Len(kunder), NEW a \in 1..(Len(konti) + 1)
    PROVE  /\ Under(c, a) = UpToItem(c, a - 1)
           /\ Under(c, 0) = UpToItem(c - 1, Len(konti) + 1)
<1>1. \A x \in Report!Lines : /\ x[1] \in Nat /\ x[2] \in Nat /\ x[1] > 0
                             /\ x[2] <= Len(konti) + 1
  <2> SUFFICES ASSUME NEW x \in Report!Lines
               PROVE  x[1] \in Nat /\ x[2] \in Nat /\ x[1] > 0 /\ x[2] <= Len(konti) + 1
    OBVIOUS
  <2>1. PICK d, b, p \in Nat : x = <<d, b, p>>
    BY LineIs DEF Typed
  <2>2. Len(konti) \in Nat /\ Len(kunder) \in Nat
    BY DEF Typed
  <2>3. d > 0 /\ b <= Len(konti) + 1
    BY <2>1, <2>2, LineIs, SMTT(30) DEF Typed
  <2> QED BY <2>1, <2>3
<1>2. c \in Nat /\ a \in Nat /\ a - 1 \in Nat /\ c - 1 \in Nat /\ Len(konti) \in Nat
  BY DEF Typed
<1>3. Under(c, a) = UpToItem(c, a - 1)
  <2>1. \A x \in Report!Lines : x[2] < a <=> x[2] <= a - 1
    BY <1>1, <1>2
  <2> QED BY <2>1 DEF Under, UpToItem
<1>4. Under(c, 0) = UpToItem(c - 1, Len(konti) + 1)
  <2>1. \A x \in Report!Lines :
           (x[1] < c \/ (x[1] = c /\ x[2] < 0))
             <=> (x[1] < c - 1 \/ (x[1] = c - 1 /\ x[2] <= Len(konti) + 1))
    BY <1>1, <1>2
  <2> QED BY <2>1 DEF Under, UpToItem
<1> QED BY <1>3, <1>4

LEMMA Nothing == ASSUME Typed, NEW a PROVE UpToItem(0, a) = {}
<1>1. \A x \in Report!Lines : ~(x[1] < 0) /\ x[1] # 0
  <2> SUFFICES ASSUME NEW x \in Report!Lines PROVE ~(x[1] < 0) /\ x[1] # 0
    OBVIOUS
  <2>1. PICK d, b, p \in Nat : x = <<d, b, p>>
    BY LineIs DEF Typed
  <2>2. d \in 1..Len(kunder) /\ Len(kunder) \in Nat
    BY <2>1, LineIs DEF Typed
  <2> QED BY <2>1, <2>2
<1> QED BY <1>1 DEF UpToItem

(* Lines up to an item are a beginning of the report.                      *)
LEMMA Beginning ==
    ASSUME Typed, NEW c \in Nat, NEW a \in Nat, NEW q, Holds(q, UpToItem(c, a))
    PROVE  Report!Begun(q)
<1>1. Report!Lines \subseteq Nat \X Nat \X Nat
  BY LineIs DEF Typed
<1>2. ASSUME NEW x \in UpToItem(c, a), NEW y \in Report!Lines, Report!Before(y, x)
      PROVE  y \in UpToItem(c, a)
  BY <1>1, <1>2 DEF UpToItem, Report!Before
<1> QED BY <1>2 DEF Report!Begun, Holds, UpToItem
-----------------------------------------------------------------------------
(* Steps                                                                   *)

LEMMA Items ==
    ASSUME Typed, NEW c \in 1..Len(kunder)
    PROVE  /\ HeadOf(c) = Item(c, 0, Form[prog].head)
           /\ TailOf(c) = Item(c, Len(konti) + 1, Form[prog].tail)
           /\ \A p \in Nat :
                 /\ <<c, 0, p>> \in Report!Lines <=> p \in 1..Form[prog].head
                 /\ <<c, Len(konti) + 1, p>> \in Report!Lines <=> p \in 1..Form[prog].tail
<1>1. c \in Nat /\ Len(konti) \in Nat
  BY DEF Typed
<1>2. HeadOf(c) = Item(c, 0, Form[prog].head) /\ TailOf(c) = Item(c, Len(konti) + 1, Form[prog].tail)
  BY DEF HeadOf, TailOf, Item
<1>3. ASSUME NEW p \in Nat
      PROVE  /\ <<c, 0, p>> \in Report!Lines <=> p \in 1..Form[prog].head
             /\ <<c, Len(konti) + 1, p>> \in Report!Lines <=> p \in 1..Form[prog].tail
  BY <1>1, LineIs DEF Typed
<1> QED BY <1>2, <1>3

LEMMA KontoItem ==
    ASSUME Typed, NEW c \in 1..Len(kunder), NEW a \in 1..Len(konti)
    PROVE  \E n \in Nat :
              /\ \A p \in Nat : <<c, a, p>> \in Report!Lines <=> p \in 1..n
              /\ Item(c, a, n) = IF konti[a] = kunder[c].id THEN KontoOf(c, a) ELSE <<>>
<1>1. c \in Nat /\ a \in Nat /\ Len(konti) \in Nat /\ a # 0 /\ a # Len(konti) + 1
  BY DEF Typed
<1>2. Form[prog].konto \in Nat
  BY Forms DEF Typed
<1>3. CASE konti[a] = kunder[c].id
  <2>1. \A p \in Nat : <<c, a, p>> \in Report!Lines <=> p \in 1..Form[prog].konto
    BY <1>1, <1>3, LineIs DEF Typed
  <2>2. Item(c, a, Form[prog].konto) = KontoOf(c, a)
    BY DEF Item, KontoOf
  <2> QED BY <1>2, <1>3, <2>1, <2>2
<1>4. CASE konti[a] # kunder[c].id
  <2>1. \A p \in Nat : <<c, a, p>> \notin Report!Lines
    BY <1>1, <1>4, LineIs DEF Typed
  <2>2. Item(c, a, 0) = <<>>
    BY DEF Item
  <2>3. \A p \in Nat : p \notin 1..0
    OBVIOUS
  <2> QED BY <1>4, <2>1, <2>2, <2>3
<1> QED BY <1>3, <1>4

(* A step goes on with the report: what it has then, and that nothing that *)
(* was written changes.                                                    *)
Going == Fits /\ phase # "dead" /\ Loaded /\ Holds(out, UpToItem(kpos, Mark))

GoesOn ==
    /\ phase' # "dead" /\ Loaded'
    /\ Holds(out', UpToItem(kpos', Mark'))
    /\ Report!Extends(out, out')

(* The end of a customer's lines.                                          *)
LEMMA EndStep ==
    ASSUME RInv, Going, CloseKonti \/ EndOfMatch
    PROVE  GoesOn
<1> USE DEF RInv, Course, Going
<1>1. /\ phase = "match" /\ phase' = "kunder" /\ out' = out \o TailOf(kpos)
      /\ UNCHANGED <<input, kpos, array>>
  BY DEF CloseKonti, EndOfMatch, EndOfKonti
<1>2. kpos \in 1..Len(kunder) /\ Len(konti) \in Nat /\ Len(konti) + 1 \in 1..(Len(konti) + 1)
  BY <1>1 DEF Typed
<1>3. Mark = Len(konti)
  <2>1. CASE CloseKonti
    BY <2>1 DEF CloseKonti, Mark, Passed
  <2>2. CASE EndOfMatch
    BY <2>2 DEF EndOfMatch, Mark, Passed, Past, Typed, First, Nested, Tables
  <2> QED BY <2>1, <2>2
<1>4. Mark' = Len(konti) + 1
  BY <1>1 DEF Mark, input
<1>5. Holds(out, Under(kpos, Len(konti) + 1))
  <2>1. Under(kpos, Len(konti) + 1) = UpToItem(kpos, Len(konti) + 1 - 1)
    BY <1>2, Unders
  <2> QED BY <1>2, <1>3, <2>1
<1>6. Form[prog].tail \in Nat
  BY Forms DEF Typed
<1>7. /\ Holds(out', UpToItem(kpos, Len(konti) + 1))
      /\ Report!Extends(out, out')
  <2>1. out' = out \o Item(kpos, Len(konti) + 1, Form[prog].tail)
    BY <1>1, <1>2, Items
  <2>2. \A p \in Nat : <<kpos, Len(konti) + 1, p>> \in Report!Lines <=> p \in 1..Form[prog].tail
    BY <1>2, Items
  <2> QED BY <1>2, <1>5, <1>6, <2>1, <2>2, Adds, SMTT(30)
<1> QED BY <1>1, <1>4, <1>7 DEF GoesOn, Loaded

(* A record of the account file.                                           *)
LEMMA KontoStep ==
    ASSUME RInv, Going, ReadKonto \/ MatchKonto
    PROVE  GoesOn
<1> USE DEF RInv, Course, Going
<1>1. PICK a \in 1..Len(konti) : /\ Mark = a - 1 /\ Mark' = a /\ Show(a)
  <2>1. CASE ReadKonto
    <3>1. /\ apos + 1 \in 1..Len(konti) /\ apos \in Nat
          /\ Mark = apos /\ Mark' = apos + 1 /\ Show(apos + 1)
      BY <2>1 DEF ReadKonto, Mark, Passed, Typed, input
    <3> QED BY <3>1
  <2>2. CASE MatchKonto
    <3>1. prog \in Tables /\ prog \notin Nested /\ phase' = phase /\ at' = at + 1
      BY <2>2 DEF MatchKonto, Nested, Tables
    <3>2. DOMAIN array = 1..Len(konti) /\ count = First + Len(konti)
      BY <2>2, <3>1 DEF MatchKonto, Typed
    <3>3. at \in 1..Len(konti) /\ array[at] = at
      <4>1. at \in 1..(Len(konti) + 1) /\ Len(konti) \in Nat /\ ~Past
        BY <2>2 DEF MatchKonto, Typed
      <4>2. at <= Len(konti)
        BY <3>1, <3>2, <4>1 DEF Past, First, Tables
      <4> QED BY <3>2, <4>1, <4>2 DEF Loaded
    <3>4. Mark = at - 1 /\ Mark' = at /\ Show(at)
      BY <2>2, <3>3, <3>1 DEF MatchKonto, Mark, Passed, input
    <3> QED BY <3>3, <3>4
  <2> QED BY <2>1, <2>2
<1>2. phase = "match" /\ phase' = "match" /\ UNCHANGED <<input, kpos, array>>
  BY DEF ReadKonto, MatchKonto
<1>3. kpos \in 1..Len(kunder) /\ Len(konti) \in Nat /\ a \in 1..(Len(konti) + 1) /\ a # 0
  BY <1>1, <1>2 DEF Typed
<1>4. PICK n \in Nat :
         /\ \A p \in Nat : <<kpos, a, p>> \in Report!Lines <=> p \in 1..n
         /\ Item(kpos, a, n) = IF konti[a] = kunder[kpos].id THEN KontoOf(kpos, a) ELSE <<>>
  BY <1>1, <1>3, KontoItem
<1>5. out' = out \o Item(kpos, a, n)
  BY <1>1, <1>3, <1>4 DEF Show, Belongs
<1>6. Holds(out, Under(kpos, a))
  BY <1>1, <1>3, Unders
<1>7. Holds(out', UpToItem(kpos, a)) /\ Report!Extends(out, out')
  BY <1>3, <1>4, <1>5, <1>6, Adds
<1> QED BY <1>1, <1>2, <1>7 DEF GoesOn, Loaded
LEMMA Prefixes ==
    ASSUME NEW S, NEW q \in Seq(S), NEW r \in Seq(S), NEW t \in Seq(S)
    PROVE  /\ Report!Extends(q, q)
           /\ Report!Extends(q, r) /\ Report!Extends(r, t) => Report!Extends(q, t)
BY DEF Report!Extends

(* A customer.                                                             *)
LEMMA KundeStep ==
    ASSUME RInv, Going, ReadKunde
    PROVE  GoesOn
<1> USE DEF RInv, Course, Going
<1> DEFINE c == kpos + 1
           M == Len(konti)
           q == out \o HeadOf(c)
<1>1. /\ c \in 1..Len(kunder) /\ kpos \in Nat /\ M \in Nat /\ c - 1 = kpos
      /\ M + 1 \in 1..(M + 1) /\ M + 1 - 1 = M
  BY DEF ReadKunde, Typed
<1>2. Mark = M + 1
  BY DEF Mark, ReadKunde
<1>3. Form[prog].head \in Nat /\ Form[prog].tail \in Nat
  BY Forms DEF Typed
<1>4. Holds(q, UpToItem(c, 0)) /\ Report!Extends(out, q)
  <2>1. Holds(out, Under(c, 0))
    BY <1>1, <1>2, Unders
  <2>2. HeadOf(c) = Item(c, 0, Form[prog].head)
    BY <1>1, Items
  <2>3. \A p \in Nat : <<c, 0, p>> \in Report!Lines <=> p \in 1..Form[prog].head
    BY <1>1, Items
  <2> QED BY <1>1, <1>3, <2>1, <2>2, <2>3, Adds
<1>5. out' = q \o (IF prog \in Joins THEN <<>> ELSE TailOf(c))
  BY DEF ReadKunde
<1>6. out \in Seq(Report!Lines) /\ q \in Seq(Report!Lines)
  BY <1>4 DEF Holds
<1>7. kpos' = c /\ UNCHANGED <<input, array>> /\ Len(konti)' = M
  BY DEF ReadKunde, input
<1> HIDE DEF q
<1>8. CASE prog \in Joins
  <2>1. out' = q
    BY <1>5, <1>6, <1>8
  <2>2. Mark' = 0 /\ phase' # "dead"
    BY <1>7, <1>8 DEF ReadKunde, Mark, Passed, Joins, Nested, Tables, input
  <2> QED BY <1>4, <1>7, <2>1, <2>2 DEF GoesOn, Loaded
<1>9. CASE prog \notin Joins
  <2>1. phase' = "kunder" /\ Mark' = M + 1
    BY <1>7, <1>9 DEF ReadKunde, Mark, Joins
  <2>2. UpToItem(c, M) = UpToItem(c, 0)
    <3>1. ASSUME NEW x \in Report!Lines PROVE x[1] = c /\ x[2] <= M <=> x[1] = c /\ x[2] <= 0
      <4>1. PICK d, b, p \in Nat : x = <<d, b, p>>
        BY LineIs DEF Typed
      <4>2. b = 0 \/ b = M + 1
        BY <1>9, <4>1, Forms, LineIs DEF Typed
      <4> QED BY <1>1, <4>1, <4>2
    <3> QED BY <3>1 DEF UpToItem
  <2>3. Holds(q, Under(c, M + 1))
    BY <1>1, <1>4, <2>2, Unders
  <2>4. TailOf(c) = Item(c, M + 1, Form[prog].tail)
    BY <1>1, Items
  <2>5. \A p \in Nat : <<c, M + 1, p>> \in Report!Lines <=> p \in 1..Form[prog].tail
    BY <1>1, Items
  <2>6. out' = q \o Item(c, M + 1, Form[prog].tail)
    BY <1>5, <1>9, <2>4
  <2>7. Holds(out', UpToItem(c, M + 1)) /\ Report!Extends(q, out')
    <3>1. c \in Nat /\ M + 1 \in Nat
      BY <1>1
    <3> HIDE DEF c, M
    <3>2. /\ Holds(q \o Item(c, M + 1, Form[prog].tail), UpToItem(c, M + 1))
          /\ Report!Extends(q, q \o Item(c, M + 1, Form[prog].tail))
      BY <1>3, <2>3, <2>5, <3>1, Adds
    <3> QED BY <2>6, <3>2
  <2>8. Report!Extends(out, out')
    BY <1>4, <1>6, <2>7, Prefixes DEF Holds
  <2> QED BY <1>7, <2>1, <2>7, <2>8 DEF GoesOn, Loaded
<1> QED BY <1>8, <1>9

(* Steps that write nothing.                                               *)
LEMMA LoadStep ==
    ASSUME RInv, Going, LoadKonto
    PROVE  GoesOn
<1> USE DEF RInv, Course, Going
<1>1. prog \in Tables /\ kpos = 0 /\ apos \in 0..Len(konti) /\ Len(konti) \in Nat
  BY DEF LoadKonto, Typed
<1>2. Entry = apos + 1 /\ apos < Len(konti)
  BY <1>1 DEF Entry, First, Tables, Typed, LoadKonto
<1>3. Entry <= Occurs
  BY <1>1, <1>2, ReportsAssumption DEF Fits
<1>4. phase' = "load" /\ array' = Put(array, apos + 1, apos + 1) /\ UNCHANGED <<input, kpos, out>>
  BY <1>2, <1>3 DEF LoadKonto
<1>5. Loaded'
  BY <1>4 DEF Loaded, Put
<1>6. Holds(out', UpToItem(kpos', Mark'))
  BY <1>1, <1>4, Nothing
<1>7. Report!Extends(out, out')
  BY <1>4, Prefixes DEF Holds
<1> QED BY <1>4, <1>5, <1>6, <1>7 DEF GoesOn

LEMMA SilentStep ==
    ASSUME RInv, Going,
           OpenKonti \/ EndOfLoad \/ OpenKunder \/ EndOfKunder \/ UNCHANGED vars
    PROVE  GoesOn
<1> USE DEF RInv, Course, Going
<1>1. phase' # "dead" /\ UNCHANGED <<input, kpos, array, out>>
  BY DEF OpenKonti, EndOfLoad, OpenKunder, EndOfKunder, vars
<1>2. Loaded'
  BY <1>1 DEF Loaded
<1>3. Report!Extends(out, out')
  BY <1>1, Prefixes DEF Holds
<1>4. Holds(out', UpToItem(kpos', Mark'))
  <2>1. CASE kpos = 0
    BY <1>1, <2>1, Nothing
  <2>2. CASE kpos # 0
    <3>1. Mark' = Mark
      BY <1>1, <2>2
      DEF OpenKonti, EndOfLoad, OpenKunder, EndOfKunder, vars, Mark, Passed, Rewound,
          Joins, Nested, Tables, input
    <3> QED BY <1>1, <3>1
  <2> QED BY <2>1, <2>2
<1> QED BY <1>1, <1>2, <1>3, <1>4 DEF GoesOn
LEMMA NextGoesOn == RInv /\ Going /\ [Next]_vars => GoesOn
BY EndStep, KontoStep, KundeStep, LoadStep, SilentStep DEF Next

LEMMA InputKept == [Next]_vars => UNCHANGED input
BY DEF Next, vars, OpenKonti, LoadKonto, EndOfLoad, OpenKunder, ReadKunde, EndOfKunder,
       ReadKonto, CloseKonti, MatchKonto, EndOfMatch

LEMMA NextWritten == RInv /\ WrittenSofar /\ [Next]_vars => WrittenSofar'
<1> SUFFICES ASSUME RInv, WrittenSofar, [Next]_vars, Fits' PROVE GoesOn /\ WrittenSofar'
  BY DEF WrittenSofar
<1>1. UNCHANGED <<prog, kunder, konti>>
  BY InputKept DEF input
<1>2. GoesOn
  BY <1>1, NextGoesOn DEF Going, WrittenSofar, Fits
<1>3. Report!Lines' = Report!Lines
  BY <1>1 DEF Report!Lines, Report!HeadLines, Report!KontoLines, Report!TailLines
<1>4. Holds(out, UpToItem(kpos, Mark))'
  BY <1>2, <1>3
  DEF GoesOn, Holds, UpToItem, Report!InOrder, Report!Written, Report!Before
<1> QED BY <1>2, <1>4 DEF WrittenSofar, GoesOn

LEMMA InitWritten == Init => WrittenSofar
<1> SUFFICES ASSUME Init PROVE WrittenSofar
  OBVIOUS
<1>1. Typed /\ kpos = 0 /\ out = <<>> /\ array = <<>> /\ phase # "dead"
  BY InitTyped DEF RInv, Init
<1>2. UpToItem(kpos, Mark) = {}
  BY <1>1, Nothing
<1>3. Holds(out, {})
  BY <1>1 DEF Holds, Report!InOrder, Report!Written
<1> QED BY <1>1, <1>2, <1>3 DEF WrittenSofar, Loaded

(* Typed, and what is written is what the loops have passed.               *)
THEOREM ReportsInvariant == Spec => [](RInv /\ WrittenSofar)
BY InitTyped, InitWritten, NextTyped, NextWritten, PTL DEF Spec

-----------------------------------------------------------------------------
(* Theorems                                                                *)

(* The batch programs keep the types of their data, whatever the files:    *)
(* positions stay in the files and in the table.                           *)
THEOREM ReportsTyped == Spec => []TypeOK
<1>1. RInv => TypeOK
  <2> SUFFICES ASSUME RInv PROVE TypeOK
    OBVIOUS
  <2>1. Len(kunder) \in Nat /\ Len(konti) \in Nat /\ apos \in Nat
    BY DEF RInv, Typed
  <2> QED BY <2>1 DEF RInv, Typed, TypeOK, First
<1> QED BY <1>1, ReportsInvariant, PTL

(* Number 8, which reads the accounts again for every customer, and number *)
(* 9, which looks them up in a table that has room for them, write what    *)
(* Join promises, step by step, for files of any length.                   *)
THEOREM ReportsJoin == Spec => ImplementsJoin
<1>1. Init => Report!Init
  BY DEF Init, Report!Init
<1>2. RInv /\ RInv' /\ WrittenSofar /\ [Next]_vars => [Report!Write]_(Report!vars)
  <2> SUFFICES ASSUME RInv, RInv', WrittenSofar, [Next]_vars PROVE Report!Write
    OBVIOUS
  <2>1. UNCHANGED <<prog, kunder, konti>>
    BY InputKept DEF input
  <2>2. UNCHANGED <<Form[prog], Fits>>
    BY <2>1 DEF Fits
  <2>3. ASSUME Fits PROVE Report!Extends(out, out') /\ Report!Begun(out')
    <3>1. GoesOn
      BY <2>3, NextGoesOn DEF Going, WrittenSofar
    <3>2. kpos' \in Nat /\ Mark' \in Nat
      BY DEF RInv, Typed, Mark, Passed
    <3> QED BY <3>1, <3>2, Beginning DEF GoesOn, RInv
  <2> QED BY <2>1, <2>2, <2>3 DEF Report!Write
<1> QED
  BY <1>1, <1>2, ReportsInvariant, PTL DEF Spec, ImplementsJoin, Report!Spec

(* A program that has come to its end has written every line.              *)
THEOREM ReportsWhole == Spec => []ReportWhole
<1>1. RInv /\ WrittenSofar => ReportWhole
  <2> SUFFICES ASSUME RInv, WrittenSofar, phase = "done", Fits
               PROVE  Report!Written(out) = Report!Lines
    BY DEF ReportWhole
  <2>1. /\ kpos = Len(kunder) /\ Len(kunder) \in Nat /\ Len(konti) \in Nat
        /\ Mark = Len(konti) + 1
    BY DEF RInv, Typed, Course, Mark
  <2>2. ASSUME NEW x \in Report!Lines PROVE x \in UpToItem(kpos, Mark)
    <3>1. PICK c, a, p \in Nat : x = <<c, a, p>>
      BY LineIs DEF RInv, Typed
    <3>2. c <= Len(kunder) /\ a <= Len(konti) + 1
      BY <2>1, <3>1, LineIs DEF RInv, Typed
    <3> QED BY <2>1, <3>1, <3>2 DEF UpToItem
  <2> QED BY <2>2 DEF WrittenSofar, Holds, UpToItem
<1> QED BY <1>1, ReportsInvariant, PTL
-----------------------------------------------------------------------------
(* Names                                                                   *)

(* What FULDT-NAVN holds is what was shown last.                           *)
NavnLast ==
    \A j \in 1..Width : prog \in Uncleared => navn[j] = NameAt(kpos, j)

LEMMA NextName ==
    ASSUME Typed, NavnLast, kpos < Len(kunder), NEW j \in 1..Width
    PROVE  Formatted(kpos + 1)[j] = NameAt(kpos + 1, j)
<1>1. kpos \in Nat /\ Len(kunder) \in Nat
  BY DEF Typed
<1>2. Formatted(kpos + 1)[j] =
        IF j <= kunder[kpos + 1].len THEN kpos + 1 ELSE IF prog \in Uncleared THEN navn[j] ELSE 0
  BY DEF Formatted
<1>3. CASE j <= kunder[kpos + 1].len
  BY <1>1, <1>2, <1>3 DEF NameAt, Reaching
<1>4. CASE ~(j <= kunder[kpos + 1].len) /\ prog \notin Uncleared
  BY <1>2, <1>4 DEF NameAt, Reaching
<1>5. CASE ~(j <= kunder[kpos + 1].len) /\ prog \in Uncleared
  <2> DEFINE R == Reaching(kpos, j)
  <2>1. Reaching(kpos + 1, j) = R /\ kpos + 1 \notin R
    BY <1>1, <1>5 DEF Reaching
  <2>2. NameAt(kpos + 1, j) = IF R = {} THEN 0 ELSE Latest(R)
    BY <1>5, <2>1 DEF NameAt
  <2>3. NameAt(kpos, j) = IF kpos \in R THEN kpos ELSE IF R = {} THEN 0 ELSE Latest(R)
    BY <1>5 DEF NameAt
  <2>4. ASSUME kpos \in R PROVE Latest(R) = kpos
    <3>1. R \subseteq 1..kpos
      BY <1>1 DEF Reaching
    <3> HIDE DEF R
    <3>2. \A d \in R : d <= kpos
      BY <1>1, <3>1
    <3>3. Latest(R) \in R /\ \A d \in R : d <= Latest(R)
      BY <2>4, <3>2 DEF Latest
    <3>4. Latest(R) <= kpos /\ kpos <= Latest(R) /\ Latest(R) \in 1..kpos
      BY <2>4, <3>1, <3>2, <3>3
    <3> QED BY <1>1, <3>4
  <2>5. navn[j] = NameAt(kpos, j)
    BY <1>5 DEF NavnLast
  <2> QED BY <1>2, <1>5, <2>2, <2>3, <2>4, <2>5
<1> QED BY <1>3, <1>4, <1>5

LEMMA NamesSame ==
    ASSUME UNCHANGED input
    PROVE  /\ \A i, j : NameAt(i, j)' = NameAt(i, j)
           /\ \A j : NameAt(kpos, j)' = NameAt(kpos', j)
<1>1. prog' = prog /\ kunder' = kunder
  BY DEF input
<1>2. \A i, j : Reaching(i, j)' = Reaching(i, j)
  BY <1>1 DEF Reaching
<1>3. \A j : Reaching(kpos, j)' = Reaching(kpos', j)
  BY <1>1 DEF Reaching
<1> QED BY <1>1, <1>2, <1>3 DEF NameAt

LEMMA NextNames ==
    RInv /\ NavnLast /\ NamesShown /\ [Next]_vars => NavnLast' /\ NamesShown'
<1> SUFFICES ASSUME RInv, NavnLast, NamesShown, [Next]_vars PROVE NavnLast' /\ NamesShown'
  OBVIOUS
<1>1. prog' = prog
  BY InputKept DEF input
<1>2. /\ \A i, j : NameAt(i, j)' = NameAt(i, j)
      /\ \A j : NameAt(kpos, j)' = NameAt(kpos', j)
  BY InputKept, NamesSame
<1>3. CASE UNCHANGED <<kpos, navn, shown>>
  <2>1. NavnLast'
    BY <1>1, <1>2, <1>3 DEF NavnLast
  <2>2. NamesShown'
    BY <1>2, <1>3 DEF NamesShown
  <2> QED BY <2>1, <2>2
<1>4. CASE ReadKunde
  <2>1. /\ kpos \in Nat /\ Len(kunder) \in Nat /\ kpos < Len(kunder) /\ kpos' = kpos + 1
        /\ Len(shown) = kpos /\ shown \in Seq([1..Width -> 0..kpos])
        /\ navn' = Formatted(kpos + 1) /\ shown' = Append(shown, Formatted(kpos + 1))
    BY <1>4 DEF ReadKunde, RInv, Typed
  <2>2. \A j \in 1..Width : Formatted(kpos + 1)[j] = NameAt(kpos + 1, j)
    BY <2>1, NextName DEF RInv
  <2>3. NavnLast'
    BY <1>2, <2>1, <2>2 DEF NavnLast
  <2>4. ASSUME NEW i \in 1..Len(shown'), NEW j \in 1..Width
        PROVE  shown'[i][j] = NameAt(i, j)
    <3>1. CASE i = kpos + 1
      BY <2>1, <2>2, <3>1
    <3>2. CASE i # kpos + 1
      <4>1. i \in 1..Len(shown) /\ shown'[i] = shown[i]
        BY <2>1, <3>2
      <4> QED BY <4>1 DEF NamesShown
    <3> QED BY <3>1, <3>2
  <2>5. NamesShown'
    BY <1>2, <2>4 DEF NamesShown
  <2> QED BY <2>3, <2>5
<1> QED
  BY <1>3, <1>4
  DEF Next, vars, OpenKonti, LoadKonto, EndOfLoad, OpenKunder, EndOfKunder, ReadKonto,
      CloseKonti, EndOfKonti, MatchKonto, EndOfMatch

(* Whoever comes before, the name shown is the customer's; behind it are   *)
(* spaces, or in Opgave8 and Opgave9 the rest of a longer name.            *)
THEOREM ReportsNames == Spec => []NamesShown
<1>1. Init => NavnLast /\ NamesShown
  BY DEF Init, NavnLast, NamesShown, NameAt, Reaching
<1> QED
  BY <1>1, NextNames, ReportsInvariant, PTL DEF Spec

-----------------------------------------------------------------------------
(* The report of an earlier run                                            *)

Intact == ~opened /\ out = <<>>

Opening ==
    /\ phase \in {"load", "open"} \/ (phase = "konti" /\ prog \in Tables) => Intact
    /\ phase = "kunder" /\ kpos = 0 => out = <<>>
    /\ phase \in {"kunder", "match"} \/ (phase = "konti" /\ prog \in Nested)
          => "kunder" \notin missing
    /\ phase \in {"kunder", "match"} /\ kpos > 0 /\ prog \in Nested => "konti" \notin missing
    /\ phase = "konti" /\ prog \in Nested =>
          "konti" \notin missing \/ (kpos = 1 /\ out = HeadOf(1))

LEMMA HeadSeq == ASSUME prog \in Reports PROVE HeadOf(1) \in Seq(Nat \X Nat \X Nat)
<1> DEFINE n == Form[prog].head
<1>1. n \in Nat
  BY Forms
<1>2. HeadOf(1) = [p \in 1..n |-> <<1, 0, p>>]
  BY DEF HeadOf
<1> HIDE DEF n
<1> QED BY <1>1, <1>2

LEMMA NextOpening ==
    RInv /\ Opening /\ OldReportKept /\ [Next]_vars => Opening' /\ OldReportKept'
<1> SUFFICES ASSUME RInv, Opening, OldReportKept, [Next]_vars
             PROVE  Opening' /\ OldReportKept'
  OBVIOUS
<1>1. UNCHANGED <<prog, kunder, konti, missing>> /\ HeadOf(1)' = HeadOf(1)
  BY InputKept DEF input, HeadOf
<1> USE <1>1 DEF RInv, Typed, Course, Opening, OldReportKept, Intact, Ended
<1>2. CASE OpenKonti \/ LoadKonto \/ EndOfLoad \/ OpenKunder
  BY <1>2 DEF OpenKonti, LoadKonto, EndOfLoad, OpenKunder, Joins, Nested, Tables
<1>3. CASE ReadKunde
  <2>1. /\ kpos \in Nat /\ kpos' = kpos + 1 /\ phase = "kunder"
        /\ phase' \in {"konti", "match", "kunder"}
        /\ phase' = "konti" => prog \in Nested
        /\ phase' = "match" => prog \in Tables
        /\ phase' = "kunder" => prog \notin Nested
    BY <1>3 DEF ReadKunde
  <2>2. ASSUME kpos = 0, prog \in Nested PROVE out' = HeadOf(1)
    <3>1. kpos + 1 = 1 /\ out = <<>> /\ prog \in Joins
      BY <2>1, <2>2 DEF Joins
    <3>2. out' = (<<>> \o HeadOf(1)) \o <<>>
      BY <1>3, <3>1 DEF ReadKunde
    <3> QED BY <3>2, HeadSeq
  <2> QED BY <2>1, <2>2 DEF Nested, Tables
<1>4. CASE ReadKonto \/ MatchKonto
  BY <1>4 DEF ReadKonto, MatchKonto
<1>5. CASE CloseKonti \/ EndOfMatch
  <2>1. kpos' = kpos /\ kpos > 0 /\ phase = "match" /\ phase' = "kunder"
    BY <1>5 DEF CloseKonti, EndOfMatch, EndOfKonti
  <2>2. "kunder" \notin missing
    BY <1>5, <2>1 DEF CloseKonti, EndOfMatch
  <2> QED BY <2>1, <2>2
<1>6. CASE EndOfKunder
  BY <1>6 DEF EndOfKunder
<1>7. CASE UNCHANGED vars
  BY <1>7 DEF vars
<1> QED BY <1>2, <1>3, <1>4, <1>5, <1>6, <1>7 DEF Next

(* A missing file leaves the old report, but for number 8's first head.    *)
THEOREM ReportsOldKept == Spec => []OldReportKept
<1>1. Init => Opening /\ OldReportKept
  BY DEF Init, Opening, OldReportKept, Intact, Nested, Tables
<1> QED
  BY <1>1, NextOpening, ReportsInvariant, PTL DEF Spec
=============================================================================
