------------------------------ MODULE TextProofs ------------------------------
(***************************************************************************)
(* Proofs about the two loops over the characters of a text.               *)
(*                                                                         *)
(* The name-cleaning loop, for items of any length. The invariant counts:  *)
(* after i characters the result holds the letters and one space behind    *)
(* each word that has ended, and the next character goes behind them.      *)
(*                                                                         *)
(* The scan of PREPARE, for texts of any length. The invariant counts too: *)
(* what lies before the piece that the scan is in stands replaced, and the *)
(* piece is a host variable whose name goes on, or holds none.             *)
(***************************************************************************)
EXTENDS CleanName, PrepareText, FiniteSetTheorems, TLAPS

Name   == [1..Length -> Char]
Result == [0..Length -> Char \cup {Zero}]

(* A word reaches to character i.                                          *)
InWord(n, i) == IF i > 0 /\ n[i] # Space THEN 1 ELSE 0

(* Characters of the result after i of the name.                           *)
Stored(n, i) ==
    IF Student /\ i = 0 THEN 0
    ELSE Lead(n) + Cardinality(Letters(n, i)) + Cardinality(Starts(n, i)) - InWord(n, i)

(* q is what the result is after i characters of name n.                   *)
Done(n, i, q) ==
    /\ q \in Result /\ q[0] = Zero
    /\ Stored(n, i) \in 0..i
    /\ \A j \in Letters(n, i) : Place(n, j) \in 1..Stored(n, i) /\ q[Place(n, j)] = n[j]
    /\ \A k \in 1..Length : q[k] = Space \/ \E j \in Letters(n, i) : Place(n, j) = k

Before(n, i) == IF i = 0 THEN Ahead ELSE n[i]

CleanTyped ==
    /\ job \in Jobs
    /\ names \in [1..Customers(job) -> Name]
    /\ who \in 1..(Customers(job) + 1)
    /\ cleaned \in Seq(Result) /\ Len(cleaned) = who - 1

(* opgave3 has stored one byte more, and begins one byte earlier.          *)
Loop ==
    who <= Customers(job) =>
        \/ Student /\ ix = 0 /\ ix2 = 0 /\ previous = Zero /\ rens = Blank
        \/ /\ ix \in 1..(Length + 1)
           /\ previous = Before(names[who], ix - 1)
           /\ ix2 = Stored(names[who], ix - 1) + (IF Student THEN 1 ELSE 0)
           /\ Done(names[who], ix - 1, rens)

CInv == CleanTyped /\ Loop /\ NamesCleaned

-----------------------------------------------------------------------------

LEMMA LengthNat == Length \in Nat /\ Length > 0
BY CleanNameAssumption DEF Length

LEMMA FullNamesAre == FullNames \subseteq Name
<1> SUFFICES ASSUME NEW f \in Fields, NEW g \in Fields PROVE FullName(f, g) \in Name
  BY DEF FullNames
<1>1. f \in [1..Half -> Char] /\ g \in [1..Half -> Char] /\ Half \in Nat /\ Space \in Char
  BY CleanNameAssumption
<1>2. ASSUME NEW i \in 1..Length
      PROVE  (IF i <= Half THEN f[i] ELSE IF i = Half + 1 THEN Space ELSE g[i - Half - 1]) \in Char
  BY <1>1, <1>2 DEF Length
<1> QED BY <1>2 DEF FullName, Name

(* One more element of a set of positions.                                 *)
LEMMA Counted ==
    ASSUME NEW S, NEW i \in Nat, S \subseteq 1..i
    PROVE  /\ IsFiniteSet(S) /\ Cardinality(S) \in Nat
           /\ Cardinality(S \cup {i + 1}) = Cardinality(S) + 1
<1>1. IsFiniteSet(S)
  <2>1. IsFiniteSet(1..i)
    BY FS_Interval
  <2> QED BY <2>1, FS_Subset
<1>2. i + 1 \notin S
  OBVIOUS
<1> QED BY <1>1, <1>2, FS_AddElement, FS_CardinalityType

LEMMA LettersNext ==
    ASSUME NEW n \in Name, NEW i \in 0..(Length - 1)
    PROVE  /\ Cardinality(Letters(n, i)) \in Nat /\ Cardinality(Starts(n, i)) \in Nat
           /\ Letters(n, i + 1) = Letters(n, i) \cup (IF n[i + 1] # Space THEN {i + 1} ELSE {})
           /\ Cardinality(Letters(n, i + 1)) =
                Cardinality(Letters(n, i)) + (IF n[i + 1] # Space THEN 1 ELSE 0)
           /\ Cardinality(Starts(n, i + 1)) =
                Cardinality(Starts(n, i)) +
                  (IF n[i + 1] # Space /\ (i = 0 \/ n[i] = Space) THEN 1 ELSE 0)
<1>1. i \in Nat /\ i + 1 - 1 = i /\ 1..(i + 1) = 1..i \cup {i + 1}
  BY LengthNat
<1>2. Letters(n, i + 1) = Letters(n, i) \cup (IF n[i + 1] # Space THEN {i + 1} ELSE {})
  BY <1>1 DEF Letters
<1>3. Starts(n, i + 1) =
        Starts(n, i) \cup
          (IF n[i + 1] # Space /\ (i = 0 \/ n[i] = Space) THEN {i + 1} ELSE {})
  BY <1>1 DEF Starts
<1>4. Letters(n, i) \subseteq 1..i /\ Starts(n, i) \subseteq 1..i
  BY DEF Letters, Starts
<1>5. /\ Cardinality(Letters(n, i)) \in Nat /\ Cardinality(Starts(n, i)) \in Nat
      /\ Cardinality(Letters(n, i) \cup {i + 1}) = Cardinality(Letters(n, i)) + 1
      /\ Cardinality(Starts(n, i) \cup {i + 1}) = Cardinality(Starts(n, i)) + 1
  BY <1>1, <1>4, Counted
<1>6. Letters(n, i) \cup {} = Letters(n, i) /\ Starts(n, i) \cup {} = Starts(n, i)
  OBVIOUS
<1>7. Cardinality(Letters(n, i + 1)) =
        Cardinality(Letters(n, i)) + (IF n[i + 1] # Space THEN 1 ELSE 0)
  <2>1. CASE n[i + 1] # Space
    BY <1>2, <1>5, <2>1
  <2>2. CASE n[i + 1] = Space
    <3>1. Letters(n, i + 1) = Letters(n, i)
      BY <1>2, <1>6, <2>2
    <3> QED BY <1>5, <2>2, <3>1
  <2> QED BY <2>1, <2>2
<1>8. Cardinality(Starts(n, i + 1)) =
        Cardinality(Starts(n, i)) +
          (IF n[i + 1] # Space /\ (i = 0 \/ n[i] = Space) THEN 1 ELSE 0)
  <2>1. CASE n[i + 1] # Space /\ (i = 0 \/ n[i] = Space)
    BY <1>3, <1>5, <2>1
  <2>2. CASE ~(n[i + 1] # Space /\ (i = 0 \/ n[i] = Space))
    <3>1. Starts(n, i + 1) = Starts(n, i)
      BY <1>3, <1>6, <2>2
    <3> QED BY <1>5, <2>2, <3>1
  <2> QED BY <2>1, <2>2
<1> QED BY <1>2, <1>5, <1>7, <1>8
(* Where the next character goes, and how the count goes on.               *)
LEMMA StoredNext ==
    ASSUME job \in Jobs, NEW n \in Name, NEW i \in 0..(Length - 1)
    PROVE  /\ Stored(n, i + 1) =
                Stored(n, i) + (IF n[i + 1] # Space \/ Before(n, i) # Space THEN 1 ELSE 0)
           /\ n[i + 1] # Space => Place(n, i + 1) = Stored(n, i) + 1
<1> DEFINE L == Cardinality(Letters(n, i))
           B == Cardinality(Starts(n, i))
           letter == IF n[i + 1] # Space THEN 1 ELSE 0
           begins == IF n[i + 1] # Space /\ (i = 0 \/ n[i] = Space) THEN 1 ELSE 0
<1>1. /\ L \in Nat /\ B \in Nat /\ Cardinality(Letters(n, i + 1)) = L + letter
      /\ Cardinality(Starts(n, i + 1)) = B + begins
  BY LettersNext
<1>2. /\ Stored(n, i + 1) = Lead(n) + (L + letter) + (B + begins) - letter
      /\ Place(n, i + 1) = Lead(n) + (L + letter) + (B + begins) - 1
  <2>1. i + 1 # 0 /\ i + 1 > 0
    BY LengthNat
  <2>2. InWord(n, i + 1) = letter
    BY <2>1 DEF InWord
  <2> QED BY <1>1, <2>1, <2>2 DEF Stored, Place
<1>3. Lead(n) \in {0, 1} /\ Space # Zero
  BY DEF Lead, Space, Zero
<1>4. CASE i = 0
  <2>1. Letters(n, 0) = {} /\ Starts(n, 0) = {}
    BY DEF Letters, Starts
  <2>2. L = 0 /\ B = 0 /\ InWord(n, i) = 0
    BY <1>4, <2>1, FS_EmptySet DEF InWord
  <2>3. Stored(n, i) = IF Student THEN 0 ELSE Lead(n)
    BY <1>3, <1>4, <2>2 DEF Stored
  <2>4. /\ Before(n, i) = IF Student THEN Zero ELSE Space
        /\ Lead(n) = IF Student /\ n[1] = Space THEN 1 ELSE 0
    BY <1>4 DEF Before, Ahead, Lead
  <2>5. letter = (IF n[1] # Space THEN 1 ELSE 0) /\ begins = letter
    BY <1>4
  <2> HIDE DEF L, B, letter, begins
  <2> QED BY <1>2, <1>3, <1>4, <2>2, <2>3, <2>4, <2>5
<1>5. CASE i # 0
  <2>1. i > 0 /\ Before(n, i) = n[i]
    BY <1>5 DEF Before
  <2>2. Stored(n, i) = Lead(n) + L + B - (IF n[i] # Space THEN 1 ELSE 0)
    BY <1>5, <2>1 DEF Stored, InWord
  <2>3. begins = IF n[i + 1] # Space /\ n[i] = Space THEN 1 ELSE 0
    BY <1>5
  <2>4. letter = IF n[i + 1] # Space THEN 1 ELSE 0
    OBVIOUS
  <2> HIDE DEF L, B, letter, begins
  <2> QED BY <1>1, <1>2, <1>3, <2>1, <2>2, <2>3, <2>4
<1> QED BY <1>4, <1>5

(* A pass that stores, and one that does not.                              *)
LEMMA DoneNext ==
    ASSUME job \in Jobs, NEW n \in Name, NEW i \in 0..(Length - 1), NEW q, Done(n, i, q)
    PROVE  /\ n[i + 1] # Space \/ Before(n, i) # Space =>
                Done(n, i + 1, [q EXCEPT ![Stored(n, i) + 1] = n[i + 1]])
           /\ ~(n[i + 1] # Space \/ Before(n, i) # Space) => Done(n, i + 1, q)
<1> DEFINE P == Stored(n, i)
           r == [q EXCEPT ![P + 1] = n[i + 1]]
<1>1. /\ q \in Result /\ q[0] = Zero /\ P \in 0..i /\ Length \in Nat
      /\ \A j \in Letters(n, i) : Place(n, j) \in 1..P /\ q[Place(n, j)] = n[j]
      /\ \A k \in 1..Length : q[k] = Space \/ \E j \in Letters(n, i) : Place(n, j) = k
  BY LengthNat DEF Done
<1>2. i \in Nat /\ i + 1 \in 1..Length /\ n[i + 1] \in Char
  BY <1>1 DEF Name
<1>3. Letters(n, i + 1) = Letters(n, i) \cup (IF n[i + 1] # Space THEN {i + 1} ELSE {})
  BY LettersNext
<1>4. /\ Stored(n, i + 1) = P + (IF n[i + 1] # Space \/ Before(n, i) # Space THEN 1 ELSE 0)
      /\ n[i + 1] # Space => Place(n, i + 1) = P + 1
  BY StoredNext
<1> HIDE DEF P
<1>5. ASSUME n[i + 1] # Space \/ Before(n, i) # Space PROVE Done(n, i + 1, r)
  <2>1. P + 1 \in 1..Length /\ P + 1 # 0 /\ Stored(n, i + 1) = P + 1
    BY <1>1, <1>2, <1>4, <1>5
  <2>2. r \in Result /\ \A k \in 0..Length : r[k] = IF k = P + 1 THEN n[i + 1] ELSE q[k]
    BY <1>1, <1>2, <2>1 DEF Result
  <2>3. r[0] = Zero
    BY <1>1, <2>1, <2>2
  <2> HIDE DEF r
  <2>4. ASSUME NEW j \in Letters(n, i + 1)
        PROVE  Place(n, j) \in 1..(P + 1) /\ r[Place(n, j)] = n[j]
    <3>1. CASE j \in Letters(n, i)
      <4>1. Place(n, j) \in 1..P /\ q[Place(n, j)] = n[j]
        BY <1>1, <3>1
      <4>2. Place(n, j) \in 0..Length /\ Place(n, j) # P + 1 /\ Place(n, j) \in 1..(P + 1)
        BY <1>1, <1>2, <4>1
      <4> QED BY <2>2, <4>1, <4>2
    <3>2. CASE j \notin Letters(n, i)
      <4>1. j = i + 1 /\ n[i + 1] # Space
        BY <1>3, <3>2
      <4>2. Place(n, j) = P + 1
        BY <1>4, <4>1
      <4> QED BY <1>1, <2>1, <2>2, <4>1, <4>2
    <3> QED BY <3>1, <3>2
  <2>5. ASSUME NEW k \in 1..Length
        PROVE  r[k] = Space \/ \E j \in Letters(n, i + 1) : Place(n, j) = k
    <3>1. CASE k = P + 1 /\ n[i + 1] = Space
      BY <2>2, <3>1
    <3>2. CASE k = P + 1 /\ n[i + 1] # Space
      BY <1>3, <1>4, <3>2
    <3>3. CASE k # P + 1
      BY <1>1, <1>3, <2>2, <3>3
    <3> QED BY <3>1, <3>2, <3>3
  <2> QED BY <1>1, <1>2, <2>1, <2>2, <2>3, <2>4, <2>5 DEF Done
<1>6. ASSUME ~(n[i + 1] # Space \/ Before(n, i) # Space) PROVE Done(n, i + 1, q)
  <2>1. Stored(n, i + 1) = P /\ P \in 0..(i + 1)
    BY <1>1, <1>2, <1>4, <1>6
  <2>2. Letters(n, i + 1) = Letters(n, i)
    BY <1>3, <1>6
  <2> QED BY <1>1, <2>1, <2>2 DEF Done
<1> QED BY <1>5, <1>6 DEF P
LEMMA DoneBegins ==
    ASSUME job \in Jobs, NEW n \in Name
    PROVE  Stored(n, 0) = 0 /\ Done(n, 0, Blank)
<1>1. Letters(n, 0) = {} /\ Starts(n, 0) = {} /\ Cardinality({}) = 0
  BY FS_EmptySet DEF Letters, Starts
<1>2. Stored(n, 0) = 0
  BY <1>1 DEF Stored, Lead, InWord
<1>3. Blank \in Result /\ Blank[0] = Zero /\ \A k \in 1..Length : Blank[k] = Space
  BY LengthNat, CleanNameAssumption DEF Blank, Result
<1> QED BY <1>1, <1>2, <1>3 DEF Done

LEMMA DoneCleans ==
    ASSUME NEW n \in Name, NEW q, Done(n, Length, q)
    PROVE  Clean(n, q) /\ q[0] = Zero
<1>1. Length \in Nat /\ Stored(n, Length) \in 0..Length
  BY LengthNat DEF Done
<1>2. \A j \in Letters(n, Length) : Place(n, j) \in 1..Length
  BY <1>1 DEF Done
<1> QED BY <1>2 DEF Done, Clean

-----------------------------------------------------------------------------
(* Steps                                                                   *)

LEMMA JobSame ==
    ASSUME job' = job
    PROVE  /\ \A n, q : Clean(n, q)' <=> Clean(n, q)
           /\ Done(names[who], ix - 1, rens)' <=> Done(names'[who'], ix' - 1, rens')
           /\ Stored(names[who], ix - 1)' = Stored(names'[who'], ix' - 1)
           /\ Before(names[who], ix - 1)' = Before(names'[who'], ix' - 1)
BY DEF Clean, Done, Stored, Before, Place, Lead, Ahead, Student

(* What Loop says of the next state.                                       *)
LEMMA LoopNext ==
    ASSUME job' = job, names' = names
    PROVE  Loop' <=>
             (who' <= Customers(job) =>
                \/ Student /\ ix' = 0 /\ ix2' = 0 /\ previous' = Zero /\ rens' = Blank
                \/ /\ ix' \in 1..(Length + 1)
                   /\ previous' = Before(names[who'], ix' - 1)
                   /\ ix2' = Stored(names[who'], ix' - 1) + (IF Student THEN 1 ELSE 0)
                   /\ Done(names[who'], ix' - 1, rens'))
BY JobSame DEF Loop, Student

LEMMA PassStep ==
    ASSUME CleanTyped, Loop, CleanPass
    PROVE  Loop'
<1> DEFINE n == names[who]
<1>1. /\ who <= Customers(job) /\ ix <= Length /\ UNCHANGED <<job, names, who, cleaned>>
      /\ previous' = Current /\ ix' = ix + 1
      /\ IF Kept THEN rens' = [rens EXCEPT ![Target] = Current] /\ ix2' = ix2 + 1
                 ELSE UNCHANGED <<rens, ix2>>
  BY DEF CleanPass
<1>2. n \in Name /\ job \in Jobs
  BY <1>1 DEF CleanTyped, Customers
<1>3. CASE Student /\ ix = 0 /\ ix2 = 0 /\ previous = Zero /\ rens = Blank
  <2>1. Current = Zero /\ Kept /\ Target = 0
    BY <1>3 DEF Current, Kept, Target, Zero, Space
  <2>2. rens' = Blank
    BY <1>1, <1>3, <2>1, LengthNat DEF Blank
  <2>3. ix' = 1 /\ ix2' = 1 /\ previous' = Before(n, 0) /\ ix' - 1 = 0
    BY <1>1, <1>3, <2>1 DEF Before, Ahead
  <2>4. Stored(n, 0) = 0 /\ Done(n, 0, Blank)
    BY <1>2, DoneBegins
  <2> QED BY <1>1, <1>3, <2>2, <2>3, <2>4, LoopNext, LengthNat
<1>4. CASE /\ ix \in 1..(Length + 1)
           /\ previous = Before(n, ix - 1)
           /\ ix2 = Stored(n, ix - 1) + (IF Student THEN 1 ELSE 0)
           /\ Done(n, ix - 1, rens)
  <2> DEFINE i == ix - 1
  <2>1. /\ i \in 0..(Length - 1) /\ i + 1 = ix /\ ix' - 1 = i + 1 /\ ix' \in 1..(Length + 1)
        /\ i + 1 # 0
    BY <1>1, <1>4, LengthNat
  <2>2. Current = n[i + 1] /\ previous' = Before(n, i + 1)
    BY <1>1, <2>1 DEF Current, Before
  <2>3. Kept <=> n[i + 1] # Space \/ Before(n, i) # Space
    BY <1>4, <2>2 DEF Kept
  <2>4. Stored(n, i) \in Nat /\ Target = Stored(n, i) + 1
    BY <1>4, <2>1 DEF Done, Target
  <2>5. Done(n, i + 1, rens')
    BY <1>1, <1>2, <1>4, <2>1, <2>2, <2>3, <2>4, DoneNext, ZenonT(40)
  <2>6. ix2' = Stored(n, i + 1) + (IF Student THEN 1 ELSE 0)
    BY <1>1, <1>2, <1>4, <2>1, <2>3, <2>4, StoredNext
  <2> HIDE DEF i
  <2> QED BY <1>1, <2>1, <2>2, <2>5, <2>6, LoopNext
<1> QED BY <1>1, <1>3, <1>4 DEF Loop

(* The loop begins for a name.                                             *)
LEMMA NameStep ==
    ASSUME CInv, NextName
    PROVE  CInv'
<1>1. /\ who <= Customers(job) /\ ix > Length /\ cleaned' = Append(cleaned, rens)
      /\ who' = who + 1 /\ ix' = FirstIX /\ ix2' = 0 /\ rens' = Blank /\ previous' = Ahead
      /\ UNCHANGED <<job, names>>
  BY DEF NextName
<1>2. /\ names[who] \in Name /\ job \in Jobs /\ Customers(job) \in {1, 2} /\ who \in Nat
      /\ cleaned \in Seq(Result) /\ Len(cleaned) = who - 1
      /\ names \in [1..Customers(job) -> Name]
  BY <1>1 DEF CInv, CleanTyped, Customers
<1>3. Done(names[who], Length, rens)
  <2>1. ix = Length + 1 /\ ix - 1 = Length
    BY <1>1, LengthNat DEF CInv, Loop
  <2> QED BY <1>1, <2>1, LengthNat DEF CInv, Loop
<1>4. Clean(names[who], rens) /\ rens[0] = Zero /\ rens \in Result
  BY <1>2, <1>3, DoneCleans DEF Done
<1>5. CleanTyped'
  BY <1>1, <1>2, <1>4 DEF CleanTyped
<1>6. NamesCleaned'
  <2>1. \A n, q : Clean(n, q)' <=> Clean(n, q)
    BY <1>1, JobSame
  <2>2. ASSUME NEW c \in 1..Len(cleaned')
        PROVE  Clean(names[c], cleaned'[c]) /\ cleaned'[c][0] = Zero
    <3>1. CASE c = who
      BY <1>1, <1>2, <1>4, <3>1
    <3>2. CASE c # who
      <4>1. c \in 1..Len(cleaned) /\ cleaned'[c] = cleaned[c]
        BY <1>1, <1>2, <3>2
      <4> QED BY <4>1 DEF CInv, NamesCleaned
    <3> QED BY <3>1, <3>2
  <2> QED BY <1>1, <2>1, <2>2 DEF NamesCleaned
<1>7. Loop'
  <2> SUFFICES ASSUME who' <= Customers(job)
               PROVE  \/ Student /\ ix' = 0 /\ ix2' = 0 /\ previous' = Zero /\ rens' = Blank
                      \/ /\ ix' \in 1..(Length + 1)
                         /\ previous' = Before(names[who'], ix' - 1)
                         /\ ix2' = Stored(names[who'], ix' - 1) + (IF Student THEN 1 ELSE 0)
                         /\ Done(names[who'], ix' - 1, rens')
    BY <1>1, LoopNext
  <2>1. CASE Student
    BY <1>1, <2>1 DEF FirstIX, Ahead
  <2>2. CASE ~Student
    <3>1. ix' = 1 /\ ix' - 1 = 0 /\ previous' = Before(names[who'], 0)
      BY <1>1, <2>2 DEF FirstIX, Before
    <3>2. Stored(names[who'], 0) = 0 /\ Done(names[who'], 0, Blank)
      BY <1>1, <1>2, DoneBegins
    <3> QED BY <1>1, <2>2, <3>1, <3>2, LengthNat
  <2> QED BY <2>1, <2>2
<1> QED BY <1>5, <1>6, <1>7 DEF CInv

LEMMA CleanInvInit == CleanInit => CInv
<1> SUFFICES ASSUME CleanInit PROVE CInv
  OBVIOUS
<1>1. /\ job \in Jobs /\ names \in [1..Customers(job) -> FullNames] /\ who = 1
      /\ ix = FirstIX /\ ix2 = 0 /\ previous = Ahead /\ rens = Blank /\ cleaned = <<>>
  BY DEF CleanInit
<1>2. names \in [1..Customers(job) -> Name] /\ Customers(job) \in {1, 2}
  BY <1>1, FullNamesAre DEF Customers
<1>3. CleanTyped
  BY <1>1, <1>2 DEF CleanTyped
<1>4. NamesCleaned
  BY <1>1 DEF NamesCleaned
<1>5. CASE Student
  BY <1>1, <1>3, <1>4, <1>5 DEF CInv, Loop, FirstIX, Ahead
<1>6. CASE ~Student
  <2>1. names[who] \in Name /\ ix = 1 /\ ix - 1 = 0 /\ previous = Before(names[who], 0)
    BY <1>1, <1>2, <1>6 DEF FirstIX, Before
  <2>2. Stored(names[who], 0) = 0 /\ Done(names[who], 0, Blank)
    BY <1>1, <2>1, DoneBegins
  <2>3. Loop
    BY <1>1, <1>6, <2>1, <2>2, LengthNat DEF Loop
  <2> QED BY <1>3, <1>4, <2>3 DEF CInv
<1> QED BY <1>5, <1>6

LEMMA CleanInvNext == CInv /\ [CleanNext]_cleanVars => CInv'
<1> SUFFICES ASSUME CInv, [CleanNext]_cleanVars PROVE CInv'
  OBVIOUS
<1>1. CASE CleanPass
  <2>1. UNCHANGED <<job, names, who, cleaned>>
    BY <1>1 DEF CleanPass
  <2>2. CleanTyped'
    BY <2>1 DEF CInv, CleanTyped
  <2>3. \A n, q : Clean(n, q)' <=> Clean(n, q)
    BY <2>1, JobSame
  <2>4. NamesCleaned'
    BY <2>1, <2>3 DEF CInv, NamesCleaned
  <2>5. Loop'
    BY <1>1, PassStep DEF CInv
  <2> QED BY <2>2, <2>4, <2>5 DEF CInv
<1>2. CASE NextName
  BY <1>2, NameStep
<1>3. CASE UNCHANGED cleanVars
  <2>1. UNCHANGED <<job, names, who, ix, ix2, previous, rens, cleaned>>
    BY <1>3 DEF cleanVars
  <2>2. \A n, q : Clean(n, q)' <=> Clean(n, q)
    BY <2>1, JobSame
  <2>3. Loop'
    BY <2>1, LoopNext DEF CInv, Loop
  <2> QED BY <2>1, <2>2, <2>3 DEF CInv, CleanTyped, NamesCleaned
<1> QED BY <1>1, <1>2, <1>3 DEF CleanNext

(* Names of any length come out with one space between their words, in    *)
(* the four programs, the second name of Opgave5 like the first, and the   *)
(* byte before the result keeps its zero.                                  *)
THEOREM NamesClean == CleanSpec => []NamesCleaned
<1>1. CInv => NamesCleaned
  BY DEF CInv
<1> QED BY <1>1, CleanInvInit, CleanInvNext, PTL DEF CleanSpec
-----------------------------------------------------------------------------
(* The text of PREPARE.                                                    *)

Numbered == TextChar \cup ({"$"} \X Nat)

TextTyped ==
    /\ target \in Seq(TextChar)
    /\ now \in 1..(Len(target) + 1) /\ start \in 1..now
    /\ hoststat \in BOOLEAN /\ (hoststat => start < now)
    /\ nParams \in Nat
    /\ slist \in Seq(Numbered)
    /\ ended \in BOOLEAN /\ (ended => now = Len(target) + 1)

(* The piece from a to b: a host variable whose name goes on, or text      *)
(* without one that begins with the text or with the end of a name.        *)
HostPiece(a, b)  == a \in Hosts /\ \A j \in (a + 1)..b : target[j] \in Letter
OtherPiece(a, b) ==
    /\ a = 1 \/ target[a] \in Delims
    /\ \A j \in a..b : target[j] # Colon

(* list is what the text up to k becomes, n its host variables.            *)
Sofar(list, n, k) == Replaced(list, k) /\ n = Cardinality(HostsUpTo(k))

Scanned ==
    Plain =>
        IF ended THEN Sofar(slist, nParams, Len(target))
        ELSE /\ Sofar(slist, nParams, start - 1)
             /\ hoststat => HostPiece(start, now - 1)
             /\ ~hoststat => OtherPiece(start, now - 1)

PrepInv == TextTyped /\ Scanned

LEMMA CharsApart == /\ Colon \notin Letter /\ Colon \notin Delims
                    /\ Letter \cap Delims = {} /\ Colon # Quote
BY PrepareTextAssumption DEF Colon, Quote

LEMMA HostsAre ==
    ASSUME target \in Seq(TextChar)
    PROVE  /\ Len(target) \in Nat
           /\ Hosts \subseteq 1..Len(target) /\ \A i \in Hosts : target[i] = Colon
           /\ \A k \in Nat : InName(k) => target[k] \in Letter
<1>1. Len(target) \in Nat
  OBVIOUS
<1>2. Hosts \subseteq 1..Len(target) /\ \A i \in Hosts : target[i] = Colon
  BY <1>1 DEF Hosts
<1>3. ASSUME NEW k \in Nat, InName(k) PROVE target[k] \in Letter
  <2>1. PICK i \in Hosts : i < k /\ \A j \in (i + 1)..k : target[j] \in Letter
    BY <1>3 DEF InName
  <2>2. k \in (i + 1)..k
    BY <1>1, <1>2, <2>1
  <2> QED BY <2>1, <2>2
<1> QED BY <1>1, <1>2, <1>3

(* The counts are of finite sets.                                          *)
LEMMA TextCounts ==
    ASSUME NEW k \in Nat
    PROVE  /\ IsFiniteSet(Places(k)) /\ Cardinality(Places(k)) \in Nat
           /\ target \in Seq(TextChar) =>
                IsFiniteSet(HostsUpTo(k)) /\ Cardinality(HostsUpTo(k)) \in Nat
<1>1. IsFiniteSet(1..k)
  BY FS_Interval
<1>2. Places(k) \subseteq 1..k
  BY DEF Places
<1>3. ASSUME target \in Seq(TextChar)
      PROVE  IsFiniteSet(HostsUpTo(k)) /\ Cardinality(HostsUpTo(k)) \in Nat
  <2>1. HostsUpTo(k) \subseteq 1..k
    BY <1>3, HostsAre DEF HostsUpTo
  <2> QED BY <1>1, <2>1, FS_Subset, FS_CardinalityType
<1> QED BY <1>1, <1>2, <1>3, FS_Subset, FS_CardinalityType

LEMMA Together ==
    ASSUME NEW S, NEW s \in Seq(S), NEW t \in Seq(S)
    PROVE  /\ s \o t \in Seq(S) /\ Len(s) \in Nat /\ Len(t) \in Nat
           /\ Len(s \o t) = Len(s) + Len(t)
           /\ \A j \in 1..(Len(s) + Len(t)) :
                (s \o t)[j] = IF j <= Len(s) THEN s[j] ELSE t[j - Len(s)]
OBVIOUS

(* Counting goes on: there is a place for each that is kept.               *)
LEMMA CountWithin ==
    ASSUME NEW k \in Nat, NEW j \in Places(k)
    PROVE  /\ Cardinality(Places(k)) \in Nat
           /\ Cardinality(Places(j)) \in 1..Cardinality(Places(k))
<1>1. j \in 1..k /\ j \in Places(j) /\ Places(j) \subseteq Places(k) /\ j \in Nat
  BY DEF Places
<1>2. IsFiniteSet(Places(k)) /\ Cardinality(Places(k)) \in Nat
  BY TextCounts
<1>3. IsFiniteSet(Places(j)) /\ Cardinality(Places(j)) \in Nat
  BY <1>1, TextCounts
<1>4. Cardinality(Places(j)) <= Cardinality(Places(k))
  BY <1>1, <1>2, FS_Subset
<1>5. Cardinality(Places(j)) # 0
  BY <1>1, <1>3, FS_EmptySet
<1> QED BY <1>2, <1>3, <1>4, <1>5

(* A piece without host variables and names is taken over as it stands.    *)
LEMMA TakeOver ==
    ASSUME target \in Seq(TextChar), NEW a \in 1..(Len(target) + 1), NEW b \in (a - 1)..Len(target),
           \A j \in a..b : j \notin Hosts /\ ~InName(j),
           NEW list \in Seq(Numbered), NEW n, Sofar(list, n, a - 1)
    PROVE  Sofar(list \o SubSeq(target, a, b), n, b)
<1> DEFINE piece == SubSeq(target, a, b)
           new   == list \o piece
           C(k)  == Cardinality(Places(k))
<1>1. a \in Nat /\ b \in Nat /\ a - 1 \in Nat /\ Len(target) \in Nat /\ a >= 1
  OBVIOUS
<1>2. /\ piece \in Seq(TextChar) /\ Len(piece) = b - a + 1
      /\ \A j \in 1..(b - a + 1) : piece[j] = target[a + j - 1]
  BY <1>1
<1>3. TextChar \subseteq Numbered
  BY DEF Numbered
<1>4. /\ Len(list) \in Nat /\ Len(new) = Len(list) + (b - a + 1)
      /\ \A j \in 1..Len(new) :
            new[j] = IF j <= Len(list) THEN list[j] ELSE piece[j - Len(list)]
  <2>1. piece \in Seq(Numbered)
    BY <1>2, <1>3
  <2>2. /\ Len(list) \in Nat /\ Len(new) = Len(list) + Len(piece)
        /\ \A j \in 1..(Len(list) + Len(piece)) :
              new[j] = IF j <= Len(list) THEN list[j] ELSE piece[j - Len(list)]
    BY <2>1, Together
  <2> HIDE DEF piece, new
  <2> QED BY <1>2, <2>2
<1>5. Len(list) = C(a - 1) /\ \A j \in Places(a - 1) : list[C(j)] = Image(j)
  BY DEF Sofar, Replaced
<1>6. ASSUME NEW k \in (a - 1)..b PROVE C(k) = C(a - 1) + (k - a + 1)
  <2>1. Places(k) = Places(a - 1) \cup (a..k) /\ Places(a - 1) \cap (a..k) = {}
    BY <1>1, <1>6 DEF Places
  <2>2. IsFiniteSet(a..k) /\ Cardinality(a..k) = k - a + 1
    <3>1. k \in Int /\ a \in Int
      BY <1>1, <1>6
    <3>2. IsFiniteSet(a..k) /\ Cardinality(a..k) = IF a > k THEN 0 ELSE k - a + 1
      BY <3>1, FS_Interval
    <3> QED BY <1>1, <1>6, <3>1, <3>2
  <2>3. IsFiniteSet(Places(a - 1)) /\ C(a - 1) \in Nat
    BY <1>1, TextCounts
  <2>4. C(k) = C(a - 1) + Cardinality(a..k) - Cardinality(Places(a - 1) \cap (a..k))
    BY <2>1, <2>2, <2>3, FS_Union
  <2>5. Cardinality(Places(a - 1) \cap (a..k)) = 0
    BY <2>1, FS_EmptySet
  <2>6. k - a + 1 \in Nat
    BY <1>1, <1>6
  <2> HIDE DEF C
  <2> QED BY <2>2, <2>3, <2>4, <2>5, <2>6
<1>7. Places(b) = Places(a - 1) \cup (a..b)
  BY <1>1 DEF Places
<1>8. ASSUME NEW j \in Places(a - 1) PROVE C(j) \in 1..C(a - 1)
  BY <1>1, CountWithin
<1>9. ASSUME NEW j \in Places(b) PROVE new[C(j)] = Image(j)
  <2>1. CASE j \in Places(a - 1)
    <3>1. C(j) \in 1..C(a - 1) /\ C(a - 1) \in Nat /\ list[C(j)] = Image(j)
      BY <1>1, <1>5, <1>8, <2>1, TextCounts
    <3> HIDE DEF C, new, piece
    <3> QED BY <1>1, <1>4, <1>5, <3>1
  <2>2. CASE j \in a..b
    <3>1. C(j) = C(a - 1) + (j - a + 1) /\ C(a - 1) \in Nat
      BY <1>1, <1>6, <2>2, TextCounts
    <3>2. Image(j) = target[j]
      BY <2>2 DEF Image
    <3>3. j - a + 1 \in 1..(b - a + 1) /\ a + (j - a + 1) - 1 = j
      BY <1>1, <2>2
    <3>4. target[j] = piece[j - a + 1]
      BY <1>2, <3>3
    <3> HIDE DEF C, new, piece
    <3> QED BY <1>1, <1>4, <1>5, <2>2, <3>1, <3>2, <3>3, <3>4
  <2> QED BY <1>7, <2>1, <2>2
<1>10. Len(new) = C(b)
  BY <1>1, <1>4, <1>5, <1>6
<1>11. HostsUpTo(b) = HostsUpTo(a - 1)
  BY <1>1, HostsAre DEF HostsUpTo
<1> QED BY <1>9, <1>10, <1>11 DEF Sofar, Replaced

(* A host variable and its name become the next number.                    *)
LEMMA TakeHost ==
    ASSUME target \in Seq(TextChar), NEW a \in Hosts, NEW b \in a..Len(target), HostPiece(a, b),
           NEW list \in Seq(Numbered), NEW n \in Nat, Sofar(list, n, a - 1)
    PROVE  Sofar(list \o Placeholder(n + 1), n + 1, b)
<1> DEFINE new  == list \o Placeholder(n + 1)
           C(k) == Cardinality(Places(k))
           H(k) == Cardinality(HostsUpTo(k))
<1>1. a \in 1..Len(target) /\ a - 1 \in Nat /\ b \in Nat /\ Len(target) \in Nat /\ b >= a
  BY HostsAre
<1>2. Placeholder(n + 1) \in Seq(Numbered) /\ Placeholder(n + 1) = <<<<"$", n + 1>>>>
  BY DEF Placeholder, Numbered
<1>3. /\ Len(list) \in Nat /\ Len(new) = Len(list) + 1 /\ new[Len(list) + 1] = <<"$", n + 1>>
      /\ \A j \in 1..Len(list) : new[j] = list[j]
  <2> DEFINE one == Placeholder(n + 1)
  <2>1. one \in Seq(Numbered) /\ Len(one) = 1 /\ one[1] = <<"$", n + 1>>
    BY <1>2
  <2>2. /\ Len(list) \in Nat /\ Len(list \o one) = Len(list) + Len(one)
        /\ \A j \in 1..(Len(list) + Len(one)) :
              (list \o one)[j] = IF j <= Len(list) THEN list[j] ELSE one[j - Len(list)]
    BY <2>1, Together
  <2> HIDE DEF one
  <2>3. new = list \o one
    BY DEF one
  <2> HIDE DEF new
  <2> QED BY <2>1, <2>2, <2>3
<1>4. Len(list) = C(a - 1) /\ n = H(a - 1) /\ \A j \in Places(a - 1) : list[C(j)] = Image(j)
  BY DEF Sofar, Replaced
<1>5. ASSUME NEW k \in a..b PROVE Places(k) = Places(a - 1) \cup {a} /\ HostsUpTo(k) = HostsUpTo(a - 1) \cup {a}
  <2>1. k \in Nat /\ k >= a /\ 1..k = 1..(a - 1) \cup {a} \cup (a + 1)..k
    BY <1>1, <1>5
  <2>2. ~InName(a)
    BY <1>1, HostsAre, CharsApart
  <2>3. \A j \in (a + 1)..k : InName(j) /\ j \notin Hosts
    <3> SUFFICES ASSUME NEW j \in (a + 1)..k PROVE InName(j) /\ j \notin Hosts
      OBVIOUS
    <3>1. \A l \in (a + 1)..j : target[l] \in Letter
      BY <1>1, <1>5 DEF HostPiece
    <3>2. a < j /\ j \in (a + 1)..j
      BY <1>1
    <3> QED BY <3>1, <3>2, HostsAre, CharsApart DEF InName
  <2>4. Places(k) = Places(a - 1) \cup {a}
    BY <1>1, <2>1, <2>2, <2>3 DEF Places
  <2>5. HostsUpTo(k) = HostsUpTo(a - 1) \cup {a}
    <3>1. \A i \in Hosts : i \in Nat /\ (i <= k <=> i <= a - 1 \/ i = a)
      BY <1>1, <2>1, <2>3, HostsAre
    <3> QED BY <3>1 DEF HostsUpTo
  <2> QED BY <2>4, <2>5
<1>6. ASSUME NEW k \in a..b PROVE C(k) = C(a - 1) + 1 /\ H(k) = n + 1
  <2>1. a \notin Places(a - 1) /\ a \notin HostsUpTo(a - 1)
    BY <1>1 DEF Places, HostsUpTo
  <2>2. /\ Cardinality(Places(a - 1) \cup {a}) = C(a - 1) + 1
        /\ Cardinality(HostsUpTo(a - 1) \cup {a}) = H(a - 1) + 1
    BY <1>1, <2>1, TextCounts, FS_AddElement
  <2> QED BY <1>4, <1>5, <1>6, <2>2
<1>7. ASSUME NEW j \in Places(a - 1) PROVE C(j) \in 1..C(a - 1)
  BY <1>1, CountWithin
<1>8. ASSUME NEW j \in Places(b) PROVE new[C(j)] = Image(j)
  <2>1. CASE j \in Places(a - 1)
    <3>1. C(j) \in 1..C(a - 1) /\ list[C(j)] = Image(j)
      BY <1>4, <1>7, <2>1
    <3> HIDE DEF C, new
    <3> QED BY <1>3, <1>4, <3>1
  <2>2. CASE j = a
    <3>1. Image(a) = <<"$", H(a)>> /\ a \in a..b
      BY <1>1 DEF Image
    <3>2. C(a) = Len(list) + 1 /\ H(a) = n + 1
      BY <1>4, <1>6, <3>1
    <3> HIDE DEF C, H, new
    <3> QED BY <1>3, <2>2, <3>1, <3>2
  <2>3. Places(b) = Places(a - 1) \cup {a}
    BY <1>1, <1>5
  <2> QED BY <2>1, <2>2, <2>3
<1>9. Len(new) = C(b) /\ H(b) = n + 1
  <2>1. b \in a..b
    BY <1>1
  <2> QED BY <1>3, <1>4, <1>6, <2>1
<1> QED BY <1>8, <1>9 DEF Sofar, Replaced

(* Text between two host variables holds no name.                          *)
LEMMA OtherNotNamed ==
    ASSUME target \in Seq(TextChar), NEW a \in Nat \ {0}, NEW b \in Nat, b <= Len(target), OtherPiece(a, b)
    PROVE  \A j \in a..b : j \notin Hosts /\ ~InName(j)
<1> SUFFICES ASSUME NEW j \in a..b PROVE j \notin Hosts /\ ~InName(j)
  OBVIOUS
<1>1. \A i \in Hosts : i \in Nat \ {0} /\ (i < a \/ i > b)
  BY HostsAre DEF OtherPiece
<1>2. ASSUME InName(j) PROVE FALSE
  <2>1. PICK i \in Hosts : i < j /\ \A l \in (i + 1)..j : target[l] \in Letter
    BY <1>2 DEF InName
  <2>2. i < a /\ i \in Nat \ {0}
    BY <1>1, <2>1
  <2>3. a \in (i + 1)..j
    BY <2>2
  <2>4. target[a] \in Delims
    BY <2>2 DEF OtherPiece
  <2> QED BY <2>1, <2>3, <2>4, CharsApart
<1> QED BY <1>1, <1>2
(* Beyond the text: all its host variables.                                *)
LEMMA HostsAll == ASSUME target \in Seq(TextChar) PROVE HostsUpTo(Len(target)) = Hosts
BY HostsAre DEF HostsUpTo

LEMMA TextSame ==
    ASSUME target' = target
    PROVE  /\ Plain' <=> Plain
           /\ \A a, b : HostPiece(a, b)' <=> HostPiece(a, b)
           /\ \A a, b : OtherPiece(a, b)' <=> OtherPiece(a, b)
           /\ \A l, n, k : Sofar(l, n, k)' <=> Sofar(l, n, k)
           /\ Scanned' <=>
                (Plain =>
                    IF ended' THEN Sofar(slist', nParams', Len(target))
                    ELSE /\ Sofar(slist', nParams', start' - 1)
                         /\ hoststat' => HostPiece(start', now' - 1)
                         /\ ~hoststat' => OtherPiece(start', now' - 1))
<1>1. Hosts' = Hosts /\ \A k : InName(k)' <=> InName(k)
  BY DEF Hosts, Quoted, InName
<1>2. Plain' <=> Plain
  BY <1>1 DEF Plain, Behind
<1>3. \A a, b : (HostPiece(a, b)' <=> HostPiece(a, b)) /\ (OtherPiece(a, b)' <=> OtherPiece(a, b))
  BY <1>1 DEF HostPiece, OtherPiece
<1>4. \A l, n, k : Sofar(l, n, k)' <=> Sofar(l, n, k)
  BY <1>1 DEF Sofar, Replaced, Places, HostsUpTo, Image
<1>5. /\ Sofar(slist, nParams, Len(target))' <=> Sofar(slist', nParams', Len(target))
      /\ Sofar(slist, nParams, start - 1)' <=> Sofar(slist', nParams', start' - 1)
      /\ HostPiece(start, now - 1)' <=> HostPiece(start', now' - 1)
      /\ OtherPiece(start, now - 1)' <=> OtherPiece(start', now' - 1)
  BY <1>1 DEF Sofar, Replaced, Places, HostsUpTo, Image, HostPiece, OtherPiece
<1> QED BY <1>2, <1>3, <1>4, <1>5 DEF Scanned

LEMMA PrepInit == TextInit => PrepInv
<1> SUFFICES ASSUME TextInit PROVE PrepInv
  OBVIOUS
<1>1. /\ now = 1 /\ start = 1 /\ hoststat = FALSE /\ nParams = 0 /\ slist = <<>> /\ ended = FALSE
  BY DEF TextInit
<1>2. target \in Seq(TextChar)
  BY PrepareTextAssumption DEF TextInit
<1>3. hoststat \in BOOLEAN /\ ended \in BOOLEAN /\ ~hoststat /\ ~ended
  BY DEF TextInit
<1>4. slist \in Seq(Numbered) /\ Len(target) \in Nat
  BY <1>1, <1>2
<1>5. TextTyped
  BY <1>1, <1>2, <1>3, <1>4 DEF TextTyped
<1>6. Sofar(<<>>, 0, 0)
  <2>1. Places(0) = {} /\ HostsUpTo(0) = {}
    BY <1>2, HostsAre DEF Places, HostsUpTo
  <2> QED BY <2>1, FS_EmptySet DEF Sofar, Replaced
<1>7. Scanned
  BY <1>1, <1>3, <1>6 DEF Scanned, OtherPiece
<1> QED BY <1>5, <1>7 DEF PrepInv

(* What a step leaves of the types.                                        *)
LEMMA PieceIs ==
    ASSUME TextTyped
    PROVE  /\ Piece \in Seq(Numbered) /\ slist \o Piece \in Seq(Numbered)
           /\ slist \o Placeholder(nParams + 1) \in Seq(Numbered)
<1>1. /\ target \in Seq(TextChar) /\ now - 1 \in Nat /\ now - 1 <= Len(target)
      /\ start \in Nat \ {0} /\ Len(target) \in Nat
      /\ slist \in Seq(Numbered) /\ nParams + 1 \in Nat
  BY DEF TextTyped
<1>2. \A j \in start..(now - 1) : target[j] \in Numbered
  BY <1>1 DEF Numbered
<1>3. Piece \in Seq(Numbered)
  <2> DEFINE n == IF start <= now - 1 THEN now - 1 - start + 1 ELSE 0
  <2>1. n \in Nat /\ Piece = [i \in 1..n |-> target[start + i - 1]]
    BY <1>1 DEF Piece
  <2>2. ASSUME NEW i \in 1..n PROVE target[start + i - 1] \in Numbered
    <3>1. start + i - 1 \in start..(now - 1)
      BY <1>1, <2>2
    <3> QED BY <1>2, <3>1
  <2> HIDE DEF n
  <2> QED BY <2>1, <2>2
<1>4. Placeholder(nParams + 1) \in Seq(Numbered)
  BY <1>1 DEF Placeholder, Numbered
<1> QED BY <1>1, <1>3, <1>4, Together

(* A colon of a plain text begins a host variable, and what follows its    *)
(* name is what the scan ends it at.                                       *)
LEMMA NameGoesOn ==
    ASSUME TextTyped, Plain, hoststat, HostPiece(start, now - 1), now <= Len(target)
    PROVE  target[now] \in Letter \/ target[now] \in Delims
<1> SUFFICES ASSUME target[now] \notin Letter PROVE target[now] \in Delims
  OBVIOUS
<1>1. start \in Hosts /\ \A j \in (start + 1)..(now - 1) : target[j] \in Letter
  BY DEF HostPiece
<1>2. /\ now \in (start + 1)..Len(target) /\ now \in Nat /\ start \in Nat /\ Len(target) \in Nat
  BY DEF TextTyped
<1>3. now \in Behind(start)
  BY <1>2 DEF Behind
<1>4. \A j \in Behind(start) : now <= j
  BY <1>1, <1>2 DEF Behind
<1> QED BY <1>1, <1>3, <1>4 DEF Plain

LEMMA EndOfHostKeeps ==
    ASSUME PrepInv, ~ended, now <= Len(target), EndOfHost, now' = now + 1, UNCHANGED <<target, ended>>
    PROVE  PrepInv'
<1>1. /\ hoststat /\ target[now] \in Delims /\ nParams' = nParams + 1
      /\ slist' = slist \o Placeholder(nParams + 1) /\ start' = now /\ hoststat' = FALSE
  BY DEF EndOfHost
<1>2. /\ now \in Nat \ {0} /\ start \in 1..(now - 1) /\ Len(target) \in Nat /\ nParams \in Nat
      /\ slist \in Seq(Numbered) /\ target \in Seq(TextChar)
  BY <1>1 DEF PrepInv, TextTyped
<1>3. slist' \in Seq(Numbered)
  BY <1>1, PieceIs DEF PrepInv
<1>4. /\ hoststat' \in BOOLEAN /\ ~hoststat' /\ ended' \in BOOLEAN /\ ~ended'
  BY <1>1 DEF PrepInv, TextTyped
<1>5. target' \in Seq(TextChar) /\ Len(target') = Len(target) /\ nParams' \in Nat
      /\ now' \in 1..(Len(target) + 1) /\ start' \in 1..now'
  BY <1>1, <1>2
<1>6. TextTyped'
  BY <1>3, <1>4, <1>5 DEF TextTyped
<1>7. ASSUME Plain PROVE Sofar(slist', nParams', now - 1) /\ OtherPiece(now, now)
  <2>1. Sofar(slist, nParams, start - 1) /\ HostPiece(start, now - 1)
    BY <1>1, <1>7 DEF PrepInv, Scanned
  <2>2. start \in Hosts /\ now - 1 \in start..Len(target)
    BY <1>2, <2>1 DEF HostPiece
  <2>3. Sofar(slist', nParams', now - 1)
    BY <1>1, <1>2, <2>1, <2>2, TakeHost
  <2>4. OtherPiece(now, now)
    BY <1>1, <1>2, CharsApart DEF OtherPiece
  <2> QED BY <2>3, <2>4
<1>8. start' - 1 = now - 1 /\ now' - 1 = now
  BY <1>1, <1>2
<1>9. Scanned'
  BY <1>1, <1>7, <1>8, TextSame
<1> QED BY <1>6, <1>9 DEF PrepInv

LEMMA BeginOfHostKeeps ==
    ASSUME PrepInv, ~ended, now <= Len(target), BeginOfHost, now' = now + 1, UNCHANGED <<target, ended>>
    PROVE  PrepInv'
<1>1. /\ ~hoststat /\ target[now] = Colon /\ nParams' = nParams
      /\ slist' = slist \o Piece /\ start' = now /\ hoststat' = TRUE
  BY DEF BeginOfHost
<1>2. /\ now \in Nat \ {0} /\ start \in 1..now /\ Len(target) \in Nat /\ nParams \in Nat
      /\ slist \in Seq(Numbered) /\ target \in Seq(TextChar)
  BY DEF PrepInv, TextTyped
<1>3. slist' \in Seq(Numbered)
  BY <1>1, PieceIs DEF PrepInv
<1>4. /\ hoststat' \in BOOLEAN /\ ended' \in BOOLEAN /\ ~ended'
  BY <1>1 DEF PrepInv, TextTyped
<1>5. target' \in Seq(TextChar) /\ Len(target') = Len(target) /\ nParams' \in Nat
      /\ now' \in 1..(Len(target) + 1) /\ start' \in 1..now' /\ start' < now'
  BY <1>1, <1>2
<1>6. TextTyped'
  BY <1>3, <1>4, <1>5 DEF TextTyped
<1>7. ASSUME Plain PROVE Sofar(slist', nParams', now - 1) /\ HostPiece(now, now)
  <2>1. Sofar(slist, nParams, start - 1) /\ OtherPiece(start, now - 1)
    BY <1>1, <1>7 DEF PrepInv, Scanned
  <2>2. \A j \in start..(now - 1) : j \notin Hosts /\ ~InName(j)
    BY <1>2, <2>1, OtherNotNamed
  <2>3. start \in 1..(Len(target) + 1) /\ now - 1 \in (start - 1)..Len(target)
    BY <1>2
  <2>4. Sofar(slist', nParams', now - 1)
    BY <1>1, <1>2, <2>1, <2>2, <2>3, TakeOver DEF Piece
  <2>5. HostPiece(now, now)
    BY <1>1, <1>2, <1>7 DEF HostPiece, Plain
  <2> QED BY <2>4, <2>5
<1>8. start' - 1 = now - 1 /\ now' - 1 = now
  BY <1>1, <1>2
<1>9. Scanned'
  BY <1>1, <1>7, <1>8, TextSame
<1> QED BY <1>6, <1>9 DEF PrepInv

LEMMA WithinKeeps ==
    ASSUME PrepInv, ~ended, now <= Len(target), Within, now' = now + 1, UNCHANGED <<target, ended>>
    PROVE  PrepInv'
<1>1. /\ hoststat => target[now] \notin Delims
      /\ ~hoststat => target[now] # Colon
      /\ start' = start /\ hoststat' = hoststat /\ nParams' = nParams /\ slist' = slist
  BY DEF Within
<1>2. /\ now \in Nat \ {0} /\ start \in 1..now /\ Len(target) \in Nat /\ (hoststat => start < now)
  BY DEF PrepInv, TextTyped
<1>3. TextTyped'
  BY <1>1, <1>2 DEF PrepInv, TextTyped
<1>4. now' - 1 = now
  BY <1>2
<1>5. ASSUME Plain, hoststat PROVE HostPiece(start, now)
  <2>1. HostPiece(start, now - 1)
    BY <1>5 DEF PrepInv, Scanned
  <2>2. target[now] \in Letter
    BY <1>1, <1>5, <2>1, NameGoesOn DEF PrepInv
  <2> QED BY <1>2, <2>1, <2>2 DEF HostPiece
<1>6. ASSUME Plain, ~hoststat PROVE OtherPiece(start, now)
  <2>1. OtherPiece(start, now - 1)
    BY <1>6 DEF PrepInv, Scanned
  <2> QED BY <1>1, <1>2, <1>6, <2>1 DEF OtherPiece
<1>7. Scanned'
  BY <1>1, <1>4, <1>5, <1>6, TextSame DEF PrepInv, Scanned
<1> QED BY <1>3, <1>7 DEF PrepInv

LEMMA EndOfTextKeeps ==
    ASSUME PrepInv, EndOfText
    PROVE  PrepInv'
<1>1. /\ ~ended /\ now > Len(target) /\ ended' = TRUE
      /\ UNCHANGED <<target, now, start, hoststat>>
      /\ IF now # start /\ hoststat
         THEN nParams' = nParams + 1 /\ slist' = slist \o Placeholder(nParams + 1)
         ELSE slist' = slist \o Piece /\ UNCHANGED nParams
  BY DEF EndOfText
<1>2. /\ now \in Nat \ {0} /\ start \in 1..now /\ Len(target) \in Nat /\ nParams \in Nat
      /\ slist \in Seq(Numbered) /\ target \in Seq(TextChar)
      /\ now = Len(target) + 1 /\ (hoststat => start < now) /\ hoststat \in BOOLEAN
  BY <1>1 DEF PrepInv, TextTyped
<1>3. slist' \in Seq(Numbered) /\ nParams' \in Nat
  <2>1. CASE now # start /\ hoststat
    <3>1. nParams' = nParams + 1 /\ slist' = slist \o Placeholder(nParams + 1)
      BY <1>1, <2>1
    <3> QED BY <1>2, <3>1, PieceIs DEF PrepInv
  <2>2. CASE ~(now # start /\ hoststat)
    <3>1. nParams' = nParams /\ slist' = slist \o Piece
      BY <1>1, <2>2
    <3> QED BY <1>2, <3>1, PieceIs DEF PrepInv
  <2> QED BY <2>1, <2>2
<1>4. TextTyped'
  BY <1>1, <1>2, <1>3 DEF PrepInv, TextTyped
<1>5. ASSUME Plain, hoststat PROVE Sofar(slist', nParams', Len(target))
  <2>1. Sofar(slist, nParams, start - 1) /\ HostPiece(start, now - 1)
    BY <1>1, <1>5 DEF PrepInv, Scanned
  <2>2. start \in Hosts /\ now - 1 = Len(target) /\ Len(target) \in start..Len(target)
    BY <1>2, <1>5, <2>1 DEF HostPiece
  <2>3. Sofar(slist \o Placeholder(nParams + 1), nParams + 1, Len(target))
    <3>1. HostPiece(start, Len(target))
      BY <2>1, <2>2
    <3> QED BY <1>2, <2>1, <2>2, <3>1, TakeHost
  <2>4. now # start
    BY <1>2, <1>5
  <2> QED BY <1>1, <1>5, <2>3, <2>4
<1>6. ASSUME Plain, ~hoststat PROVE Sofar(slist', nParams', Len(target))
  <2>1. Sofar(slist, nParams, start - 1) /\ OtherPiece(start, now - 1)
    BY <1>1, <1>6 DEF PrepInv, Scanned
  <2>2. /\ now - 1 = Len(target) /\ now - 1 \in Nat /\ start \in 1..(Len(target) + 1)
        /\ Len(target) \in (start - 1)..Len(target) /\ start \in Nat \ {0}
    BY <1>2
  <2>3. \A j \in start..(now - 1) : j \notin Hosts /\ ~InName(j)
    BY <1>2, <2>1, <2>2, OtherNotNamed
  <2>4. Sofar(slist \o Piece, nParams, Len(target))
    BY <1>2, <2>1, <2>2, <2>3, TakeOver DEF Piece
  <2> QED BY <1>1, <1>6, <2>4
<1>7. Scanned'
  BY <1>1, <1>5, <1>6, TextSame
<1> QED BY <1>4, <1>7 DEF PrepInv

LEMMA PrepNext == PrepInv /\ [TextNext]_textVars => PrepInv'
<1> SUFFICES ASSUME PrepInv, [TextNext]_textVars PROVE PrepInv'
  OBVIOUS
<1>1. CASE Character
  <2>1. now <= Len(target) /\ now' = now + 1 /\ UNCHANGED <<target, ended>>
        /\ (EndOfHost \/ BeginOfHost \/ Within)
    BY <1>1 DEF Character
  <2>2. ~ended
    BY <2>1 DEF PrepInv, TextTyped
  <2> QED BY <2>1, <2>2, EndOfHostKeeps, BeginOfHostKeeps, WithinKeeps
<1>2. CASE EndOfText
  BY <1>2, EndOfTextKeeps
<1>3. CASE UNCHANGED textVars
  <2>1. UNCHANGED <<target, now, start, hoststat, nParams, slist, ended>>
    BY <1>3 DEF textVars
  <2> QED BY <2>1, TextSame DEF PrepInv, TextTyped, Scanned
<1> QED BY <1>1, <1>2, <1>3 DEF TextNext

(* Whatever the length of the text: PREPARE stores it with its host        *)
(* variables numbered in order and nothing else changed, and nParams is    *)
(* how many they are.                                                      *)
THEOREM PrepareNumbers == TextSpec => []HostsNumbered
<1>1. PrepInv => HostsNumbered
  BY HostsAll DEF PrepInv, TextTyped, Scanned, Sofar, HostsNumbered
<1> QED BY <1>1, PrepInit, PrepNext, PTL DEF TextSpec
=============================================================================
