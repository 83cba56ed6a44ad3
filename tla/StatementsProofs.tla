-------------------------- MODULE StatementsProofs --------------------------
(***************************************************************************)
(* What the statements keep and promise, for every item, count, value and  *)
(* bound: storage stays bytes inside the host variable, SQLERRD(3) is the  *)
(* number of rows passed, an INSERT sends the rows the program moved or    *)
(* read, and a read with SQLCODE 0 delivers the rows due.                  *)
(*                                                                         *)
(* In this order: the powers of ten; sequences; division and               *)
(* decimal numerals; the texts of numbers; the conversion of a text into   *)
(* storage and back, type by type; the layout of a table of items; the     *)
(* invariant IInv and the theorems on types, places and counts; what the   *)
(* server prints and how COBOL stores it; the invariant Holding, that the  *)
(* host variable holds the storage of the values the program counts on;    *)
(* the theorems on the values sent and read.                               *)
(***************************************************************************)
EXTENDS Statements, Recursions

(* The powers of ten are positive, and each ten times the one before.      *)
LEMMA Pow10Def ==
  /\ Pow10[0] = 1
  /\ \A k \in Nat : Pow10[k] \in Nat /\ Pow10[k] > 0 /\ Pow10[k + 1] = 10 * Pow10[k]
<1> DEFINE step == [p \in Nat \X Nat |-> 10 * p[2]]
           P(f) == f = [k \in Nat |-> IF k = 0 THEN 1 ELSE 10 * f[k - 1]]
<1>1. step \in [Nat \X Nat -> Nat]
  OBVIOUS
<1>2. PICK g : Recursive(Nat, 1, step, g)
  <2> HIDE DEF step
  <2>1. 1 \in Nat
    OBVIOUS
  <2> QED BY <1>1, <2>1, Recursion
<1>3. ASSUME NEW n \in Nat PROVE g[n] = IF n = 0 THEN 1 ELSE 10 * g[n - 1]
  <2>1. CASE n = 0
    BY <1>2, <2>1 DEF Recursive
  <2>2. CASE n # 0
    <3>1. n - 1 \in Nat /\ (n - 1) + 1 = n
      BY <2>2
    <3>2. g[(n - 1) + 1] = step[<<(n - 1) + 1, g[n - 1]>>]
      BY <1>2, <3>1 DEF Recursive
    <3>3. g[n - 1] \in Nat /\ g[(n - 1) + 1] = g[n]
      BY <1>2, <3>1 DEF Recursive
    <3> QED BY <2>2, <3>1, <3>2, <3>3
  <2> QED BY <2>1, <2>2
<1>4. P(g)
  BY <1>2, <1>3 DEF Recursive
<1>5. P(Pow10)
  <2>1. Pow10 = CHOOSE f : P(f)
    BY DEF Pow10
  <2> HIDE DEF P
  <2> QED BY <1>4, <2>1, Zenon
<1>6. \A k \in Nat : Pow10[k] = IF k = 0 THEN 1 ELSE 10 * Pow10[k - 1]
  BY <1>5, Zenon
<1> HIDE DEF P
<1> DEFINE S == {k \in Nat : Pow10[k] \in Nat /\ Pow10[k] > 0}
<1>7. 0 \in S
  BY <1>6
<1>8. ASSUME NEW k \in Nat PROVE Pow10[k + 1] = 10 * Pow10[k]
  BY <1>6, (k + 1) - 1 = k, k + 1 # 0
<1>9. \A k \in Nat : k \in S => k + 1 \in S
  BY <1>8
<1> HIDE DEF S
<1>10. \A k \in Nat : k \in S
  BY <1>7, <1>9, InductSet
<1> QED BY <1>6, <1>8, <1>10 DEF S

-----------------------------------------------------------------------------
(* Sequences.                                                              *)

(* The first n elements of a sequence.                                     *)
LEMMA TakeIs ==
  ASSUME NEW S, NEW s \in Seq(S), NEW n \in Nat
  PROVE  /\ Take(s, n) \in Seq(S)
         /\ Len(Take(s, n)) = IF n < Len(s) THEN n ELSE Len(s)
         /\ \A i \in 1..Len(Take(s, n)) : Take(s, n)[i] = s[i]
BY DEF Take

(* The elements after the first n.                                         *)
LEMMA DropIs ==
  ASSUME NEW S, NEW s \in Seq(S), NEW n \in Nat
  PROVE  /\ Drop(s, n) \in Seq(S)
         /\ Len(Drop(s, n)) = IF n < Len(s) THEN Len(s) - n ELSE 0
         /\ \A i \in 1..Len(Drop(s, n)) : Drop(s, n)[i] = s[n + i]
<1>1. CASE n < Len(s)
  BY <1>1 DEF Drop
<1>2. CASE ~(n < Len(s))
  <2>1. Drop(s, n) = << >>
    BY <1>2 DEF Drop
  <2> QED BY <1>2, <2>1
<1> QED BY <1>1, <1>2

(* A sequence given by its elements. *)
LEMMA Made ==
  ASSUME NEW S, NEW n \in Nat, NEW f, f = [i \in 1..n |-> f[i]], \A i \in 1..n : f[i] \in S
  PROVE  f \in Seq(S) /\ Len(f) = n
<1>1. f \in [1..n -> S]
  OBVIOUS
<1> QED BY <1>1

(* Sequences of one length with the same elements are equal.               *)
LEMMA SameSeq ==
  ASSUME NEW S, NEW s \in Seq(S), NEW T, NEW t \in Seq(T), Len(s) = Len(t),
         \A i \in 1..Len(s) : s[i] = t[i]
  PROVE  s = t
OBVIOUS

(* com_strdup keeps what is before the first NUL. *)
LEMMA StrdupIs ==
  ASSUME NEW S, NEW s \in Seq(S)
  PROVE  /\ com_strdup(s) \in Seq(S)
         /\ Len(com_strdup(s)) <= Len(s)
         /\ \A i \in 1..Len(com_strdup(s)) : com_strdup(s)[i] = s[i] /\ s[i] # NUL
         /\ Len(com_strdup(s)) < Len(s) => s[Len(com_strdup(s)) + 1] = NUL
<1> DEFINE ends == {i \in 1..Len(s) : s[i] = NUL}
           first == CHOOSE i \in ends : \A j \in ends : i <= j
<1>1. CASE ends = {}
  BY <1>1 DEF com_strdup
<1>2. CASE ends # {}
  <2>1. \E i \in ends : \A j \in ends : i <= j
    <3>1. ends \subseteq Nat
      OBVIOUS
    <3> HIDE DEF ends
    <3> QED BY <1>2, <3>1, LeastNat
  <2>2. first \in ends /\ \A j \in ends : first <= j
    BY <2>1
  <2>3. com_strdup(s) = Take(s, first - 1)
    BY <1>2 DEF com_strdup
  <2> HIDE DEF first
  <2>4. first - 1 \in Nat /\ first - 1 < Len(s) /\ s[first] = NUL
    BY <2>2
  <2>5. /\ Take(s, first - 1) \in Seq(S)
        /\ Len(Take(s, first - 1)) = first - 1
        /\ \A i \in 1..(first - 1) : Take(s, first - 1)[i] = s[i]
    BY <2>4, TakeIs
  <2>6. \A i \in 1..(first - 1) : s[i] # NUL
    BY <2>2
  <2>7. Len(com_strdup(s)) = first - 1 /\ (first - 1) + 1 = first
    BY <2>2, <2>3, <2>5
  <2> QED BY <2>3, <2>4, <2>5, <2>6, <2>7
<1> QED BY <1>1, <1>2

(* A text without NUL is kept whole. *)
LEMMA StrdupWhole ==
  ASSUME NEW S, NEW s \in Seq(S), \A i \in 1..Len(s) : s[i] # NUL
  PROVE  com_strdup(s) = s
<1>1. Len(com_strdup(s)) = Len(s)
  BY StrdupIs
<1> QED BY <1>1, StrdupIs, SameSeq

(* Where a text is cut at its point. *)
LEMMA Parts ==
  ASSUME NEW S, NEW s \in Seq(S)
  PROVE  /\ whole(s) \in Seq(S) /\ decimals(s) \in Seq(S)
         /\ \/ /\ \A i \in 1..Len(s) : s[i] # POINT
               /\ whole(s) = s /\ decimals(s) = << >>
            \/ /\ Len(s) = Len(whole(s)) + 1 + Len(decimals(s))
               /\ s[Len(whole(s)) + 1] = POINT
               /\ \A i \in 1..Len(whole(s)) : whole(s)[i] = s[i] /\ s[i] # POINT
               /\ \A i \in 1..Len(decimals(s)) :
                    decimals(s)[i] = s[Len(whole(s)) + 1 + i]
<1> DEFINE points == {i \in 1..Len(s) : s[i] = POINT}
           first == CHOOSE i \in points : \A j \in points : i <= j
<1>1. CASE points = {}
  <2>1. WholeLength(s) = Len(s)
    BY <1>1 DEF WholeLength
  <2>2. POINT \notin {s[i] : i \in 1..Len(s)}
    BY <1>1
  <2>3. whole(s) = Take(s, Len(s)) /\ decimals(s) = Drop(s, Len(s))
    BY <2>1, <2>2 DEF whole, decimals
  <2>4. Take(s, Len(s)) = s /\ Drop(s, Len(s)) = << >>
    BY DEF Take, Drop
  <2> QED BY <1>1, <2>3, <2>4
<1>2. CASE points # {}
  <2>1. \E i \in points : \A j \in points : i <= j
    <3>1. points \subseteq Nat
      OBVIOUS
    <3> HIDE DEF points
    <3> QED BY <1>2, <3>1, LeastNat
  <2>2. first \in points /\ \A j \in points : first <= j
    BY <2>1
  <2>3. WholeLength(s) = first
    BY <1>2 DEF WholeLength
  <2>4. POINT \in {s[i] : i \in 1..Len(s)}
    BY <1>2
  <2> HIDE DEF first
  <2>5. whole(s) = Take(s, first - 1) /\ decimals(s) = Drop(s, first)
    BY <2>3, <2>4 DEF whole, decimals
  <2>6. first - 1 \in Nat /\ first \in Nat /\ first <= Len(s) /\ s[first] = POINT
    BY <2>2
  <2>7. /\ Take(s, first - 1) \in Seq(S) /\ Len(Take(s, first - 1)) = first - 1
        /\ \A i \in 1..(first - 1) : Take(s, first - 1)[i] = s[i]
    BY <2>6, TakeIs
  <2>8. /\ Drop(s, first) \in Seq(S) /\ Len(Drop(s, first)) = Len(s) - first
        /\ \A i \in 1..(Len(s) - first) : Drop(s, first)[i] = s[first + i]
    <3>1. Len(Drop(s, first)) = IF first < Len(s) THEN Len(s) - first ELSE 0
      BY <2>6, DropIs
    <3>2. Len(Drop(s, first)) = Len(s) - first
      BY <2>6, <3>1
    <3> QED BY <2>6, <3>2, DropIs
  <2>9. \A i \in 1..(first - 1) : s[i] # POINT
    BY <2>2
  <2>10. Len(s) = (first - 1) + 1 + (Len(s) - first) /\ (first - 1) + 1 = first
    BY <2>6
  <2> HIDE DEF points
  <2> QED BY <2>5, <2>6, <2>7, <2>8, <2>9, <2>10
<1> QED BY <1>1, <1>2

-----------------------------------------------------------------------------
(* Numbers and their digits.                                               *)

(* Quotient and remainder by a positive number.                            *)
LEMMA Division ==
  ASSUME NEW a \in Nat, NEW p \in Nat, p > 0
  PROVE  /\ a \div p \in Nat
         /\ p * (a \div p) <= a /\ a < p * (a \div p) + p
         /\ a \div p <= a
         /\ a < p => a \div p = 0
<1>1. a \div p \in Nat /\ p * (a \div p) <= a /\ a < p * (a \div p) + p
  OBVIOUS
<1> DEFINE q == a \div p
<1>2. q \in Nat /\ p * q <= a
  BY <1>1
<1> HIDE DEF q
<1>3. q <= p * q
  BY <1>2
<1>4. a < p => q = 0
  BY <1>2
<1> QED BY <1>1, <1>2, <1>3, <1>4 DEF q

(* A quotient by p in terms of that by ten times p.                        *)
LEMMA DivisionByTen ==
  ASSUME NEW a \in Nat, NEW p \in Nat, p > 0
  PROVE  10 * (a \div (10 * p)) + ((a \div p) % 10) = a \div p
<1> DEFINE q == a \div p
           r == a \div (10 * p)
<1>1. q \in Nat /\ p * q <= a /\ a < p * q + p
  BY Division
<1>2. r \in Nat /\ (10 * p) * r <= a /\ a < (10 * p) * r + 10 * p
  BY Division, 10 * p \in Nat, 10 * p > 0
<1> HIDE DEF q, r
<1>3. 10 * r <= q
  <2> SUFFICES ASSUME q + 1 <= 10 * r PROVE FALSE
    BY <1>1, <1>2
  <2>1. p * (q + 1) <= p * (10 * r)
    BY <1>1, <1>2
  <2>2. p * (q + 1) = p * q + p /\ p * (10 * r) = (10 * p) * r
    BY <1>1, <1>2
  <2> QED BY <1>1, <1>2, <2>1, <2>2
<1>4. q < 10 * r + 10
  <2> SUFFICES ASSUME 10 * r + 10 <= q PROVE FALSE
    BY <1>1, <1>2
  <2>1. p * (10 * r + 10) <= p * q
    BY <1>1, <1>2
  <2>2. p * (10 * r + 10) = (10 * p) * r + 10 * p
    BY <1>1, <1>2
  <2> QED BY <1>1, <1>2, <2>1, <2>2
<1>5. q % 10 = q - 10 * r
  BY <1>1, <1>2, <1>3, <1>4
<1>6. 10 * r + (q % 10) = q
  BY <1>1, <1>2, <1>5
<1> QED BY <1>6 DEF q, r

(* A higher power of ten is no smaller.                                    *)
LEMMA Pow10Grows ==
  \A k \in Nat : \A n \in Nat : Pow10[k] <= Pow10[k + n]
<1> TAKE k \in Nat
<1> DEFINE S == {n \in Nat : Pow10[k] <= Pow10[k + n]}
<1>1. 0 \in S
  BY Pow10Def
<1>2. ASSUME NEW n \in Nat, n \in S PROVE n + 1 \in S
  <2>1. Pow10[(k + n) + 1] = 10 * Pow10[k + n] /\ Pow10[k + n] \in Nat /\ Pow10[k] \in Nat
    BY Pow10Def
  <2>2. Pow10[k] <= Pow10[k + n] /\ (k + n) + 1 = k + (n + 1)
    BY <1>2
  <2>3. Pow10[k] <= Pow10[k + (n + 1)]
    BY <2>1, <2>2
  <2> QED BY <2>3
<1> HIDE DEF S
<1>3. \A n \in Nat : n \in S
  BY <1>1, <1>2, InductSet
<1> QED BY <1>3 DEF S

(* Every number is less than some power of ten.                            *)
LEMMA Pow10Over ==
  ASSUME NEW s \in Nat
  PROVE  \A m \in Nat : m < Pow10[s + m]
<1> DEFINE S == {m \in Nat : m < Pow10[s + m]}
<1>1. 0 \in S
  BY Pow10Def
<1>2. ASSUME NEW m \in Nat, m \in S PROVE m + 1 \in S
  <2>1. Pow10[(s + m) + 1] = 10 * Pow10[s + m] /\ Pow10[s + m] \in Nat
    BY Pow10Def
  <2>2. m < Pow10[s + m] /\ (s + m) + 1 = s + (m + 1)
    BY <1>2
  <2>3. m + 1 < Pow10[s + (m + 1)]
    BY <2>1, <2>2
  <2> QED BY <2>3
<1> HIDE DEF S
<1>3. \A m \in Nat : m \in S
  BY <1>1, <1>2, InductSet
<1> QED BY <1>3 DEF S

(* Every number has a number of digits that it takes.                      *)
LEMMA FiguresIs ==
  ASSUME NEW m \in Nat, NEW s \in Nat
  PROVE  /\ Figures(m, s) \in Nat /\ Figures(m, s) >= s + 1
         /\ m < Pow10[Figures(m, s)]
<1> DEFINE P(k) == m < Pow10[k] /\ (k = s + 1 \/ m >= Pow10[k - 1])
           T == {k \in Nat : k >= s + 1 /\ m < Pow10[k]}
<1>1. (s + 1) + m \in T
  <2>1. s + 1 \in Nat
    OBVIOUS
  <2>2. m < Pow10[(s + 1) + m]
    BY <2>1, Pow10Over
  <2> QED BY <2>1, <2>2
<1>2. PICK n \in T : \A k \in T : n <= k
  <2>1. T \subseteq Nat /\ T # {}
    BY <1>1
  <2> HIDE DEF T
  <2> QED BY <2>1, LeastNat
<1>3. n \in (s + 1)..(s + 1 + m)
  BY <1>1, <1>2
<1>4. P(n)
  <2> SUFFICES ASSUME n # s + 1 PROVE m >= Pow10[n - 1]
    BY <1>2
  <2>1. n - 1 \in Nat /\ n - 1 >= s + 1 /\ ~(n <= n - 1)
    BY <1>3
  <2>2. n - 1 \notin T
    BY <1>2, <2>1
  <2>3. Pow10[n - 1] \in Nat
    BY <2>1, Pow10Def
  <2> QED BY <2>1, <2>2, <2>3
<1> HIDE DEF P
<1>5. \E k \in (s + 1)..(s + 1 + m) : P(k)
  BY <1>3, <1>4
<1>6. Figures(m, s) = CHOOSE k \in (s + 1)..(s + 1 + m) : P(k)
  BY DEF Figures, P
<1>7. Figures(m, s) \in (s + 1)..(s + 1 + m) /\ P(Figures(m, s))
  BY <1>5, <1>6, Zenon
<1> QED BY <1>7 DEF P

(* A numeral is a sequence of decimal digits.                              *)
LEMMA NumeralIs ==
  ASSUME NEW m \in Nat, NEW n \in Nat
  PROVE  /\ Numeral(m, n) \in Seq(48..57) /\ Len(Numeral(m, n)) = n
         /\ \A i \in 1..n : Numeral(m, n)[i] = 48 + ((m \div Pow10[n - i]) % 10)
<1>1. ASSUME NEW i \in 1..n PROVE 48 + ((m \div Pow10[n - i]) % 10) \in 48..57
  <2>1. n - i \in Nat
    OBVIOUS
  <2>2. Pow10[n - i] \in Nat /\ Pow10[n - i] > 0
    BY <2>1, Pow10Def
  <2>3. m \div Pow10[n - i] \in Nat
    BY <2>2, Division
  <2>4. \A x \in Nat : 48 + (x % 10) \in 48..57
    OBVIOUS
  <2> QED BY <2>3, <2>4, Zenon
<1>2. Numeral(m, n) = [i \in 1..n |-> 48 + ((m \div Pow10[n - i]) % 10)]
  BY Zenon DEF Numeral, Digit
<1> DEFINE f == [i \in 1..n |-> 48 + ((m \div Pow10[n - i]) % 10)]
<1>3. f = [i \in 1..n |-> f[i]] /\ \A i \in 1..n : f[i] \in 48..57
  BY <1>1
<1>4. \A i \in 1..n : f[i] = 48 + ((m \div Pow10[n - i]) % 10)
  OBVIOUS
<1> HIDE DEF f
<1>5. f \in Seq(48..57) /\ Len(f) = n
  BY <1>3, Made
<1> QED BY <1>2, <1>4, <1>5 DEF f

(* The number that a sequence of digits is, as a function of its prefixes.  *)
LEMMA NumberIs ==
  ASSUME NEW d \in Seq(48..57)
  PROVE  \E sum \in [0..Len(d) -> Nat] :
           /\ sum[0] = 0
           /\ \A i \in 1..Len(d) : sum[i] = 10 * sum[i - 1] + (d[i] - 48)
           /\ NumberOf(d) = sum[Len(d)]
<1> DEFINE digit(i) == IF i \in 1..Len(d) THEN d[i] - 48 ELSE 0
           step == [p \in Nat \X Nat |-> 10 * p[2] + digit(p[1])]
           P(f) == f = [i \in 0..Len(d) |->
                          IF i = 0 THEN 0 ELSE 10 * f[i - 1] + (d[i] - 48)]
<1>1. \A i \in Nat : digit(i) \in Nat
  OBVIOUS
<1> HIDE DEF digit
<1>2. step \in [Nat \X Nat -> Nat] /\ \A i \in Nat, v \in Nat : step[<<i, v>>] = 10 * v + digit(i)
  <2>1. ASSUME NEW p \in Nat \X Nat PROVE 10 * p[2] + digit(p[1]) \in Nat
    <3>1. p[1] \in Nat /\ p[2] \in Nat
      OBVIOUS
    <3>2. digit(p[1]) \in Nat
      BY <1>1, <3>1
    <3> QED BY <3>1, <3>2
  <2>2. step \in [Nat \X Nat -> Nat]
    BY <2>1
  <2>3. ASSUME NEW i \in Nat, NEW v \in Nat PROVE step[<<i, v>>] = 10 * v + digit(i)
    <3>1. <<i, v>> \in Nat \X Nat /\ <<i, v>>[1] = i /\ <<i, v>>[2] = v
      OBVIOUS
    <3> QED BY <3>1
  <2> QED BY <2>2, <2>3
<1> HIDE DEF step
<1>3. PICK g : Recursive(Nat, 0, step, g)
  BY <1>2, 0 \in Nat, Recursion
<1>4. g \in [Nat -> Nat] /\ g[0] = 0 /\ \A n \in Nat : g[n + 1] = 10 * g[n] + digit(n + 1)
  <2>1. /\ g \in [Nat -> Nat] /\ g[0] = 0
        /\ \A n \in Nat : g[n + 1] = step[<<n + 1, g[n]>>]
    BY <1>3, Zenon DEF Recursive
  <2>2. ASSUME NEW n \in Nat PROVE g[n + 1] = 10 * g[n] + digit(n + 1)
    <3>1. n + 1 \in Nat /\ g[n] \in Nat
      BY <2>1
    <3>2. step[<<n + 1, g[n]>>] = 10 * g[n] + digit(n + 1)
      BY <1>2, <3>1
    <3> QED BY <2>1, <3>2
  <2> QED BY <2>1, <2>2
<1> DEFINE h == [i \in 0..Len(d) |-> g[i]]
<1>5. ASSUME NEW i \in 1..Len(d) PROVE h[i] = 10 * h[i - 1] + (d[i] - 48)
  <2>1. i - 1 \in Nat /\ (i - 1) + 1 = i /\ i - 1 \in 0..Len(d) /\ i \in 0..Len(d)
    OBVIOUS
  <2>2. g[(i - 1) + 1] = 10 * g[i - 1] + digit((i - 1) + 1)
    BY <1>4, <2>1
  <2>3. digit(i) = d[i] - 48
    BY DEF digit
  <2> QED BY <2>1, <2>2, <2>3
<1>6. h \in [0..Len(d) -> Nat] /\ h[0] = 0
  <2>1. 0 \in 0..Len(d) /\ \A i \in 0..Len(d) : i \in Nat
    OBVIOUS
  <2> QED BY <1>4, <2>1
<1>7. P(h)
  <2> HIDE DEF h
  <2>1. ASSUME NEW i \in 0..Len(d)
        PROVE  h[i] = IF i = 0 THEN 0 ELSE 10 * h[i - 1] + (d[i] - 48)
    BY <1>5, <1>6
  <2> QED BY <1>6, <2>1
<1> DEFINE sum == CHOOSE f : P(f)
<1>8. P(sum)
  <2> HIDE DEF P, h
  <2> QED BY <1>7, Zenon
<1>9. NumberOf(d) = sum[Len(d)]
  BY Zenon DEF NumberOf
<1> HIDE DEF sum, h
<1>10. \A i \in 0..Len(d) : sum[i] = IF i = 0 THEN 0 ELSE 10 * sum[i - 1] + (d[i] - 48)
  BY <1>8
<1> DEFINE S == {i \in Nat : i <= Len(d) => sum[i] \in Nat}
<1>11. 0 \in S
  BY <1>10
<1>12. ASSUME NEW i \in Nat, i \in S PROVE i + 1 \in S
  <2> SUFFICES ASSUME i + 1 <= Len(d) PROVE sum[i + 1] \in Nat
    OBVIOUS
  <2>1. sum[i] \in Nat /\ i + 1 \in 1..Len(d) /\ (i + 1) - 1 = i /\ i + 1 # 0
    BY <1>12
  <2>2. d[i + 1] - 48 \in Nat
    <3>1. d[i + 1] \in 48..57
      BY <2>1
    <3> QED BY <3>1
  <2>3. sum[i + 1] = 10 * sum[i] + (d[i + 1] - 48)
    BY <1>10, <2>1
  <2> QED BY <2>1, <2>2, <2>3
<1> HIDE DEF S
<1>13. \A i \in Nat : i \in S
  BY <1>11, <1>12, InductSet
<1>14. sum \in [0..Len(d) -> Nat]
  <2>1. \A i \in 0..Len(d) : sum[i] \in Nat
    BY <1>13 DEF S
  <2>2. sum = [i \in 0..Len(d) |-> sum[i]]
    BY <1>8
  <2> QED BY <2>1, <2>2
<1>15. \A i \in 1..Len(d) : sum[i] = 10 * sum[i - 1] + (d[i] - 48)
  BY <1>10
<1> QED BY <1>9, <1>10, <1>14, <1>15

(* The number that digits are is a natural number.                         *)
LEMMA NumberType ==
  ASSUME NEW d \in Seq(48..57)
  PROVE  NumberOf(d) \in Nat
BY NumberIs

(* The number that the last n digits of m are, where m has no more. *)
LEMMA NumberOfNumeral ==
  ASSUME NEW m \in Nat, NEW n \in Nat, m < Pow10[n]
  PROVE  NumberOf(Numeral(m, n)) = m
<1> DEFINE d == Numeral(m, n)
<1>1. /\ d \in Seq(48..57) /\ Len(d) = n
      /\ \A i \in 1..n : d[i] = 48 + ((m \div Pow10[n - i]) % 10)
  BY NumeralIs
<1> HIDE DEF d
<1>2. PICK sum \in [0..n -> Nat] :
        /\ sum[0] = 0
        /\ \A i \in 1..n : sum[i] = 10 * sum[i - 1] + (d[i] - 48)
        /\ NumberOf(d) = sum[n]
  BY <1>1, NumberIs
<1> DEFINE S == {i \in Nat : i <= n => sum[i] = m \div Pow10[n - i]}
<1>3. 0 \in S
  <2>1. Pow10[n] \in Nat /\ Pow10[n] > 0
    BY Pow10Def
  <2>2. m \div Pow10[n] = 0
    BY <2>1, Division
  <2> QED BY <1>2, <2>2
<1>4. ASSUME NEW i \in Nat, i \in S PROVE i + 1 \in S
  <2> SUFFICES ASSUME i + 1 <= n PROVE sum[i + 1] = m \div Pow10[n - (i + 1)]
    OBVIOUS
  <2> DEFINE k == n - (i + 1)
  <2>1. k \in Nat /\ n - i = k + 1 /\ i + 1 \in 1..n /\ (i + 1) - 1 = i
    OBVIOUS
  <2> HIDE DEF k
  <2>2. sum[i] = m \div Pow10[k + 1]
    BY <1>4, <2>1
  <2>3. Pow10[k + 1] = 10 * Pow10[k] /\ Pow10[k] \in Nat /\ Pow10[k] > 0
    BY <2>1, Pow10Def
  <2>4. sum[i + 1] = 10 * sum[i] + (d[i + 1] - 48)
    BY <1>2, <2>1
  <2>5. d[i + 1] = 48 + ((m \div Pow10[k]) % 10)
    BY <1>1, <2>1 DEF k
  <2>6. 10 * (m \div (10 * Pow10[k])) + ((m \div Pow10[k]) % 10) = m \div Pow10[k]
    BY <2>3, DivisionByTen
  <2>7. m \div Pow10[k] \in Nat
    BY <2>3, Division
  <2>8. sum[i + 1] = m \div Pow10[k]
    <3>1. \A x \in Nat : (48 + (x % 10)) - 48 = x % 10 /\ x % 10 \in Nat
      OBVIOUS
    <3>2. d[i + 1] - 48 = (m \div Pow10[k]) % 10
      BY <2>5, <2>7, <3>1
    <3>3. sum[i] = m \div (10 * Pow10[k])
      BY <2>2, <2>3
    <3> QED BY <2>4, <2>6, <3>2, <3>3
  <2> QED BY <2>8 DEF k
<1> HIDE DEF S
<1>5. n \in S
  BY <1>3, <1>4, InductSet
<1>6. m \div Pow10[0] = m
  BY Pow10Def
<1> QED BY <1>2, <1>5, <1>6 DEF S, d

-----------------------------------------------------------------------------
(* Texts of numbers.                                                       *)

Figure == 48..57

(* A sequence over a set is one over a larger set.                         *)
LEMMA SeqGrows ==
  ASSUME NEW S, NEW T, S \subseteq T, NEW s \in Seq(S)
  PROVE  s \in Seq(T)
<1>1. Len(s) \in Nat /\ s = [i \in 1..Len(s) |-> s[i]] /\ \A i \in 1..Len(s) : s[i] \in T
  OBVIOUS
<1> QED BY <1>1, Made

(* Concatenation is associative.                                           *)
LEMMA Associative ==
  ASSUME NEW S, NEW a \in Seq(S), NEW b \in Seq(S), NEW c \in Seq(S), NEW d \in Seq(S)
  PROVE  (a \o b) \o c \o d = a \o (b \o c \o d)
<1> DEFINE x == (a \o b) \o c \o d
           y == a \o (b \o c \o d)
<1>1. x \in Seq(S) /\ Len(x) = Len(a) + Len(b) + Len(c) + Len(d)
  OBVIOUS
<1>2. y \in Seq(S) /\ Len(y) = Len(a) + Len(b) + Len(c) + Len(d)
  OBVIOUS
<1>3. ASSUME NEW i \in 1..Len(x) PROVE x[i] = y[i]
  <2>1. CASE i <= Len(a)
    BY <1>1, <2>1
  <2>2. CASE i > Len(a) /\ i <= Len(a) + Len(b)
    BY <1>1, <2>2
  <2>3. CASE i > Len(a) + Len(b) /\ i <= Len(a) + Len(b) + Len(c)
    BY <1>1, <2>3
  <2>4. CASE i > Len(a) + Len(b) + Len(c)
    BY <1>1, <2>4
  <2> QED BY <1>1, <2>1, <2>2, <2>3, <2>4
<1> HIDE DEF x, y
<1>4. x = y
  BY <1>1, <1>2, <1>3, SameSeq
<1> QED BY <1>4 DEF x, y

(* The digits D with a point before the last s. *)
Cut(D, s) ==
  IF s = 0 THEN D ELSE Take(D, Len(D) - s) \o <<POINT>> \o Drop(D, Len(D) - s)

(* What whole and decimals make of the text b of the digits D. *)
PartsOf(b, D, s) ==
  /\ whole(b) \in Seq(Figure) /\ Len(whole(b)) = Len(D) - s
  /\ decimals(b) \in Seq(Figure) /\ Len(decimals(b)) = s
  /\ \A i \in 1..(Len(D) - s) : whole(b)[i] = D[i]
  /\ \A i \in 1..s : decimals(b)[i] = D[(Len(D) - s) + i]

(* A text with a point after its first w digits.                           *)
LEMMA CutIs ==
  ASSUME NEW D \in Seq(Figure), NEW s \in 0..Len(D)
  PROVE  /\ Cut(D, s) \in Seq({POINT} \cup Figure)
         /\ s < Len(D) => Len(Cut(D, s)) > 0 /\ Cut(D, s)[1] = D[1]
         /\ PartsOf(Cut(D, s), D, s)
<1>1. CASE s = 0
  <2>1. Cut(D, s) = D
    BY <1>1 DEF Cut
  <2>2. \A i \in 1..Len(D) : D[i] # POINT
    BY DEF Figure, POINT
  <2>3. whole(D) = D /\ decimals(D) = << >>
    BY <2>2, Parts
  <2>4. D \in Seq({POINT} \cup Figure)
    OBVIOUS
  <2>5. Len(D) - 0 = Len(D) /\ << >> \in Seq(Figure) /\ Len(<< >>) = 0
    OBVIOUS
  <2>6. PartsOf(D, D, 0)
    BY <2>3, <2>5 DEF PartsOf
  <2> QED BY <1>1, <2>1, <2>4, <2>6
<1>2. CASE s # 0
  <2> DEFINE a == Take(D, Len(D) - s)
             c == Drop(D, Len(D) - s)
             b == a \o <<POINT>> \o c
             S == {POINT} \cup Figure
  <2>1. Len(D) - s \in Nat /\ Len(D) - s < Len(D) /\ Len(D) - (Len(D) - s) = s
    BY <1>2
  <2>2. a \in Seq(Figure) /\ Len(a) = Len(D) - s /\ \A i \in 1..(Len(D) - s) : a[i] = D[i]
    BY <2>1, TakeIs
  <2>3. c \in Seq(Figure) /\ Len(c) = s /\ \A i \in 1..s : c[i] = D[(Len(D) - s) + i]
    BY <2>1, DropIs
  <2>4. Cut(D, s) = b
    BY <1>2 DEF Cut
  <2> HIDE DEF a, c
  <2>5. a \in Seq(S) /\ c \in Seq(S) /\ <<POINT>> \in Seq(S) /\ Figure \subseteq S /\ POINT \notin Figure
    BY <2>2, <2>3 DEF POINT, Figure
  <2> HIDE DEF S
  <2>6. b \in Seq(S) /\ Len(b) = Len(a) + 1 + Len(c)
    BY <2>5
  <2>7. /\ \A i \in 1..Len(a) : b[i] = a[i]
        /\ b[Len(a) + 1] = POINT
        /\ \A i \in 1..Len(c) : b[Len(a) + 1 + i] = c[i]
    BY <2>5
  <2> HIDE DEF b
  <2>8. \A i \in 1..Len(a) : b[i] # POINT
    BY <2>2, <2>5, <2>7
  <2>9. Len(whole(b)) = Len(a) /\ Len(decimals(b)) = Len(c)
        /\ whole(b) \in Seq(S) /\ decimals(b) \in Seq(S)
        /\ (\A i \in 1..Len(a) : whole(b)[i] = b[i])
        /\ (\A i \in 1..Len(c) : decimals(b)[i] = b[Len(a) + 1 + i])
    <3>1. whole(b) \in Seq(S) /\ decimals(b) \in Seq(S)
      BY <2>6, Parts
    <3>2. Len(a) + 1 \in 1..Len(b)
      BY <2>2, <2>3, <2>6
    <3>3. /\ Len(b) = Len(whole(b)) + 1 + Len(decimals(b))
          /\ b[Len(whole(b)) + 1] = POINT
          /\ \A i \in 1..Len(whole(b)) : whole(b)[i] = b[i] /\ b[i] # POINT
          /\ \A i \in 1..Len(decimals(b)) : decimals(b)[i] = b[Len(whole(b)) + 1 + i]
      <4>1. ~(\A i \in 1..Len(b) : b[i] # POINT)
        BY <2>7, <3>2
      <4> QED BY <2>6, <4>1, Parts
    <3>4. ~(Len(whole(b)) >= Len(a) + 1)
      <4> SUFFICES ASSUME Len(whole(b)) >= Len(a) + 1 PROVE FALSE
        OBVIOUS
      <4>1. Len(a) + 1 \in 1..Len(whole(b))
        BY <2>2, <3>1
      <4>2. b[Len(a) + 1] # POINT
        BY <3>3, <4>1
      <4> QED BY <2>7, <4>2
    <3>5. ~(Len(whole(b)) + 1 <= Len(a))
      BY <2>2, <2>8, <3>1, <3>3
    <3>6. Len(whole(b)) = Len(a)
      BY <2>2, <3>1, <3>4, <3>5
    <3>7. Len(decimals(b)) = Len(c)
      BY <2>2, <2>3, <2>6, <3>1, <3>3, <3>6
    <3> QED BY <3>1, <3>3, <3>6, <3>7
  <2>10. whole(b) = a /\ decimals(b) = c
    BY <2>2, <2>3, <2>7, <2>9, SameSeq
  <2>11. s < Len(D) => Len(b) > 0 /\ b[1] = D[1]
    BY <2>2, <2>3, <2>6, <2>7
  <2> QED BY <2>2, <2>3, <2>4, <2>6, <2>10, <2>11 DEF PartsOf, S
<1> QED BY <1>1, <1>2

(* Where insert_decimal_point puts the point.                              *)
LEMMA InsertIs ==
  ASSUME NEW D \in Seq(Figure), NEW s \in 0..Len(D), s < Len(D)
  PROVE  insert_decimal_point(D, -s) = Cut(D, s)
<1>1. -s >= 0 <=> s = 0
  OBVIOUS
<1>2. -(-s) = s /\ Len(D) + (-s) = Len(D) - s /\ ~(s >= Len(D))
  OBVIOUS
<1> QED BY <1>1, <1>2 DEF insert_decimal_point, Cut

(* A sign before the digits stays before them.                             *)
LEMMA InsertSigned ==
  ASSUME NEW D \in Seq(Figure), NEW s \in 0..Len(D), NEW c \in 0..255
  PROVE  insert_decimal_point(<<c>> \o D, -s) = <<c>> \o Cut(D, s)
<1> DEFINE t == <<c>> \o D
<1>1. t \in Seq(0..255) /\ Len(t) = Len(D) + 1
      /\ (\A i \in 1..Len(D) : t[i + 1] = D[i]) /\ t[1] = c
  <2>1. D \in Seq(0..255)
    <3>1. Figure \subseteq 0..255
      BY DEF Figure
    <3> QED BY <3>1, SeqGrows, ZenonT(40)
  <2>2. <<c>> \in Seq(0..255) /\ Len(<<c>>) = 1 /\ <<c>>[1] = c
    OBVIOUS
  <2> QED BY <2>1, <2>2
<1>2. CASE s = 0
  BY <1>2 DEF insert_decimal_point, Cut
<1>3. CASE s # 0
  <2> DEFINE a == Take(D, Len(D) - s)
             b == Drop(D, Len(D) - s)
             k == (Len(D) - s) + 1
  <2>1. ~(-s >= 0) /\ -(-s) = s /\ ~(s >= Len(t)) /\ Len(t) + (-s) = k
    BY <1>1, <1>3
  <2>2. insert_decimal_point(t, -s) = Take(t, k) \o <<POINT>> \o Drop(t, k)
    BY <2>1, Zenon DEF insert_decimal_point
  <2>3. Len(D) - s \in Nat /\ Len(D) - s < Len(D) /\ Len(D) - (Len(D) - s) = s
    BY <1>3
  <2>4. a \in Seq(Figure) /\ Len(a) = Len(D) - s /\ \A i \in 1..(Len(D) - s) : a[i] = D[i]
    BY <2>3, TakeIs
  <2>5. b \in Seq(Figure) /\ Len(b) = s /\ \A i \in 1..s : b[i] = D[(Len(D) - s) + i]
    BY <2>3, DropIs
  <2>6. k \in Nat /\ k < Len(t) /\ Len(t) - k = s /\ k = (Len(D) - s) + 1
    BY <1>1, <1>3
  <2> HIDE DEF t, k
  <2>7. Take(t, k) \in Seq(0..255) /\ Len(Take(t, k)) = k /\ \A i \in 1..k : Take(t, k)[i] = t[i]
    BY <1>1, <2>6, TakeIs
  <2>8. Drop(t, k) \in Seq(0..255) /\ Len(Drop(t, k)) = s
        /\ \A i \in 1..s : Drop(t, k)[i] = t[k + i]
    BY <1>1, <2>6, DropIs
  <2> HIDE DEF a, b
  <2>9. Take(t, k) = <<c>> \o a
    <3>0. a \in Seq(0..255)
      BY <2>4, SeqGrows DEF Figure
    <3>1. <<c>> \o a \in Seq(0..255) /\ Len(<<c>> \o a) = k
      <4>1. <<c>> \in Seq(0..255) /\ Len(<<c>>) = 1
        OBVIOUS
      <4>2. <<c>> \o a \in Seq(0..255) /\ Len(<<c>> \o a) = Len(<<c>>) + Len(a)
        BY <3>0, <4>1
      <4>3. Len(a) = Len(D) - s /\ 1 + (Len(D) - s) = (Len(D) - s) + 1
        BY <2>3, <2>4
      <4> QED BY <2>6, <4>1, <4>2, <4>3
    <3>2. (<<c>> \o a)[1] = c /\ \A i \in 1..Len(a) : (<<c>> \o a)[i + 1] = a[i]
      BY <2>4
    <3>3. ASSUME NEW i \in 1..k PROVE Take(t, k)[i] = (<<c>> \o a)[i]
      <4>1. CASE i = 1
        BY <1>1, <2>7, <3>2, <4>1
      <4>2. CASE i # 1
        <5>1. i - 1 \in 1..Len(a) /\ (i - 1) + 1 = i /\ i - 1 \in 1..(Len(D) - s) /\ i - 1 \in 1..Len(D)
          BY <2>3, <2>4, <2>6, <4>2
        <5>2. (<<c>> \o a)[(i - 1) + 1] = a[i - 1] /\ a[i - 1] = D[i - 1] /\ t[(i - 1) + 1] = D[i - 1]
          BY <1>1, <2>4, <3>2, <5>1
        <5> QED BY <2>7, <5>1, <5>2
      <4> QED BY <4>1, <4>2
    <3>4. \A i \in 1..Len(Take(t, k)) : Take(t, k)[i] = (<<c>> \o a)[i]
      BY <2>7, <3>3
    <3>5. Len(Take(t, k)) = Len(<<c>> \o a)
      BY <2>7, <3>1
    <3> QED BY <2>7, <3>1, <3>4, <3>5, SameSeq
  <2>10. Drop(t, k) = b
    <3>1. ASSUME NEW i \in 1..s PROVE Drop(t, k)[i] = b[i]
      <4>1. (Len(D) - s) + i \in 1..Len(D) /\ k + i = ((Len(D) - s) + i) + 1
        BY <2>3, <2>6
      <4>2. t[((Len(D) - s) + i) + 1] = D[(Len(D) - s) + i]
        BY <1>1, <4>1
      <4> QED BY <2>5, <2>8, <4>1, <4>2
    <3> QED BY <2>5, <2>8, <3>1, SameSeq
  <2>11. Cut(D, s) = a \o <<POINT>> \o b
    BY <1>3 DEF Cut, a, b
  <2>12. (<<c>> \o a) \o <<POINT>> \o b = <<c>> \o (a \o <<POINT>> \o b)
    <3>1. a \in Seq(0..255) /\ b \in Seq(0..255)
      BY <2>4, <2>5, SeqGrows DEF Figure
    <3>2. <<c>> \in Seq(0..255) /\ <<POINT>> \in Seq(0..255)
      BY DEF POINT
    <3> QED BY <3>1, <3>2, Associative, SMTT(30)
  <2> QED BY <2>2, <2>9, <2>10, <2>11, <2>12 DEF t
<1> QED BY <1>2, <1>3

(* The text of a number without its sign: its digits, cut by the point. *)
Body(v, s) == Cut(Numeral(Magnitude(v), Figures(Magnitude(v), s)), s)

(* The text of a number: a sign, digits, and a point where there are       *)
(* decimals.                                                               *)
LEMMA RenderIs ==
  ASSUME NEW v \in Int, NEW s \in Nat
  PROVE  /\ Render(v, s) = IF v < 0 THEN <<MINUS>> \o Body(v, s) ELSE Body(v, s)
         /\ Body(v, s) \in Seq({POINT} \cup Figure) /\ Len(Body(v, s)) > 0
         /\ Body(v, s)[1] \in Figure
         /\ PartsOf(Body(v, s), Numeral(Magnitude(v), Figures(Magnitude(v), s)), s)
<1> DEFINE m == Magnitude(v)
           n == Figures(m, s)
           D == Numeral(m, n)
<1>1. m \in Nat
  BY DEF Magnitude
<1>2. n \in Nat /\ n >= s + 1
  BY <1>1, FiguresIs
<1>3. D \in Seq(Figure) /\ Len(D) = n
  BY <1>1, <1>2, NumeralIs DEF Figure
<1>4. Body(v, s) = Cut(D, s)
  BY DEF Body
<1>5. Render(v, s) = (IF v < 0 THEN <<MINUS>> ELSE << >>) \o insert_decimal_point(D, -s)
  BY DEF Render
<1> HIDE DEF D, n, m
<1>6. s \in 0..Len(D) /\ s < Len(D)
  BY <1>2, <1>3
<1>7. insert_decimal_point(D, -s) = Cut(D, s)
  BY <1>3, <1>6, InsertIs
<1>8. /\ Cut(D, s) \in Seq({POINT} \cup Figure)
      /\ Len(Cut(D, s)) > 0 /\ Cut(D, s)[1] = D[1]
      /\ PartsOf(Cut(D, s), D, s)
  BY <1>3, <1>6, CutIs
<1>9. D[1] \in Figure
  BY <1>3, <1>6
<1>10. << >> \o Cut(D, s) = Cut(D, s)
  BY <1>8
<1> QED BY <1>4, <1>5, <1>7, <1>8, <1>9, <1>10 DEF D, n, m

(* A sign before a text is found and taken off. *)
LEMMA SignIs ==
  ASSUME NEW b \in Seq({POINT} \cup Figure), NEW c \in {PLUS, MINUS}
  PROVE  /\ (<<c>> \o b)[1] = c /\ Tail(<<c>> \o b) = b /\ Len(<<c>> \o b) = Len(b) + 1
         /\ Unsigned(<<c>> \o b) = b
         /\ Negative(<<c>> \o b) <=> c = MINUS
<1>1. <<c>> \o b \in Seq({PLUS, MINUS, POINT} \cup Figure) /\ Len(<<c>> \o b) = Len(b) + 1
  BY DEF Figure
<1>2. (<<c>> \o b)[1] = c /\ <<c>> \o b # << >>
  BY <1>1
<1>3. Tail(<<c>> \o b) = b
  <2>1. Tail(<<c>> \o b) \in Seq({PLUS, MINUS, POINT} \cup Figure)
        /\ Len(Tail(<<c>> \o b)) = Len(b)
    BY <1>1, <1>2
  <2>2. \A i \in 1..Len(b) : Tail(<<c>> \o b)[i] = b[i]
    BY <1>1, <1>2
  <2> QED BY <2>1, <2>2, SameSeq
<1> QED BY <1>1, <1>2, <1>3 DEF Unsigned, Negative, PLUS, MINUS

(* The text of a number without its sign.                                  *)
LEMMA NoSignIs ==
  ASSUME NEW b \in Seq({POINT} \cup Figure)
  PROVE  Unsigned(b) = b /\ ~Negative(b)
<1>1. b # << >> => b[1] \in {POINT} \cup Figure
  OBVIOUS
<1> QED BY <1>1 DEF Unsigned, Negative, PLUS, MINUS, POINT, Figure

-----------------------------------------------------------------------------
(* From text to storage.                                                   *)

(* The texts that a column of the item's type may hold. *)
Texts(it) ==
  IF Numeric(it) THEN {<< >>} \cup {Render(v, -it.power) :
                                      v \in {x \in Int : x < 0 => Signed(it)}}
  ELSE Seq(1..255)

(* How many decimals a text has: a NULL has none. *)
Scale(it, t) == IF t = << >> THEN 0 ELSE -it.power

(* The bound on lengths, kept unexpanded elsewhere.                        *)
LEMMA MaxLength == MAX_LENGTH \in Nat
BY SMT DEF MAX_LENGTH

(* The fields of an item.                                                  *)
LEMMA ItemIs ==
  ASSUME NEW it \in Item
  PROVE  /\ it.type \in Types /\ it.length \in Nat /\ it.length >= 1
         /\ it.length <= MAX_LENGTH
         /\ it.power \in Int /\ -it.power \in 0..it.length
<1>1. it \in [type : Types, length : 1..MAX_LENGTH, power : Int] /\ -it.power \in 0..it.length
  BY DEF Item
<1>2. it.type \in Types /\ it.length \in 1..MAX_LENGTH /\ it.power \in Int
  BY <1>1
<1> QED BY <1>1, <1>2, MaxLength

(* The digits and decimals of a text of a number.                          *)
LEMMA TextIs ==
  ASSUME NEW it \in Item, Numeric(it), NEW t \in Texts(it)
  PROVE  /\ t \in Seq(0..255)
         /\ \E D \in Seq(Figure) :
              /\ Scale(it, t) \in 0..Len(D)
              /\ PartsOf(Bare(it, t), D, Scale(it, t))
              /\ Digits(t) = D
              /\ t = << >> => D = << >>
<1> DEFINE s == -it.power
<1>1. s \in Nat
  BY ItemIs
<1> HIDE DEF s
<1>2. CASE t = << >>
  <2>1. Bare(it, << >>) = << >> /\ Unsigned(<< >>) = << >>
    BY DEF Bare, Negative, Unsigned
  <2>2. << >> \in Seq(Figure) /\ Len(<< >>) = 0
    OBVIOUS
  <2>3. whole(<< >>) = << >> /\ decimals(<< >>) = << >>
    <3> DEFINE w == whole(<< >>)
               d == decimals(<< >>)
    <3>1. w \in Seq(Figure) /\ d \in Seq(Figure)
          /\ ((w = << >> /\ d = << >>) \/ Len(<< >>) = Len(w) + 1 + Len(d))
      BY <2>2, Parts
    <3> HIDE DEF w, d
    <3>2. Len(w) \in Nat /\ Len(d) \in Nat
      BY <3>1
    <3>3. w = << >> /\ d = << >>
      BY <2>2, <3>1, <3>2
    <3> QED BY <3>3 DEF w, d
  <2>4. PartsOf(<< >>, << >>, 0)
    <3>1. Len(<< >>) - 0 = 0 /\ 1..0 = {}
      BY <2>2
    <3> QED BY <2>2, <2>3, <3>1 DEF PartsOf
  <2>5. Digits(<< >>) = << >>
    BY <2>1, <2>2, <2>3 DEF Digits
  <2>6. t \in Seq(0..255)
    BY <1>2
  <2>7. /\ Scale(it, t) = 0 /\ 0 \in 0..Len(<< >>) /\ Bare(it, t) = << >> /\ Digits(t) = << >>
    BY <1>2, <2>1, <2>2, <2>5 DEF Scale
  <2> QED BY <2>2, <2>4, <2>6, <2>7
<1>3. CASE t # << >>
  <2>1. PICK v \in Int : t = Render(v, s) /\ (v < 0 => Signed(it))
    BY <1>3 DEF Texts, s
  <2> DEFINE m == Magnitude(v)
             D == Numeral(m, Figures(m, s))
             b == Body(v, s)
  <2>2. /\ t = IF v < 0 THEN <<MINUS>> \o b ELSE b
        /\ b \in Seq({POINT} \cup Figure) /\ Len(b) > 0 /\ PartsOf(b, D, s)
    BY <1>1, <2>1, RenderIs
  <2>3. m \in Nat
    BY DEF Magnitude
  <2>4. Figures(m, s) \in Nat /\ Figures(m, s) >= s + 1
    BY <1>1, <2>3, FiguresIs
  <2>5. D \in Seq(Figure) /\ Len(D) = Figures(m, s)
    BY <2>3, <2>4, NumeralIs DEF Figure
  <2> HIDE DEF D, m, b
  <2>6. Bare(it, t) = b /\ Unsigned(t) = b
    <3>1. CASE v < 0
      <4>1. Unsigned(t) = b /\ Negative(t) /\ Tail(t) = b
        BY <2>2, <3>1, SignIs
      <4> QED BY <2>1, <3>1, <4>1 DEF Bare
    <3>2. CASE ~(v < 0)
      <4>1. Unsigned(b) = b /\ ~Negative(b)
        BY <2>2, NoSignIs
      <4> QED BY <2>2, <3>2, <4>1 DEF Bare
    <3> QED BY <3>1, <3>2
  <2>7. whole(b) \o decimals(b) = D
    <3>1. /\ whole(b) \in Seq(Figure) /\ Len(whole(b)) = Len(D) - s
          /\ decimals(b) \in Seq(Figure) /\ Len(decimals(b)) = s
          /\ \A i \in 1..(Len(D) - s) : whole(b)[i] = D[i]
          /\ \A i \in 1..s : decimals(b)[i] = D[(Len(D) - s) + i]
      BY <2>2 DEF PartsOf
    <3> DEFINE w == whole(b)
               d == decimals(b)
    <3>5. w \in Seq(Figure) /\ d \in Seq(Figure)
      BY <3>1
    <3> HIDE DEF w, d
    <3>2. w \o d \in Seq(Figure) /\ Len(w \o d) = Len(w) + Len(d)
      BY <3>5
    <3>3. Len(w \o d) = Len(D)
      BY <1>1, <2>5, <3>1, <3>2 DEF w, d
    <3>4. ASSUME NEW i \in 1..Len(D) PROVE (w \o d)[i] = D[i]
      <4>1. CASE i <= Len(D) - s
        <5>1. i \in 1..Len(w)
          BY <1>1, <2>5, <3>1, <4>1 DEF w
        <5>2. (w \o d)[i] = w[i]
          BY <3>1, <5>1 DEF w, d
        <5> QED BY <3>1, <4>1, <5>1, <5>2 DEF w
      <4>2. CASE ~(i <= Len(D) - s)
        <5>1. i - (Len(D) - s) \in 1..s /\ (Len(D) - s) + (i - (Len(D) - s)) = i
          BY <1>1, <2>4, <2>5, <4>2
        <5>2. (w \o d)[i] = d[i - Len(w)]
          BY <1>1, <2>5, <3>1, <3>3, <4>2 DEF w, d
        <5> QED BY <3>1, <5>1, <5>2 DEF w, d
      <4> QED BY <4>1, <4>2
    <3> QED BY <2>5, <3>2, <3>3, <3>4, SameSeq DEF w, d
  <2>8. t \in Seq(0..255)
    <3>1. b \in Seq(0..255)
      BY <2>2, SeqGrows DEF POINT, Figure
    <3>2. <<MINUS>> \in Seq(0..255)
      BY DEF MINUS
    <3>3. <<MINUS>> \o b \in Seq(0..255)
      BY <3>1, <3>2
    <3> QED BY <2>2, <3>1, <3>3
  <2>9. Scale(it, t) = s /\ s \in 0..Len(D)
    BY <1>1, <1>3, <2>4, <2>5 DEF Scale, s
  <2>10. Digits(t) = D
    BY <2>6, <2>7 DEF Digits
  <2> QED BY <1>3, <2>2, <2>5, <2>6, <2>8, <2>9, <2>10
<1> QED BY <1>2, <1>3

(* The buffer of digits holds nothing but its sign, digits and NULs. *)
LEMMA FinalIs ==
  ASSUME NEW it \in Item, NEW X, NEW sign \in Seq(X), NEW value,
         whole(value) \in Seq(Figure), decimals(value) \in Seq(Figure)
  PROVE  /\ final(it, sign, value) \in Seq({NUL} \cup Figure \cup X)
         /\ Len(final(it, sign, value)) = Len(sign) + it.length
<1> DEFINE S == {NUL} \cup Figure \cup X
           w == whole(value)
           d == IF it.power < 0 THEN decimals(value) ELSE << >>
           lead == fillzero(it, value)
           at == Len(sign) + lead
           missing == IF it.power < 0 THEN -it.power - Len(d) ELSE 0
           f == [k \in 1..(Len(sign) + it.length) |->
                   IF k <= missing THEN Digit(0)
                   ELSE IF k - at \in 1..Len(w) THEN w[k - at]
                   ELSE IF k - at - Len(w) \in 1..Len(d) THEN d[k - at - Len(w)]
                   ELSE IF k <= lead THEN Digit(0)
                   ELSE IF k <= Len(sign) THEN sign[k] ELSE NUL]
<1>1. final(it, sign, value) = f
  BY Zenon DEF final
<1>2. w \in Seq(Figure) /\ d \in Seq(Figure)
  OBVIOUS
<1>3. \A i \in 1..Len(w) : w[i] \in S
  BY <1>2
<1>4. \A i \in 1..Len(d) : d[i] \in S
  BY <1>2
<1>5. Digit(0) \in S /\ NUL \in S
  BY DEF Digit, Figure
<1>6. \A i \in 1..Len(sign) : sign[i] \in S
  OBVIOUS
<1>7. Len(sign) \in Nat /\ Len(sign) + it.length \in Nat
  BY ItemIs
<1> HIDE DEF w, d, lead, at, missing, S
<1>8. ASSUME NEW k \in 1..(Len(sign) + it.length) PROVE f[k] \in S
  <2>1. k <= Len(sign) => k \in 1..Len(sign)
    BY <1>7
  <2>2. f[k] = IF k <= missing THEN Digit(0)
                   ELSE IF k - at \in 1..Len(w) THEN w[k - at]
                   ELSE IF k - at - Len(w) \in 1..Len(d) THEN d[k - at - Len(w)]
                   ELSE IF k <= lead THEN Digit(0)
                   ELSE IF k <= Len(sign) THEN sign[k] ELSE NUL
    BY Zenon
  <2> QED BY <1>3, <1>4, <1>5, <1>6, <2>1, <2>2, Zenon
<1>9. f = [k \in 1..(Len(sign) + it.length) |-> f[k]]
  OBVIOUS
<1> HIDE DEF f
<1>10. f \in Seq(S) /\ Len(f) = Len(sign) + it.length
  <2> DEFINE n == Len(sign) + it.length
  <2>1. n \in Nat /\ f = [k \in 1..n |-> f[k]] /\ \A k \in 1..n : f[k] \in S
    BY <1>7, <1>8, <1>9
  <2> HIDE DEF n
  <2>2. f \in Seq(S) /\ Len(f) = n
    BY <2>1, Made
  <2> QED BY <2>2 DEF n
<1> QED BY <1>1, <1>10 DEF S

(* Without a sign of its own, the buffer of digits that fit it holds the   *)
(* last digits of the text.                                                *)
LEMMA FinalDigits ==
  ASSUME NEW it \in Item, NEW t, NEW value, NEW D \in Seq(Figure), NEW s \in 0..Len(D),
         PartsOf(value, D, s), Digits(t) = D, s = -it.power, fillzero(it, value) >= 0
  PROVE  final(it, << >>, value) = LastDigits(t, it.length)
<1> DEFINE w == whole(value)
           d == IF it.power < 0 THEN decimals(value) ELSE << >>
           lead == fillzero(it, value)
           at == Len(<< >>) + lead
           missing == IF it.power < 0 THEN -it.power - Len(d) ELSE 0
           n == it.length
           cell(k) == IF k <= missing THEN Digit(0)
                   ELSE IF k - at \in 1..Len(w) THEN w[k - at]
                   ELSE IF k - at - Len(w) \in 1..Len(d) THEN d[k - at - Len(w)]
                   ELSE IF k <= lead THEN Digit(0)
                   ELSE IF k <= Len(<< >>) THEN << >>[k] ELSE NUL
           last(k) == IF k + Len(D) - n \in 1..Len(D) THEN D[k + Len(D) - n] ELSE Digit(0)
<1>1. final(it, << >>, value) = [k \in 1..(Len(<< >>) + n) |-> cell(k)]
  BY Zenon DEF final
<1>2. LastDigits(t, n) = [k \in 1..n |-> last(k)]
  BY Zenon DEF LastDigits
<1>3. n \in Nat /\ it.power \in Int /\ Len(<< >>) = 0
  BY ItemIs
<1>4. /\ Len(w) = Len(D) - s /\ Len(w) \in Nat
      /\ \A i \in 1..(Len(D) - s) : w[i] = D[i]
  BY DEF PartsOf
<1>5. Len(d) = s /\ \A i \in 1..s : d[i] = D[(Len(D) - s) + i]
  <2>1. CASE it.power < 0
    BY <2>1 DEF PartsOf
  <2>2. CASE ~(it.power < 0)
    <3>1. s = 0 /\ d = << >>
      BY <1>3, <2>2
    <3> QED BY <3>1
  <2> QED BY <2>1, <2>2
<1>6. lead = n - Len(D) /\ lead \in Nat /\ at = lead
  BY <1>3, <1>4, SMTT(30) DEF fillzero
<1>7. missing = 0
  BY <1>3, <1>5
<1> HIDE DEF w, d, lead, at, missing
<1>8. ASSUME NEW k \in 1..n PROVE cell(k) = last(k)
  <2>1. ~(k <= missing) /\ ~(k <= Len(<< >>))
    BY <1>3, <1>7
  <2>2. k - at = k + (Len(D) - n) /\ Len(D) \in Nat
    BY <1>3, <1>6
  <2> DEFINE x == k - at
  <2>3. x \in Int /\ x <= Len(D) /\ (x >= 1 <=> ~(k <= lead))
    BY <1>3, <1>6, <2>2, SMTT(30)
  <2>8. last(k) = IF x \in 1..Len(D) THEN D[x] ELSE Digit(0)
    BY <2>2, Zenon
  <2>9. cell(k) = IF x \in 1..Len(w) THEN w[x]
                  ELSE IF x - Len(w) \in 1..Len(d) THEN d[x - Len(w)]
                  ELSE IF k <= lead THEN Digit(0) ELSE NUL
    BY <2>1
  <2> HIDE DEF x, cell, last
  <2>4. CASE x \in 1..Len(w)
    <3>1. cell(k) = w[x]
      BY <2>4, <2>9
    <3>2. x \in 1..(Len(D) - s) /\ x \in 1..Len(D)
      BY <1>4, <2>2, <2>4
    <3>3. last(k) = D[x]
      BY <2>8, <3>2
    <3> QED BY <1>4, <3>1, <3>2, <3>3
  <2>5. CASE x > Len(w)
    <3>1. x - Len(w) \in 1..s /\ (Len(D) - s) + (x - Len(w)) = x /\ x \in 1..Len(D)
          /\ x \notin 1..Len(w)
      <4>1. Len(D) \in Nat /\ s \in Nat /\ Len(w) = Len(D) - s /\ x \in Int /\ x <= Len(D)
        BY <1>4, <2>2, <2>3
      <4> DEFINE L == Len(D)
      <4>2. L \in Nat /\ s \in Nat /\ x \in Int /\ x <= L /\ x > L - s /\ s <= L /\ Len(w) = L - s
        BY <2>5, <4>1
      <4> HIDE DEF L
      <4>3. L - s \in Int /\ x - (L - s) \in Int /\ x - (L - s) >= 1 /\ x - (L - s) <= s
        BY <4>2
      <4>4. (L - s) + (x - (L - s)) = x /\ x >= 1 /\ ~(x <= L - s)
        BY <4>2
      <4>5. x - (L - s) \in 1..s /\ x \in 1..L /\ x \notin 1..(L - s)
        BY <4>2, <4>3, <4>4
      <4> QED BY <4>2, <4>4, <4>5 DEF L
    <3>2. cell(k) = d[x - Len(w)]
      BY <1>5, <2>9, <3>1
    <3>3. last(k) = D[x]
      BY <2>8, <3>1
    <3> QED BY <1>5, <3>1, <3>2, <3>3
  <2>6. CASE ~(x >= 1)
    <3>1. x \notin 1..Len(w) /\ x - Len(w) \notin 1..Len(d) /\ x \notin 1..Len(D) /\ k <= lead
      BY <1>4, <1>5, <2>3, <2>6
    <3>2. cell(k) = Digit(0)
      BY <2>9, <3>1
    <3>3. last(k) = Digit(0)
      BY <2>8, <3>1
    <3> QED BY <3>2, <3>3
  <2>7. x \in 1..Len(w) \/ x > Len(w) \/ ~(x >= 1)
    BY <1>4, <2>3
  <2> QED BY <2>4, <2>5, <2>6, <2>7
<1>9. 1..(Len(<< >>) + n) = 1..n
  BY <1>3
<1> HIDE DEF cell, last
<1> QED BY <1>1, <1>2, <1>8, <1>9

(* Three sequences in a row. *)
LEMMA InARow ==
  ASSUME NEW S, NEW a \in Seq(S), NEW b \in Seq(S), NEW c \in Seq(S)
  PROVE  /\ a \o b \o c \in Seq(S) /\ Len(a \o b \o c) = Len(a) + Len(b) + Len(c)
         /\ \A i \in 1..Len(a) : (a \o b \o c)[i] = a[i]
         /\ \A i \in 1..Len(b) : (a \o b \o c)[Len(a) + i] = b[i]
         /\ \A i \in 1..Len(c) : (a \o b \o c)[Len(a) + Len(b) + i] = c[i]
OBVIOUS

(* The size of an item, type by type.                                      *)
LEMMA BytesIs ==
  ASSUME NEW it \in Item
  PROVE  /\ Packed(it) => Bytes(it) = (it.length + 2) \div 2
         /\ it.type = "SIGNED_NUMBER_LS" => Bytes(it) = it.length + 1
         /\ Varying(it) => Bytes(it) = 4 + Width(it)
         /\ ~Packed(it) /\ it.type # "SIGNED_NUMBER_LS" /\ ~Varying(it)
              => Bytes(it) = Width(it)
         /\ Width(it) \in Nat /\ Width(it) >= it.length
         /\ Bytes(it) \in Nat /\ Bytes(it) >= 1
<1>1. it.length \in Nat /\ it.length >= 1
  BY ItemIs
<1>2. Width(it) \in Nat /\ Width(it) >= it.length
  BY <1>1 DEF Width
<1>3. /\ Packed(it) => Bytes(it) = (it.length + 2) \div 2
      /\ it.type = "SIGNED_NUMBER_LS" => Bytes(it) = it.length + 1
      /\ Varying(it) => Bytes(it) = 4 + Width(it)
      /\ ~Packed(it) /\ it.type # "SIGNED_NUMBER_LS" /\ ~Varying(it)
           => Bytes(it) = Width(it)
  BY DEF Bytes, Packed, Varying, OCDB_VARCHAR_HEADER_BYTE
<1>4. (it.length + 2) \div 2 \in Nat /\ (it.length + 2) \div 2 >= 1
  BY <1>1
<1> QED BY <1>1, <1>2, <1>3, <1>4

(* The last digits of a text, with zeros before them.                      *)
LEMMA LastDigitsIs ==
  ASSUME NEW t, Digits(t) \in Seq(Figure), NEW n \in Nat
  PROVE  LastDigits(t, n) \in Seq(Figure) /\ Len(LastDigits(t, n)) = n
<1> DEFINE d == Digits(t)
           f == [i \in 1..n |-> IF i + Len(d) - n \in 1..Len(d) THEN d[i + Len(d) - n]
                                                              ELSE Digit(0)]
<1>1. LastDigits(t, n) = f
  BY DEF LastDigits
<1>2. Digit(0) \in Figure /\ \A i \in 1..Len(d) : d[i] \in Figure
  BY DEF Digit, Figure
<1> HIDE DEF d
<1>3. f = [i \in 1..n |-> f[i]] /\ \A i \in 1..n : f[i] \in Figure
  BY <1>2, Zenon
<1> HIDE DEF f
<1> QED BY <1>1, <1>3, Made

(* Where the digits fill the buffer, a sign before them stays.             *)
LEMMA FinalSigned ==
  ASSUME NEW it \in Item, NEW t, NEW value, NEW D \in Seq(Figure), NEW s \in 0..Len(D),
         PartsOf(value, D, s), Digits(t) = D, s = -it.power, fillzero(it, value) = 0,
         NEW c
  PROVE  final(it, <<c>>, value) = <<c>> \o LastDigits(t, it.length)
<1> DEFINE n == it.length
<1>1. n \in Nat /\ it.power \in Int
  BY ItemIs
<1>2. Len(whole(value)) = Len(D) - s /\ Len(D) = n
  <2>1. Len(whole(value)) = Len(D) - s
    BY DEF PartsOf
  <2>2. (n - (Len(D) - s)) + it.power = 0
    BY <2>1 DEF fillzero
  <2> DEFINE L == Len(D)
             p == it.power
  <2>3. L \in Nat /\ p \in Int /\ (n - (L - s)) + p = 0 /\ s = -p
    BY <1>1, <2>2
  <2> HIDE DEF L, p, n
  <2>4. n \in Nat
    BY <1>1
  <2>5. L = n
    BY <2>3, <2>4
  <2> QED BY <2>1, <2>5 DEF L
<1> DEFINE w == whole(value)
           d == IF it.power < 0 THEN decimals(value) ELSE << >>
           cell(k) == IF k <= (IF it.power < 0 THEN -it.power - Len(d) ELSE 0) THEN Digit(0)
                   ELSE IF k - (Len(<<c>>) + fillzero(it, value)) \in 1..Len(w)
                        THEN w[k - (Len(<<c>>) + fillzero(it, value))]
                   ELSE IF k - (Len(<<c>>) + fillzero(it, value)) - Len(w) \in 1..Len(d)
                        THEN d[k - (Len(<<c>>) + fillzero(it, value)) - Len(w)]
                   ELSE IF k <= fillzero(it, value) THEN Digit(0)
                   ELSE IF k <= Len(<<c>>) THEN <<c>>[k] ELSE NUL
<1>3. final(it, <<c>>, value) = [k \in 1..(Len(<<c>>) + n) |-> cell(k)]
  BY Zenon DEF final
<1>4. /\ Len(d) = s /\ \A i \in 1..s : d[i] = D[(Len(D) - s) + i]
  <2>1. CASE it.power < 0
    BY <2>1 DEF PartsOf
  <2>2. CASE ~(it.power < 0)
    <3>1. s = 0 /\ d = << >>
      BY <1>1, <2>2
    <3> QED BY <3>1
  <2> QED BY <2>1, <2>2
<1>5. Len(<<c>>) = 1 /\ <<c>>[1] = c /\ 1 + fillzero(it, value) = 1
  OBVIOUS
<1>6. ~(1 <= 0) /\ (IF it.power < 0 THEN -it.power - Len(d) ELSE 0) = 0
  BY <1>1, <1>4
<1>7. \A i \in 1..(Len(D) - s) : w[i] = D[i]
  BY DEF PartsOf
<1> HIDE DEF w, d
<1>8. ASSUME NEW k \in 1..(1 + n) PROVE cell(k) = IF k = 1 THEN c ELSE D[k - 1]
  <2>1. cell(k) = IF k - 1 \in 1..Len(w) THEN w[k - 1]
                  ELSE IF k - 1 - Len(w) \in 1..Len(d) THEN d[k - 1 - Len(w)]
                  ELSE IF k <= 0 THEN Digit(0)
                  ELSE IF k <= 1 THEN <<c>>[k] ELSE NUL
    BY <1>5, <1>6
  <2> HIDE DEF cell
  <2> DEFINE L == Len(D)
  <2>2. L \in Nat /\ s \in Nat /\ s <= L /\ L = n /\ Len(w) = L - s /\ Len(d) = s
    BY <1>2, <1>4 DEF w
  <2> HIDE DEF L
  <2>3. CASE k = 1
    <3>1. ~(k - 1 \in 1..Len(w)) /\ ~(k - 1 - Len(w) \in 1..Len(d)) /\ ~(k <= 0) /\ k <= 1
      BY <2>2, <2>3
    <3> QED BY <1>5, <2>1, <2>3, <3>1
  <2>4. CASE k # 1 /\ k - 1 <= L - s
    <3>1. k - 1 \in 1..Len(w) /\ k - 1 \in 1..(L - s)
      BY <2>2, <2>4
    <3> QED BY <1>7, <2>1, <2>4, <3>1 DEF L
  <2>5. CASE k # 1 /\ ~(k - 1 <= L - s)
    <3> DEFINE y == k - 1
    <3>4. y \in Int /\ y <= L /\ ~(y <= L - s) /\ L - s \in Int
      BY <1>1, <2>2, <2>5
    <3> HIDE DEF y
    <3>5. y - (L - s) >= 1 /\ y - (L - s) <= s /\ (L - s) + (y - (L - s)) = y
      BY <2>2, <3>4
    <3>1. k - 1 - (L - s) >= 1 /\ k - 1 - (L - s) <= s /\ (L - s) + (k - 1 - (L - s)) = k - 1
      BY <3>5 DEF y
    <3>2. k - 1 - Len(w) \in 1..s /\ ~(k - 1 \in 1..Len(w)) /\ (L - s) + (k - 1 - Len(w)) = k - 1
      BY <2>2, <2>5, <3>1
    <3>3. cell(k) = d[k - 1 - Len(w)]
      BY <2>1, <2>2, <3>2
    <3> QED BY <1>4, <2>5, <3>2, <3>3 DEF L
  <2> QED BY <2>3, <2>4, <2>5
<1> HIDE DEF cell
<1>9. Len(<<c>>) + n = 1 + n
  BY <1>5
<1> DEFINE f == [k \in 1..(1 + n) |-> IF k = 1 THEN c ELSE D[k - 1]]
           S == {c} \cup Figure
<1>10. final(it, <<c>>, value) = f
  BY <1>3, <1>8, <1>9
<1>11. LastDigits(t, n) = D
  <2>1. LastDigits(t, n) \in Seq(Figure) /\ Len(LastDigits(t, n)) = n
    BY <1>1, LastDigitsIs
  <2>2. ASSUME NEW i \in 1..n PROVE LastDigits(t, n)[i] = D[i]
    <3>1. i + (Len(D) - n) = i /\ i \in 1..Len(D)
      BY <1>1, <1>2
    <3>2. LastDigits(t, n)[i] = IF i + (Len(D) - n) \in 1..Len(D) THEN D[i + (Len(D) - n)] ELSE Digit(0)
      BY DEF LastDigits
    <3> QED BY <3>1, <3>2
  <2> QED BY <1>2, <2>1, <2>2, SameSeq
<1>12. f = <<c>> \o D
  <2>1. f \in Seq(S) /\ Len(f) = 1 + n
    <3>1. \A k \in 1..(1 + n) : f[k] \in S
      <4> SUFFICES ASSUME NEW k \in 1..(1 + n) PROVE (IF k = 1 THEN c ELSE D[k - 1]) \in S
        OBVIOUS
      <4>1. k # 1 => k - 1 \in 1..Len(D)
        BY <1>1, <1>2
      <4> QED BY <4>1
    <3>2. f = [k \in 1..(1 + n) |-> f[k]] /\ 1 + n \in Nat
      BY <1>1
    <3> DEFINE N == 1 + n
    <3>3. N \in Nat /\ f = [k \in 1..N |-> f[k]] /\ \A k \in 1..N : f[k] \in S
      BY <3>1, <3>2
    <3> HIDE DEF N, S, f
    <3>4. f \in Seq(S) /\ Len(f) = N
      BY <3>3, Made
    <3> QED BY <3>4 DEF N
  <2>2. <<c>> \o D \in Seq(S) /\ Len(<<c>> \o D) = 1 + n
    <3>1. <<c>> \in Seq(S) /\ D \in Seq(S) /\ Len(<<c>>) = 1
      OBVIOUS
    <3> HIDE DEF S
    <3> QED BY <1>2, <3>1
  <2>3. ASSUME NEW k \in 1..(1 + n) PROVE f[k] = (<<c>> \o D)[k]
    BY <1>1, <1>2
  <2> HIDE DEF f, S
  <2> QED BY <2>1, <2>2, <2>3, SameSeq
<1> QED BY <1>10, <1>11, <1>12

(* A trailing-combined number.                                             *)
LEMMA CombinedIs ==
  ASSUME NEW digits \in Seq({NUL} \cup Figure), NEW negative \in BOOLEAN
  PROVE  /\ Combined(digits, negative) \in Seq({NUL} \cup Figure \cup 112..121)
         /\ Len(Combined(digits, negative)) = Len(digits) + 1
         /\ Len(digits) > 0 /\ (\A i \in 1..Len(digits) : digits[i] # NUL)
              => \A i \in 1..Len(digits) :
                   Combined(digits, negative)[i]
                     = IF negative /\ i = Len(digits) THEN NegativeFinal(digits[i] - 48)
                                                    ELSE digits[i]
<1> DEFINE S == {NUL} \cup Figure \cup 112..121
           n == Len(com_strdup(digits))
           f == IF negative /\ n > 0
                THEN [digits EXCEPT ![n] = NegativeFinal(digits[n] - Digit(0))] ELSE digits
<1>1. n \in Nat /\ n <= Len(digits) /\ (n > 0 => digits[n] # NUL)
  <2>1. com_strdup(digits) \in Seq({NUL} \cup Figure)
    BY StrdupIs
  <2>2. Len(com_strdup(digits)) <= Len(digits)
        /\ \A i \in 1..Len(com_strdup(digits)) : digits[i] # NUL
    BY StrdupIs
  <2> QED BY <2>1, <2>2
<1>2. Combined(digits, negative) = f \o <<NUL>>
  BY DEF Combined
<1>3. n > 0 => NegativeFinal(digits[n] - Digit(0)) \in S
  <2> SUFFICES ASSUME n > 0 PROVE NegativeFinal(digits[n] - Digit(0)) \in S
    OBVIOUS
  <2>1. digits[n] \in Figure
    BY <1>1
  <2>2. \A x \in 48..57 : 112 + (x - (48 + 0)) \in 112..121
    OBVIOUS
  <2> QED BY <2>1, <2>2 DEF NegativeFinal, Digit, Figure
<1>4. \A i \in 1..Len(digits) : digits[i] \in S
  OBVIOUS
<1> HIDE DEF n
<1>5. f = [i \in 1..Len(digits) |-> f[i]]
      /\ \A i \in 1..Len(digits) :
           f[i] = IF negative /\ i = n THEN NegativeFinal(digits[i] - Digit(0)) ELSE digits[i]
  BY <1>1
<1> HIDE DEF f, S
<1>6. \A i \in 1..Len(digits) : f[i] \in S
  <2> SUFFICES ASSUME NEW i \in 1..Len(digits) PROVE f[i] \in S
    OBVIOUS
  <2>1. i = n => n > 0
    OBVIOUS
  <2> QED BY <1>3, <1>4, <1>5, <2>1
<1>7. f \in Seq(S) /\ Len(f) = Len(digits)
  <2>1. Len(digits) \in Nat
    OBVIOUS
  <2> QED BY <1>5, <1>6, <2>1, Made
<1>8. <<NUL>> \in Seq(S) /\ Len(<<NUL>>) = 1
  BY DEF S
<1>9. /\ f \o <<NUL>> \in Seq(S) /\ Len(f \o <<NUL>>) = Len(digits) + 1
      /\ \A i \in 1..Len(digits) : (f \o <<NUL>>)[i] = f[i]
  BY <1>7, <1>8
<1>10. ASSUME Len(digits) > 0, \A i \in 1..Len(digits) : digits[i] # NUL
       PROVE  n = Len(digits)
  BY <1>10, StrdupWhole DEF n
<1>11. Digit(0) = 48
  BY DEF Digit
<1> QED BY <1>2, <1>5, <1>9, <1>10, <1>11 DEF S

-----------------------------------------------------------------------------
(* Packed numbers.                                                         *)

(* The bytes of a packed number are bytes.                                 *)
LEMMA PackIs ==
  ASSUME NEW it \in Item, Packed(it), NEW digits \in Seq({NUL} \cup Figure),
         Len(digits) = it.length, NEW sign \in 0..15
  PROVE  Pack(it, digits, sign) \in Seq(0..255) /\ Len(Pack(it, digits, sign)) = Bytes(it)
<1> DEFINE skip == IF it.length % 2 = 0 THEN 1 ELSE 0
           half(k) == IF k <= skip THEN 0
                      ELSE IF k - skip <= it.length THEN digits[k - skip] % 16 ELSE sign
           n == Bytes(it)
           f == [i \in 1..n |-> (16 * half(2 * i - 1)) + half(2 * i)]
<1>1. Pack(it, digits, sign) = f
  BY DEF Pack
<1>2. n \in Nat
  BY BytesIs
<1>3. skip \in 0..1
  BY ItemIs
<1> HIDE DEF skip
<1>4. ASSUME NEW k \in Nat PROVE half(k) \in 0..15
  <2>1. ASSUME ~(k <= skip), k - skip <= it.length PROVE digits[k - skip] % 16 \in 0..15
    <3>1. k - skip \in 1..Len(digits)
      BY <1>3, <2>1, ItemIs
    <3>2. digits[k - skip] \in {NUL} \cup Figure
      BY <3>1
    <3>3. digits[k - skip] \in Nat
      BY <3>2 DEF NUL, Figure
    <3> DEFINE x == digits[k - skip]
    <3> HIDE DEF x
    <3>4. x \in Nat => x % 16 \in 0..15
      OBVIOUS
    <3> QED BY <3>3, <3>4 DEF x
  <2> QED BY <2>1
<1> HIDE DEF half, n
<1>5. \A i \in 1..n : f[i] \in 0..255
  <2> SUFFICES ASSUME NEW i \in 1..n PROVE (16 * half(2 * i - 1)) + half(2 * i) \in 0..255
    OBVIOUS
  <2>1. 2 * i - 1 \in Nat /\ 2 * i \in Nat
    BY <1>2
  <2>2. half(2 * i - 1) \in 0..15 /\ half(2 * i) \in 0..15
    BY <1>4, <2>1
  <2>3. \A a \in 0..15, b \in 0..15 : (16 * a) + b \in 0..255
    OBVIOUS
  <2> QED BY <2>2, <2>3
<1>6. f = [i \in 1..n |-> f[i]]
  OBVIOUS
<1> HIDE DEF f
<1>7. f \in Seq(0..255) /\ Len(f) = n
  <2> DEFINE S == 0..255
  <2>1. \A i \in 1..n : f[i] \in S
    BY <1>5
  <2> HIDE DEF S
  <2>2. f \in Seq(S) /\ Len(f) = n
    BY <1>2, <1>6, <2>1, Made
  <2> QED BY <2>2 DEF S
<1> QED BY <1>1, <1>7 DEF n

(* The runtime packs digits the way COBOL does.                            *)
LEMMA PackedStorageIs ==
  ASSUME NEW it \in Item, Packed(it), NEW digits \in Seq(Figure),
         Len(digits) = it.length, NEW sign \in 0..15
  PROVE  PackedStorage(digits, sign) = Pack(it, digits, sign)
<1> DEFINE L == it.length
           zero == IF L % 2 = 0 THEN <<0>> ELSE << >>
           skip == IF L % 2 = 0 THEN 1 ELSE 0
           low == [i \in DOMAIN digits |-> digits[i] - 48]
           halves == zero \o low \o <<sign>>
           half(k) == IF k <= skip THEN 0
                      ELSE IF k - skip <= L THEN digits[k - skip] % 16 ELSE sign
<1>1. L \in Nat /\ L >= 1
  BY ItemIs
<1>2. PackedStorage(digits, sign)
        = [i \in 1..(Len(halves) \div 2) |-> (16 * halves[2 * i - 1]) + halves[2 * i]]
  BY DEF PackedStorage
<1>3. Pack(it, digits, sign) = [i \in 1..Bytes(it) |-> (16 * half(2 * i - 1)) + half(2 * i)]
  BY DEF Pack
<1>4. Bytes(it) = (L + 2) \div 2
  BY BytesIs
<1> HIDE DEF L
<1>5. zero \in Seq(Int) /\ Len(zero) = skip /\ (skip = 1 => zero[1] = 0) /\ skip \in 0..1
  OBVIOUS
<1>6. low \in Seq(Int) /\ Len(low) = L /\ \A i \in 1..L : low[i] = digits[i] % 16
  <2>1. ASSUME NEW i \in 1..L PROVE digits[i] - 48 \in Int /\ digits[i] - 48 = digits[i] % 16
    <3>1. digits[i] \in 48..57
      BY <2>1 DEF L, Figure
    <3> DEFINE x == digits[i]
    <3>2. x \in 48..57
      BY <3>1
    <3> HIDE DEF x
    <3>3. x - 48 \in Int /\ x - 48 = x % 16
      BY <3>2
    <3> QED BY <3>3 DEF x
  <2>2. DOMAIN digits = 1..L
    BY DEF L
  <2>3. low = [i \in 1..L |-> low[i]] /\ \A i \in 1..L : low[i] \in Int
    BY <2>1, <2>2
  <2>4. \A i \in 1..L : low[i] = digits[i] % 16
    BY <2>1, <2>2
  <2> HIDE DEF low
  <2> QED BY <1>1, <2>3, <2>4, Made
<1>7. skip + L + 1 = 2 * ((L + 2) \div 2)
  BY <1>1
<1> HIDE DEF zero, low, skip
<1> DEFINE last == <<sign>>
<1>8. last \in Seq(Int) /\ Len(last) = 1 /\ last[1] = sign
  OBVIOUS
<1>13. /\ Len(halves) = skip + L + 1
       /\ \A i \in 1..skip : halves[i] = zero[i]
       /\ \A i \in 1..L : halves[skip + i] = low[i]
       /\ \A i \in 1..1 : halves[skip + L + i] = last[i]
  <2>0. halves = zero \o low \o last
    OBVIOUS
  <2> DEFINE Z == Int
  <2>2. zero \in Seq(Z) /\ low \in Seq(Z) /\ last \in Seq(Z)
    BY <1>5, <1>6, <1>8
  <2> HIDE DEF halves, last, Z
  <2>3. /\ Len(zero \o low \o last) = Len(zero) + Len(low) + Len(last)
        /\ \A i \in 1..Len(zero) : (zero \o low \o last)[i] = zero[i]
        /\ \A i \in 1..Len(low) : (zero \o low \o last)[Len(zero) + i] = low[i]
        /\ \A i \in 1..Len(last) : (zero \o low \o last)[Len(zero) + Len(low) + i] = last[i]
    BY <2>2, InARow
  <2>1. /\ Len(halves) = Len(zero) + Len(low) + Len(last)
        /\ \A i \in 1..Len(zero) : halves[i] = zero[i]
        /\ \A i \in 1..Len(low) : halves[Len(zero) + i] = low[i]
        /\ \A i \in 1..Len(last) : halves[Len(zero) + Len(low) + i] = last[i]
    BY <2>0, <2>3, Zenon
  <2> QED BY <1>5, <1>6, <1>8, <2>1
<1> HIDE DEF last
<1>9. Len(halves) = skip + L + 1
  BY <1>13
<1>10. ASSUME NEW k \in 1..(skip + L + 1) PROVE halves[k] = half(k)
  <2>1. CASE k <= skip
    <3>1. k = 1 /\ skip = 1
      BY <1>1, <1>5, <2>1
    <3>2. halves[k] = zero[1]
      BY <1>13, <3>1
    <3> QED BY <1>5, <2>1, <3>1, <3>2
  <2>2. CASE ~(k <= skip) /\ k - skip <= L
    <3>1. k - skip \in 1..L
      BY <1>1, <1>5, <2>2
    <3>2. skip + (k - skip) = k
      BY <1>5
    <3>3. halves[skip + (k - skip)] = low[k - skip]
      BY <1>13, <3>1
    <3> QED BY <1>6, <2>2, <3>1, <3>2, <3>3
  <2>3. CASE ~(k <= skip) /\ ~(k - skip <= L)
    <3>1. k = skip + L + 1
      BY <1>1, <1>5, <2>3
    <3>2. halves[k] = sign
      BY <1>8, <1>13, <3>1
    <3> QED BY <2>3, <3>2
  <2> QED BY <2>1, <2>2, <2>3
<1> HIDE DEF halves, half
<1> DEFINE B == (L + 2) \div 2
<1>11. B \in Nat /\ Len(halves) \div 2 = B
  BY <1>1, <1>7, <1>9
<1> HIDE DEF B
<1>12. ASSUME NEW i \in 1..B PROVE halves[2 * i - 1] = half(2 * i - 1) /\ halves[2 * i] = half(2 * i)
  <2>1. 2 * i - 1 \in 1..(skip + L + 1) /\ 2 * i \in 1..(skip + L + 1)
    BY <1>7, <1>11 DEF B
  <2> QED BY <1>10, <2>1
<1> QED BY <1>2, <1>3, <1>4, <1>11, <1>12 DEF B

-----------------------------------------------------------------------------
(* Characters.                                                             *)

(* A sequence is a function on 1..n.                                       *)
LEMMA SeqIs ==
  ASSUME NEW S, NEW s \in Seq(S)
  PROVE  Len(s) \in Nat /\ \A i \in 1..Len(s) : s[i] \in S
OBVIOUS

(* The elements of a concatenation.                                        *)
LEMMA JoinIs ==
  ASSUME NEW S, NEW a \in Seq(S), NEW b \in Seq(S)
  PROVE  /\ a \o b \in Seq(S) /\ Len(a \o b) = Len(a) + Len(b)
         /\ \A i \in 1..Len(a) : (a \o b)[i] = a[i]
         /\ \A i \in 1..Len(b) : (a \o b)[Len(a) + i] = b[i]
OBVIOUS

(* Bytes of text to a character. *)
Unit(it) == IF it.type \in {"JAPANESE", "JAPANESE_VARYING"} THEN 2 ELSE 1

(* Bytes to a character.                                                   *)
LEMMA UnitIs ==
  ASSUME NEW it \in Item
  PROVE  Width(it) = Unit(it) * it.length /\ Width(it) \div it.length = Unit(it)
<1> DEFINE L == it.length
           q == (2 * L) \div L
<1>1. L \in Nat /\ L >= 1
  BY ItemIs
<1>2. L \div L = 1
  <2> DEFINE r == L \div L
  <2> HIDE DEF L
  <2>1. r \in Nat /\ L * r <= L /\ L < L * r + L
    BY <1>1, Division
  <2> HIDE DEF r
  <2>2. r # 0
    BY <1>1, <2>1
  <2>3. ~(r >= 2)
    <3> SUFFICES ASSUME r >= 2 PROVE FALSE
      OBVIOUS
    <3>1. L * r >= L * 2
      BY <1>1, <2>1
    <3> QED BY <1>1, <2>1, <3>1
  <2> QED BY <2>1, <2>2, <2>3 DEF r
<1>3. (2 * L) \div L = 2
  <2> HIDE DEF L
  <2>1. q \in Nat /\ L * q <= 2 * L /\ 2 * L < L * q + L
    <3>1. 2 * L \in Nat
      BY <1>1
    <3> QED BY <1>1, <3>1, Division
  <2> HIDE DEF q
  <2>2. ~(q <= 1)
    <3> SUFFICES ASSUME q <= 1 PROVE FALSE
      OBVIOUS
    <3>1. L * q <= L * 1
      BY <1>1, <2>1
    <3> QED BY <1>1, <2>1, <3>1
  <2>3. ~(q >= 3)
    <3> SUFFICES ASSUME q >= 3 PROVE FALSE
      OBVIOUS
    <3>1. L * q >= L * 3
      BY <1>1, <2>1
    <3> QED BY <1>1, <2>1, <3>1
  <2> QED BY <2>1, <2>2, <2>3 DEF q
<1>4. 1 * L = L
  BY <1>1
<1> QED BY <1>2, <1>3, <1>4 DEF Width, Unit

(* The header of a VARYING item is four bytes.                             *)
LEMMA HeaderOfIs ==
  ASSUME NEW n \in Nat
  PROVE  HeaderOf(n) \in Seq(0..255) /\ Len(HeaderOf(n)) = 4
<1> DEFINE b(k) == (n \div k) % 256
<1>1. /\ n % 256 \in 0..255 /\ (n \div 256) % 256 \in 0..255
      /\ (n \div 65536) % 256 \in 0..255
  BY SMT
<1>2. (n \div 16777216) % 256 \in 0..255
  BY SMT
<1>3. \A p, q, r, s : p \in 0..255 /\ q \in 0..255 /\ r \in 0..255 /\ s \in 0..255
        => <<p, q, r, s>> \in Seq(0..255) /\ Len(<<p, q, r, s>>) = 4
  OBVIOUS
<1> QED BY <1>1, <1>2, <1>3, SMT DEF HeaderOf

(* The padding of an item has no NUL.                                      *)
LEMMA PadIs ==
  ASSUME NEW it \in Item
  PROVE  Len(Pad(it)) \in 1..2 /\ \A i \in 1..Len(Pad(it)) : Pad(it)[i] \in 1..255
BY DEF Pad, SPACE

(* Justified text has the width of its item.                               *)
LEMMA JustifiedIs ==
  ASSUME NEW it \in Item, NEW C, 1..255 \subseteq C, NEW text \in Seq(C)
  PROVE  Justified(it, text) \in Seq(C) /\ Len(Justified(it, text)) = Width(it)
<1> DEFINE n == Width(it)
           pad == Pad(it)
           f == [i \in 1..n |-> IF i <= Len(text) THEN text[i]
                                ELSE pad[1 + ((i - 1) % Len(pad))]]
<1>1. Justified(it, text) = f
  BY DEF Justified
<1>2. n \in Nat
  BY BytesIs
<1>3. Len(pad) \in 1..2 /\ \A i \in 1..Len(pad) : pad[i] \in 1..255
  BY PadIs
<1> HIDE DEF n, pad
<1>4. \A i \in 1..n : f[i] \in C
  <2> SUFFICES ASSUME NEW i \in 1..n
               PROVE  (IF i <= Len(text) THEN text[i] ELSE pad[1 + ((i - 1) % Len(pad))]) \in C
    OBVIOUS
  <2>1. CASE i <= Len(text)
    <3>1. Len(text) \in Nat /\ \A k \in 1..Len(text) : text[k] \in C
      BY SeqIs
    <3> DEFINE m == Len(text)
    <3> HIDE DEF m
    <3>2. i \in 1..m
      BY <1>2, <2>1, <3>1 DEF m
    <3>3. text[i] \in C
      BY <3>1, <3>2, Zenon DEF m
    <3> QED BY <2>1, <3>3
  <2>2. CASE ~(i <= Len(text))
    <3>1. i - 1 \in Nat
      BY <1>2
    <3> DEFINE m == Len(pad)
               x == i - 1
    <3>2. m \in 1..2 /\ x \in Nat
      BY <1>3, <3>1
    <3> HIDE DEF m, x
    <3>3. m = 1 \/ m = 2
      BY <3>2
    <3>4. 1 + (x % m) \in 1..m
      <4>1. x % 1 = 0 /\ x % 2 \in 0..1
        BY <3>2
      <4>2. CASE m = 1
        BY <4>1, <4>2
      <4>3. CASE m = 2
        <5>1. \A y \in 0..1 : 1 + y \in 1..2
          OBVIOUS
        <5> QED BY <4>1, <4>3, <5>1
      <4> QED BY <3>3, <4>2, <4>3
    <3> QED BY <1>3, <2>2, <3>4 DEF m, x
  <2> QED BY <2>1, <2>2
<1>5. f = [i \in 1..n |-> f[i]]
  OBVIOUS
<1> HIDE DEF f
<1>6. f \in Seq(C) /\ Len(f) = n
  BY <1>2, <1>4, <1>5, Made
<1> QED BY <1>1, <1>6 DEF n

(* What is written to a VARYING item is at most its bytes.                 *)
LEMMA VaryingIs ==
  ASSUME NEW it \in Item, Varying(it), NEW text \in Seq(1..255)
  PROVE  /\ VaryingBytes(it, text) \in Seq(0..255)
         /\ Len(VaryingBytes(it, text)) <= Bytes(it)
         /\ ~(Len(text) >= Width(it) /\ Unit(it) = 2)
              => Len(VaryingBytes(it, text)) = Bytes(it)
<1> DEFINE C == 0..255
           full == Len(text) >= Width(it)
           unit == Width(it) \div it.length
           length == IF full THEN it.length ELSE Len(text) \div unit
           kept == IF full THEN text ELSE Take(text, unit * length)
           H == HeaderOf(length)
           W == Width(it)
<1>1. unit = Unit(it) /\ unit \in 1..2
  BY UnitIs DEF Unit
<1>2. it.length \in Nat /\ W \in Nat /\ Bytes(it) = 4 + W
  BY ItemIs, BytesIs
<1>3. length \in Nat /\ unit * length \in Nat
  <2>1. Len(text) \div 1 \in Nat /\ Len(text) \div 2 \in Nat
    OBVIOUS
  <2>2. unit = 1 \/ unit = 2
    BY <1>1
  <2> HIDE DEF unit
  <2>3. length \in Nat
    BY <1>2, <2>1, <2>2
  <2> HIDE DEF length
  <2> QED BY <2>2, <2>3
<1>4. VaryingBytes(it, text) = IF full /\ unit = 2 THEN Take(text, W) \o Drop(H, W)
                               ELSE H \o Justified(it, kept)
  BY DEF VaryingBytes
<1>5. H \in Seq(C) /\ Len(H) = 4
  BY <1>3, HeaderOfIs
<1>6. text \in Seq(C) /\ 1..255 \subseteq C
  OBVIOUS
<1> HIDE DEF C
<1>7. kept \in Seq(C)
  BY <1>3, <1>6, TakeIs
<1>8. Justified(it, kept) \in Seq(C) /\ Len(Justified(it, kept)) = W
  <2> HIDE DEF kept
  <2> QED BY <1>6, <1>7, JustifiedIs
<1>9. /\ Take(text, W) \in Seq(C) /\ Len(Take(text, W)) = IF W < Len(text) THEN W ELSE Len(text)
      /\ Drop(H, W) \in Seq(C) /\ Len(Drop(H, W)) = IF W < 4 THEN 4 - W ELSE 0
  <2> HIDE DEF W, H
  <2>1. Take(text, W) \in Seq(C) /\ Len(Take(text, W)) = IF W < Len(text) THEN W ELSE Len(text)
    BY <1>2, <1>6, TakeIs
  <2>2. Drop(H, W) \in Seq(C) /\ Len(Drop(H, W)) = IF W < Len(H) THEN Len(H) - W ELSE 0
    BY <1>2, <1>5, DropIs
  <2> QED BY <1>5, <2>1, <2>2
<1> DEFINE J == Justified(it, kept)
           T == Take(text, W)
           R == Drop(H, W)
<1>10. H \o J \in Seq(C) /\ Len(H \o J) = 4 + W
  <2>1. H \in Seq(C) /\ Len(H) = 4 /\ J \in Seq(C) /\ Len(J) = W
    BY <1>5, <1>8
  <2> HIDE DEF H, J, W
  <2>2. H \o J \in Seq(C) /\ Len(H \o J) = Len(H) + Len(J)
    BY <2>1, JoinIs, Zenon
  <2> QED BY <2>1, <2>2, Zenon
<1>11. ASSUME full PROVE T \o R \in Seq(C) /\ Len(T \o R) <= 4 + W
  <2>1. Len(text) \in Nat /\ Len(text) >= W
    BY <1>11
  <2>2. T \in Seq(C) /\ R \in Seq(C) /\ Len(T) = W /\ Len(R) <= 4 /\ Len(R) \in Nat
    BY <1>2, <1>9, <2>1
  <2> HIDE DEF T, R, W
  <2> QED BY <1>2, <2>2
<1> HIDE DEF full, unit, H, J, T, R
<1>12. CASE full /\ unit = 2
  BY <1>1, <1>2, <1>4, <1>11, <1>12 DEF C, T, R, full
<1>13. CASE ~(full /\ unit = 2)
  BY <1>2, <1>4, <1>10, <1>13 DEF C, J
<1> QED BY <1>12, <1>13, <1>1 DEF full

-----------------------------------------------------------------------------
(* What is written, and what COBOL would write.                            *)

(* The bytes that the runtime and the program leave in an item.            *)
Alphabet(it) ==
  CASE it.type = "UNSIGNED_NUMBER"  -> {NUL} \cup Figure
    [] it.type = "SIGNED_NUMBER_TC" -> {NUL} \cup Figure \cup 112..121
    [] it.type = "SIGNED_NUMBER_LS" -> {NUL} \cup Figure \cup {PLUS, MINUS}
    [] OTHER                        -> 0..255

(* An alphabet is a set of bytes.                                          *)
LEMMA AlphabetIs ==
  ASSUME NEW it \in Item
  PROVE  /\ Alphabet(it) \subseteq 0..255
         /\ NUL \in Alphabet(it) /\ NEIGHBOUR \in Alphabet(it)
         /\ it.type \in {"UNSIGNED_NUMBER", "SIGNED_NUMBER_TC", "SIGNED_NUMBER_LS"}
              => POINT \notin Alphabet(it)
         /\ it.type = "UNSIGNED_NUMBER" => MINUS \notin Alphabet(it)
         /\ Packed(it) \/ ~Numeric(it) => Alphabet(it) = 0..255
BY DEF Alphabet, NUL, NEIGHBOUR, POINT, MINUS, PLUS, Figure, Packed, Numeric

(* create_coboldata type by type.                                          *)
LEMMA ConvertCases ==
  ASSUME NEW it \in Item, NEW t
  PROVE  /\ it.type = "UNSIGNED_NUMBER"
              => create_coboldata(it, t) = final(it, << >>, Bare(it, t))
         /\ it.type = "SIGNED_NUMBER_TC"
              => create_coboldata(it, t) = Combined(final(it, << >>, Bare(it, t)), Negative(t))
         /\ it.type = "SIGNED_NUMBER_LS"
              => create_coboldata(it, t) = final(it, Sign(~Negative(t)), Bare(it, t))
         /\ it.type = "UNSIGNED_NUMBER_PD"
              => create_coboldata(it, t) = Pack(it, final(it, << >>, Bare(it, t)), 15)
         /\ it.type = "SIGNED_NUMBER_PD"
              => create_coboldata(it, t)
                   = Pack(it, final(it, << >>, Bare(it, t)), IF Negative(t) THEN 13 ELSE 12)
         /\ Varying(it) => create_coboldata(it, t) = VaryingBytes(it, t)
         /\ ~Numeric(it) /\ ~Varying(it) => create_coboldata(it, t) = Justified(it, t)
<1> QED BY DEF create_coboldata, Varying, Numeric, Packed

(* Storage type by type.                                                   *)
LEMMA StorageCases ==
  ASSUME NEW it \in Item, NEW t
  PROVE  /\ it.type = "UNSIGNED_NUMBER" => Storage(it, t) = LastDigits(t, it.length)
         /\ it.type = "SIGNED_NUMBER_TC"
              => Storage(it, t)
                   = IF Negative(t)
                     THEN [LastDigits(t, it.length) EXCEPT ![it.length] = NegativeFinal(@ - 48)]
                     ELSE LastDigits(t, it.length)
         /\ it.type = "SIGNED_NUMBER_LS"
              => Storage(it, t) = Sign(~Negative(t)) \o LastDigits(t, it.length)
         /\ it.type = "UNSIGNED_NUMBER_PD"
              => Storage(it, t) = PackedStorage(LastDigits(t, it.length), 15)
         /\ it.type = "SIGNED_NUMBER_PD"
              => Storage(it, t)
                   = PackedStorage(LastDigits(t, it.length), IF Negative(t) THEN 13 ELSE 12)
         /\ Varying(it)
              => Storage(it, t) = HeaderOf(Len(t) \div (Width(it) \div it.length))
                                    \o Justified(it, t)
         /\ ~Numeric(it) /\ ~Varying(it) => Storage(it, t) = Justified(it, t)
<1> QED BY DEF Storage, Varying, Numeric, Packed

(* The digits of a text of the column. *)
LEMMA TextParts ==
  ASSUME NEW it \in Item, Numeric(it), NEW t \in Texts(it)
  PROVE  /\ whole(Bare(it, t)) \in Seq(Figure) /\ decimals(Bare(it, t)) \in Seq(Figure)
         /\ Digits(t) \in Seq(Figure)
<1>1. PICK D \in Seq(Figure) : /\ Scale(it, t) \in 0..Len(D)
                               /\ PartsOf(Bare(it, t), D, Scale(it, t))
                               /\ Digits(t) = D
  BY TextIs
<1> QED BY <1>1 DEF PartsOf

(* A sequence with one element changed.                                    *)
LEMMA ChangedIs ==
  ASSUME NEW S, NEW s \in Seq(S), NEW k \in 1..Len(s), NEW x \in S
  PROVE  /\ [s EXCEPT ![k] = x] \in Seq(S) /\ Len([s EXCEPT ![k] = x]) = Len(s)
         /\ \A i \in 1..Len(s) : [s EXCEPT ![k] = x][i] = IF i = k THEN x ELSE s[i]
OBVIOUS

(* A sign is one byte.                                                     *)
LEMMA SignSeq ==
  ASSUME NEW b \in BOOLEAN
  PROVE  Sign(b) \in Seq({PLUS, MINUS}) /\ Len(Sign(b)) = 1
BY DEF Sign

(* The bytes written for a text: at most one more than the item has.       *)
LEMMA ConvertIs ==
  ASSUME NEW it \in Item, NEW t \in Texts(it)
  PROVE  /\ create_coboldata(it, t) \in Seq(Alphabet(it))
         /\ Len(create_coboldata(it, t))
              <= Bytes(it) + IF it.type = "SIGNED_NUMBER_TC" THEN 1 ELSE 0
<1> DEFINE v == Bare(it, t)
           F == {NUL} \cup Figure
<1>0. it.length \in Nat /\ Bytes(it) \in Nat
  BY ItemIs, BytesIs
<1>1. CASE Numeric(it)
  <2>1. whole(v) \in Seq(Figure) /\ decimals(v) \in Seq(Figure)
    BY <1>1, TextParts
  <2>2. final(it, << >>, v) \in Seq(F) /\ Len(final(it, << >>, v)) = it.length
    <3> DEFINE E == {}
               f == final(it, << >>, v)
    <3>1. << >> \in Seq(E) /\ Len(<< >>) = 0
      OBVIOUS
    <3> HIDE DEF v
    <3> HIDE DEF E
    <3>2. f \in Seq(F \cup E) /\ Len(f) = Len(<< >>) + it.length
      BY <2>1, <3>1, FinalIs
    <3>3. F \cup E = F
      BY DEF E
    <3> HIDE DEF f, F
    <3> QED BY <1>0, <3>1, <3>2, <3>3 DEF f
  <2> DEFINE f == final(it, << >>, v)
  <2>3. Negative(t) \in BOOLEAN
    BY DEF Negative
  <2>4. CASE it.type = "UNSIGNED_NUMBER"
    <3>1. Alphabet(it) = F /\ Bytes(it) = it.length
      BY <2>4, BytesIs DEF Alphabet, Packed, Varying, Width
    <3>2. create_coboldata(it, t) = f
      BY <2>4, ConvertCases
    <3> HIDE DEF f, F
    <3> QED BY <1>0, <2>2, <2>4, <3>1, <3>2 DEF f
  <2>5. CASE it.type = "SIGNED_NUMBER_TC"
    <3>1. Alphabet(it) = F \cup 112..121 /\ Bytes(it) = it.length
      BY <2>5, BytesIs DEF Alphabet, Packed, Varying, Width
    <3>2. create_coboldata(it, t) = Combined(f, Negative(t))
      BY <2>5, ConvertCases
    <3>3. Combined(f, Negative(t)) \in Seq(F \cup 112..121)
          /\ Len(Combined(f, Negative(t))) = Len(f) + 1
      <4> HIDE DEF v
      <4> QED BY <2>2, <2>3, CombinedIs
    <3> HIDE DEF f, F
    <3> QED BY <1>0, <2>2, <2>5, <3>1, <3>2, <3>3 DEF f
  <2>6. CASE it.type = "SIGNED_NUMBER_LS"
    <3> DEFINE X == {PLUS, MINUS}
               sign == Sign(~Negative(t))
               g == final(it, sign, v)
    <3>1. Alphabet(it) = F \cup X /\ Bytes(it) = it.length + 1
      BY <2>6, BytesIs DEF Alphabet
    <3>2. create_coboldata(it, t) = g
      BY <2>6, ConvertCases
    <3>3. sign \in Seq(X) /\ Len(sign) = 1
      BY <2>3, SignSeq
    <3>4. g \in Seq(F \cup X) /\ Len(g) = Len(sign) + it.length
      <4> HIDE DEF v, X, sign
      <4> QED BY <2>1, <3>3, FinalIs
    <3> HIDE DEF g, F, X, sign
    <3> QED BY <1>0, <2>6, <3>1, <3>2, <3>3, <3>4
  <2>7. CASE Packed(it)
    <3>1. PICK s \in 0..15 : create_coboldata(it, t) = Pack(it, f, s)
      <4>1. it.type = "UNSIGNED_NUMBER_PD" \/ it.type = "SIGNED_NUMBER_PD"
        BY <2>7 DEF Packed
      <4>2. 15 \in 0..15 /\ 12 \in 0..15 /\ 13 \in 0..15
        OBVIOUS
      <4> HIDE DEF f
      <4> QED BY <4>1, <4>2, ConvertCases, Zenon DEF f
    <3>2. Pack(it, f, s) \in Seq(0..255) /\ Len(Pack(it, f, s)) = Bytes(it)
      <4> HIDE DEF v
      <4> QED BY <2>2, <2>7, PackIs
    <3>3. Alphabet(it) = 0..255 /\ it.type # "SIGNED_NUMBER_TC"
      BY <2>7 DEF Alphabet, Packed
    <3> HIDE DEF f
    <3> QED BY <1>0, <3>1, <3>2, <3>3
  <2> QED BY <1>1, <2>4, <2>5, <2>6, <2>7 DEF Numeric
<1>2. CASE ~Numeric(it)
  <2>1. t \in Seq(1..255) /\ Alphabet(it) = 0..255 /\ it.type # "SIGNED_NUMBER_TC"
    BY <1>2, AlphabetIs DEF Texts, Numeric
  <2>2. CASE Varying(it)
    <3>1. create_coboldata(it, t) = VaryingBytes(it, t)
      BY <2>2, ConvertCases
    <3>2. VaryingBytes(it, t) \in Seq(0..255) /\ Len(VaryingBytes(it, t)) <= Bytes(it)
      BY <2>1, <2>2, VaryingIs
    <3> QED BY <1>0, <2>1, <3>1, <3>2
  <2>3. CASE ~Varying(it)
    <3>1. create_coboldata(it, t) = Justified(it, t)
      BY <1>2, <2>3, ConvertCases
    <3> DEFINE C == 0..255
    <3>2. 1..255 \subseteq C /\ t \in Seq(C)
      BY <2>1
    <3> HIDE DEF C
    <3>3. Justified(it, t) \in Seq(C) /\ Len(Justified(it, t)) = Width(it)
      BY <3>2, JustifiedIs
    <3>4. Bytes(it) = Width(it)
      BY <1>2, <2>3, BytesIs DEF Numeric
    <3> QED BY <1>0, <2>1, <3>1, <3>3, <3>4 DEF C
  <2> QED BY <2>2, <2>3
<1> QED BY <1>1, <1>2

(* COBOL's storage of a value is as long as the item.                      *)
LEMMA StorageIs ==
  ASSUME NEW it \in Item, NEW t \in Texts(it)
  PROVE  Storage(it, t) \in Seq(Alphabet(it)) /\ Len(Storage(it, t)) = Bytes(it)
<1>0. it.length \in Nat /\ it.length >= 1 /\ Bytes(it) \in Nat
  BY ItemIs, BytesIs
<1>1. CASE Numeric(it)
  <2> DEFINE d == LastDigits(t, it.length)
             F == {NUL} \cup Figure
             A == Alphabet(it)
  <2>1. d \in Seq(Figure) /\ Len(d) = it.length
    <3>1. Digits(t) \in Seq(Figure)
      BY <1>1, TextParts
    <3> QED BY <1>0, <3>1, LastDigitsIs
  <2>2. Negative(t) \in BOOLEAN
    BY DEF Negative
  <2>3. CASE it.type = "UNSIGNED_NUMBER"
    <3>1. Figure \subseteq A /\ Bytes(it) = it.length
      BY <2>3, BytesIs DEF Alphabet, Packed, Varying, Width
    <3>2. Storage(it, t) = d
      BY <2>3, StorageCases
    <3> HIDE DEF d, A
    <3> QED BY <2>1, <3>1, <3>2, SeqGrows DEF A
  <2>4. CASE it.type = "SIGNED_NUMBER_TC"
    <3> DEFINE e == [d EXCEPT ![it.length] = NegativeFinal(@ - 48)]
    <3>1. Figure \subseteq A /\ 112..121 \subseteq A /\ Bytes(it) = it.length
      BY <2>4, BytesIs DEF Alphabet, Packed, Varying, Width
    <3>2. Storage(it, t) = IF Negative(t) THEN e ELSE d
      BY <2>4, StorageCases
    <3> HIDE DEF d, A
    <3>3. NegativeFinal(d[it.length] - 48) \in 112..121
      <4>1. d[it.length] \in 48..57
        BY <1>0, <2>1 DEF Figure
      <4>2. \A x \in 48..57 : 112 + (x - 48) \in 112..121
        OBVIOUS
      <4> QED BY <4>1, <4>2 DEF NegativeFinal
    <3>4. d \in Seq(A)
      BY <2>1, <3>1, SeqGrows
    <3>5. e \in Seq(A) /\ Len(e) = it.length
      <4>1. NegativeFinal(d[it.length] - 48) \in A
        BY <3>1, <3>3
      <4> DEFINE y == NegativeFinal(d[it.length] - 48)
      <4>2. e = [d EXCEPT ![it.length] = y]
        OBVIOUS
      <4> HIDE DEF y, e
      <4>3. it.length \in 1..Len(d) /\ y \in A
        BY <1>0, <2>1, <4>1 DEF y
      <4>4. [d EXCEPT ![it.length] = y] \in Seq(A)
            /\ Len([d EXCEPT ![it.length] = y]) = Len(d)
        BY <3>4, <4>3, ChangedIs
      <4> QED BY <2>1, <4>2, <4>4, Zenon
    <3> HIDE DEF e
    <3> QED BY <2>1, <3>1, <3>2, <3>4, <3>5 DEF A
  <2>5. CASE it.type = "SIGNED_NUMBER_LS"
    <3> DEFINE sign == Sign(~Negative(t))
    <3>1. Figure \subseteq A /\ {PLUS, MINUS} \subseteq A /\ Bytes(it) = it.length + 1
      BY <2>5, BytesIs DEF Alphabet
    <3>2. Storage(it, t) = sign \o d
      BY <2>5, StorageCases
    <3>3. sign \in Seq({PLUS, MINUS}) /\ Len(sign) = 1
      BY <2>2, SignSeq
    <3> HIDE DEF d, A, sign
    <3>4. d \in Seq(A) /\ sign \in Seq(A)
      BY <2>1, <3>1, <3>3, SeqGrows
    <3>5. sign \o d \in Seq(A) /\ Len(sign \o d) = Len(sign) + Len(d)
      BY <3>4, JoinIs, Zenon
    <3> QED BY <1>0, <2>1, <3>1, <3>2, <3>3, <3>5 DEF A
  <2>6. CASE Packed(it)
    <3>1. PICK s \in 0..15 : Storage(it, t) = PackedStorage(d, s)
      <4>1. it.type = "UNSIGNED_NUMBER_PD" \/ it.type = "SIGNED_NUMBER_PD"
        BY <2>6 DEF Packed
      <4>2. 15 \in 0..15 /\ 12 \in 0..15 /\ 13 \in 0..15
        OBVIOUS
      <4> HIDE DEF d
      <4> QED BY <4>1, <4>2, StorageCases, Zenon DEF d
    <3> HIDE DEF d
    <3>2. PackedStorage(d, s) = Pack(it, d, s)
      BY <2>1, <2>6, PackedStorageIs
    <3>3. d \in Seq(F)
      <4>1. Figure \subseteq F
        OBVIOUS
      <4> HIDE DEF F
      <4> QED BY <2>1, <4>1, SeqGrows
    <3>4. Pack(it, d, s) \in Seq(0..255) /\ Len(Pack(it, d, s)) = Bytes(it)
      BY <2>1, <2>6, <3>3, PackIs
    <3> QED BY <2>6, <3>1, <3>2, <3>4, AlphabetIs
  <2> QED BY <1>1, <2>3, <2>4, <2>5, <2>6 DEF Numeric
<1>2. CASE ~Numeric(it)
  <2> DEFINE C == 0..255
             J == Justified(it, t)
             H == HeaderOf(Len(t) \div (Width(it) \div it.length))
  <2>1. t \in Seq(1..255) /\ Alphabet(it) = C
    BY <1>2, AlphabetIs DEF Texts
  <2>2. 1..255 \subseteq C /\ t \in Seq(C)
    BY <2>1
  <2>3. J \in Seq(C) /\ Len(J) = Width(it) /\ Width(it) \in Nat
    <3> HIDE DEF C
    <3> QED BY <2>2, JustifiedIs, BytesIs
  <2>4. CASE Varying(it)
    <3>1. Storage(it, t) = H \o J /\ Bytes(it) = 4 + Width(it)
      BY <2>4, StorageCases, BytesIs
    <3>2. H \in Seq(C) /\ Len(H) = 4
      <4>1. Width(it) \div it.length = 1 \/ Width(it) \div it.length = 2
        BY UnitIs DEF Unit
      <4>2. Len(t) \div 1 \in Nat /\ Len(t) \div 2 \in Nat
        BY <2>1
      <4>3. Len(t) \div (Width(it) \div it.length) \in Nat
        BY <4>1, <4>2, Zenon
      <4> QED BY <4>3, HeaderOfIs
    <3> HIDE DEF C, H, J
    <3>3. H \o J \in Seq(C) /\ Len(H \o J) = Len(H) + Len(J)
      BY <2>3, <3>2, JoinIs, Zenon
    <3> QED BY <2>1, <2>3, <3>1, <3>2, <3>3
  <2>5. CASE ~Varying(it)
    <3>1. Storage(it, t) = J
      BY <1>2, <2>5, StorageCases
    <3>2. Bytes(it) = Width(it)
      BY <1>2, <2>5, BytesIs DEF Numeric
    <3> QED BY <2>1, <2>3, <3>1, <3>2
  <2> QED BY <2>4, <2>5
<1> QED BY <1>1, <1>2

-----------------------------------------------------------------------------
(* What the runtime reads.                                                 *)

(* A sequence without its first element.                                   *)
LEMMA TailIs ==
  ASSUME NEW S, NEW s \in Seq(S), s # << >>
  PROVE  /\ Tail(s) \in Seq(S) /\ Len(s) \in Nat /\ Len(s) >= 1 /\ Len(Tail(s)) = Len(s) - 1
         /\ \A i \in 1..(Len(s) - 1) : Tail(s)[i] = s[i + 1]
OBVIOUS

(* A text without a point has the decimals that were cut off it, or none.  *)
LEMMA PointIs ==
  ASSUME NEW S, POINT \notin S, S \subseteq 0..255, NEW c \in Seq(S), NEW power \in Int,
         -power \in Nat
  PROVE  LET r == insert_decimal_point(c, power)
             u == Unsigned(r)
         IN  /\ r \in Seq(0..255) /\ whole(u) \in Seq(0..255) /\ decimals(u) \in Seq(0..255)
             /\ r # << >> => r[1] \in S
             /\ r = << >> => whole(u) = << >> /\ decimals(u) = << >>
             /\ Len(decimals(u)) <= -power
<1> DEFINE r == insert_decimal_point(c, power)
           u == Unsigned(r)
           B == 0..255
           P == S \cup {POINT}
<1>1. c \in Seq(P) /\ P \subseteq B /\ Len(c) \in Nat
  BY DEF POINT
<1> HIDE DEF B
<1>2. ASSUME NEW x \in Seq(P)
      PROVE  x \in Seq(B) /\ whole(x) \in Seq(B) /\ decimals(x) \in Seq(B)
  <2>1. x \in Seq(B)
    BY <1>1, <1>2, SeqGrows
  <2> QED BY <2>1, Parts
<1>3. CASE power >= 0 \/ -power >= Len(c)
  <2>1. r = c
    BY <1>3 DEF insert_decimal_point
  <2>2. u \in Seq(S)
    <3>0. Unsigned(c) = c \/ (c # << >> /\ Unsigned(c) = Tail(c))
      BY DEF Unsigned
    <3>1. u = c \/ (c # << >> /\ u = Tail(c))
      <4> HIDE DEF r
      <4> QED BY <2>1, <3>0
    <3> HIDE DEF u
    <3> QED BY <3>1, TailIs
  <2>3. decimals(u) = << >> /\ whole(u) = u
    <3> HIDE DEF u
    <3>1. \A i \in 1..Len(u) : u[i] # POINT
      BY <2>2
    <3>2. ~(/\ Len(u) = Len(whole(u)) + 1 + Len(decimals(u)) /\ u[Len(whole(u)) + 1] = POINT)
      <4>1. whole(u) \in Seq(S) /\ decimals(u) \in Seq(S)
        BY <2>2, Parts
      <4>2. Len(whole(u)) \in Nat /\ Len(decimals(u)) \in Nat /\ Len(u) \in Nat
        BY <2>2, <4>1
      <4> DEFINE k == Len(whole(u))
                 m == Len(decimals(u))
                 n == Len(u)
      <4> HIDE DEF k, m, n
      <4>3. n = k + 1 + m => k + 1 \in 1..n
        BY <4>2 DEF k, m, n
      <4> QED BY <3>1, <4>3 DEF k, m, n
    <3> QED BY <2>2, <3>2, Parts
  <2>4. r = << >> => u = << >>
    BY DEF Unsigned
  <2>5. r # << >> => r[1] \in S
    <3> HIDE DEF r
    <3> QED BY <2>1, SeqIs
  <2>6. u \in Seq(P)
    <3>1. S \subseteq P
      OBVIOUS
    <3> HIDE DEF P, u
    <3> QED BY <2>2, <3>1, SeqGrows
  <2>7. Len(decimals(u)) <= -power
    <3>1. Len(<< >>) = 0
      OBVIOUS
    <3> HIDE DEF u
    <3> QED BY <2>3, <3>1
  <2> HIDE DEF u, r, P
  <2> QED BY <1>1, <1>2, <2>1, <2>3, <2>4, <2>5, <2>6, <2>7 DEF B, u, r
<1>4. CASE ~(power >= 0 \/ -power >= Len(c))
  <2> DEFINE w == Len(c) + power
             a == Take(c, w)
             b == Drop(c, w)
             q == <<POINT>>
  <2>1. w \in Nat /\ w >= 1 /\ w < Len(c) /\ Len(c) - w = -power
    BY <1>1, <1>4
  <2>2. r = a \o q \o b
    BY <1>4 DEF insert_decimal_point
  <2> HIDE DEF w
  <2>3. /\ a \in Seq(P) /\ Len(a) = w /\ \A i \in 1..w : a[i] = c[i]
        /\ b \in Seq(P) /\ Len(b) = -power /\ \A i \in 1..Len(b) : b[i] = c[w + i]
    <3>1. Len(a) = w /\ a \in Seq(P) /\ \A i \in 1..Len(a) : a[i] = c[i]
      BY <1>1, <2>1, TakeIs
    <3>2. Len(b) = Len(c) - w /\ b \in Seq(P) /\ \A i \in 1..Len(b) : b[i] = c[w + i]
      BY <1>1, <2>1, DropIs
    <3> QED BY <2>1, <3>1, <3>2
  <2>4. q \in Seq(P) /\ Len(q) = 1 /\ q[1] = POINT
    OBVIOUS
  <2> HIDE DEF a, b, q, P
  <2>5. /\ a \o q \o b \in Seq(P) /\ Len(a \o q \o b) = Len(a) + Len(q) + Len(b)
        /\ \A i \in 1..Len(a) : (a \o q \o b)[i] = a[i]
        /\ \A i \in 1..Len(q) : (a \o q \o b)[Len(a) + i] = q[i]
        /\ \A i \in 1..Len(b) : (a \o q \o b)[Len(a) + Len(q) + i] = b[i]
    <3>1. a \in Seq(P) /\ q \in Seq(P) /\ b \in Seq(P)
      BY <2>3, <2>4
    <3> QED BY <3>1, InARow
  <2> HIDE DEF r
  <2>6. /\ r \in Seq(P) /\ Len(r) = w + 1 - power
        /\ \A i \in 1..w : r[i] = c[i]
        /\ r[w + 1] = POINT
        /\ \A i \in 1..(-power) : r[w + 1 + i] = c[w + i]
    <3>1. Len(a) + Len(q) + Len(b) = w + 1 - power /\ Len(a) + Len(q) = w + 1
      BY <2>1, <2>3, <2>4
    <3>2. 1 \in 1..Len(q)
      BY <2>4
    <3>3. r[w + 1] = POINT
      BY <2>2, <2>3, <2>4, <2>5, <3>2
    <3>4. \A i \in 1..w : r[i] = c[i]
      BY <2>2, <2>3, <2>5
    <3>5. \A i \in 1..(-power) : r[w + 1 + i] = c[w + i]
      BY <2>2, <2>3, <2>5, <3>1
    <3> QED BY <2>2, <2>5, <3>1, <3>3, <3>4, <3>5
  <2>7. \A i \in 1..Len(c) : c[i] # POINT /\ c[i] \in S
    BY SeqIs
  <2>8. \A i \in 1..Len(r) : r[i] = POINT => i = w + 1
    <3> SUFFICES ASSUME NEW i \in 1..Len(r), i # w + 1 PROVE r[i] # POINT
      OBVIOUS
    <3>1. CASE i <= w
      <4>1. i \in 1..w /\ i \in 1..Len(c)
        BY <2>1, <3>1
      <4> QED BY <2>6, <2>7, <4>1
    <3>2. CASE ~(i <= w)
      <4> DEFINE j == i - w - 1
      <4>1. j \in 1..(-power) /\ w + j \in 1..Len(c) /\ w + 1 + j = i
        BY <2>1, <2>6, <3>2
      <4> QED BY <2>6, <2>7, <4>1
    <3> QED BY <3>1, <3>2
  <2>9. r # << >> /\ r[1] \in S /\ Len(r) >= 1
    <3>1. 1 \in 1..w /\ 1 \in 1..Len(c) /\ Len(r) >= 1
      BY <2>1, <2>6
    <3> QED BY <2>6, <2>7, <3>1
  <2>10. PICK p \in Nat : /\ u \in Seq(P) /\ p \in 1..Len(u) /\ u[p] = POINT
                          /\ Len(u) - p = -power
                          /\ \A i \in 1..Len(u) : u[i] = POINT => i = p
    <3>1. CASE u = r
      <4>1. w + 1 \in 1..Len(r) /\ Len(r) - (w + 1) = -power
        BY <2>1, <2>6
      <4>2. /\ r \in Seq(P) /\ w + 1 \in 1..Len(r) /\ r[w + 1] = POINT
            /\ Len(r) - (w + 1) = -power
            /\ \A i \in 1..Len(r) : r[i] = POINT => i = w + 1
        BY <2>6, <2>8, <4>1
      <4>3. w + 1 \in Nat
        BY <2>1
      <4> HIDE DEF u
      <4> QED BY <3>1, <4>2, <4>3
    <3>2. CASE u = Tail(r)
      <4>1. /\ Tail(r) \in Seq(P) /\ Len(Tail(r)) = Len(r) - 1
            /\ \A i \in 1..(Len(r) - 1) : Tail(r)[i] = r[i + 1]
        BY <2>6, <2>9, TailIs
      <4>2. w \in 1..Len(Tail(r)) /\ Len(Tail(r)) - w = -power /\ w + 1 \in 1..Len(r)
        BY <2>1, <2>6, <4>1
      <4>3. Tail(r)[w] = POINT
        BY <2>6, <4>1, <4>2
      <4>4. ASSUME NEW i \in 1..Len(Tail(r)), Tail(r)[i] = POINT PROVE i = w
        <5>1. i + 1 \in 1..Len(r) /\ i \in 1..(Len(r) - 1)
          BY <2>1, <2>6, <4>1
        <5>2. r[i + 1] = POINT
          BY <4>1, <4>4, <5>1
        <5>3. i + 1 = w + 1
          BY <2>8, <5>1, <5>2
        <5> QED BY <2>1, <5>3
      <4> QED BY <2>1, <3>2, <4>1, <4>2, <4>3, <4>4
    <3> QED BY <3>1, <3>2 DEF Unsigned
  <2> HIDE DEF u
  <2>11. Len(decimals(u)) = -power
    <3> DEFINE k == Len(whole(u))
               m == Len(decimals(u))
               n == Len(u)
    <3>1. whole(u) \in Seq(P) /\ decimals(u) \in Seq(P)
      BY <2>10, Parts
    <3>2. k \in Nat /\ m \in Nat /\ n \in Nat
      BY <2>10, <3>1
    <3>3. n = k + 1 + m /\ u[k + 1] = POINT
      BY <2>10, Parts
    <3> HIDE DEF k, m, n
    <3>4. k + 1 \in 1..n
      BY <3>2, <3>3
    <3>5. k + 1 = p
      BY <2>10, <3>3, <3>4 DEF n
    <3>6. n - p = -power
      BY <2>10 DEF n
    <3>7. m = -power
      BY <3>2, <3>3, <3>5, <3>6
    <3> QED BY <3>7 DEF m
  <2>12. Len(decimals(u)) <= -power
    BY <2>11
  <2> QED BY <1>2, <2>6, <2>9, <2>10, <2>12 DEF B, u, r
<1> QED BY <1>3, <1>4

(* The number that such a text is, where it is one.                        *)
LEMMA ReadNumber ==
  ASSUME NEW S, POINT \notin S, S \subseteq 0..255, NEW x \in Seq(S), NEW power \in Int,
         -power \in Nat
  PROVE  LET r == insert_decimal_point(com_strdup(x), power)
         IN  /\ r \in Seq(0..255)
             /\ IsNumber(r) => Value(r, -power) \in Int
             /\ IsNumber(r) /\ MINUS \notin S => Value(r, -power) >= 0
<1> DEFINE r == insert_decimal_point(com_strdup(x), power)
           u == Unsigned(r)
           B == 0..255
<1>1. com_strdup(x) \in Seq(S)
  BY StrdupIs
<1> DEFINE c == com_strdup(x)
<1>2. /\ r \in Seq(B) /\ whole(u) \in Seq(B) /\ decimals(u) \in Seq(B)
      /\ r # << >> => r[1] \in S
      /\ r = << >> => whole(u) = << >> /\ decimals(u) = << >>
      /\ Len(decimals(u)) <= -power
  <2> HIDE DEF c
  <2> QED BY <1>1, PointIs
<1> SUFFICES ASSUME IsNumber(r)
             PROVE  Value(r, -power) \in Int /\ (MINUS \notin S => Value(r, -power) >= 0)
  BY <1>2
<1> HIDE DEF r, B
<1> DEFINE d == Digits(r)
<1>3. d = whole(u) \o decimals(u)
  BY DEF Digits
<1>4. d \in Seq(B)
  <2> HIDE DEF d, u
  <2> QED BY <1>2, <1>3, JoinIs
<1>5. d \in Seq(Figure) /\ d # << >>
  <2>1. d # << >> /\ \A i \in DOMAIN d : d[i] \in Figure
    BY DEF IsNumber, Figure
  <2> HIDE DEF d
  <2>2. Len(d) \in Nat /\ d = [i \in 1..Len(d) |-> d[i]]
    BY <1>4
  <2>3. \A i \in 1..Len(d) : d[i] \in Figure
    BY <1>4, <2>1
  <2>4. d \in Seq(Figure)
    <3> DEFINE n == Len(d)
    <3>1. n \in Nat /\ d = [i \in 1..n |-> d[i]] /\ \A i \in 1..n : d[i] \in Figure
      BY <2>2, <2>3
    <3> HIDE DEF n
    <3> QED BY <3>1, Made
  <2> QED BY <2>1, <2>4
<1>6. r # << >>
  <2>1. r = << >> => d = << >> \o << >>
    BY <1>2, <1>3
  <2>2. << >> \o << >> = << >>
    OBVIOUS
  <2> HIDE DEF d
  <2> QED BY <1>5, <2>1, <2>2
<1>7. NumberOf(d) \in Nat
  <2> HIDE DEF d
  <2> QED BY <1>5, NumberType DEF Figure
<1> DEFINE e == -power - Len(decimals(u))
<1>8. Pow10[e] \in Nat
  <2>1. Len(decimals(u)) \in Nat
    <3> HIDE DEF u
    <3> QED BY <1>2
  <2>2. e \in Nat
    <3> HIDE DEF u
    <3> QED BY <1>2, <2>1
  <2> HIDE DEF e
  <2> QED BY <2>2, Pow10Def
<1> DEFINE v == NumberOf(d) * Pow10[e]
<1>9. v \in Nat
  <2>1. \A y \in Nat, z \in Nat : y * z \in Nat
    OBVIOUS
  <2> HIDE DEF d, e
  <2> QED BY <1>7, <1>8, <2>1
<1>10. Value(r, -power) = IF r[1] = MINUS THEN -v ELSE v
  BY DEF Value
<1> HIDE DEF v
<1>11. MINUS \notin S => r[1] # MINUS
  BY <1>2, <1>6
<1> QED BY <1>9, <1>10, <1>11

(* A half byte is less than sixteen.                                       *)
LEMMA NibbleIs ==
  ASSUME NEW data \in Seq(0..255), NEW k \in Nat, k >= 1, (k + 1) \div 2 <= Len(data)
  PROVE  Nibble(data, k) \in 0..15
<1>1. Len(data) \in Nat /\ \A i \in 1..Len(data) : data[i] \in 0..255
  BY SeqIs
<1> DEFINE i == (k + 1) \div 2
           j == k \div 2
<1>2. i \in Nat /\ i >= 1 /\ j \in Nat /\ k % 2 \in 0..1
      /\ (k % 2 # 1 => j >= 1 /\ j <= i)
  OBVIOUS
<1>3. Nibble(data, k) = IF k % 2 = 1 THEN data[i] \div 16 ELSE data[j] % 16
  BY DEF Nibble
<1>4. \A y \in 0..255 : y \div 16 \in 0..15 /\ y % 16 \in 0..15
  OBVIOUS
<1>5. i <= Len(data)
  OBVIOUS
<1> HIDE DEF i, j
<1>6. i \in 1..Len(data) /\ (k % 2 # 1 => j \in 1..Len(data))
  BY <1>1, <1>2, <1>5
<1> QED BY <1>1, <1>3, <1>4, <1>6, ZenonT(40)

(* What is read from a packed number are digits.                           *)
LEMMA PackedDigitsIs ==
  ASSUME NEW it \in Item, Packed(it), NEW data \in Seq(0..255), Len(data) >= Bytes(it)
  PROVE  PackedDigits(it, data) \in Seq(Figure) /\ Len(PackedDigits(it, data)) = it.length
<1> DEFINE L == it.length
           skip == IF it.length % 2 = 0 THEN 1 ELSE 0
           shown(n) == IF n > 9 THEN Digit(1) ELSE Digit(n)
           f == [k \in 1..L |-> shown(Nibble(data, k + skip))]
<1>1. PackedDigits(it, data) = f
  BY DEF PackedDigits
<1>2. L \in Nat /\ Bytes(it) = (L + 2) \div 2
  BY ItemIs, BytesIs
<1>3. \A n \in 0..15 : shown(n) \in Figure
  BY DEF Digit, Figure
<1>4. ASSUME NEW k \in 1..L PROVE f[k] \in Figure
  <2>1. k + skip \in Nat /\ k + skip >= 1 /\ (k + skip + 1) \div 2 <= (L + 2) \div 2
    <3>1. L % 2 \in 0..1 /\ skip \in 0..1
      BY <1>2
    <3>2. k + skip + 1 <= L + 2
      BY <1>2, <3>1
    <3> DEFINE x == k + skip + 1
    <3>3. x \in Nat
      BY <1>2, <3>1
    <3> HIDE DEF x, L
    <3>4. x \div 2 <= (L + 2) \div 2
      BY <1>2, <3>2, <3>3 DEF x
    <3> QED BY <1>2, <3>1, <3>4 DEF x
  <2>2. Len(data) \in Nat
    OBVIOUS
  <2> DEFINE h == k + skip
  <2>3. h \in Nat /\ h >= 1 /\ (h + 1) \div 2 <= Len(data)
    BY <1>2, <2>1, <2>2
  <2>4. f[k] = shown(Nibble(data, h))
    OBVIOUS
  <2> HIDE DEF h, f
  <2>5. Nibble(data, h) \in 0..15
    BY <2>3, NibbleIs
  <2> QED BY <1>3, <2>4, <2>5
<1>5. f = [k \in 1..L |-> f[k]]
  OBVIOUS
<1> HIDE DEF f, L
<1>6. f \in Seq(Figure) /\ Len(f) = L
  BY <1>2, <1>4, <1>5, Made
<1> QED BY <1>1, <1>6 DEF L

(* Only the last byte of a trailing-combined number is changed.            *)
LEMMA CombinedDigitsIs ==
  ASSUME NEW S, NUL \in S, Figure \subseteq S, NEW data \in Seq(S)
  PROVE  CombinedDigits(data) \in Seq(S)
<1> DEFINE last == data[Len(data)]
           digit == IF last \in {Digit(d) : d \in 0..9} THEN last
                    ELSE IF type_tc_is_positive(last) THEN NUL
                    ELSE Digit(last - NegativeFinal(0))
<1>1. digit \in S
  <2>1. ASSUME NEW d \in 0..9 PROVE Digit(d) \in S
    <3>1. Digit(d) \in Figure
      BY DEF Digit, Figure
    <3> QED BY <3>1
  <2>2. ASSUME ~type_tc_is_positive(last) PROVE Digit(last - NegativeFinal(0)) \in S
    <3>1. PICK d \in 0..9 : last = 112 + d
      BY <2>2 DEF type_tc_is_positive, NegativeFinal
    <3>2. last - NegativeFinal(0) = d
      BY <3>1 DEF NegativeFinal
    <3> QED BY <2>1, <3>2
  <2> HIDE DEF last
  <2> QED BY <2>1, <2>2
<1>2. CombinedDigits(data) = [data EXCEPT ![Len(data)] = digit]
  BY DEF CombinedDigits
<1> HIDE DEF digit
<1>3. CASE data = << >>
  <2>1. [<< >> EXCEPT ![Len(<< >>)] = digit] = << >>
    OBVIOUS
  <2> QED BY <1>2, <1>3, <2>1
<1>4. CASE data # << >>
  <2>1. Len(data) \in 1..Len(data)
    BY <1>4, TailIs
  <2> QED BY <1>1, <1>2, <2>1, ChangedIs
<1> QED BY <1>3, <1>4

(* A header is a natural number.                                           *)
LEMMA HeaderIs ==
  ASSUME NEW data \in Seq(0..255), Len(data) >= 4
  PROVE  Header(data) \in Nat
<1>1. data[1] \in 0..255 /\ data[2] \in 0..255 /\ data[3] \in 0..255 /\ data[4] \in 0..255
  <2>1. Len(data) \in Nat /\ \A i \in 1..Len(data) : data[i] \in 0..255
    BY SeqIs
  <2> QED BY <2>1
<1> DEFINE a == data[1]
           b == data[2]
           c == data[3]
           d == data[4]
<1> HIDE DEF a, b, c, d
<1>2. a \in 0..255 /\ b \in 0..255 /\ c \in 0..255 /\ d \in 0..255
  BY <1>1 DEF a, b, c, d
<1>3. d % 128 \in 0..127
  BY <1>2
<1>4. a + 256 * b + 65536 * c + 16777216 * (d % 128) \in Nat
  BY <1>2, <1>3, SMT
<1> QED BY <1>4, SMT DEF Header, a, b, c, d

(* create_realdata type by type.                                           *)
LEMMA ReadCases ==
  ASSUME NEW it \in Item, NEW data
  PROVE  LET head == Take(data, it.length)
             point(s) == insert_decimal_point(com_strdup(s), it.power)
         IN
         /\ it.type = "UNSIGNED_NUMBER" => create_realdata(it, data) = point(head)
         /\ it.type = "SIGNED_NUMBER_TC"
              => create_realdata(it, data)
                   = point(Sign(type_tc_is_positive(head[it.length])) \o CombinedDigits(head))
         /\ it.type = "SIGNED_NUMBER_LS"
              => create_realdata(it, data) = point(Take(data, 1 + it.length))
         /\ it.type = "UNSIGNED_NUMBER_PD"
              => create_realdata(it, data) = point(PackedDigits(it, data))
         /\ it.type = "SIGNED_NUMBER_PD"
              => create_realdata(it, data)
                   = point(Sign(data[Bytes(it)] % 16 = 12) \o PackedDigits(it, data))
         /\ Varying(it)
              => create_realdata(it, data)
                   = com_strdup(Take(Drop(data, OCDB_VARCHAR_HEADER_BYTE),
                                     Header(data) * (Width(it) \div it.length)))
         /\ ~Numeric(it) /\ ~Varying(it)
              => create_realdata(it, data) = com_strdup(Take(data, Width(it)))
<1> QED BY DEF create_realdata, Varying, Numeric, Packed

(* The storage of a number is read as a number with its point and sign, or *)
(* as nothing that a column of numbers accepts.                            *)
LEMMA NumberReadIs ==
  ASSUME NEW it \in Item, Numeric(it), NEW data \in Seq(Alphabet(it)), Len(data) >= Bytes(it)
  PROVE  LET r == create_realdata(it, data)
         IN  /\ r \in Seq(0..255)
             /\ IsNumber(r) => Value(r, -it.power) \in Int
             /\ IsNumber(r) /\ ~Signed(it) => Value(r, -it.power) >= 0
<1>1. it.length \in Nat /\ it.power \in Int /\ -it.power \in Nat
  BY ItemIs
<1>2. ASSUME NEW S, POINT \notin S, S \subseteq 0..255, NEW x \in Seq(S),
             create_realdata(it, data) = insert_decimal_point(com_strdup(x), it.power),
             MINUS \notin S \/ Signed(it)
      PROVE  LET r == create_realdata(it, data)
             IN  /\ r \in Seq(0..255)
                 /\ IsNumber(r) => Value(r, -it.power) \in Int
                 /\ IsNumber(r) /\ ~Signed(it) => Value(r, -it.power) >= 0
  BY <1>1, <1>2, ReadNumber, ZenonT(40)
<1> DEFINE A == Alphabet(it)
           head == Take(data, it.length)
           sign(b) == Sign(b)
<1>3. A \subseteq 0..255 /\ head \in Seq(A)
  <2> HIDE DEF A
  <2>1. data \in Seq(A)
    BY DEF A
  <2> QED BY <1>1, <2>1, TakeIs, AlphabetIs DEF A
<1>4. ASSUME NEW S, {PLUS, MINUS} \subseteq S, NEW b \in BOOLEAN, NEW d \in Seq(S)
      PROVE  Sign(b) \o d \in Seq(S)
  <2>1. Sign(b) \in Seq(S)
    BY <1>4, SignSeq, SeqGrows
  <2> QED BY <2>1, JoinIs
<1>5. CASE it.type = "UNSIGNED_NUMBER"
  <2>1. POINT \notin A /\ MINUS \notin A
    BY <1>5, AlphabetIs
  <2>2. create_realdata(it, data) = insert_decimal_point(com_strdup(head), it.power)
    BY <1>5, ReadCases
  <2> HIDE DEF A, head
  <2> QED BY <1>2, <1>3, <2>1, <2>2
<1>6. CASE it.type = "SIGNED_NUMBER_TC"
  <2> DEFINE S == A \cup {PLUS, MINUS}
             b == type_tc_is_positive(head[it.length])
             x == Sign(b) \o CombinedDigits(head)
  <2>1. POINT \notin S /\ S \subseteq 0..255 /\ NUL \in S /\ Figure \subseteq S
        /\ {PLUS, MINUS} \subseteq S /\ A \subseteq S
    BY <1>6 DEF Alphabet, POINT, PLUS, MINUS, NUL, Figure
  <2>2. create_realdata(it, data) = insert_decimal_point(com_strdup(x), it.power)
    BY <1>6, ReadCases
  <2>3. Signed(it)
    BY <1>6 DEF Signed
  <2>4. b \in BOOLEAN
    BY DEF type_tc_is_positive
  <2> HIDE DEF A, S, head
  <2>5. CombinedDigits(head) \in Seq(S)
    <3>1. head \in Seq(S)
      BY <1>3, <2>1, SeqGrows
    <3> QED BY <2>1, <3>1, CombinedDigitsIs
  <2> DEFINE d == CombinedDigits(head)
  <2>6. x \in Seq(S)
    <3> HIDE DEF b, d
    <3> QED BY <1>4, <2>1, <2>4, <2>5 DEF d
  <2> HIDE DEF x
  <2> QED BY <1>2, <2>1, <2>2, <2>3, <2>6
<1>7. CASE it.type = "SIGNED_NUMBER_LS"
  <2> DEFINE x == Take(data, 1 + it.length)
  <2>1. POINT \notin A /\ Signed(it)
    BY <1>7, AlphabetIs DEF Signed
  <2>2. create_realdata(it, data) = insert_decimal_point(com_strdup(x), it.power)
    BY <1>7, ReadCases
  <2>3. x \in Seq(A)
    <3> DEFINE n == 1 + it.length
    <3>1. n \in Nat /\ data \in Seq(A)
      BY <1>1
    <3> HIDE DEF n, A
    <3> QED BY <3>1, TakeIs DEF n
  <2> HIDE DEF A, x
  <2> QED BY <1>2, <1>3, <2>1, <2>2, <2>3
<1>8. CASE Packed(it)
  <2> DEFINE S == Figure \cup {PLUS, MINUS}
             d == PackedDigits(it, data)
             b == data[Bytes(it)] % 16 = 12
             x == Sign(b) \o d
  <2>1. /\ POINT \notin S /\ S \subseteq 0..255 /\ {PLUS, MINUS} \subseteq S /\ Figure \subseteq S
        /\ POINT \notin Figure /\ MINUS \notin Figure /\ Figure \subseteq 0..255
    BY DEF Figure, POINT, PLUS, MINUS
  <2>2. d \in Seq(Figure)
    <3>1. data \in Seq(0..255)
      BY <1>8, AlphabetIs
    <3> QED BY <1>8, <3>1, PackedDigitsIs
  <2>3. CASE it.type = "UNSIGNED_NUMBER_PD"
    <3>1. create_realdata(it, data) = insert_decimal_point(com_strdup(d), it.power)
      BY <2>3, ReadCases
    <3> HIDE DEF d
    <3> QED BY <1>2, <2>1, <2>2, <3>1
  <2>4. CASE it.type = "SIGNED_NUMBER_PD"
    <3>1. create_realdata(it, data) = insert_decimal_point(com_strdup(x), it.power)
      BY <2>4, ReadCases
    <3>2. Signed(it) /\ b \in BOOLEAN
      BY <2>4 DEF Signed
    <3> HIDE DEF d, b, S
    <3>3. d \in Seq(S)
      BY <2>1, <2>2, SeqGrows
    <3>4. x \in Seq(S)
      BY <1>4, <2>1, <3>2, <3>3
    <3> HIDE DEF x
    <3> QED BY <1>2, <2>1, <3>1, <3>2, <3>4
  <2> QED BY <1>8, <2>3, <2>4 DEF Packed
<1> QED BY <1>5, <1>6, <1>7, <1>8 DEF Numeric

(* Characters are read up to the first NUL. *)
LEMMA TextReadIs ==
  ASSUME NEW it \in Item, ~Numeric(it), NEW data \in Seq(0..255), Len(data) >= Bytes(it)
  PROVE  create_realdata(it, data) \in Seq(1..255)
<1> DEFINE B == 0..255
<1>1. ASSUME NEW x \in Seq(B) PROVE com_strdup(x) \in Seq(1..255)
  <2> DEFINE c == com_strdup(x)
             N == 1..255
  <2>1. c \in Seq(B) /\ \A i \in 1..Len(c) : c[i] = x[i] /\ x[i] # NUL
    <3> HIDE DEF B
    <3> QED BY <1>1, StrdupIs
  <2> HIDE DEF c
  <2>2. Len(c) \in Nat /\ c = [i \in 1..Len(c) |-> c[i]] /\ \A i \in 1..Len(c) : c[i] \in B
    <3> HIDE DEF B
    <3> QED BY <2>1
  <2>3. \A i \in 1..Len(c) : c[i] \in N
    <3>1. \A y \in B : y # NUL => y \in N
      BY DEF NUL
    <3> HIDE DEF N, B
    <3> QED BY <2>1, <2>2, <3>1
  <2> DEFINE n == Len(c)
  <2>4. n \in Nat /\ c = [i \in 1..n |-> c[i]] /\ \A i \in 1..n : c[i] \in N
    BY <2>2, <2>3
  <2> HIDE DEF n, N
  <2>5. c \in Seq(N)
    BY <2>4, Made
  <2> QED BY <2>5 DEF c, N
<1>2. data \in Seq(B) /\ Width(it) \in Nat
  BY BytesIs
<1>3. CASE Varying(it)
  <2> DEFINE n == Header(data) * (Width(it) \div it.length)
             y == Drop(data, 4)
             x == Take(y, n)
  <2>1. create_realdata(it, data) = com_strdup(x)
    BY <1>3, ReadCases DEF OCDB_VARCHAR_HEADER_BYTE
  <2>2. n \in Nat
    <3>1. Len(data) >= 4
      <4>1. Len(data) \in Nat /\ Bytes(it) = 4 + Width(it)
        BY <1>3, BytesIs
      <4> QED BY <1>2, <4>1
    <3>2. Header(data) \in Nat
      BY <3>1, HeaderIs
    <3>3. Width(it) \div it.length \in 1..2
      BY UnitIs DEF Unit
    <3>4. \A p \in Nat, q \in 1..2 : p * q \in Nat
      OBVIOUS
    <3> QED BY <3>2, <3>3, <3>4
  <2> HIDE DEF n, B
  <2>3. y \in Seq(B)
    BY <1>2, 4 \in Nat, DropIs
  <2> HIDE DEF y
  <2>4. x \in Seq(B)
    BY <2>2, <2>3, TakeIs
  <2> HIDE DEF x
  <2> QED BY <1>1, <2>1, <2>4
<1>4. CASE ~Varying(it)
  <2> DEFINE x == Take(data, Width(it))
  <2>1. create_realdata(it, data) = com_strdup(x)
    BY <1>4, ReadCases
  <2> HIDE DEF B
  <2>2. x \in Seq(B)
    BY <1>2, TakeIs
  <2> HIDE DEF x
  <2> QED BY <1>1, <2>1, <2>2
<1> QED BY <1>3, <1>4

(* What the server stores of it is a text of the column. *)
LEMMA StoredIs ==
  ASSUME NEW it \in Item, NEW data \in Seq(Alphabet(it)), Len(data) >= Bytes(it),
         Accepts(it, create_realdata(it, data))
  PROVE  Stored(it, create_realdata(it, data)) \in Texts(it)
<1> DEFINE r == create_realdata(it, data)
           v == Value(r, -it.power)
<1>1. CASE Numeric(it)
  <2>1. v \in Int /\ (~Signed(it) => v >= 0)
    BY <1>1, NumberReadIs DEF Accepts
  <2>2. Stored(it, r) = Render(v, -it.power)
    BY <1>1 DEF Stored
  <2> HIDE DEF v, r
  <2>3. v \in {x \in Int : x < 0 => Signed(it)}
    BY <2>1
  <2> QED BY <1>1, <2>2, <2>3 DEF Texts, r
<1>2. CASE ~Numeric(it)
  <2>1. Alphabet(it) = 0..255
    BY <1>2, AlphabetIs
  <2>2. r \in Seq(1..255)
    BY <1>2, <2>1, TextReadIs
  <2> HIDE DEF r
  <2>3. Stored(it, r) \in Texts(it)
    BY <1>2, <2>2 DEF Stored, Texts
  <2> QED BY <2>3 DEF r
<1> QED BY <1>1, <1>2

-----------------------------------------------------------------------------
(* The storage of the host variable.                                       *)

Gap(h) == IF h.group THEN 1 ELSE 0

(* What the assumptions say of the host variable.                          *)
LEMMA HostIs ==
  ASSUME NEW h \in Hosts
  PROVE  /\ h.item \in Item /\ h.count \in Nat /\ h.count >= 1 /\ h.group \in BOOLEAN
         /\ Gap(h) \in 0..1
         /\ h.item.length \in Nat /\ h.item.length >= 1
         /\ Bytes(h.item) \in Nat /\ Bytes(h.item) >= 1
         /\ stride(h) = Bytes(h.item) + Gap(h)
<1>1. h \in [item : Item, count : Nat \ {0}, group : BOOLEAN]
  BY StatementsAssumption
<1>2. h.item \in Item /\ h.count \in Nat \ {0} /\ h.group \in BOOLEAN
  BY <1>1
<1>3. h.count \in Nat /\ h.count >= 1
  BY <1>2
<1> QED BY <1>1, <1>2, <1>3, ItemIs, BytesIs DEF stride, Gap

(* Every row lies within it, whether it is looked for at the place of its  *)
(* storage or at one reckoned from its length.                             *)
LEMMA ExtentIs ==
  ASSUME NEW h \in Hosts, NEW j \in 1..h.count,
         NEW d \in {Bytes(h.item) + Gap(h), h.item.length + Gap(h), h.item.length}
  PROVE  /\ Extent(h) \in Nat
         /\ (j - 1) * d \in Nat
         /\ (j - 1) * d + Bytes(h.item) <= Extent(h)
<1> DEFINE B == Bytes(h.item)
           L == h.item.length
           longer == IF B < L THEN L ELSE B
           g == Gap(h)
           c == h.count
           m == longer + g
<1>1. B \in Nat /\ L \in Nat /\ g \in 0..1 /\ c \in Nat
  BY HostIs
<1>2. Extent(h) = c * m + 2
  BY DEF Extent, Gap
<1>3. d \in Nat /\ d <= m /\ m \in Nat /\ B <= m
  <2>1. d = B + g \/ d = L + g \/ d = L
    OBVIOUS
  <2> HIDE DEF B, L, g
  <2> QED BY <1>1, <2>1
<1> HIDE DEF B, L, g, c, m
<1>4. j \in Nat /\ j - 1 \in Nat /\ j - 1 <= c - 1
  BY <1>1 DEF c
<1> DEFINE i == j - 1
<1>5. i \in Nat /\ i + 1 <= c
  BY <1>1, <1>4
<1> HIDE DEF i
<1>6. i * d \in Nat /\ i * d <= i * m /\ i * m \in Nat /\ (i + 1) * m = i * m + m
      /\ (i + 1) * m <= c * m /\ c * m \in Nat
  <2>1. \A x \in Nat, y \in Nat : x * y \in Nat
    OBVIOUS
  <2>2. \A x \in Nat, y \in Nat, z \in Nat : y <= z => x * y <= x * z
    OBVIOUS
  <2>3. \A x \in Nat, y \in Nat, z \in Nat : y <= z => y * x <= z * x
    OBVIOUS
  <2>4. \A x \in Nat, y \in Nat : (x + 1) * y = x * y + y
    OBVIOUS
  <2>5. i + 1 \in Nat
    BY <1>5
  <2> QED BY <1>1, <1>3, <1>5, <2>1, <2>2, <2>3, <2>4, <2>5
<1>7. i * d + B <= c * m + 2
  BY <1>1, <1>3, <1>6
<1>8. c * m + 2 \in Nat
  BY <1>6
<1> QED BY <1>2, <1>6, <1>7, <1>8 DEF i, B

(* The values of an item are texts of it.                                  *)
LEMMA ValuesAre ==
  ASSUME NEW it \in Item
  PROVE  /\ Values(it) \subseteq Texts(it) /\ << >> \in Texts(it)
         /\ Numeric(it) => Wide(it) \in Texts(it)
<1>1. CASE Numeric(it)
  <2>1. ASSUME NEW v \in Int, v < 0 => Signed(it) PROVE Render(v, -it.power) \in Texts(it)
    BY <1>1, <2>1 DEF Texts
  <2>2. Values(it) \subseteq Texts(it)
    BY <1>1, <2>1, StatementsAssumption DEF Values
  <2>3. Pow10[it.length] \in Int /\ ~(Pow10[it.length] < 0)
    BY ItemIs, Pow10Def
  <2>4. Wide(it) \in Texts(it)
    BY <2>1, <2>3 DEF Wide
  <2>5. << >> \in Texts(it)
    BY <1>1 DEF Texts
  <2> QED BY <2>2, <2>4, <2>5
<1>2. CASE ~Numeric(it)
  <2>1. Values(it) \subseteq Seq(1..255)
    BY <1>2, StatementsAssumption DEF Values
  <2>2. << >> \in Seq(1..255)
    OBVIOUS
  <2> QED BY <1>2, <2>1, <2>2 DEF Texts
<1> QED BY <1>1, <1>2

(* A text of the column is a sequence of bytes. *)
LEMMA TextBytes ==
  ASSUME NEW it \in Item, NEW t \in Texts(it)
  PROVE  t \in Seq(0..255)
<1>1. CASE Numeric(it)
  BY <1>1, TextIs
<1>2. CASE ~Numeric(it)
  <2>1. t \in Seq(1..255)
    BY <1>2 DEF Texts
  <2> QED BY <2>1
<1> QED BY <1>1, <1>2

(* Byte i of the storage is in the row that lies over it, or in no row. *)
LEMMA RowOf ==
  ASSUME NEW h \in Hosts, NEW i \in Nat, i >= 1
  PROVE  LET j == (i - 1) \div stride(h) + 1
             k == i - Offset(h, j)
         IN  /\ j \in Nat /\ j >= 1 /\ k \in 1..stride(h)
             /\ \A r \in Nat : r >= 1 /\ i - Offset(h, r) \in 1..stride(h) => r = j
<1> DEFINE p == stride(h)
           a == i - 1
           q == a \div p
<1>1. p \in Nat /\ p > 0
  BY HostIs
<1>2. a \in Nat
  OBVIOUS
<1> HIDE DEF p, a
<1>3. q \in Nat /\ p * q <= a /\ a < p * q + p
  BY <1>1, <1>2, Division
<1>4. i = a + 1
  BY DEF a
<1> HIDE DEF q
<1>5. Offset(h, q + 1) = q * p
  <2>1. Offset(h, q + 1) = ((q + 1) - 1) * p
    BY DEF Offset, p
  <2>2. (q + 1) - 1 = q
    BY <1>3
  <2> QED BY <2>1, <2>2
<1>6. q * p = p * q /\ p * q \in Nat
  BY <1>1, <1>3
<1>7. i - Offset(h, q + 1) \in 1..p
  <2> DEFINE m == p * q
  <2>1. m \in Nat /\ m <= a /\ a < m + p
    BY <1>3, <1>6
  <2> HIDE DEF m
  <2>2. (a + 1) - m \in 1..p
    BY <1>1, <1>2, <2>1
  <2> QED BY <1>4, <1>5, <1>6, <2>2 DEF m
<1>8. ASSUME NEW r \in Nat, r >= 1, i - Offset(h, r) \in 1..p PROVE r = q + 1
  <2> DEFINE x == r - 1
             m == x * p
             n == p * q
  <2>1. x \in Nat /\ r = x + 1
    BY <1>8
  <2> HIDE DEF x
  <2>2. Offset(h, r) = m
    BY DEF Offset, p, x
  <2>3. m \in Nat /\ n \in Nat /\ m <= a /\ a < m + p /\ n <= a /\ a < n + p
    <3>1. m \in Nat
      <4>1. \A y \in Nat, z \in Nat : y * z \in Nat
        OBVIOUS
      <4> QED BY <1>1, <2>1, <4>1
    <3> HIDE DEF m
    <3>2. (a + 1) - m \in 1..p
      BY <1>4, <1>8, <2>2
    <3>3. m <= a /\ a < m + p
      BY <1>1, <1>2, <3>1, <3>2
    <3> QED BY <1>3, <1>6, <3>1, <3>3
  <2>4. ~(x < q)
    <3> SUFFICES ASSUME x + 1 <= q PROVE FALSE
      BY <1>3, <2>1
    <3>1. p * (x + 1) <= p * q
      <4>1. \A y \in Nat, z \in Nat, w \in Nat : y <= z => w * y <= w * z
        OBVIOUS
      <4>2. x + 1 \in Nat
        BY <2>1
      <4> QED BY <1>1, <1>3, <4>1, <4>2
    <3>2. p * (x + 1) = m + p
      BY <1>1, <2>1
    <3> HIDE DEF m, n
    <3>3. m + p <= n
      BY <3>1, <3>2 DEF n
    <3> QED BY <1>1, <1>2, <2>3, <3>3
  <2>5. ~(q < x)
    <3> SUFFICES ASSUME q + 1 <= x PROVE FALSE
      BY <1>3, <2>1
    <3>1. p * (q + 1) <= p * x
      <4>1. \A y \in Nat, z \in Nat, w \in Nat : y <= z => w * y <= w * z
        OBVIOUS
      <4>2. q + 1 \in Nat
        BY <1>3
      <4> QED BY <1>1, <2>1, <4>1, <4>2
    <3>2. p * (q + 1) = n + p /\ p * x = m
      BY <1>1, <1>3, <2>1
    <3> HIDE DEF m, n
    <3>3. n + p <= m
      BY <3>1, <3>2
    <3> QED BY <1>1, <1>2, <2>3, <3>3
  <2> QED BY <1>3, <2>1, <2>4, <2>5
<1>9. q + 1 \in Nat /\ q + 1 >= 1
  BY <1>3
<1> QED BY <1>7, <1>8, <1>9 DEF a, p, q

(* What the program lays out: the storage of each value in its row.        *)
LEMMA LaidIs ==
  ASSUME NEW h \in Hosts, NEW es \in [1..h.count -> Texts(h.item)]
  PROVE  /\ Laid(h, es) \in [1..Extent(h) -> Alphabet(h.item)]
         /\ \A i \in 1..Extent(h) :
              \/ Laid(h, es)[i] = NEIGHBOUR
              \/ \E j \in 1..h.count : /\ i - Offset(h, j) \in 1..Bytes(h.item)
                                       /\ Laid(h, es)[i] = Storage(h.item, es[j])[i - Offset(h, j)]
         /\ \A j \in 1..h.count : \A k \in 1..Bytes(h.item) :
              Laid(h, es)[Offset(h, j) + k] = Storage(h.item, es[j])[k]
<1> DEFINE A == Alphabet(h.item)
           B == Bytes(h.item)
           row(i) == (i - 1) \div stride(h) + 1
           at(i) == i - Offset(h, row(i))
           f == [i \in 1..Extent(h) |->
                   IF row(i) <= h.count /\ at(i) <= B THEN Storage(h.item, es[row(i)])[at(i)]
                                                      ELSE NEIGHBOUR]
<1>1. Laid(h, es) = f
  BY DEF Laid
<1>2. h.item \in Item /\ h.count \in Nat /\ h.count >= 1 /\ B \in Nat /\ B >= 1
      /\ Gap(h) \in 0..1 /\ stride(h) = B + Gap(h)
  BY HostIs
<1>3. NEIGHBOUR \in A
  BY <1>2, AlphabetIs
<1>4. Extent(h) \in Nat
  BY <1>2, ExtentIs, 1 \in 1..h.count
<1>5. \A j \in 1..h.count : Storage(h.item, es[j]) \in Seq(A) /\ Len(Storage(h.item, es[j])) = B
  BY <1>2, StorageIs
<1>6. ASSUME NEW j \in 1..h.count, NEW k \in 1..B PROVE Storage(h.item, es[j])[k] \in A
  <2> DEFINE s == Storage(h.item, es[j])
  <2>1. s \in Seq(A) /\ Len(s) = B
    BY <1>5
  <2> HIDE DEF s, A, B
  <2> QED BY <2>1, SeqIs DEF s
<1> HIDE DEF A, B
<1>7. ASSUME NEW i \in 1..Extent(h)
      PROVE  row(i) \in Nat /\ row(i) >= 1 /\ at(i) \in 1..stride(h)
  <2>1. i \in Nat /\ i >= 1
    BY <1>4
  <2> QED BY <2>1, RowOf
<1>8. ASSUME NEW i \in 1..Extent(h)
      PROVE  \/ f[i] = NEIGHBOUR
             \/ /\ row(i) \in 1..h.count /\ at(i) \in 1..B
                /\ f[i] = Storage(h.item, es[row(i)])[at(i)]
  <2>1. row(i) \in Nat /\ row(i) >= 1 /\ at(i) \in 1..stride(h)
    BY <1>7
  <2>2. f[i] = IF row(i) <= h.count /\ at(i) <= B THEN Storage(h.item, es[row(i)])[at(i)]
                                                  ELSE NEIGHBOUR
    OBVIOUS
  <2> DEFINE x == row(i)
             y == at(i)
  <2>3. x \in Nat /\ x >= 1 /\ y \in 1..stride(h)
    BY <2>1
  <2> HIDE DEF f
  <2>4. f[i] = IF x <= h.count /\ y <= B THEN Storage(h.item, es[x])[y] ELSE NEIGHBOUR
    BY <2>2
  <2> HIDE DEF x, y
  <2>5. \/ f[i] = NEIGHBOUR
        \/ x \in 1..h.count /\ y \in 1..B /\ f[i] = Storage(h.item, es[x])[y]
    BY <1>2, <2>3, <2>4
  <2> QED BY <2>5 DEF x, y
<1>9. f \in [1..Extent(h) -> A]
  <2> SUFFICES \A i \in 1..Extent(h) : f[i] \in A
    <3>1. f = [i \in 1..Extent(h) |-> f[i]]
      OBVIOUS
    <3> HIDE DEF f
    <3> QED BY <3>1
  <2> HIDE DEF f, row, at
  <2> QED BY <1>3, <1>6, <1>8
<1>10. ASSUME NEW j \in 1..h.count, NEW k \in 1..B
       PROVE  f[Offset(h, j) + k] = Storage(h.item, es[j])[k]
  <2> DEFINE i == Offset(h, j) + k
  <2>1. Offset(h, j) \in Nat /\ i \in 1..Extent(h)
    <3>1. Offset(h, j) = (j - 1) * (B + Gap(h))
      BY <1>2 DEF Offset
    <3>2. (j - 1) * (B + Gap(h)) \in Nat /\ (j - 1) * (B + Gap(h)) + B <= Extent(h)
      BY ExtentIs DEF B
    <3> DEFINE o == (j - 1) * (B + Gap(h))
    <3> HIDE DEF o
    <3>3. o \in Nat /\ o + B <= Extent(h) /\ Offset(h, j) = o
      BY <3>1, <3>2 DEF o
    <3> QED BY <1>2, <1>4, <3>3
  <2>2. i - Offset(h, j) = k
    BY <1>2, <2>1
  <2>3. i \in Nat /\ i >= 1 /\ k \in 1..stride(h) /\ j \in Nat /\ j >= 1
    BY <1>2, <1>4, <2>1
  <2> HIDE DEF i
  <2>4. j = row(i)
    BY <2>2, <2>3, RowOf
  <2>5. f[i] = IF row(i) <= h.count /\ at(i) <= B THEN Storage(h.item, es[row(i)])[at(i)]
                                                  ELSE NEIGHBOUR
    BY <2>1 DEF i
  <2>6. at(i) = k
    BY <2>2, <2>4
  <2>7. j <= h.count /\ k <= B
    BY <1>2
  <2> HIDE DEF f, row, at
  <2> QED BY <2>4, <2>5, <2>6, <2>7 DEF i
<1>11. \A i \in 1..Extent(h) :
              \/ f[i] = NEIGHBOUR
              \/ \E j \in 1..h.count : /\ i - Offset(h, j) \in 1..B
                                       /\ f[i] = Storage(h.item, es[j])[i - Offset(h, j)]
  BY <1>8, Zenon
<1> HIDE DEF f
<1> QED BY <1>1, <1>9, <1>10, <1>11 DEF A, B

-----------------------------------------------------------------------------
(* Writing rows.                                                           *)

(* A finite range of naturals has a greatest member.                       *)
LEMMA Greatest ==
  ASSUME NEW n \in Nat, NEW T, T \subseteq 1..n, T # {}
  PROVE  \E x \in T : \A y \in T : y <= x
<1> DEFINE U == {n - y : y \in T}
<1>1. U \subseteq Nat /\ U # {}
  <2>1. \A y \in T : n - y \in Nat
    OBVIOUS
  <2>2. PICK y : y \in T
    OBVIOUS
  <2>3. n - y \in U
    BY <2>2
  <2> QED BY <2>1, <2>3
<1>2. PICK u \in U : \A y \in U : u <= y
  <2> HIDE DEF U
  <2> QED BY <1>1, LeastNat
<1>3. PICK x \in T : u = n - x
  BY <1>2
<1>4. ASSUME NEW y \in T PROVE y <= x
  <2>1. n - x <= n - y
    BY <1>2, <1>3
  <2> QED BY <2>1
<1> QED BY <1>4

HostOK == host \in Hosts

FrameOK ==
  /\ frame \in [open : BOOLEAN, params : 0..2, results : 0..1, iter : {0, host.count},
                length : Nat, is_parent : BOOLEAN, done : BOOLEAN]
  /\ frame.iter > 0 => /\ frame.is_parent = host.group
                       /\ frame.length = host.item.length + Gap(host)

MemOK == mem \in [1..Extent(host) -> Alphabet(host.item)]

(* The statement is about the rows that the host variable has.             *)
Placed == frame.iter > 0 \/ host.count = 1

(* Where the runtime looks for row j it stays inside the extent.           *)
LEMMA AddressIs ==
  ASSUME HostOK, FrameOK, NEW j \in 1..host.count, Placed \/ j = 1
  PROVE  /\ Address(j) \in Nat
         /\ Address(j) + Bytes(host.item) <= Extent(host)
         /\ StrideRight(host) => Address(j) = Offset(host, j)
<1> DEFINE L == host.item.length
           B == Bytes(host.item)
           g == Gap(host)
           d == IF frame.is_parent THEN frame.length ELSE L
<1>1. /\ host.count \in Nat /\ host.count >= 1 /\ L \in Nat /\ B \in Nat /\ g \in 0..1
      /\ stride(host) = B + g /\ (host.group => g = 1) /\ (~host.group => g = 0)
  BY HostIs DEF HostOK, Gap
<1>2. Address(j) = (j - 1) * d /\ Offset(host, j) = (j - 1) * (B + g)
  BY <1>1 DEF Address, Offset
<1>3. CASE j = 1
  <2>1. j - 1 = 0
    BY <1>3
  <2>2. d \in Int /\ B + g \in Int
    BY <1>1 DEF FrameOK
  <2>3. 0 * d = 0 /\ 0 * (B + g) = 0
    <3> HIDE DEF d, B, g
    <3> QED BY <2>2
  <2>4. Address(j) = 0 /\ Offset(host, j) = 0
    BY <1>2, <2>1, <2>3
  <2>5. B <= Extent(host)
    <3>1. (j - 1) * (B + g) + B <= Extent(host)
      BY ExtentIs DEF HostOK
    <3> HIDE DEF B, g
    <3> QED BY <1>1, <2>1, <2>3, <3>1
  <2> HIDE DEF B
  <2> QED BY <1>1, <2>4, <2>5 DEF B
<1>4. CASE j # 1
  <2>0. host.count # 1 /\ Placed
    BY <1>1, <1>4
  <2>1. d \in {L + g, L}
    BY <1>1, <2>0 DEF FrameOK, Placed
  <2>2. (j - 1) * d \in Nat /\ (j - 1) * d + B <= Extent(host)
    <3> HIDE DEF d
    <3> QED BY <2>1, ExtentIs DEF HostOK
  <2>3. StrideRight(host) => d = B + g
    <3>1. StrideRight(host) => B = L
      BY <2>0 DEF StrideRight
    <3>2. frame.is_parent => d = L + g
      BY <2>0 DEF FrameOK, Placed
    <3>3. ~frame.is_parent => d = L /\ g = 0
      BY <1>1, <2>0 DEF FrameOK, Placed
    <3> HIDE DEF d, B, L, g
    <3> QED BY <1>1, <3>1, <3>2, <3>3
  <2> HIDE DEF d
  <2> QED BY <1>2, <2>2, <2>3
<1> QED BY <1>3, <1>4

(* Every byte is as it was, or the last row written over it left it. *)
LEMMA OverwrittenIs ==
  ASSUME HostOK, MemOK, NEW n \in Nat, NEW W, W = [j \in 1..n |-> W[j]],
         \A j \in 1..n : W[j] \in Seq(Alphabet(host.item))
  PROVE  /\ Overwritten(W) \in [1..Extent(host) -> Alphabet(host.item)]
         /\ \A i \in 1..Extent(host) :
              \/ /\ Overwritten(W)[i] = mem[i]
                 /\ \A j \in 1..n : i - Address(j) \notin 1..Len(W[j])
              \/ \E j \in 1..n : /\ i - Address(j) \in 1..Len(W[j])
                                 /\ Overwritten(W)[i] = W[j][i - Address(j)]
                                 /\ \A k \in 1..n : i - Address(k) \in 1..Len(W[k]) => k <= j
<1> DEFINE A == Alphabet(host.item)
           over(i) == {j \in DOMAIN W : i - Address(j) \in 1..Len(W[j])}
           top(i) == CHOOSE j \in over(i) : \A k \in over(i) : k <= j
           f == [i \in DOMAIN mem |-> IF over(i) = {} THEN mem[i]
                                      ELSE W[top(i)][i - Address(top(i))]]
<1>1. Overwritten(W) = f
  BY DEF Overwritten
<1>2. DOMAIN mem = 1..Extent(host) /\ DOMAIN W = 1..n
  BY DEF MemOK
<1>3. ASSUME NEW i \in 1..Extent(host), over(i) # {}
      PROVE  top(i) \in over(i) /\ \A k \in over(i) : k <= top(i)
  <2> DEFINE T == over(i)
  <2>1. T \subseteq 1..n /\ T # {}
    BY <1>2, <1>3
  <2> HIDE DEF T
  <2>2. \E x \in T : \A y \in T : y <= x
    BY <2>1, Greatest
  <2> DEFINE t == CHOOSE j \in T : \A k \in T : k <= j
  <2>3. t \in T /\ \A k \in T : k <= t
    BY <2>2
  <2> QED BY <2>3 DEF T
<1> HIDE DEF top
<1>4. ASSUME NEW i \in 1..Extent(host)
      PROVE  \/ f[i] = mem[i] /\ \A j \in 1..n : i - Address(j) \notin 1..Len(W[j])
             \/ \E j \in 1..n : /\ i - Address(j) \in 1..Len(W[j])
                                /\ f[i] = W[j][i - Address(j)]
                                /\ \A k \in 1..n : i - Address(k) \in 1..Len(W[k]) => k <= j
  <2>1. f[i] = IF over(i) = {} THEN mem[i] ELSE W[top(i)][i - Address(top(i))]
    BY <1>2
  <2> HIDE DEF f
  <2>2. CASE over(i) = {}
    BY <1>2, <2>1, <2>2, Zenon
  <2>3. CASE over(i) # {}
    <3>1. top(i) \in over(i) /\ \A k \in over(i) : k <= top(i)
      BY <1>3, <2>3
    <3>2. top(i) \in 1..n /\ i - Address(top(i)) \in 1..Len(W[top(i)])
      BY <1>2, <3>1, Zenon
    <3>3. \A k \in 1..n : i - Address(k) \in 1..Len(W[k]) => k <= top(i)
      BY <1>2, <3>1, Zenon
    <3> QED BY <2>1, <2>3, <3>2, <3>3, Zenon
  <2> QED BY <2>2, <2>3
<1>5. ASSUME NEW i \in 1..Extent(host) PROVE f[i] \in A
  <2>1. CASE f[i] = mem[i]
    BY <2>1 DEF MemOK
  <2>2. ASSUME NEW j \in 1..n, i - Address(j) \in 1..Len(W[j]), f[i] = W[j][i - Address(j)]
        PROVE  f[i] \in A
    <3> DEFINE w == W[j]
               k == i - Address(j)
    <3>1. w \in Seq(A) /\ k \in 1..Len(w) /\ f[i] = w[k]
      BY <2>2
    <3> HIDE DEF w, k, A, f
    <3> QED BY <3>1, SeqIs
  <2> HIDE DEF f, A
  <2> QED BY <1>4, <2>1, <2>2
<1>6. f = [i \in 1..Extent(host) |-> f[i]]
  BY <1>2
<1> HIDE DEF f, over
<1>7. f \in [1..Extent(host) -> A]
  BY <1>5, <1>6
<1> QED BY <1>1, <1>4, <1>7

(* What is written for each row of the host variable. *)
LEMMA WrittenIs ==
  ASSUME HostOK, NEW rows \in Seq(Texts(host.item)), rows # << >>
  PROVE  LET W == Written(rows, host.count)
         IN  /\ W = [j \in 1..host.count |-> W[j]]
             /\ \A j \in 1..host.count : W[j] \in Seq(Alphabet(host.item))
             /\ StrideRight(host)
                  => \A j \in 1..host.count :
                       Len(W[j]) <= Bytes(host.item)
                                      + IF host.item.type = "SIGNED_NUMBER_TC" THEN 1 ELSE 0
<1> DEFINE n == host.count
           it == host.item
           A == Alphabet(it)
           extra == IF it.type = "SIGNED_NUMBER_TC" THEN 1 ELSE 0
           low == create_coboldata_lowvalue(it)
           f == [j \in 1..n |-> IF j <= Len(rows) THEN create_coboldata(it, rows[j]) ELSE low]
<1>1. Written(rows, n) = f
  BY DEF Written
<1>2. it \in Item /\ n \in Nat /\ n >= 1 /\ it.length \in Nat /\ Bytes(it) \in Nat
  BY HostIs DEF HostOK
<1>3. low \in Seq(A) /\ Len(low) = it.length
  <2> DEFINE m == it.length
  <2>1. low = [i \in 1..m |-> NUL] /\ NUL \in A
    BY <1>2, AlphabetIs DEF create_coboldata_lowvalue
  <2> HIDE DEF low, A, m
  <2>2. low = [i \in 1..m |-> low[i]] /\ \A i \in 1..m : low[i] \in A
    BY <2>1
  <2>3. m \in Nat
    BY <1>2 DEF m
  <2>4. low \in Seq(A) /\ Len(low) = m
    BY <2>2, <2>3, Made
  <2> QED BY <2>4 DEF m, A
<1>4. Len(rows) \in Nat /\ Len(rows) >= 1 /\ \A j \in 1..Len(rows) : rows[j] \in Texts(it)
  <2> DEFINE S == Texts(it)
  <2>1. rows \in Seq(S)
    OBVIOUS
  <2> HIDE DEF S
  <2> QED BY <2>1, TailIs, SeqIs DEF S
<1>5. ASSUME NEW j \in 1..n
      PROVE  /\ f[j] \in Seq(A)
             /\ StrideRight(host) => Len(f[j]) <= Bytes(it) + extra
  <2>1. CASE j <= Len(rows)
    <3>1. f[j] = create_coboldata(it, rows[j]) /\ rows[j] \in Texts(it)
      BY <1>2, <1>4, <2>1
    <3> HIDE DEF f, it
    <3> QED BY <1>2, <3>1, ConvertIs
  <2>2. CASE ~(j <= Len(rows))
    <3>1. f[j] = low
      BY <2>2
    <3>2. n # 1
      BY <1>2, <1>4, <2>2
    <3>3. StrideRight(host) => Bytes(it) = it.length
      BY <3>2 DEF StrideRight
    <3>4. extra \in 0..1
      OBVIOUS
    <3> HIDE DEF f, low, extra, it, n
    <3> QED BY <1>2, <1>3, <3>1, <3>3, <3>4
  <2> QED BY <2>1, <2>2
<1>6. f = [j \in 1..n |-> f[j]]
  OBVIOUS
<1> HIDE DEF f
<1> QED BY <1>1, <1>5, <1>6

(* Nothing is written outside the rows, but for the byte behind a          *)
(* trailing-combined number.                                               *)
LEMMA FilledIs ==
  ASSUME HostOK, FrameOK, MemOK, Placed, NEW rows \in Seq(Texts(host.item)), rows # << >>
  PROVE  /\ Filled(rows, host.count) \in [1..Extent(host) -> Alphabet(host.item)]
         /\ StrideRight(host) =>
              \A i \in 1..Extent(host) : Outside(i) => Filled(rows, host.count)[i] = mem[i]
<1> DEFINE n == host.count
           W == Written(rows, n)
           f == Filled(rows, n)
           extra == IF host.item.type = "SIGNED_NUMBER_TC" THEN 1 ELSE 0
           B == Bytes(host.item)
<1>1. f = Overwritten(W)
  BY DEF Filled
<1>2. /\ W = [j \in 1..n |-> W[j]]
      /\ \A j \in 1..n : W[j] \in Seq(Alphabet(host.item))
      /\ StrideRight(host) => \A j \in 1..n : Len(W[j]) <= B + extra
  BY WrittenIs
<1>3. n \in Nat /\ B \in Nat /\ extra \in 0..1
  BY HostIs DEF HostOK
<1> HIDE DEF W, f, n
<1>4. /\ Overwritten(W) \in [1..Extent(host) -> Alphabet(host.item)]
      /\ \A i \in 1..Extent(host) :
           \/ Overwritten(W)[i] = mem[i]
           \/ \E j \in 1..n : i - Address(j) \in 1..Len(W[j])
  BY <1>2, <1>3, OverwrittenIs
<1>5. ASSUME StrideRight(host), NEW i \in 1..Extent(host), Outside(i)
      PROVE  f[i] = mem[i]
  <2>1. ASSUME NEW j \in 1..n, i - Address(j) \in 1..Len(W[j]) PROVE FALSE
    <3>1. i - Offset(host, j) \in 1..Len(W[j])
      BY <1>5, <2>1, AddressIs DEF n
    <3>2. i - Offset(host, j) \notin 1..(B + extra)
      BY <1>5 DEF Outside, n
    <3>3. Len(W[j]) <= B + extra /\ Len(W[j]) \in Nat
      BY <1>2, <1>5
    <3> DEFINE x == i - Offset(host, j)
               m == Len(W[j])
    <3> HIDE DEF x, m, B, extra
    <3>4. x \in 1..m /\ x \notin 1..(B + extra) /\ m <= B + extra /\ m \in Nat
      BY <3>1, <3>2, <3>3 DEF x, m
    <3> QED BY <1>3, <3>4
  <2> QED BY <1>1, <1>4, <2>1
<1> QED BY <1>1, <1>4, <1>5 DEF n, f

(* Matching goes through the rows one by one.                              *)
LEMMA MatchingSteps ==
  ASSUME NEW S, NEW rows \in Seq(S), NEW values
  PROVE  \E kept :
           /\ \A i \in 0..Len(rows) :
                kept[i] = IF i = 0 THEN << >>
                          ELSE IF rows[i] \in values THEN Append(kept[i - 1], rows[i])
                               ELSE kept[i - 1]
           /\ Matching(rows, values) = kept[Len(rows)]
<1> DEFINE step == [p \in Nat \X Seq(S) |->
                      IF p[1] \in 1..Len(rows) /\ rows[p[1]] \in values
                      THEN Append(p[2], rows[p[1]]) ELSE p[2]]
           P(f) == f = [i \in 0..Len(rows) |->
                          IF i = 0 THEN << >>
                          ELSE IF rows[i] \in values THEN Append(f[i - 1], rows[i])
                               ELSE f[i - 1]]
<1>1. Len(rows) \in Nat /\ \A i \in 1..Len(rows) : rows[i] \in S
  BY SeqIs
<1>2. step \in [Nat \X Seq(S) -> Seq(S)] /\
      \A i \in Nat, q \in Seq(S) :
        step[<<i, q>>] = IF i \in 1..Len(rows) /\ rows[i] \in values THEN Append(q, rows[i]) ELSE q
  <2>1. ASSUME NEW i \in Nat, NEW q \in Seq(S)
        PROVE  (IF i \in 1..Len(rows) /\ rows[i] \in values THEN Append(q, rows[i]) ELSE q) \in Seq(S)
    <3>1. CASE i \in 1..Len(rows) /\ rows[i] \in values
      <4> DEFINE x == rows[i]
      <4>1. x \in S
        BY <1>1, <3>1
      <4> HIDE DEF x
      <4>2. Append(q, x) \in Seq(S)
        BY <4>1
      <4> QED BY <3>1, <4>2 DEF x
    <3>2. CASE ~(i \in 1..Len(rows) /\ rows[i] \in values)
      BY <3>2, Zenon
    <3> QED BY <3>1, <3>2
  <2>2. ASSUME NEW i \in Nat, NEW q \in Seq(S)
        PROVE  step[<<i, q>>] = IF i \in 1..Len(rows) /\ rows[i] \in values
                                THEN Append(q, rows[i]) ELSE q
    <3>1. <<i, q>> \in Nat \X Seq(S) /\ <<i, q>>[1] = i /\ <<i, q>>[2] = q
      OBVIOUS
    <3> QED BY <3>1, Zenon
  <2>3. \A p \in Nat \X Seq(S) : p[1] \in Nat /\ p[2] \in Seq(S) /\ p = <<p[1], p[2]>>
    OBVIOUS
  <2>4. \A p \in Nat \X Seq(S) : step[p] \in Seq(S)
    <3> SUFFICES ASSUME NEW p \in Nat \X Seq(S) PROVE step[p] \in Seq(S)
      OBVIOUS
    <3>1. p[1] \in Nat /\ p[2] \in Seq(S) /\ step[p] = step[<<p[1], p[2]>>]
      BY <2>3, Zenon
    <3>2. ASSUME NEW i \in Nat, NEW q \in Seq(S) PROVE step[<<i, q>>] \in Seq(S)
      <4> HIDE DEF step
      <4> QED BY <2>1, <2>2, Zenon
    <3> HIDE DEF step
    <3> QED BY <3>1, <3>2, Zenon
  <2>5. step = [p \in Nat \X Seq(S) |-> step[p]]
    OBVIOUS
  <2> HIDE DEF step
  <2>6. step \in [Nat \X Seq(S) -> Seq(S)]
    BY <2>4, <2>5, Zenon
  <2> QED BY <2>2, <2>6
<1> HIDE DEF step
<1>3. PICK g : Recursive(Seq(S), << >>, step, g)
  <2>1. << >> \in Seq(S)
    OBVIOUS
  <2> QED BY <1>2, <2>1, Recursion
<1>4. /\ g \in [Nat -> Seq(S)] /\ g[0] = << >>
      /\ \A i \in 1..Len(rows) :
           g[i] = IF rows[i] \in values THEN Append(g[i - 1], rows[i]) ELSE g[i - 1]
  <2>1. /\ g \in [Nat -> Seq(S)] /\ g[0] = << >>
        /\ \A n \in Nat : g[n + 1] = step[<<n + 1, g[n]>>]
    BY <1>3, Zenon DEF Recursive
  <2>2. ASSUME NEW i \in 1..Len(rows)
        PROVE  g[i] = IF rows[i] \in values THEN Append(g[i - 1], rows[i]) ELSE g[i - 1]
    <3>1. i - 1 \in Nat /\ (i - 1) + 1 = i /\ i \in Nat
      BY <1>1
    <3>2. g[(i - 1) + 1] = step[<<(i - 1) + 1, g[i - 1]>>]
      BY <2>1, <3>1, Zenon
    <3>3. g[i] = step[<<i, g[i - 1]>>] /\ g[i - 1] \in Seq(S)
      BY <2>1, <3>1, <3>2
    <3> QED BY <1>2, <3>1, <3>3, Zenon
  <2> QED BY <2>1, <2>2
<1> DEFINE h == [i \in 0..Len(rows) |-> g[i]]
<1>5. P(h)
  <2>1. ASSUME NEW i \in 0..Len(rows), i # 0 PROVE i \in 1..Len(rows) /\ i - 1 \in 0..Len(rows)
    BY <1>1, <2>1
  <2>2. ASSUME NEW i \in 0..Len(rows), i # 0 PROVE h[i] = g[i] /\ h[i - 1] = g[i - 1]
    BY <2>1, <2>2, Zenon
  <2>3. 0 \in 0..Len(rows)
    BY <1>1
  <2>4. h[0] = << >>
    BY <1>4, <2>3
  <2>5. ASSUME NEW i \in 0..Len(rows)
        PROVE  h[i] = IF i = 0 THEN << >>
                      ELSE IF rows[i] \in values THEN Append(h[i - 1], rows[i]) ELSE h[i - 1]
    <3>1. CASE i = 0
      BY <2>4, <3>1
    <3>2. CASE i # 0
      <4>1. g[i] = IF rows[i] \in values THEN Append(g[i - 1], rows[i]) ELSE g[i - 1]
        BY <1>4, <2>1, <3>2
      <4> HIDE DEF h
      <4> QED BY <2>2, <3>2, <4>1, Zenon
    <3> QED BY <3>1, <3>2
  <2>6. h = [i \in 0..Len(rows) |-> h[i]]
    OBVIOUS
  <2> HIDE DEF h
  <2> QED BY <2>5, <2>6, Zenon
<1> DEFINE kept == CHOOSE f : P(f)
<1>6. P(kept)
  <2> HIDE DEF P, h
  <2> QED BY <1>5, Zenon
<1>7. Matching(rows, values) = kept[Len(rows)]
  BY Zenon DEF Matching
<1> HIDE DEF kept, h
<1>8. \A i \in 0..Len(rows) :
        kept[i] = IF i = 0 THEN << >>
                  ELSE IF rows[i] \in values THEN Append(kept[i - 1], rows[i]) ELSE kept[i - 1]
  BY <1>6, Zenon
<1> QED BY <1>7, <1>8

(* The rows that match are some of the rows.                               *)
LEMMA MatchingIs ==
  ASSUME NEW S, NEW rows \in Seq(S), NEW values
  PROVE  Matching(rows, values) \in Seq(S)
<1>1. Len(rows) \in Nat /\ \A i \in 1..Len(rows) : rows[i] \in S
  BY SeqIs
<1>2. PICK kept :
        /\ \A i \in 0..Len(rows) :
             kept[i] = IF i = 0 THEN << >>
                       ELSE IF rows[i] \in values THEN Append(kept[i - 1], rows[i])
                            ELSE kept[i - 1]
        /\ Matching(rows, values) = kept[Len(rows)]
  BY MatchingSteps
<1> DEFINE T == {i \in Nat : i <= Len(rows) => kept[i] \in Seq(S)}
<1>3. 0 \in T
  <2>1. 0 \in 0..Len(rows) /\ << >> \in Seq(S)
    BY <1>1
  <2> QED BY <1>2, <2>1
<1>4. ASSUME NEW i \in Nat, i \in T PROVE i + 1 \in T
  <2> SUFFICES ASSUME i + 1 <= Len(rows) PROVE kept[i + 1] \in Seq(S)
    OBVIOUS
  <2> DEFINE x == rows[i + 1]
             q == kept[i]
  <2>1. q \in Seq(S) /\ i + 1 \in 0..Len(rows) /\ i + 1 \in 1..Len(rows)
        /\ (i + 1) - 1 = i /\ i + 1 # 0
    BY <1>1, <1>4
  <2>2. x \in S
    BY <1>1, <2>1
  <2>3. kept[i + 1] = IF x \in values THEN Append(q, x) ELSE q
    BY <1>2, <2>1
  <2> HIDE DEF x, q
  <2>4. Append(q, x) \in Seq(S)
    BY <2>1, <2>2
  <2> QED BY <2>1, <2>3, <2>4
<1> HIDE DEF T
<1>5. \A i \in Nat : i \in T
  BY <1>3, <1>4, InductSet
<1> QED BY <1>1, <1>2, <1>5 DEF T

(* Which rows match depends on them alone.                                 *)
LEMMA MatchingSame ==
  ASSUME NEW S, NEW rows \in Seq(S), NEW U, NEW V,
         \A i \in 1..Len(rows) : rows[i] \in U <=> rows[i] \in V
  PROVE  Matching(rows, U) = Matching(rows, V)
<1>1. Len(rows) \in Nat
  BY SeqIs
<1>2. PICK f : /\ \A i \in 0..Len(rows) :
                    f[i] = IF i = 0 THEN << >>
                           ELSE IF rows[i] \in U THEN Append(f[i - 1], rows[i]) ELSE f[i - 1]
               /\ Matching(rows, U) = f[Len(rows)]
  BY MatchingSteps
<1>3. PICK g : /\ \A i \in 0..Len(rows) :
                    g[i] = IF i = 0 THEN << >>
                           ELSE IF rows[i] \in V THEN Append(g[i - 1], rows[i]) ELSE g[i - 1]
               /\ Matching(rows, V) = g[Len(rows)]
  BY MatchingSteps
<1> DEFINE T == {i \in Nat : i <= Len(rows) => f[i] = g[i]}
<1>4. 0 \in T
  <2>1. 0 \in 0..Len(rows)
    BY <1>1
  <2> QED BY <1>2, <1>3, <2>1
<1>5. ASSUME NEW i \in Nat, i \in T PROVE i + 1 \in T
  <2> SUFFICES ASSUME i + 1 <= Len(rows) PROVE f[i + 1] = g[i + 1]
    OBVIOUS
  <2>1. f[i] = g[i] /\ i + 1 \in 0..Len(rows) /\ i + 1 \in 1..Len(rows)
        /\ (i + 1) - 1 = i /\ i + 1 # 0
    BY <1>1, <1>5
  <2> DEFINE x == rows[i + 1]
  <2>2. f[i + 1] = (IF x \in U THEN Append(f[i], x) ELSE f[i])
    BY <1>2, <2>1
  <2>3. g[i + 1] = (IF x \in V THEN Append(g[i], x) ELSE g[i])
    BY <1>3, <2>1
  <2>4. x \in U <=> x \in V
    BY <2>1
  <2> HIDE DEF x
  <2> QED BY <2>1, <2>2, <2>3, <2>4
<1> HIDE DEF T
<1>6. \A i \in Nat : i \in T
  BY <1>4, <1>5, InductSet
<1> QED BY <1>1, <1>2, <1>3, <1>6 DEF T

(* What a parameter is sent as.                                            *)
LEMMA RowStored ==
  ASSUME HostOK, FrameOK, MemOK, NEW j \in 1..host.count, Placed \/ j = 1,
         Accepts(host.item, realdata(j))
  PROVE  Stored(host.item, realdata(j)) \in Texts(host.item)
<1> DEFINE A == Alphabet(host.item)
           E == Extent(host)
           a == Address(j)
           B == Bytes(host.item)
           data == Drop(mem, a)
<1>1. host.item \in Item /\ B \in Nat /\ B >= 1
  BY HostIs DEF HostOK
<1>2. a \in Nat /\ a + B <= E
  BY AddressIs
<1>3. E \in Nat
  <2>1. 1 \in 1..host.count
    BY HostIs DEF HostOK
  <2> QED BY <2>1, ExtentIs DEF HostOK
<1>4. mem \in Seq(A) /\ Len(mem) = E
  <2>1. mem = [i \in 1..E |-> mem[i]] /\ \A i \in 1..E : mem[i] \in A
    BY DEF MemOK
  <2> HIDE DEF A, E
  <2> QED BY <1>3, <2>1, Made
<1>5. realdata(j) = create_realdata(host.item, data)
  BY DEF realdata
<1> HIDE DEF A, E, a, B
<1>6. data \in Seq(A) /\ Len(data) = E - a
  <2>1. data \in Seq(A) /\ Len(data) = IF a < Len(mem) THEN Len(mem) - a ELSE 0
    BY <1>2, <1>4, DropIs
  <2> QED BY <1>1, <1>2, <1>3, <1>4, <2>1
<1> HIDE DEF data
<1>7. Len(data) >= B
  BY <1>1, <1>2, <1>3, <1>6
<1> QED BY <1>1, <1>5, <1>6, <1>7, StoredIs DEF A, B

-----------------------------------------------------------------------------
(* The invariant.                                                          *)

Rows == Seq(Texts(host.item))

ElemsOK == elems \in [1..host.count -> Seq(0..255)]

TableOK == table \in Rows /\ Len(table) <= MaxRows

CursorOK ==
  /\ cursor \in [open : BOOLEAN, rows : Rows, pos : Nat, tuples : Nat, base : Int]
  /\ cursor.pos <= Len(cursor.rows)
  /\ ~cursor.open => cursor.pos = 0

(* CURSORLIST.tuples is what earlier openings delivered and the rows       *)
(* passed in this one.                                                     *)
Counting == cursor.tuples = cursor.base + cursor.pos

ResOK == res \in [kind : {"none", "error", "ok", "tuples"}, rows : Rows, count : Nat]

Codes == {SUCCESS, NOT_FOUND, TOO_MANY_ARGUMENTS, TOO_FEW_ARGUMENTS, EMPTY, PGSQL}
CodesOK == sqlcode \in Codes /\ sqlerrd \in Nat

IInv ==
  /\ HostOK /\ FrameOK /\ MemOK /\ ElemsOK /\ TableOK /\ CursorOK /\ Counting
  /\ ResOK /\ CodesOK /\ NeighbourKept

(* What a step leaves alone keeps its part of the invariant. *)
LEMMA Kept ==
  ASSUME IInv, UNCHANGED host
  PROVE  /\ HostOK'
         /\ UNCHANGED frame => FrameOK'
         /\ UNCHANGED mem => MemOK' /\ NeighbourKept'
         /\ UNCHANGED elems => ElemsOK'
         /\ UNCHANGED table => TableOK'
         /\ UNCHANGED cursor => CursorOK' /\ Counting'
         /\ UNCHANGED res => ResOK'
         /\ UNCHANGED <<sqlcode, sqlerrd>> => CodesOK'
<1>1. HostOK' /\ (UNCHANGED frame => FrameOK')
  BY DEF IInv, HostOK, FrameOK
<1>2. UNCHANGED mem => MemOK' /\ NeighbourKept'
  BY DEF IInv, MemOK, NeighbourKept, Outside
<1>3. UNCHANGED elems => ElemsOK'
  BY DEF IInv, ElemsOK
<1>4. UNCHANGED table => TableOK'
  BY DEF IInv, TableOK, Rows
<1>5. UNCHANGED cursor => CursorOK' /\ Counting'
  BY DEF IInv, CursorOK, Counting, Rows
<1>6. UNCHANGED res => ResOK'
  BY DEF IInv, ResOK, Rows
<1>7. UNCHANGED <<sqlcode, sqlerrd>> => CodesOK'
  BY DEF IInv, CodesOK
<1> QED BY <1>1, <1>2, <1>3, <1>4, <1>5, <1>6, <1>7

(* There may be no rows.                                                   *)
LEMMA NoRows == << >> \in Rows
BY DEF Rows

(* The invariant holds at the start.                                       *)
LEMMA InitIInv == Init => IInv
<1> SUFFICES ASSUME Init PROVE IInv
  OBVIOUS
<1>1. HostOK
  BY DEF Init, HostOK
<1>2. host.item \in Item /\ host.count \in Nat /\ host.count >= 1
  BY <1>1, HostIs DEF HostOK
<1>3. elems \in [1..host.count -> Texts(host.item)]
  BY <1>2, ValuesAre DEF Init
<1>4. FrameOK
  BY DEF Init, FrameOK, NoFrame
<1>5. MemOK
  BY <1>1, <1>3, LaidIs DEF Init, MemOK, HostOK
<1>6. ElemsOK
  BY <1>2, <1>3, TextBytes DEF ElemsOK
<1>7. TableOK
  <2>1. MaxRows \in Nat /\ MaxRows >= 1
    BY StatementsAssumption
  <2>2. table = << >> \/ \E x \in Texts(host.item) : table = <<x>>
    BY <1>2, ValuesAre DEF Init
  <2>3. ASSUME NEW x \in Texts(host.item) PROVE <<x>> \in Rows /\ Len(<<x>>) = 1
    BY DEF Rows
  <2>4. Len(<< >>) = 0
    OBVIOUS
  <2>5. table \in Rows /\ (Len(table) = 0 \/ Len(table) = 1)
    BY <2>2, <2>3, <2>4, NoRows
  <2> QED BY <2>1, <2>5 DEF TableOK
<1>8. CursorOK /\ Counting
  BY NoRows DEF Init, CursorOK, Counting, NoCursor
<1>9. ResOK
  BY NoRows DEF Init, ResOK, NoResult
<1>10. CodesOK
  BY DEF Init, CodesOK, Codes, SUCCESS
<1>11. NeighbourKept
  <2> SUFFICES ASSUME NEW i \in DOMAIN mem, Outside(i) PROVE mem[i] = NEIGHBOUR
    BY DEF NeighbourKept
  <2>1. i \in 1..Extent(host) /\ mem = Laid(host, elems)
    BY <1>5 DEF MemOK, Init
  <2>2. ASSUME NEW j \in 1..host.count, i - Offset(host, j) \in 1..Bytes(host.item) PROVE FALSE
    <3> DEFINE x == i - Offset(host, j)
               B == Bytes(host.item)
               extra == IF host.item.type = "SIGNED_NUMBER_TC" THEN 1 ELSE 0
    <3>1. x \in 1..B /\ x \notin 1..(B + extra) /\ extra \in 0..1
      BY <2>2 DEF Outside
    <3>2. B \in Nat
      BY <1>1, HostIs DEF HostOK
    <3> HIDE DEF x, B, extra
    <3> QED BY <3>1, <3>2
  <2> QED BY <1>1, <1>3, <2>1, <2>2, LaidIs DEF HostOK
<1> QED BY <1>1, <1>4, <1>5, <1>6, <1>7, <1>8, <1>9, <1>10, <1>11 DEF IInv

(* The program moves values of the item.                                   *)
LEMMA MoveIInv == ASSUME IInv, Move PROVE IInv'
<1>1. UNCHANGED <<host, frame, table, cursor, res, sqlcode, sqlerrd>>
  BY DEF Move
<1>2. PICK es \in [1..host.count -> Values(host.item)] : elems' = es /\ mem' = Laid(host, es)
  BY DEF Move
<1>3. HostOK /\ host.item \in Item
  BY HostIs DEF IInv, HostOK
<1>4. es \in [1..host.count -> Texts(host.item)]
  BY <1>3, ValuesAre
<1>5. MemOK'
  BY <1>1, <1>2, <1>3, <1>4, LaidIs DEF MemOK, HostOK
<1>6. ElemsOK'
  BY <1>1, <1>2, <1>3, <1>4, TextBytes DEF ElemsOK
<1>7. NeighbourKept'
  <2> SUFFICES ASSUME NEW i \in DOMAIN mem', Outside(i) PROVE mem'[i] = NEIGHBOUR
    BY <1>1 DEF NeighbourKept, Outside
  <2>1. i \in 1..Extent(host)
    BY <1>1, <1>5 DEF MemOK
  <2>2. ASSUME NEW j \in 1..host.count, i - Offset(host, j) \in 1..Bytes(host.item) PROVE FALSE
    <3> DEFINE x == i - Offset(host, j)
               B == Bytes(host.item)
               extra == IF host.item.type = "SIGNED_NUMBER_TC" THEN 1 ELSE 0
    <3>1. x \in 1..B /\ x \notin 1..(B + extra) /\ extra \in 0..1
      BY <2>2 DEF Outside
    <3>2. B \in Nat
      BY <1>3, HostIs DEF HostOK
    <3> HIDE DEF x, B, extra
    <3> QED BY <3>1, <3>2
  <2> QED BY <1>2, <1>3, <1>4, <2>1, <2>2, LaidIs DEF HostOK
<1> QED BY <1>1, <1>5, <1>6, <1>7, Kept DEF IInv

-----------------------------------------------------------------------------
(* The frame.                                                              *)

(* Steps that only change the frame.                                       *)
LEMMA FrameIInv == ASSUME IInv, FrameNext PROVE IInv'
<1>1. UNCHANGED <<host, elems, mem, table, cursor, res, sqlcode, sqlerrd>>
  BY DEF FrameNext, OCESQLStartSQL, OCESQLSetSQLParams, OCESQLSetResultParams,
         OCESQLSetHostTable, OCESQLEndSQL, OnlyFrame
<1>2. FrameOK'
  <2> USE DEF FrameOK
  <2>1. FrameOK /\ host.count \in Nat /\ host.count >= 1 /\ host.group \in BOOLEAN
        /\ host.item.length \in Nat /\ Gap(host) \in 0..1
    BY HostIs DEF IInv, HostOK
  <2>2. CASE OCESQLStartSQL
    <3>1. frame' = [open |-> TRUE, params |-> 0, results |-> 0, iter |-> 0, length |-> 0,
                    is_parent |-> FALSE, done |-> FALSE]
      BY <2>2 DEF OCESQLStartSQL, OnlyFrame, NoFrame
    <3> QED BY <3>1
  <2>3. CASE OCESQLSetSQLParams
    <3>1. frame.params + 1 \in 0..2
      BY <2>1, <2>3 DEF OCESQLSetSQLParams
    <3>2. frame' = [frame EXCEPT !.params = frame.params + 1] /\ frame.iter = 0
      BY <2>3 DEF OCESQLSetSQLParams, OnlyFrame
    <3> QED BY <1>1, <2>1, <3>1, <3>2
  <2>4. CASE OCESQLSetResultParams
    <3>1. frame' = [frame EXCEPT !.results = 1] /\ frame.iter = 0
      BY <2>4 DEF OCESQLSetResultParams, OnlyFrame
    <3> QED BY <1>1, <2>1, <3>1
  <2>5. CASE OCESQLSetHostTable
    <3> DEFINE length == host.item.length + Gap(host)
    <3>1. frame' = [open |-> frame.open, params |-> frame.params,
                    results |-> frame.results, iter |-> host.count, length |-> length,
                    is_parent |-> host.group, done |-> frame.done]
      BY <2>1, <2>5 DEF OCESQLSetHostTable, OnlyFrame, Gap
    <3>2. length \in Nat
      BY <2>1
    <3> HIDE DEF length
    <3>3. frame'.is_parent = host.group /\ frame'.length = length
      BY <3>1
    <3>4. frame' \in [open : BOOLEAN, params : 0..2, results : 0..1, iter : {0, host.count},
                      length : Nat, is_parent : BOOLEAN, done : BOOLEAN]
      BY <2>1, <3>1, <3>2
    <3> QED BY <1>1, <3>3, <3>4 DEF length
  <2>6. CASE OCESQLEndSQL
    BY <2>6 DEF OCESQLEndSQL, NoFrame
  <2> QED BY <2>2, <2>3, <2>4, <2>5, <2>6 DEF FrameNext
<1> QED BY <1>1, <1>2, Kept DEF IInv

-----------------------------------------------------------------------------
(* The ends of statements.                                                 *)

(* How a statement ends.                                                   *)
LEMMA EndsIs ==
  ASSUME IInv, NEW op, NEW n, NEW code \in Codes, NEW count \in Nat, Ends(op, n, code, count)
  PROVE  FrameOK' /\ CodesOK' /\ UNCHANGED host
BY DEF IInv, FrameOK, CodesOK, Ends

(* A statement that leaves storage and table as they were.                 *)
LEMMA LeavesIInv ==
  ASSUME IInv, NEW op, NEW n, NEW code \in Codes, NEW count \in Nat,
         Leaves(op, n, code, count), CursorOK', Counting', ResOK'
  PROVE  IInv'
<1>1. FrameOK' /\ CodesOK' /\ UNCHANGED host
  BY EndsIs DEF Leaves
<1>2. UNCHANGED <<elems, mem, table>>
  BY DEF Leaves
<1> QED BY <1>1, <1>2, Kept DEF IInv

(* A statement that sends nothing.                                         *)
LEMMA RefusedIInv ==
  ASSUME IInv, NEW op, NEW n, NEW code \in Codes, NEW count \in Nat,
         Refused(op, n, code, count)
  PROVE  IInv'
<1>1. Leaves(op, n, code, count) /\ UNCHANGED <<host, cursor, res>>
  BY DEF Refused, Leaves, Ends
<1>2. CursorOK' /\ Counting' /\ ResOK'
  BY <1>1, Kept
<1> QED BY <1>1, <1>2, LeavesIInv

(* The code of a result.                                                   *)
LEMMA CodesAre ==
  /\ SUCCESS \in Codes /\ NOT_FOUND \in Codes /\ EMPTY \in Codes /\ PGSQL \in Codes
  /\ TOO_MANY_ARGUMENTS \in Codes /\ TOO_FEW_ARGUMENTS \in Codes
  /\ \A n : ArgumentError(n) # 0 => ArgumentError(n) \in Codes
BY DEF Codes, ArgumentError

(* What the connection has as its result.                                  *)
LEMMA ResultsAre ==
  /\ \A r : r = Failed => r \in [kind : {"none", "error", "ok", "tuples"}, rows : Rows, count : Nat]
  /\ \A n \in 0..1 :
       Done(n) \in [kind : {"none", "error", "ok", "tuples"}, rows : Rows, count : Nat]
  /\ \A rows \in Rows :
       Tuples(rows) \in [kind : {"none", "error", "ok", "tuples"}, rows : Rows, count : Nat]
<1>1. \A rows \in Rows : Len(rows) \in Nat
  BY DEF Rows
<1> QED BY <1>1, NoRows DEF Failed, Done, Tuples

(* Rows sent to the server.                                                *)
LEMMA InsertsIInv ==
  ASSUME IInv, NEW op, NEW k \in Nat, k <= host.count, Placed \/ k <= 1, NEW rows,
         Inserts(op, k, rows)
  PROVE  IInv'
<1> DEFINE T == Texts(host.item)
           u == [j \in 1..k |-> Stored(host.item, realdata(j))]
<1>1. UNCHANGED <<host, elems, mem, cursor>>
  BY DEF Inserts, Ends
<1>2. ResOK' /\ res'.count \in Nat
  <2>1. res' = Done(1) \/ res' = Failed
    BY DEF Inserts
  <2>2. res' \in [kind : {"none", "error", "ok", "tuples"}, rows : Rows, count : Nat]
    BY <2>1, ResultsAre
  <2> QED BY <1>1, <2>2 DEF ResOK, Rows
<1>3. FrameOK' /\ CodesOK'
  <2>1. PICK code \in Codes : Ends(op, 1, code, res'.count)
    BY CodesAre DEF Inserts
  <2> QED BY <1>2, <2>1, EndsIs
<1>4. TableOK'
  <2>1. table' = table \o u /\ Len(table) + k <= MaxRows
    BY DEF Inserts
  <2>2. ASSUME NEW j \in 1..k PROVE u[j] \in T
    <3>1. Accepts(host.item, realdata(j))
      BY DEF Inserts
    <3>2. j \in 1..host.count /\ (Placed \/ j = 1)
      <4>1. host.count \in Nat
        BY HostIs DEF IInv, HostOK
      <4> QED BY <4>1
    <3> QED BY <3>1, <3>2, RowStored DEF IInv
  <2>3. u = [j \in 1..k |-> u[j]]
    OBVIOUS
  <2> HIDE DEF u, T
  <2>4. u \in Seq(T) /\ Len(u) = k
    BY <2>2, <2>3, Made
  <2>5. table \in Seq(T)
    BY DEF IInv, TableOK, Rows, T
  <2>6. table \o u \in Seq(T) /\ Len(table \o u) = Len(table) + Len(u)
    BY <2>4, <2>5, JoinIs, Zenon
  <2>7. table' \in Seq(T) /\ Len(table') <= MaxRows
    BY <2>1, <2>4, <2>6
  <2> QED BY <1>1, <2>7 DEF TableOK, Rows, T
<1> QED BY <1>1, <1>2, <1>3, <1>4, Kept DEF IInv

(* INSERT, of one host variable or of a table of them. *)
LEMMA SendIInv == ASSUME IInv, SendNext PROVE IInv'
<1>1. PICK n \in 0..2 : _ocesqlExecParams(n) \/ _ocesqlExecParamsOccurs(n)
  BY DEF SendNext
<1>0. host.count \in Nat /\ host.count >= 1 /\ frame.iter \in {0, host.count}
  BY HostIs DEF IInv, HostOK, FrameOK
<1>2. CASE _ocesqlExecParams(n)
  <2>1. CASE ArgumentError(n) # 0 /\ Refused("ExecParams", n, ArgumentError(n), 0)
    BY <2>1, RefusedIInv, CodesAre, 0 \in Nat
  <2>2. ASSUME NEW k \in 0..1, Inserts("ExecParams", k, 1) PROVE IInv'
    <3>1. k \in Nat /\ k <= host.count /\ k <= 1
      BY <1>0
    <3> QED BY <2>2, <3>1, InsertsIInv
  <2> QED BY <1>2, <2>1, <2>2 DEF _ocesqlExecParams
<1>3. CASE _ocesqlExecParamsOccurs(n)
  <2>1. CASE Refused("ExecParamsOccurs", n, EMPTY, 0)
    BY <2>1, RefusedIInv, CodesAre, 0 \in Nat
  <2>2. ASSUME NEW k \in 0..frame.iter, Inserts("ExecParamsOccurs", k, frame.iter), frame.iter > 0
        PROVE  IInv'
    <3>1. k \in Nat /\ k <= host.count
      BY <1>0
    <3> QED BY <2>2, <3>1, InsertsIInv DEF Placed
  <2> QED BY <1>3, <2>1, <2>2 DEF _ocesqlExecParamsOccurs
<1> QED BY <1>1, <1>2, <1>3

(* Rows stored in the host variable.                                       *)
LEMMA DeliversIInv ==
  ASSUME IInv, Placed, NEW op, NEW announced, NEW rows \in Rows, rows # << >>,
         NEW count \in Nat, Delivers(op, announced, rows, host.count, count),
         CursorOK', Counting', ResOK'
  PROVE  IInv'
<1>1. FrameOK' /\ CodesOK' /\ UNCHANGED host
  BY EndsIs, CodesAre DEF Delivers
<1>2. UNCHANGED table /\ mem' = Filled(rows, host.count)
  BY DEF Delivers
<1>3. /\ Filled(rows, host.count) \in [1..Extent(host) -> Alphabet(host.item)]
      /\ StrideRight(host) =>
           \A i \in 1..Extent(host) : Outside(i) => Filled(rows, host.count)[i] = mem[i]
  BY FilledIs DEF IInv, Rows
<1>4. MemOK'
  BY <1>1, <1>2, <1>3 DEF MemOK
<1>5. NeighbourKept'
  <2> SUFFICES ASSUME StrideRight(host), NEW i \in 1..Extent(host), Outside(i)
               PROVE  mem'[i] = NEIGHBOUR
    BY <1>1, <1>4 DEF NeighbourKept, Outside, MemOK
  <2>1. mem'[i] = mem[i]
    BY <1>2, <1>3
  <2>2. mem[i] = NEIGHBOUR
    BY DEF IInv, NeighbourKept, MemOK
  <2> QED BY <2>1, <2>2
<1>6. ElemsOK'
  <2> DEFINE e == [j \in 1..host.count |->
                     IF j \in DOMAIN rows /\ StrideRight(host) /\ Faithful(host.item, rows[j])
                     THEN rows[j] ELSE Unknown]
             C == Seq(0..255)
  <2>1. elems' = e
    BY DEF Delivers
  <2>2. Unknown \in C
    BY DEF Unknown, NUL
  <2>3. \A j \in DOMAIN rows : rows[j] \in C
    <3>1. DOMAIN rows = 1..Len(rows) /\ \A j \in 1..Len(rows) : rows[j] \in Texts(host.item)
      BY SeqIs DEF Rows
    <3>2. host.item \in Item
      BY HostIs DEF IInv, HostOK
    <3> QED BY <3>1, <3>2, TextBytes
  <2> HIDE DEF C
  <2>4. e \in [1..host.count -> C]
    BY <2>2, <2>3
  <2> HIDE DEF e
  <2> QED BY <1>1, <2>1, <2>4 DEF ElemsOK, C
<1> QED BY <1>1, <1>2, <1>4, <1>5, <1>6, Kept DEF IInv

-----------------------------------------------------------------------------
(* SELECT INTO.                                                            *)

(* The first rows of rows.                                                 *)
LEMMA TakenIs ==
  ASSUME NEW S, NEW rows \in Seq(S), rows # << >>, NEW n \in Nat, n >= 1
  PROVE  Take(rows, n) \in Seq(S) /\ Take(rows, n) # << >>
<1>1. Len(rows) \in Nat /\ Len(rows) >= 1
  BY TailIs
<1>2. Take(rows, n) \in Seq(S) /\ Len(Take(rows, n)) = IF n < Len(rows) THEN n ELSE Len(rows)
  BY TakeIs
<1>3. Len(Take(rows, n)) >= 1
  BY <1>1, <1>2
<1>4. Len(<< >>) = 0
  OBVIOUS
<1> QED BY <1>2, <1>3, <1>4

(* A SELECT INTO.                                                          *)
LEMMA SelectsIInv ==
  ASSUME IInv, Placed, NEW op, NEW n \in 0..1, Selects(op, n, host.count)
  PROVE  IInv'
<1>1. PICK r \in Results(n) :
        LET code == StatusOf(r, IF n > 0 THEN ArgumentError(n) ELSE SUCCESS) IN
        /\ res' = r
        /\ UNCHANGED cursor
        /\ IF code < 0 THEN Leaves(op, n, code, r.count)
           ELSE IF r.kind # "tuples" \/ frame.results # 1 THEN Leaves(op, n, EMPTY, r.count)
           ELSE IF r.rows = << >> THEN Leaves(op, n, NOT_FOUND, 0)
           ELSE Delivers(op, n, Take(r.rows, host.count), host.count, r.count)
  BY DEF Selects
<1> DEFINE code == StatusOf(r, IF n > 0 THEN ArgumentError(n) ELSE SUCCESS)
<1>2. r \in [kind : {"none", "error", "ok", "tuples"}, rows : Rows, count : Nat]
  <2>1. table \in Rows
    BY DEF IInv, TableOK
  <2>2. Selected(n) \in Rows
    BY <2>1, MatchingIs DEF Selected, Rows
  <2>3. \A x \in Answers(n) : x = Failed \/ x = Tuples(Selected(n))
    BY DEF Answers
  <2>4. r = res \/ r \in Answers(n)
    BY DEF Results
  <2> QED BY <2>2, <2>3, <2>4, ResultsAre DEF IInv, ResOK
<1>3. UNCHANGED host
  BY <1>1 DEF Leaves, Delivers, Ends
<1>4. CursorOK' /\ Counting'
  BY <1>1, <1>3, Kept
<1>5. ResOK'
  BY <1>1, <1>2, <1>3 DEF ResOK, Rows
<1>6. code \in Codes \/ code = 0
  BY <1>2, CodesAre DEF StatusOf, SUCCESS
<1>7. host.count \in Nat /\ host.count >= 1
  BY HostIs DEF IInv, HostOK
<1>8. CASE \E c \in Codes, k \in Nat : Leaves(op, n, c, k)
  BY <1>4, <1>5, <1>8, LeavesIInv
<1>9. CASE r.rows # << >> /\ Delivers(op, n, Take(r.rows, host.count), host.count, r.count)
  <2>1. r.rows \in Rows /\ r.count \in Nat
    BY <1>2
  <2>2. Take(r.rows, host.count) \in Rows /\ Take(r.rows, host.count) # << >>
    BY <1>7, <1>9, <2>1, TakenIs DEF Rows
  <2> QED BY <1>4, <1>5, <1>9, <2>1, <2>2, DeliversIInv
<1>10. \/ \E c \in Codes, k \in Nat : Leaves(op, n, c, k)
       \/ r.rows # << >> /\ Delivers(op, n, Take(r.rows, host.count), host.count, r.count)
  <2>1. r.count \in Nat /\ 0 \in Nat
    BY <1>2
  <2>2. code < 0 => code \in Codes
    BY <1>6
  <2> HIDE DEF code
  <2> QED BY <1>1, <2>1, <2>2, CodesAre DEF code
<1> QED BY <1>8, <1>9, <1>10

(* Both forms of SELECT INTO.                                              *)
LEMMA SelectIInv == ASSUME IInv, SelectNext PROVE IInv'
<1>1. PICK n \in 0..1 : _ocesqlExecSelectIntoOne(n) \/ _ocesqlExecSelectIntoOccurs(n)
  BY DEF SelectNext
<1>2. CASE _ocesqlExecSelectIntoOne(n)
  BY <1>2, SelectsIInv DEF _ocesqlExecSelectIntoOne, Placed
<1>3. CASE _ocesqlExecSelectIntoOccurs(n)
  <2>1. frame.iter > 0 /\ frame.iter = host.count
    BY <1>3 DEF _ocesqlExecSelectIntoOccurs, IInv, FrameOK
  <2>2. CASE Refused("SelectInto", n, EMPTY, sqlerrd)
    BY <2>2, RefusedIInv, CodesAre DEF IInv, CodesOK
  <2>3. CASE Selects("SelectInto", n, frame.iter)
    BY <2>1, <2>3, SelectsIInv DEF Placed
  <2> QED BY <1>3, <2>2, <2>3 DEF _ocesqlExecSelectIntoOccurs
<1> QED BY <1>1, <1>2, <1>3

-----------------------------------------------------------------------------
(* The cursor.                                                             *)

(* The rows a FETCH passes are as many as it asks for, or all there are.   *)
LEMMA FetchedIs ==
  ASSUME IInv, NEW n \in Nat
  PROVE  /\ Fetched(n) \in Rows /\ Len(Fetched(n)) \in Nat
         /\ cursor.pos + Len(Fetched(n)) <= Len(cursor.rows)
<1> DEFINE S == Texts(host.item)
           p == cursor.pos
           q == cursor.rows
           d == Drop(q, p)
<1>1. q \in Seq(S) /\ p \in Nat /\ p <= Len(q) /\ Len(q) \in Nat
  BY DEF IInv, CursorOK, Rows
<1> HIDE DEF S, p, q
<1>2. d \in Seq(S) /\ Len(d) = IF p < Len(q) THEN Len(q) - p ELSE 0
  BY <1>1, DropIs
<1>3. Len(d) = Len(q) - p /\ Len(d) \in Nat
  BY <1>1, <1>2
<1> HIDE DEF d
<1>4. Take(d, n) \in Seq(S) /\ Len(Take(d, n)) = IF n < Len(d) THEN n ELSE Len(d)
  BY <1>2, TakeIs
<1>5. Fetched(n) = Take(d, n)
  BY DEF Fetched, d, p, q
<1> DEFINE t == Take(d, n)
<1> HIDE DEF t
<1>6. t \in Seq(S) /\ Len(t) \in Nat /\ p + Len(t) <= Len(q)
  BY <1>1, <1>3, <1>4 DEF t
<1> QED BY <1>5, <1>6 DEF t, S, p, q, Rows

(* A FETCH either moves neither counter, or both by the rows it passed, or *)
(* takes the rows it could not store off the base.                         *)
LEMMA FetchesIInv ==
  ASSUME IInv, Placed, NEW op, NEW refusal \in Codes, NEW empty \in Nat,
         Fetches(op, host.count, refusal, empty)
  PROVE  IInv'
<1> DEFINE n == host.count
           F == Fetched(n)
           L == Len(F)
<1>1. n \in Nat /\ n >= 1
  BY HostIs DEF IInv, HostOK
<1>2. F \in Rows /\ L \in Nat /\ cursor.pos + L <= Len(cursor.rows)
  BY <1>1, FetchedIs
<1>3. UNCHANGED host
  BY DEF Fetches, Leaves, Delivers, Ends
<1>4. ResOK'
  <2>1. res' = Failed \/ res' = Tuples(F)
    BY DEF Fetches
  <2>2. res' \in [kind : {"none", "error", "ok", "tuples"}, rows : Rows, count : Nat]
    BY <1>2, <2>1, ResultsAre
  <2> QED BY <1>3, <2>2 DEF ResOK, Rows
<1>5. \/ UNCHANGED cursor
      \/ cursor.open /\ cursor' = [cursor EXCEPT !.pos = @ + L, !.base = @ - L]
      \/ cursor.open /\ cursor' = [cursor EXCEPT !.pos = @ + L, !.tuples = @ + L]
  BY DEF Fetches, Counted
<1>6. \/ \E c \in Codes, k \in Nat : Leaves(op, 0, c, k)
      \/ F # << >> /\ Delivers(op, 0, F, n, Counted(n))
  <2>1. L \in Nat /\ 0 \in Nat
    BY <1>2
  <2> HIDE DEF F, L
  <2> QED BY <2>1, CodesAre DEF Fetches, F, L
<1>7. Counted(n) \in Nat
  BY <1>2 DEF Counted, IInv, CursorOK
<1> HIDE DEF F, L
<1>8. CursorOK' /\ Counting'
  <2>1. CASE UNCHANGED cursor
    BY <1>3, <2>1, Kept
  <2>2. ASSUME cursor.open, NEW t \in Nat, NEW b \in Int, t = b + (cursor.pos + L),
               cursor' = [cursor EXCEPT !.pos = @ + L, !.tuples = t, !.base = b]
        PROVE  CursorOK' /\ Counting'
    <3>1. cursor' = [open |-> cursor.open, rows |-> cursor.rows, pos |-> cursor.pos + L,
                     tuples |-> t, base |-> b]
      BY <2>2 DEF IInv, CursorOK
    <3>2. cursor.open \in BOOLEAN /\ cursor.rows \in Rows /\ cursor.pos \in Nat
      BY DEF IInv, CursorOK
    <3> DEFINE p == cursor.pos + L
    <3>3. p \in Nat /\ p <= Len(cursor.rows) /\ t = b + p
      BY <1>2, <2>2, <3>2
    <3> HIDE DEF p
    <3>4. cursor' = [open |-> cursor.open, rows |-> cursor.rows, pos |-> p,
                     tuples |-> t, base |-> b]
      BY <3>1 DEF p
    <3>5. Rows' = Rows
      BY <1>3 DEF Rows
    <3>6. cursor' \in [open : BOOLEAN, rows : Rows, pos : Nat, tuples : Nat, base : Int]
      BY <3>2, <3>3, <3>4
    <3>8. cursor'.open = cursor.open /\ cursor'.pos = p /\ cursor'.tuples = t
          /\ cursor'.base = b /\ cursor'.rows = cursor.rows
      BY <3>4
    <3>7. cursor'.open /\ cursor'.pos = p /\ cursor'.tuples = t /\ cursor'.base = b
          /\ cursor'.rows = cursor.rows
      BY <2>2, <3>8, Zenon
    <3> QED BY <3>3, <3>5, <3>6, <3>7 DEF CursorOK, Counting
  <2>3. CASE cursor.open /\ cursor' = [cursor EXCEPT !.pos = @ + L, !.base = @ - L]
    <3> DEFINE t == cursor.tuples
               b == cursor.base - L
    <3>1. t \in Nat /\ b \in Int /\ t = b + (cursor.pos + L)
      BY <1>2 DEF IInv, CursorOK, Counting
    <3>2. cursor' = [cursor EXCEPT !.pos = @ + L, !.tuples = t, !.base = b]
      BY <2>3 DEF IInv, CursorOK
    <3> HIDE DEF t, b
    <3> QED BY <2>2, <2>3, <3>1, <3>2
  <2>4. CASE cursor.open /\ cursor' = [cursor EXCEPT !.pos = @ + L, !.tuples = @ + L]
    <3> DEFINE t == cursor.tuples + L
               b == cursor.base
    <3>1. t \in Nat /\ b \in Int /\ t = b + (cursor.pos + L)
      BY <1>2 DEF IInv, CursorOK, Counting
    <3>2. cursor' = [cursor EXCEPT !.pos = @ + L, !.tuples = t, !.base = b]
      BY <2>4 DEF IInv, CursorOK
    <3> HIDE DEF t, b
    <3> QED BY <2>2, <2>4, <3>1, <3>2
  <2> QED BY <1>5, <2>1, <2>3, <2>4
<1>9. CASE \E c \in Codes, k \in Nat : Leaves(op, 0, c, k)
  BY <1>4, <1>8, <1>9, LeavesIInv
<1>10. CASE F # << >> /\ Delivers(op, 0, F, n, Counted(n))
  BY <1>2, <1>4, <1>7, <1>8, <1>10, DeliversIInv
<1> QED BY <1>6, <1>9, <1>10

(* The operations on the cursor.                                           *)
LEMMA CursorIInv == ASSUME IInv, CursorNext PROVE IInv'
<1>0. IInv
  OBVIOUS
<1>1. ASSUME UNCHANGED <<host, elems, mem, frame, table>>, ResOK', CodesOK',
             NEW o \in BOOLEAN, NEW r \in Rows,
             NEW p \in Nat, NEW t \in Nat, NEW b \in Int, t = b + p, p <= Len(r), ~o => p = 0,
             cursor' = [open |-> o, rows |-> r, pos |-> p, tuples |-> t, base |-> b]
      PROVE  IInv'
  <2>1. CursorOK' /\ Counting'
    BY <1>1 DEF CursorOK, Counting, Rows
  <2> QED BY <1>1, <2>1, Kept DEF IInv
<1>2. << >> \in Rows /\ Len(<< >>) = 0 /\ table \in Rows /\ Len(table) \in Nat
  BY NoRows DEF IInv, TableOK, Rows
<1>3. cursor.pos \in Nat /\ cursor.tuples \in Nat /\ cursor.base \in Int
      /\ cursor.tuples = cursor.base + cursor.pos /\ (~cursor.open => cursor.pos = 0)
  BY DEF IInv, CursorOK, Counting
<1>4. CASE OCESQLCursorDeclare
  <2>1. UNCHANGED <<host, elems, mem, frame, table, res>> /\ cursor' = NoCursor
        /\ sqlcode' = SUCCESS /\ sqlerrd' = 0
    BY <1>4 DEF OCESQLCursorDeclare
  <2>2. ResOK'
    BY <2>1, Kept
  <2>3. CodesOK'
    BY <2>1, CodesAre DEF CodesOK
  <2>4. 0 \in Nat /\ 0 \in Int /\ 0 = 0 + 0 /\ 0 <= 0 /\ FALSE \in BOOLEAN
    OBVIOUS
  <2> QED BY <1>1, <1>2, <2>1, <2>2, <2>3, <2>4 DEF NoCursor
<1>5. ASSUME NEW c, NEW k \in 0..1, OnlyCursor(c, Done(k))
      PROVE  /\ UNCHANGED <<host, elems, mem, frame, table>> /\ ResOK' /\ CodesOK'
             /\ cursor' = c
  <2>1. UNCHANGED <<host, elems, mem, frame, table>> /\ cursor' = c /\ res' = Done(k)
        /\ sqlcode' = StatusOf(Done(k), SUCCESS) /\ sqlerrd' = 0
    BY <1>5 DEF OnlyCursor
  <2>2. StatusOf(Done(k), SUCCESS) = SUCCESS
    BY DEF StatusOf, Done
  <2> QED BY <2>1, <2>2, CodesAre, ResultsAre DEF ResOK, CodesOK, Rows
<1>6. CASE OCESQLCursorOpen
  <2> DEFINE c == [cursor EXCEPT !.open = TRUE, !.rows = table]
  <2>1. ~cursor.open /\ OnlyCursor(c, Done(0))
    BY <1>6, Zenon DEF OCESQLCursorOpen
  <2>2. UNCHANGED <<host, elems, mem, frame, table>> /\ ResOK' /\ CodesOK' /\ cursor' = c
    <3> HIDE DEF c
    <3> QED BY <1>5, <2>1
  <2>3. cursor.pos <= Len(table) /\ TRUE \in BOOLEAN
    BY <1>2, <1>3, <2>1
  <2>4. cursor' = [open |-> TRUE, rows |-> table, pos |-> cursor.pos,
                   tuples |-> cursor.tuples, base |-> cursor.base]
    BY <2>2 DEF IInv, CursorOK
  <2> QED BY <1>1, <1>2, <1>3, <2>2, <2>3, <2>4
<1>7. CASE OCESQLCursorClose
  <2> DEFINE c == [cursor EXCEPT !.open = FALSE, !.rows = << >>, !.pos = 0,
                                 !.base = @ + cursor.pos]
  <2>1. OnlyCursor(c, Done(0))
    BY <1>7, Zenon DEF OCESQLCursorClose
  <2>2. UNCHANGED <<host, elems, mem, frame, table>> /\ ResOK' /\ CodesOK' /\ cursor' = c
    <3> HIDE DEF c
    <3> QED BY <1>5, <2>1
  <2>3. cursor.base + cursor.pos \in Int
        /\ cursor.tuples = (cursor.base + cursor.pos) + 0 /\ 0 <= 0 /\ FALSE \in BOOLEAN
    BY <1>3
  <2>4. cursor' = [open |-> FALSE, rows |-> << >>, pos |-> 0,
                   tuples |-> cursor.tuples, base |-> cursor.base + cursor.pos]
    BY <2>2 DEF IInv, CursorOK
  <2> QED BY <1>1, <1>2, <1>3, <2>2, <2>3, <2>4
<1>8. CASE OCESQLCursorFetchOne
  <2>1. Placed /\ Fetches("FetchOne", host.count, PGSQL, cursor.tuples)
    BY <1>8 DEF OCESQLCursorFetchOne, Placed
  <2> QED BY <1>3, <2>1, FetchesIInv, CodesAre
<1>9. CASE OCESQLCursorFetchOccurs
  <2>1. frame.iter > 0 /\ frame.iter = host.count
    BY <1>9 DEF OCESQLCursorFetchOccurs, IInv, FrameOK
  <2>2. CASE Refused("FetchOccurs", 0, EMPTY, 0)
    BY <2>2, RefusedIInv, CodesAre, 0 \in Nat
  <2>3. CASE Fetches("FetchOccurs", frame.iter,
                     IF frame.results = 0 THEN NOT_FOUND ELSE EMPTY, 0)
    <3> DEFINE e == IF frame.results = 0 THEN NOT_FOUND ELSE EMPTY
    <3>1. e \in Codes /\ 0 \in Nat /\ Fetches("FetchOccurs", host.count, e, 0) /\ Placed
      BY <2>1, <2>3, CodesAre DEF Placed
    <3> HIDE DEF e
    <3> QED BY <3>1, FetchesIInv
  <2> QED BY <1>9, <2>2, <2>3 DEF OCESQLCursorFetchOccurs
<1> QED BY <1>4, <1>6, <1>7, <1>8, <1>9 DEF CursorNext

(* Every step keeps the invariant.                                         *)
LEMMA NextIInv == IInv /\ [Next]_vars => IInv'
<1> SUFFICES ASSUME IInv, [Next]_vars PROVE IInv'
  OBVIOUS
<1>1. CASE UNCHANGED vars
  <2>1. UNCHANGED <<host, elems, mem, frame, table, cursor, res, sqlcode, sqlerrd>>
    BY <1>1 DEF vars
  <2> QED BY <2>1, Kept DEF IInv
<1> QED BY <1>1, MoveIInv, FrameIInv, SendIInv, SelectIInv, CursorIInv DEF Next

(* The invariant holds in every state.                                     *)
LEMMA Invariant == Spec => []IInv
BY InitIInv, NextIInv, PTL DEF Spec

(* Whatever the items, values and bounds, the storage of the host variable *)
(* and its neighbour stays bytes, of the length it was declared with, the  *)
(* rows stay texts and the counts of the lists stay in their ranges.       *)
THEOREM StatementsTyped == Spec => []TypeOK
<1>1. ASSUME IInv PROVE TypeOK
  <2>1. host \in Hosts
    BY <1>1 DEF IInv, HostOK
  <2>2. mem \in [1..Extent(host) -> 0..255]
    <3>1. Alphabet(host.item) \subseteq 0..255
      BY <1>1, HostIs, AlphabetIs DEF IInv, HostOK
    <3> QED BY <1>1, <3>1 DEF IInv, MemOK
  <2>3. table \in Seq(Seq(0..255)) /\ Len(table) <= MaxRows
    <3> DEFINE S == Texts(host.item)
               C == Seq(0..255)
    <3>1. table \in Seq(S) /\ Len(table) <= MaxRows
      BY <1>1 DEF IInv, TableOK, Rows
    <3>2. S \subseteq C
      BY <1>1, HostIs, TextBytes DEF IInv, HostOK
    <3> HIDE DEF S, C
    <3>3. table \in Seq(C)
      BY <3>1, <3>2, SeqGrows
    <3> QED BY <3>1, <3>3 DEF C
  <2>4. frame \in [open : BOOLEAN, params : 0..2, results : 0..1, iter : {0, host.count},
                   length : Nat, is_parent : BOOLEAN, done : BOOLEAN]
    BY <1>1 DEF IInv, FrameOK
  <2>5. cursor.pos <= Len(cursor.rows) /\ cursor.tuples \in Nat
    BY <1>1 DEF IInv, CursorOK
  <2>6. res.kind \in {"none", "error", "ok", "tuples"}
    BY <1>1 DEF IInv, ResOK
  <2>7. elems \in [1..host.count -> Seq(0..255)]
    BY <1>1 DEF IInv, ElemsOK
  <2>8. /\ sqlcode \in {SUCCESS, NOT_FOUND, TOO_MANY_ARGUMENTS, TOO_FEW_ARGUMENTS, EMPTY, PGSQL}
        /\ sqlerrd \in Nat
    BY <1>1 DEF IInv, CodesOK, Codes
  <2> QED BY <2>1, <2>2, <2>3, <2>4, <2>5, <2>6, <2>7, <2>8 DEF TypeOK
<1> QED BY <1>1, Invariant, PTL

(* Where the runtime looks for the rows of a table where COBOL put them, no *)
(* statement writes outside them: create_coboldata and the low-values write *)
(* at most the bytes of the item, and one more for a trailing-combined      *)
(* number.                                                                 *)
THEOREM StatementsStayInside == Spec => []NeighbourKept
<1>1. IInv => NeighbourKept
  BY DEF IInv
<1> QED BY <1>1, Invariant, PTL

-----------------------------------------------------------------------------
(* What a fetch says.                                                      *)

(* A fetch tells the rows passed.                                          *)
LEMMA FetchesTold ==
  ASSUME IInv, NEW op, NEW n \in Nat, NEW refusal, NEW empty,
         Fetches(op, n, refusal, empty), refusal # SUCCESS,
         \/ told'.code = SUCCESS
         \/ told'.code = NOT_FOUND /\ refusal # NOT_FOUND /\ empty = cursor.tuples
  PROVE  sqlerrd' = cursor'.base + cursor'.pos
<1> DEFINE L == Len(Fetched(n))
<1>1. L \in Nat
  BY FetchedIs
<1>2. \A a, code, count : Leaves(op, a, code, count)
        => told'.code = code /\ sqlerrd' = count
  BY DEF Leaves, Ends
<1>3. \A a, rows, m, count : Delivers(op, a, rows, m, count) => sqlerrd' = count
  BY DEF Delivers, Ends
<1>4. /\ cursor' = [cursor EXCEPT !.pos = @ + L, !.tuples = Counted(n)]
      /\ IF Fetched(n) = << >> THEN Leaves(op, 0, NOT_FOUND, empty)
         ELSE Delivers(op, 0, Fetched(n), n, Counted(n))
  BY <1>2 DEF Fetches, SUCCESS, NOT_FOUND, EMPTY
<1>5. cursor'.base = cursor.base /\ cursor'.pos = cursor.pos + L
  <2>1. cursor' = [open |-> cursor.open, rows |-> cursor.rows, pos |-> cursor.pos + L,
                   tuples |-> Counted(n), base |-> cursor.base]
    BY <1>4 DEF IInv, CursorOK
  <2> QED BY <2>1
<1>6. CASE Fetched(n) = << >>
  <2>1. L = 0 /\ sqlerrd' = cursor.tuples
    BY <1>2, <1>4, <1>6 DEF SUCCESS, NOT_FOUND
  <2> QED BY <1>5, <2>1 DEF IInv, CursorOK, Counting
<1>7. CASE Fetched(n) # << >>
  <2>1. sqlerrd' = cursor.tuples + L
    BY <1>3, <1>4, <1>7 DEF Counted
  <2> QED BY <1>1, <1>5, <2>1 DEF IInv, CursorOK, Counting
<1> QED BY <1>6, <1>7

(* SQLERRD(3) after every successful fetch, into one host variable or into *)
(* a table of any size, is the number of rows the server has passed over   *)
(* for the cursor since its DECLARE, in however many openings.             *)
THEOREM FetchCounts == Spec => CountTold
<1>1. ASSUME IInv, [Next]_vars,
             \/ Executes({"FetchOne", "FetchOccurs"}) /\ told'.code = SUCCESS
             \/ Executes({"FetchOne"}) /\ told'.code = NOT_FOUND
      PROVE  sqlerrd' = cursor'.base + cursor'.pos
  <2>1. ~frame.done /\ frame'.done /\ told'.op \in {"FetchOne", "FetchOccurs"}
    BY <1>1 DEF Executes
  <2>2. \A op, n, code, count : Ends(op, n, code, count) => told'.op = op /\ told'.code = code
    BY DEF Ends
  <2>3. ~(Move \/ UNCHANGED vars \/ FrameNext)
    BY <1>1, <2>1
    DEF IInv, FrameOK, Move, vars, FrameNext, OCESQLStartSQL, OCESQLSetSQLParams,
        OCESQLSetResultParams, OCESQLSetHostTable, OCESQLEndSQL, OnlyFrame, NoFrame
  <2>4. ~SendNext
    BY <2>1, <2>2
    DEF SendNext, _ocesqlExecParams, _ocesqlExecParamsOccurs, Refused, Leaves, Inserts
  <2>5. ~SelectNext
    BY <2>1, <2>2
    DEF SelectNext, _ocesqlExecSelectIntoOne, _ocesqlExecSelectIntoOccurs, Selects,
        Refused, Leaves, Delivers
  <2>6. ~(OCESQLCursorDeclare \/ OCESQLCursorOpen \/ OCESQLCursorClose)
    BY <2>1 DEF OCESQLCursorDeclare, OCESQLCursorOpen, OCESQLCursorClose, OnlyCursor, Nothing
  <2>7. CASE OCESQLCursorFetchOne
    <3>1. Fetches("FetchOne", 1, PGSQL, cursor.tuples)
      BY <2>7 DEF OCESQLCursorFetchOne
    <3> QED BY <1>1, <3>1, FetchesTold DEF PGSQL, SUCCESS, NOT_FOUND
  <2>8. CASE OCESQLCursorFetchOccurs
    <3>1. told'.op = "FetchOccurs"
      BY <2>2, <2>8 DEF OCESQLCursorFetchOccurs, Refused, Leaves, Fetches, Delivers
    <3>2. told'.code = SUCCESS
      BY <1>1, <3>1 DEF Executes
    <3>3. ~Refused("FetchOccurs", 0, EMPTY, 0)
      BY <2>2, <3>2 DEF Refused, Leaves, EMPTY, SUCCESS
    <3>5. frame.iter \in Nat
      BY <1>1, HostIs DEF IInv, HostOK, FrameOK
    <3>4. /\ frame.iter \in Nat
          /\ Fetches("FetchOccurs", frame.iter,
                     IF frame.results = 0 THEN NOT_FOUND ELSE EMPTY, 0)
      BY <2>8, <3>3, <3>5 DEF OCESQLCursorFetchOccurs
    <3> QED BY <1>1, <3>2, <3>4, FetchesTold DEF EMPTY, NOT_FOUND, SUCCESS
  <2> QED BY <1>1, <2>3, <2>4, <2>5, <2>6, <2>7, <2>8 DEF Next, CursorNext
<1>2. Spec => []IInv
  BY Invariant
<1>3. IInv /\ [Next]_vars
        => [ \/ Executes({"FetchOne", "FetchOccurs"}) /\ told'.code = SUCCESS
             \/ Executes({"FetchOne"}) /\ told'.code = NOT_FOUND
             => sqlerrd' = cursor'.base + cursor'.pos ]_vars
  BY <1>1
<1> QED BY <1>2, <1>3, PTL DEF Spec, CountTold

-----------------------------------------------------------------------------
(* Numbers read back from storage.                                         *)

(* The parts of a number in a row are its digits.                          *)
LEMMA PartsJoin ==
  ASSUME NEW D \in Seq(Figure), NEW s \in 0..Len(D), NEW b, PartsOf(b, D, s)
  PROVE  whole(b) \o decimals(b) = D
<1> DEFINE w == whole(b)
           d == decimals(b)
           n == Len(D)
<1>1. /\ w \in Seq(Figure) /\ Len(w) = n - s
      /\ d \in Seq(Figure) /\ Len(d) = s
      /\ \A i \in 1..(n - s) : w[i] = D[i]
      /\ \A i \in 1..s : d[i] = D[(n - s) + i]
  BY DEF PartsOf
<1>2. n \in Nat /\ s \in Nat /\ s <= n
  BY SeqIs
<1> HIDE DEF w, d
<1>0. w \in Seq(Figure) /\ d \in Seq(Figure)
  BY <1>1
<1>3. /\ w \o d \in Seq(Figure) /\ Len(w \o d) = Len(w) + Len(d)
      /\ \A i \in 1..Len(w) : (w \o d)[i] = w[i]
      /\ \A i \in 1..Len(d) : (w \o d)[Len(w) + i] = d[i]
  BY <1>0, JoinIs, SMTT(30)
<1> DEFINE x == w \o d
<1>4. /\ x \in Seq(Figure) /\ Len(x) = Len(w) + Len(d)
      /\ \A i \in 1..Len(w) : x[i] = w[i]
      /\ \A i \in 1..Len(d) : x[Len(w) + i] = d[i]
  BY <1>3
<1> HIDE DEF x, n
<1>5. Len(x) = n
  BY <1>1, <1>2, <1>4
<1>6. ASSUME NEW i \in 1..n PROVE x[i] = D[i]
  <2>1. CASE i <= n - s
    BY <1>1, <1>2, <1>4, <2>1
  <2>2. CASE ~(i <= n - s)
    <3> DEFINE k == i - (n - s)
    <3>1. k \in 1..s /\ (n - s) + k = i
      BY <1>2, <2>2
    <3> HIDE DEF k
    <3>2. x[Len(w) + k] = d[k]
      BY <1>1, <1>4, <3>1
    <3> QED BY <1>1, <3>1, <3>2
  <2> QED BY <2>1, <2>2
<1>7. Len(x) = Len(D) /\ \A i \in 1..Len(x) : x[i] = D[i]
  BY <1>5, <1>6 DEF n
<1>8. x = D
  BY <1>4, <1>7, SameSeq
<1> QED BY <1>8 DEF x, w, d

(* The last n digits of the text of a number are those of the number.      *)
LEMMA LastFigures ==
  ASSUME NEW v \in Int, NEW s \in Nat, NEW n \in Nat
  PROVE  /\ LastDigits(Render(v, s), n) = Numeral(Magnitude(v), n)
         /\ Negative(Render(v, s)) <=> v < 0
<1> DEFINE m == Magnitude(v)
           F == Figures(m, s)
           N == Numeral(m, F)
           b == Body(v, s)
           t == Render(v, s)
<1>1. m \in Nat
  BY DEF Magnitude
<1>2. F \in Nat /\ F >= s + 1 /\ m < Pow10[F]
  BY <1>1, FiguresIs
<1>3. /\ N \in Seq(48..57) /\ Len(N) = F
      /\ \A i \in 1..F : N[i] = 48 + ((m \div Pow10[F - i]) % 10)
  BY <1>1, <1>2, NumeralIs
<1>4. /\ t = IF v < 0 THEN <<MINUS>> \o b ELSE b
      /\ b \in Seq({POINT} \cup Figure) /\ PartsOf(b, N, s)
  BY RenderIs
<1> HIDE DEF N, b
<1>5. Unsigned(t) = b /\ (Negative(t) <=> v < 0)
  <2>1. CASE v < 0
    BY <1>4, <2>1, SignIs
  <2>2. CASE ~(v < 0)
    BY <1>4, <2>2, NoSignIs
  <2> QED BY <2>1, <2>2
<1> HIDE DEF t
<1>6. Digits(t) = N
  <2>1. N \in Seq(Figure) /\ s \in 0..Len(N)
    BY <1>2, <1>3 DEF Figure
  <2>2. whole(b) \o decimals(b) = N
    BY <1>4, <2>1, PartsJoin
  <2> QED BY <1>5, <2>2 DEF Digits
<1> DEFINE x == LastDigits(t, n)
           y == Numeral(m, n)
<1>7. /\ y \in Seq(48..57) /\ Len(y) = n
      /\ \A i \in 1..n : y[i] = 48 + ((m \div Pow10[n - i]) % 10)
  BY <1>1, NumeralIs
<1>8. x \in Seq(Figure) /\ Len(x) = n
  <2>1. Digits(t) \in Seq(Figure)
    BY <1>3, <1>6 DEF Figure
  <2> QED BY <2>1, LastDigitsIs
<1> HIDE DEF F, m
<1>9. ASSUME NEW i \in 1..n PROVE x[i] = y[i]
  <2> DEFINE k == n - i
  <2>1. k \in Nat
    OBVIOUS
  <2>2. x[i] = IF i + F - n \in 1..F THEN N[i + F - n] ELSE Digit(0)
    BY <1>3, <1>6 DEF LastDigits
  <2>3. y[i] = 48 + ((m \div Pow10[k]) % 10)
    BY <1>7
  <2>4. CASE i + F - n \in 1..F
    <3>1. F - (i + F - n) = k
      BY <1>2, <2>1
    <3>2. N[i + F - n] = 48 + ((m \div Pow10[F - (i + F - n)]) % 10)
      BY <1>3, <2>4
    <3> QED BY <2>2, <2>3, <2>4, <3>1, <3>2
  <2>5. CASE i + F - n \notin 1..F
    <3>1. k - F \in Nat /\ F + (k - F) = k
      BY <1>2, <2>5
    <3>2. Pow10[F] <= Pow10[F + (k - F)]
      BY <1>2, <3>1, Pow10Grows
    <3>3. Pow10[F] \in Nat /\ Pow10[k] \in Nat /\ Pow10[k] > 0
      BY <1>2, <2>1, Pow10Def
    <3> DEFINE p == Pow10[k]
    <3>4. m < p /\ p \in Nat /\ p > 0
      BY <1>1, <1>2, <3>1, <3>2, <3>3
    <3> HIDE DEF p
    <3>5. m \div p = 0
      BY <1>1, <3>4, Division
    <3>6. y[i] = 48
      BY <2>3, <3>5 DEF p
    <3> QED BY <2>2, <2>5, <3>6 DEF Digit
  <2> QED BY <2>4, <2>5
<1> HIDE DEF x, y
<1>10. x = y
  BY <1>7, <1>8, <1>9, SameSeq
<1> QED BY <1>5, <1>10 DEF x, y, t, m

(* A NULL has the digits of zero.                                          *)
LEMMA NoFigures ==
  ASSUME NEW n \in Nat
  PROVE  LastDigits(<< >>, n) = Numeral(0, n) /\ ~Negative(<< >>)
<1> DEFINE x == LastDigits(<< >>, n)
           y == Numeral(0, n)
<1>1. Digits(<< >>) = << >>
  BY DEF Digits, Unsigned, whole, decimals, WholeLength, Take, Drop
<1>2. Len(<< >>) = 0 /\ << >> \in Seq(Figure)
  OBVIOUS
<1>3. x \in Seq(Figure) /\ Len(x) = n
  BY <1>1, <1>2, LastDigitsIs
<1>4. /\ y \in Seq(48..57) /\ Len(y) = n
      /\ \A i \in 1..n : y[i] = 48 + ((0 \div Pow10[n - i]) % 10)
  BY NumeralIs
<1>5. ASSUME NEW i \in 1..n PROVE x[i] = y[i]
  <2>1. x[i] = 48
    BY <1>1, <1>2 DEF LastDigits, Digit
  <2>2. Pow10[n - i] \in Nat /\ Pow10[n - i] > 0
    BY Pow10Def
  <2>3. 0 \div Pow10[n - i] = 0
    BY <2>2, Division
  <2>4. y[i] = 48
    BY <1>4, <2>3
  <2> QED BY <2>1, <2>4
<1> HIDE DEF x, y
<1>6. x = y
  BY <1>3, <1>4, <1>5, SameSeq
<1> QED BY <1>6 DEF x, y, Negative

(* The number that a text of the column is: a NULL counts as zero.         *)
Reads(it, t, v) ==
  /\ v \in Int /\ (v < 0 => Signed(it))
  /\ IF t = << >> THEN v = 0 ELSE t = Render(v, -it.power)

LEMMA ReadsIs ==
  ASSUME NEW it \in Item, NEW t, NEW v, Reads(it, t, v)
  PROVE  /\ v \in Int /\ (v < 0 => Signed(it)) /\ Magnitude(v) \in Nat
         /\ LastDigits(t, it.length) = Numeral(Magnitude(v), it.length)
         /\ Negative(t) <=> v < 0
<1>1. it.length \in Nat /\ -it.power \in Nat
  BY ItemIs
<1>2. v \in Int /\ (v < 0 => Signed(it))
  BY DEF Reads
<1>3. Magnitude(v) \in Nat
  BY <1>2 DEF Magnitude
<1>4. CASE t = << >>
  <2>1. v = 0
    BY <1>4 DEF Reads
  <2>2. Magnitude(0) = 0
    BY DEF Magnitude
  <2> QED BY <1>1, <1>2, <1>3, <1>4, <2>1, <2>2, NoFigures
<1>5. CASE t # << >>
  <2>1. t = Render(v, -it.power)
    BY <1>5 DEF Reads
  <2> QED BY <1>1, <1>2, <1>3, <2>1, LastFigures
<1> QED BY <1>4, <1>5

LEMMA TextReads ==
  ASSUME NEW it \in Item, Numeric(it), NEW t \in Texts(it)
  PROVE  \E v \in Int : Reads(it, t, v)
<1>1. CASE t = << >>
  BY <1>1, 0 \in Int DEF Reads
<1>2. CASE t # << >>
  <2>1. PICK v \in Int : t = Render(v, -it.power) /\ (v < 0 => Signed(it))
    BY <1>2 DEF Texts
  <2> QED BY <1>2, <2>1 DEF Reads
<1> QED BY <1>1, <1>2

(* What the server makes of digits with a point among them.                *)
LEMMA ValueOfCut ==
  ASSUME NEW D \in Seq(Figure), Len(D) >= 1, NEW k \in 0..Len(D), NEW s \in Nat, k <= s
  PROVE  LET n == NumberOf(D) * Pow10[s - k]
         IN  /\ n \in Nat
             /\ k < Len(D) => Value(Cut(D, k), s) = n
             /\ Value(<<PLUS>> \o Cut(D, k), s) = n
             /\ Value(<<MINUS>> \o Cut(D, k), s) = -n
<1> DEFINE b == Cut(D, k)
           n == NumberOf(D) * Pow10[s - k]
<1>1. /\ b \in Seq({POINT} \cup Figure) /\ PartsOf(b, D, k)
      /\ k < Len(D) => Len(b) > 0 /\ b[1] = D[1]
  BY CutIs
<1>2. D \in Seq(48..57) /\ s - k \in Nat
  BY DEF Figure
<1>3. n \in Nat
  <2>1. NumberOf(D) \in Nat /\ Pow10[s - k] \in Nat
    BY <1>2, NumberType, Pow10Def
  <2>2. \A x \in Nat, y \in Nat : x * y \in Nat
    OBVIOUS
  <2> QED BY <2>1, <2>2
<1> HIDE DEF b
<1>4. whole(b) \o decimals(b) = D /\ Len(decimals(b)) = k
  BY <1>1, PartsJoin DEF PartsOf
<1>5. ASSUME NEW r, Unsigned(r) = b
      PROVE  Value(r, s) = IF r[1] = MINUS THEN -n ELSE n
  <2>1. Digits(r) = D /\ Len(decimals(Unsigned(r))) = k
    BY <1>4, <1>5 DEF Digits
  <2> QED BY <2>1 DEF Value
<1>6. k < Len(D) => Value(b, s) = n
  <2> SUFFICES ASSUME k < Len(D) PROVE Value(b, s) = n
    OBVIOUS
  <2>1. Unsigned(b) = b
    BY <1>1, NoSignIs
  <2>2. b[1] # MINUS
    BY <1>1, <1>2 DEF MINUS
  <2> QED BY <1>5, <2>1, <2>2
<1>7. ASSUME NEW c \in {PLUS, MINUS}
      PROVE  Value(<<c>> \o b, s) = IF c = MINUS THEN -n ELSE n
  <2>1. (<<c>> \o b)[1] = c /\ Unsigned(<<c>> \o b) = b
    BY <1>1, SignIs
  <2> QED BY <1>5, <2>1
<1>8. PLUS # MINUS
  BY DEF PLUS, MINUS
<1> HIDE DEF n
<1>9. Value(<<PLUS>> \o b, s) = n /\ Value(<<MINUS>> \o b, s) = -n
  BY <1>7, <1>8
<1> QED BY <1>3, <1>6, <1>9 DEF n, b

(* The digits of a number, read without a sign. Where all of them are      *)
(* decimals the point is lost, and the server refuses what is not zero.    *)
LEMMA UnsignedRead ==
  ASSUME NEW it \in Item, Numeric(it), NEW m \in Nat, m < Pow10[it.length], NEW r,
         r = insert_decimal_point(com_strdup(Numeral(m, it.length)), it.power),
         Accepts(it, r)
  PROVE  Value(r, -it.power) = m
<1> DEFINE L == it.length
           s == -it.power
           D == Numeral(m, L)
<1>1. L \in Nat /\ L >= 1 /\ s \in 0..L /\ it.power = -s
  BY ItemIs
<1>2. D \in Seq(Figure) /\ Len(D) = L /\ NumberOf(D) = m
  BY <1>1, NumeralIs, NumberOfNumeral DEF Figure
<1>3. Magnitude(Value(r, s)) < Pow10[L]
  BY DEF Accepts
<1>8. Pow10[0] = 1 /\ Pow10[L] \in Nat /\ Pow10[L] > 0
  BY <1>1, Pow10Def
<1>7. r = insert_decimal_point(com_strdup(D), it.power)
  OBVIOUS
<1> HIDE DEF D, L, s
<1>4. r = insert_decimal_point(D, -s)
  <2>1. \A i \in 1..Len(D) : D[i] # NUL
    BY <1>2 DEF Figure, NUL
  <2>2. com_strdup(D) = D
    BY <1>2, <2>1, StrdupWhole
  <2> QED BY <1>1, <1>7, <2>2
<1>5. CASE s < L
  <2>1. r = Cut(D, s)
    BY <1>1, <1>2, <1>4, <1>5, InsertIs
  <2>2. s \in 0..Len(D) /\ s \in Nat /\ s <= s /\ Len(D) >= 1 /\ s < Len(D) /\ s - s = 0
    BY <1>1, <1>2, <1>5
  <2>3. Value(Cut(D, s), s) = NumberOf(D) * Pow10[s - s]
    BY <1>2, <2>2, ValueOfCut
  <2>4. Value(r, s) = m * 1
    BY <1>2, <1>8, <2>1, <2>2, <2>3
  <2> QED BY <2>4 DEF s
<1>6. CASE s = L
  <2>1. -(-s) >= Len(D) /\ ~(-s >= 0)
    BY <1>1, <1>2, <1>6
  <2>2. r = D
    BY <1>4, <2>1 DEF insert_decimal_point
  <2>3. Cut(D, 0) = D
    BY DEF Cut
  <2>4. 0 \in 0..Len(D) /\ s \in Nat /\ 0 <= s /\ Len(D) >= 1 /\ 0 < Len(D) /\ s - 0 = L
    BY <1>1, <1>2, <1>6
  <2>5. Value(Cut(D, 0), s) = NumberOf(D) * Pow10[s - 0]
    BY <1>2, <2>4, ValueOfCut
  <2>6. Value(r, s) = m * Pow10[L]
    BY <1>2, <2>2, <2>3, <2>4, <2>5
  <2> DEFINE p == Pow10[L]
  <2>7. p \in Nat /\ p > 0 /\ Magnitude(m * p) < p
    BY <1>3, <1>8, <2>6
  <2> HIDE DEF p
  <2>8. m = 0
    <3>1. \A x \in Nat, y \in Nat : x * y \in Nat /\ (x # 0 => x * y >= y)
      OBVIOUS
    <3>2. m * p \in Nat
      BY <2>7, <3>1
    <3>3. Magnitude(m * p) = m * p
      BY <3>2 DEF Magnitude
    <3> QED BY <2>7, <3>1, <3>2, <3>3
  <2>9. 0 * p = 0
    BY <2>7
  <2> QED BY <2>6, <2>8, <2>9 DEF p, s
<1> QED BY <1>1, <1>5, <1>6

(* The digits of a number, read behind its sign.                           *)
LEMMA SignedRead ==
  ASSUME NEW it \in Item, NEW m \in Nat, m < Pow10[it.length], NEW negative \in BOOLEAN, NEW r,
         r = insert_decimal_point(com_strdup(Sign(~negative) \o Numeral(m, it.length)), it.power)
  PROVE  Value(r, -it.power) = IF negative THEN -m ELSE m
<1> DEFINE L == it.length
           s == -it.power
           D == Numeral(m, L)
           c == IF negative THEN MINUS ELSE PLUS
           x == <<c>> \o D
<1>1. L \in Nat /\ L >= 1 /\ s \in 0..L /\ it.power = -s
  BY ItemIs
<1>2. D \in Seq(Figure) /\ Len(D) = L /\ NumberOf(D) = m
  BY <1>1, NumeralIs, NumberOfNumeral DEF Figure
<1>3. Pow10[0] = 1
  BY Pow10Def
<1>4. Sign(~negative) \o D = x
  BY DEF Sign
<1>5. r = insert_decimal_point(com_strdup(x), it.power)
  BY <1>4
<1>6. c \in {PLUS, MINUS} /\ c \in 0..255 /\ c # NUL
  BY DEF PLUS, MINUS, NUL
<1> HIDE DEF D, L, s
<1>7. com_strdup(x) = x
  <2> DEFINE S == 0..255
             C == <<c>>
  <2>1. C \in Seq(S) /\ Len(C) = 1 /\ C[1] = c
    BY <1>6
  <2>2. D \in Seq(S)
    <3>1. Figure \subseteq S
      BY DEF Figure
    <3> HIDE DEF S
    <3> QED BY <1>2, <3>1, SeqGrows
  <2> HIDE DEF S, C
  <2>3. /\ C \o D \in Seq(S) /\ Len(C \o D) = Len(C) + Len(D)
        /\ \A i \in 1..Len(C) : (C \o D)[i] = C[i]
        /\ \A i \in 1..Len(D) : (C \o D)[Len(C) + i] = D[i]
    BY <2>1, <2>2, JoinIs, SMTT(30)
  <2> DEFINE y == C \o D
  <2>4. y \in Seq(S) /\ Len(y) = 1 + L /\ y[1] = c /\ \A i \in 1..L : y[1 + i] = D[i]
    BY <1>2, <2>1, <2>3
  <2> HIDE DEF y
  <2>5. ASSUME NEW i \in 1..Len(y) PROVE y[i] # NUL
    <3>1. CASE i = 1
      BY <1>6, <2>4, <3>1
    <3>2. CASE i # 1
      <4>1. i - 1 \in 1..L /\ 1 + (i - 1) = i
        BY <1>1, <2>4, <3>2
      <4>2. y[i] = D[i - 1]
        BY <2>4, <4>1
      <4> QED BY <1>2, <4>1, <4>2 DEF Figure, NUL
    <3> QED BY <3>1, <3>2
  <2>6. com_strdup(y) = y
    BY <2>4, <2>5, StrdupWhole
  <2> QED BY <2>6 DEF y, C
<1>8. r = <<c>> \o Cut(D, s)
  <2>1. insert_decimal_point(<<c>> \o D, -s) = <<c>> \o Cut(D, s)
    BY <1>1, <1>2, <1>6, InsertSigned
  <2> QED BY <1>1, <1>5, <1>7, <2>1
<1>9. s \in 0..Len(D) /\ s \in Nat /\ s <= s /\ Len(D) >= 1 /\ s - s = 0
  BY <1>1, <1>2
<1>10. /\ Value(<<PLUS>> \o Cut(D, s), s) = NumberOf(D) * Pow10[s - s]
       /\ Value(<<MINUS>> \o Cut(D, s), s) = -(NumberOf(D) * Pow10[s - s])
  BY <1>2, <1>9, ValueOfCut
<1>11. NumberOf(D) * Pow10[s - s] = m
  <2>1. m * 1 = m
    OBVIOUS
  <2> QED BY <1>2, <1>3, <1>9, <2>1
<1>12. Value(r, s) = IF negative THEN -m ELSE m
  BY <1>8, <1>10, <1>11
<1> QED BY <1>12 DEF s

(* A packed number unpacked.                                               *)
LEMMA UnpackIs ==
  ASSUME NEW it \in Item, Packed(it), NEW D \in Seq(Figure), Len(D) = it.length,
         NEW sign \in 0..15, NEW data,
         \A i \in 1..Bytes(it) : data[i] = PackedStorage(D, sign)[i]
  PROVE  PackedDigits(it, data) = D /\ data[Bytes(it)] % 16 = sign
<1> DEFINE L == it.length
           B == Bytes(it)
           skip == IF it.length % 2 = 0 THEN 1 ELSE 0
           half(k) == IF k <= skip THEN 0
                      ELSE IF k - skip <= it.length THEN D[k - skip] % 16 ELSE sign
           f == [i \in 1..B |-> (16 * half(2 * i - 1)) + half(2 * i)]
<1>1. \A i \in 1..B : data[i] = (16 * half(2 * i - 1)) + half(2 * i)
  <2>1. PackedStorage(D, sign) = f
    BY PackedStorageIs DEF Pack
  <2> HIDE DEF half, skip
  <2> QED BY <2>1
<1>2. L \in Nat /\ L >= 1 /\ B = (L + 2) \div 2
  BY ItemIs, BytesIs
<1>3. skip \in 0..1 /\ 2 * B = L + 1 + skip /\ B \in Nat /\ B >= 1
  <2>1. skip = IF L % 2 = 0 THEN 1 ELSE 0
    OBVIOUS
  <2> HIDE DEF L, B, skip
  <2> QED BY <1>2, <2>1
<1>4. \A y \in Figure : y % 16 = y - 48 /\ y - 48 \in 0..9 /\ Digit(y - 48) = y
  BY DEF Figure, Digit
<1>5. ASSUME NEW k \in 1..L PROVE D[k] \in Figure
  BY <1>2
<1> HIDE DEF skip
<1>6. \A k \in 1..L : half(k + skip) = D[k] - 48 /\ half(k + skip) \in 0..9
  <2> SUFFICES ASSUME NEW k \in 1..L
               PROVE  half(k + skip) = D[k] - 48 /\ half(k + skip) \in 0..9
    OBVIOUS
  <2>1. ~(k + skip <= skip) /\ (k + skip) - skip = k /\ k <= it.length
    BY <1>2, <1>3
  <2>2. half(k + skip) = D[k] % 16
    BY <2>1
  <2> QED BY <1>4, <1>5, <2>2
<1>7. half(L + 1 + skip) = sign
  <2>1. it.length = L /\ L \in Nat /\ skip \in Nat
    BY <1>2, <1>3
  <2> DEFINE k == L + 1 + skip
  <2> HIDE DEF L
  <2>2. ~(k <= skip) /\ k - skip = L + 1 /\ ~(L + 1 <= L)
    BY <2>1
  <2> HIDE DEF k
  <2>3. half(k) = sign
    BY <2>1, <2>2
  <2> QED BY <2>3 DEF k
<1>8. ASSUME NEW k \in 1..(2 * B) PROVE half(k) \in 0..15
  <2>1. CASE k <= skip
    BY <2>1
  <2>2. CASE ~(k <= skip)
    <3> DEFINE i == k - skip
    <3>1. i \in Nat /\ i >= 1 /\ i <= L + 1 /\ i + skip = k
      BY <1>2, <1>3, <2>2
    <3> HIDE DEF i, half
    <3>2. CASE i <= L
      BY <1>2, <1>6, <3>1, <3>2
    <3>3. CASE ~(i <= L)
      <4>1. k = L + 1 + skip
        BY <1>2, <1>3, <3>1, <3>3
      <4> QED BY <1>7, <4>1
    <3> QED BY <3>2, <3>3
  <2> QED BY <2>1, <2>2
<1> HIDE DEF half
<1>9. \A a \in 0..15, b \in 0..15 : ((16 * a) + b) \div 16 = a /\ ((16 * a) + b) % 16 = b
  OBVIOUS
<1>10. ASSUME NEW i \in 1..B
       PROVE  data[i] \div 16 = half(2 * i - 1) /\ data[i] % 16 = half(2 * i)
  <2>1. 2 * i - 1 \in 1..(2 * B) /\ 2 * i \in 1..(2 * B)
    BY <1>3
  <2>2. half(2 * i - 1) \in 0..15 /\ half(2 * i) \in 0..15
    BY <1>8, <2>1
  <2> QED BY <1>1, <1>9, <2>2, ZenonT(40)
<1>11. \A k \in 1..(2 * B) : Nibble(data, k) = half(k)
  <2> SUFFICES ASSUME NEW k \in 1..(2 * B) PROVE Nibble(data, k) = half(k)
    OBVIOUS
  <2>0. k \in Nat /\ k >= 1 /\ k <= 2 * B
    BY <1>3
  <2>3. \A x \in Nat, c \in Nat :
          x >= 1 /\ x <= 2 * c /\ x % 2 = 1
            => (x + 1) \div 2 \in 1..c /\ 2 * ((x + 1) \div 2) - 1 = x
    OBVIOUS
  <2>1. CASE k % 2 = 1
    <3> DEFINE i == (k + 1) \div 2
    <3> HIDE DEF B
    <3>1. i \in 1..B /\ 2 * i - 1 = k
      BY <1>3, <2>0, <2>1, <2>3
    <3> HIDE DEF i
    <3>2. data[i] \div 16 = half(2 * i - 1)
      BY <1>10, <3>1
    <3> QED BY <2>1, <3>1, <3>2 DEF Nibble, i
  <2>2. CASE k % 2 # 1
    <3> DEFINE i == k \div 2
    <3>1. i \in 1..B /\ 2 * i = k
      BY <1>3, <2>0, <2>2, SMTT(30)
    <3> HIDE DEF i
    <3>2. data[i] % 16 = half(2 * i)
      BY <1>10, <3>1
    <3> QED BY <2>2, <3>1, <3>2 DEF Nibble, i
  <2> QED BY <2>1, <2>2
<1>12. PackedDigits(it, data) = D
  <2> DEFINE shown(n) == IF n > 9 THEN Digit(1) ELSE Digit(n)
             g == [k \in 1..L |-> shown(Nibble(data, k + skip))]
  <2>1. PackedDigits(it, data) = g
    BY DEF PackedDigits, skip
  <2>2. ASSUME NEW k \in 1..L PROVE g[k] = D[k]
    <3>1. k + skip \in 1..(2 * B)
      BY <1>2, <1>3
    <3>2. Nibble(data, k + skip) = half(k + skip)
      BY <1>11, <3>1
    <3>3. half(k + skip) = D[k] - 48 /\ half(k + skip) \in 0..9 /\ Digit(D[k] - 48) = D[k]
      BY <1>4, <1>5, <1>6
    <3>4. g[k] = shown(half(k + skip))
      BY <3>2
    <3> DEFINE h == half(k + skip)
    <3>5. h \in 0..9 /\ Digit(h) = D[k] /\ g[k] = shown(h)
      BY <3>3, <3>4
    <3> HIDE DEF h, g
    <3>6. ~(h > 9)
      BY <3>5
    <3> QED BY <3>5, <3>6
  <2>3. g = [k \in 1..L |-> g[k]]
    OBVIOUS
  <2>4. \A k \in 1..L : g[k] \in Figure
    BY <1>5, <2>2
  <2> HIDE DEF g
  <2>5. g \in Seq(Figure) /\ Len(g) = L
    BY <1>2, <2>3, <2>4, Made
  <2>6. \A k \in 1..Len(g) : g[k] = D[k]
    BY <2>2, <2>5
  <2>7. g = D
    BY <2>5, <2>6, SameSeq
  <2> QED BY <2>1, <2>7
<1>13. data[B] % 16 = sign
  <2>1. B \in 1..B
    BY <1>3
  <2> QED BY <1>3, <1>7, <1>10, <2>1
<1> QED BY <1>12, <1>13

(* A trailing-combined number taken apart.                                 *)
LEMMA UncombinedIs ==
  ASSUME NEW D \in Seq(Figure), Len(D) >= 1, NEW negative \in BOOLEAN,
         NEW head \in Seq(0..255), Len(head) = Len(D),
         \A i \in 1..Len(D) :
           head[i] = IF negative /\ i = Len(D) THEN NegativeFinal(D[i] - 48) ELSE D[i]
  PROVE  /\ type_tc_is_positive(head[Len(D)]) <=> ~negative
         /\ CombinedDigits(head) = D
<1> DEFINE n == Len(D)
           last == head[n]
           digit == IF last \in {Digit(d) : d \in 0..9} THEN last
                    ELSE IF type_tc_is_positive(last) THEN NUL
                    ELSE Digit(last - NegativeFinal(0))
<1>1. n \in Nat /\ n \in 1..n /\ D[n] \in 48..57
  BY DEF Figure
<1>2. last = IF negative THEN 112 + (D[n] - 48) ELSE D[n]
  BY <1>1 DEF NegativeFinal
<1> DEFINE x == D[n]
<1>3. x \in 48..57 /\ last = IF negative THEN 112 + (x - 48) ELSE x
  BY <1>1, <1>2
<1> HIDE DEF x, last
<1>4. (type_tc_is_positive(last) <=> ~negative) /\ digit = x
  <2>1. {Digit(d) : d \in 0..9} = 48..57
    BY DEF Digit
  <2>2. {NegativeFinal(d) : d \in 0..9} = 112..121
    BY DEF NegativeFinal
  <2>3. CASE negative
    <3>1. last \in 112..121 /\ last \notin 48..57 /\ 48 + (last - 112) = x
      BY <1>3, <2>3
    <3>2. ~type_tc_is_positive(last)
      BY <2>2, <3>1 DEF type_tc_is_positive
    <3>3. NegativeFinal(0) = 112
      BY DEF NegativeFinal
    <3>4. digit = Digit(last - 112)
      BY <2>1, <3>1, <3>2, <3>3
    <3> QED BY <2>3, <3>1, <3>2, <3>4 DEF Digit
  <2>4. CASE ~negative
    <3>1. last = x /\ last \in 48..57 /\ last \notin 112..121
      BY <1>3, <2>4
    <3>2. type_tc_is_positive(last)
      BY <2>2, <3>1 DEF type_tc_is_positive
    <3> QED BY <2>1, <2>4, <3>1, <3>2
  <2> QED BY <2>3, <2>4
<1> HIDE DEF digit
<1> DEFINE y == [head EXCEPT ![n] = x]
<1>5. CombinedDigits(head) = y
  BY <1>4 DEF CombinedDigits, digit, last
<1>6. y = D
  <2> DEFINE S == 0..255
  <2>1. head \in Seq(S) /\ n \in 1..Len(head) /\ x \in S
    BY <1>1, <1>3
  <2> HIDE DEF S
  <2>2. /\ y \in Seq(S) /\ Len(y) = Len(head)
        /\ \A i \in 1..Len(head) : y[i] = IF i = n THEN x ELSE head[i]
    BY <2>1, ChangedIs
  <2>3. \A i \in 1..n : i # n => head[i] = D[i]
    OBVIOUS
  <2> HIDE DEF y
  <2>4. \A i \in 1..Len(y) : y[i] = D[i]
    BY <2>2, <2>3 DEF x
  <2> QED BY <2>2, <2>4, SameSeq
<1> QED BY <1>4, <1>5, <1>6 DEF last

(* Storage of a number is its digits and its sign, however it is written.  *)
LEMMA SameStorage ==
  ASSUME NEW it \in Item, Numeric(it), NEW t, NEW u,
         LastDigits(t, it.length) = LastDigits(u, it.length), Negative(t) <=> Negative(u)
  PROVE  Storage(it, t) = Storage(it, u)
<1> DEFINE d == LastDigits(t, it.length)
<1>1. Sign(~Negative(t)) = Sign(~Negative(u))
  BY DEF Sign
<1>2. (IF Negative(t) THEN 13 ELSE 12) = IF Negative(u) THEN 13 ELSE 12
  OBVIOUS
<1>3. LastDigits(u, it.length) = d
  OBVIOUS
<1> HIDE DEF d
<1>4. it.type \in {"UNSIGNED_NUMBER", "SIGNED_NUMBER_TC", "SIGNED_NUMBER_LS",
                  "UNSIGNED_NUMBER_PD", "SIGNED_NUMBER_PD"}
  BY DEF Numeric, Packed
<1>5. CASE it.type = "UNSIGNED_NUMBER"
  BY <1>3, <1>5, StorageCases DEF d
<1>6. CASE it.type = "SIGNED_NUMBER_TC"
  <2> DEFINE e == [d EXCEPT ![it.length] = NegativeFinal(@ - 48)]
  <2>1. Storage(it, t) = IF Negative(t) THEN e ELSE d
    BY <1>6, StorageCases DEF d
  <2>2. Storage(it, u) = IF Negative(u) THEN e ELSE d
    BY <1>3, <1>6, StorageCases
  <2> QED BY <2>1, <2>2
<1>7. CASE it.type = "SIGNED_NUMBER_LS"
  <2>1. Storage(it, t) = Sign(~Negative(t)) \o LastDigits(t, it.length)
    BY <1>7, StorageCases
  <2>2. Storage(it, u) = Sign(~Negative(u)) \o LastDigits(u, it.length)
    BY <1>7, StorageCases
  <2> DEFINE a == Sign(~Negative(t))
             b == Sign(~Negative(u))
  <2>3. a = b
    BY <1>1
  <2>4. Storage(it, t) = a \o d /\ Storage(it, u) = b \o d
    BY <1>3, <2>1, <2>2 DEF d
  <2> HIDE DEF a, b
  <2> QED BY <2>3, <2>4
<1>8. CASE it.type = "UNSIGNED_NUMBER_PD"
  BY <1>3, <1>8, StorageCases DEF d
<1>9. CASE it.type = "SIGNED_NUMBER_PD"
  BY <1>2, <1>3, <1>9, StorageCases DEF d
<1> QED BY <1>4, <1>5, <1>6, <1>7, <1>8, <1>9

(* A number that the server accepts is the one that was put into storage.  *)
LEMMA NumberReadBack ==
  ASSUME NEW it \in Item, Numeric(it), NEW t, NEW v, Reads(it, t, v),
         Magnitude(v) < Pow10[it.length], NEW data \in Seq(0..255), Len(data) >= Bytes(it),
         \A k \in 1..Bytes(it) : data[k] = Storage(it, t)[k],
         NEW r, r = create_realdata(it, data), Accepts(it, r)
  PROVE  Value(r, -it.power) = v
<1> DEFINE L == it.length
           B == Bytes(it)
           m == Magnitude(v)
           D == Numeral(m, L)
           negative == v < 0
           point(x) == insert_decimal_point(com_strdup(x), it.power)
<1>1. /\ v \in Int /\ (v < 0 => Signed(it)) /\ m \in Nat
      /\ LastDigits(t, L) = D /\ (Negative(t) <=> negative)
  BY ReadsIs
<1>2. L \in Nat /\ L >= 1 /\ it.type \in Types
  BY ItemIs
<1>3. D \in Seq(Figure) /\ Len(D) = L
  BY <1>1, <1>2, NumeralIs DEF Figure
<1>4. m < Pow10[L] /\ data \in Seq(0..255) /\ Len(data) \in Nat /\ Len(data) >= B
      /\ \A k \in 1..B : data[k] = Storage(it, t)[k]
  OBVIOUS
<1>5. v = IF negative THEN -m ELSE m
  BY <1>1 DEF Magnitude
<1>6. negative \in BOOLEAN
  BY <1>1
<1>7. ASSUME Signed(it), r = point(Sign(~negative) \o D) PROVE Value(r, -it.power) = v
  <2> HIDE DEF m, negative
  <2>1. Value(r, -it.power) = IF negative THEN -m ELSE m
    BY <1>1, <1>4, <1>6, <1>7, SignedRead
  <2> QED BY <1>5, <2>1
<1>8. ASSUME ~Signed(it), r = point(D) PROVE Value(r, -it.power) = v
  <2>1. ~negative
    BY <1>1, <1>8
  <2> HIDE DEF m, negative
  <2>2. Value(r, -it.power) = m
    BY <1>1, <1>4, <1>8, UnsignedRead
  <2> QED BY <1>5, <2>1, <2>2
<1> HIDE DEF m, D, negative, L, B
<1>9. ASSUME it.type \in {"UNSIGNED_NUMBER", "SIGNED_NUMBER_TC"}
      PROVE  B = L /\ Take(data, L) \in Seq(0..255) /\ Len(Take(data, L)) = L
             /\ \A k \in 1..L : Take(data, L)[k] = data[k]
  <2>1. B = L
    BY <1>9, BytesIs DEF Packed, Varying, Width, B, L
  <2> QED BY <1>2, <1>4, <2>1, TakeIs
<1>10. CASE it.type = "UNSIGNED_NUMBER"
  <2> DEFINE head == Take(data, L)
  <2>1. B = L /\ head \in Seq(0..255) /\ Len(head) = L /\ \A k \in 1..L : head[k] = data[k]
    BY <1>9, <1>10
  <2>2. Storage(it, t) = D
    BY <1>1, <1>10, StorageCases DEF L
  <2>3. r = point(head)
    BY <1>10, ReadCases DEF L
  <2> HIDE DEF head
  <2>4. head = D
    <3>1. \A k \in 1..Len(head) : head[k] = D[k]
      BY <1>4, <2>1, <2>2
    <3> QED BY <1>3, <2>1, <3>1, SameSeq
  <2> QED BY <1>8, <1>10, <2>3, <2>4 DEF Signed
<1>11. CASE it.type = "SIGNED_NUMBER_TC"
  <2> DEFINE head == Take(data, L)
             s == IF negative THEN [D EXCEPT ![L] = NegativeFinal(@ - 48)] ELSE D
  <2>1. B = L /\ head \in Seq(0..255) /\ Len(head) = L /\ \A k \in 1..L : head[k] = data[k]
    BY <1>9, <1>11
  <2>2. Storage(it, t) = s
    BY <1>1, <1>11, StorageCases DEF L
  <2>3. r = point(Sign(type_tc_is_positive(head[L])) \o CombinedDigits(head))
    BY <1>11, ReadCases DEF L
  <2> HIDE DEF head
  <2>4. ASSUME NEW k \in 1..L
        PROVE  s[k] = IF negative /\ k = L THEN NegativeFinal(D[k] - 48) ELSE D[k]
    BY <1>2, <1>3
  <2> HIDE DEF s
  <2>5. \A k \in 1..Len(D) :
          head[k] = IF negative /\ k = Len(D) THEN NegativeFinal(D[k] - 48) ELSE D[k]
    BY <1>3, <1>4, <2>1, <2>2, <2>4
  <2>6. (type_tc_is_positive(head[Len(D)]) <=> ~negative) /\ CombinedDigits(head) = D
    <3>1. D \in Seq(Figure) /\ Len(D) >= 1 /\ negative \in BOOLEAN
          /\ head \in Seq(0..255) /\ Len(head) = Len(D)
      BY <1>2, <1>3, <1>6, <2>1
    <3> HIDE DEF D
    <3> QED BY <3>1, <2>5, UncombinedIs
  <2>7. Sign(type_tc_is_positive(head[L])) = Sign(~negative)
    BY <1>3, <2>6 DEF Sign
  <2>8. r = point(Sign(~negative) \o D)
    BY <2>3, <2>6, <2>7
  <2> QED BY <1>7, <1>11, <2>8 DEF Signed
<1>12. CASE it.type = "SIGNED_NUMBER_LS"
  <2> DEFINE head == Take(data, 1 + L)
             x == Sign(~negative) \o D
  <2>1. B = 1 + L
    BY <1>2, <1>12, BytesIs DEF B, L
  <2>2. head \in Seq(0..255) /\ Len(head) = 1 + L /\ \A k \in 1..(1 + L) : head[k] = data[k]
    <3> DEFINE n == 1 + L
               C == 0..255
    <3>1. n \in Nat /\ Len(data) >= n /\ Len(data) \in Nat /\ data \in Seq(C)
      BY <1>2, <1>4, <2>1
    <3> HIDE DEF n, C
    <3>2. /\ Take(data, n) \in Seq(C) /\ Len(Take(data, n)) = n
          /\ \A k \in 1..n : Take(data, n)[k] = data[k]
      BY <3>1, TakeIs
    <3> QED BY <3>2 DEF n, C
  <2>3. Sign(~Negative(t)) = Sign(~negative)
    BY <1>1 DEF Sign
  <2>4. Storage(it, t) = x
    BY <1>1, <1>12, <2>3, StorageCases DEF L
  <2>5. r = point(head)
    BY <1>12, ReadCases DEF L
  <2>6. x \in Seq(0..255) /\ Len(x) = 1 + L
    <3>1. Sign(~negative) \in Seq({PLUS, MINUS}) /\ Len(Sign(~negative)) = 1
      BY <1>6, SignSeq
    <3>2. {PLUS, MINUS} \subseteq 0..255 /\ Figure \subseteq 0..255
      BY DEF PLUS, MINUS, Figure
    <3> DEFINE C == 0..255
               sg == Sign(~negative)
    <3>3. sg \in Seq(C) /\ D \in Seq(C) /\ Len(sg) = 1
      <4>1. {PLUS, MINUS} \subseteq C /\ Figure \subseteq C
        BY <3>2
      <4> HIDE DEF C
      <4> QED BY <1>3, <3>1, <4>1, SeqGrows
    <3> HIDE DEF C, sg
    <3>4. sg \o D \in Seq(C) /\ Len(sg \o D) = Len(sg) + Len(D)
      BY <3>3, JoinIs
    <3> QED BY <1>3, <3>3, <3>4 DEF C, sg
  <2> HIDE DEF head, x
  <2>7. head = x
    <3>1. \A k \in 1..Len(head) : head[k] = x[k]
      BY <1>4, <2>1, <2>2, <2>4
    <3> QED BY <2>2, <2>6, <3>1, SameSeq
  <2> QED BY <1>7, <1>12, <2>5, <2>7 DEF Signed, x
<1>13. ASSUME Packed(it), NEW sign \in 0..15, Storage(it, t) = PackedStorage(D, sign)
       PROVE  PackedDigits(it, data) = D /\ data[B] % 16 = sign
  <2>1. \A k \in 1..Bytes(it) : data[k] = PackedStorage(D, sign)[k]
    BY <1>4, <1>13 DEF B
  <2>2. Len(D) = it.length
    BY <1>3 DEF L
  <2> QED BY <1>3, <1>13, <2>1, <2>2, UnpackIs DEF B
<1>14. CASE it.type = "UNSIGNED_NUMBER_PD"
  <2>1. Storage(it, t) = PackedStorage(D, 15)
    BY <1>1, <1>14, StorageCases DEF L
  <2>2. r = point(PackedDigits(it, data))
    BY <1>14, ReadCases
  <2>3. PackedDigits(it, data) = D
    BY <1>13, <1>14, <2>1 DEF Packed
  <2> QED BY <1>8, <1>14, <2>2, <2>3 DEF Signed
<1>15. CASE it.type = "SIGNED_NUMBER_PD"
  <2> DEFINE sign == IF negative THEN 13 ELSE 12
  <2>1. Storage(it, t) = PackedStorage(D, sign)
    BY <1>1, <1>15, StorageCases DEF L
  <2>2. r = point(Sign(data[B] % 16 = 12) \o PackedDigits(it, data))
    BY <1>15, ReadCases DEF B
  <2>3. sign \in 0..15 /\ (sign = 12 <=> ~negative)
    OBVIOUS
  <2> HIDE DEF sign
  <2>4. PackedDigits(it, data) = D /\ data[B] % 16 = sign
    BY <1>13, <1>15, <2>1, <2>3 DEF Packed
  <2>5. Sign(data[B] % 16 = 12) = Sign(~negative)
    BY <2>3, <2>4 DEF Sign
  <2> QED BY <1>7, <1>15, <2>2, <2>4, <2>5 DEF Signed
<1> QED BY <1>10, <1>11, <1>12, <1>14, <1>15 DEF Numeric, Packed

-----------------------------------------------------------------------------
(* Texts read back from storage.                                           *)

(* The number in the header that was written.                              *)
LEMMA HeaderBack ==
  ASSUME NEW n \in Nat, n <= MAX_LENGTH + 1, NEW data,
         \A k \in 1..4 : data[k] = HeaderOf(n)[k]
  PROVE  Header(data) = n
<1> DEFINE a == n \div 256
           b == n \div 65536
           c == n \div 16777216
<1>1. data[1] = n % 256 /\ data[2] = a % 256 /\ data[3] = b % 256 /\ data[4] = c % 256
  BY DEF HeaderOf
<1>2. \A x \in Nat : x = 256 * (x \div 256) + (x % 256) /\ x \div 256 \in Nat
                     /\ x % 256 \in 0..255
  OBVIOUS
<1>3. b = a \div 256 /\ c = b \div 256
  OBVIOUS
<1>4. c \in 0..64
  BY DEF MAX_LENGTH
<1>5. \A x \in 0..64 : x % 256 = x /\ x % 128 = x
  OBVIOUS
<1>6. data[4] % 128 = c
  BY <1>1, <1>4, <1>5
<1> HIDE DEF c
<1>7. n = 256 * a + (n % 256) /\ a \in Nat
  BY <1>2
<1> HIDE DEF b
<1>8. a = 256 * b + (a % 256) /\ b \in Nat
  BY <1>2, <1>3, <1>7
<1>9. b = 256 * c + (b % 256) /\ c \in Nat
  BY <1>2, <1>3, <1>8
<1> HIDE DEF a
<1>10. Header(data) = (n % 256) + 256 * (a % 256) + 65536 * (b % 256) + 16777216 * c
  BY <1>1, <1>6 DEF Header
<1> DEFINE x == n % 256
           y == a % 256
           z == b % 256
<1>11. x \in Nat /\ y \in Nat /\ z \in Nat
  BY <1>2, <1>7, <1>8
<1> HIDE DEF x, y, z
<1>12. n = 256 * a + x /\ a = 256 * b + y /\ b = 256 * c + z
  BY <1>7, <1>8, <1>9 DEF x, y, z
<1>13. Header(data) = x + 256 * y + 65536 * z + 16777216 * c
  BY <1>10 DEF x, y, z
<1> QED BY <1>7, <1>8, <1>9, <1>11, <1>12, <1>13

(* The characters of a text at the width of the item.                      *)
LEMMA JustifiedText ==
  ASSUME NEW it \in Item, NEW t \in Seq(1..255)
  PROVE  /\ Justified(it, t) \in Seq(1..255) /\ Len(Justified(it, t)) = Width(it)
         /\ \A i \in 1..Width(it) : i <= Len(t) => Justified(it, t)[i] = t[i]
         /\ Len(t) = Width(it) => Justified(it, t) = t
<1> DEFINE C == 1..255
           W == Width(it)
           j == Justified(it, t)
<1>1. j \in Seq(C) /\ Len(j) = W
  <2>1. 1..255 \subseteq C /\ t \in Seq(C)
    OBVIOUS
  <2> HIDE DEF C
  <2> QED BY <2>1, JustifiedIs
<1>2. \A i \in 1..W : i <= Len(t) => j[i] = t[i]
  BY DEF Justified
<1>3. ASSUME Len(t) = W PROVE j = t
  <2>0. t \in Seq(C) /\ W \in Nat
    BY BytesIs
  <2> HIDE DEF j, C, W
  <2>1. \A i \in 1..Len(j) : j[i] = t[i]
    BY <1>1, <1>2, <1>3, <2>0
  <2> QED BY <1>1, <1>3, <2>0, <2>1, SameSeq
<1> QED BY <1>1, <1>2, <1>3

(* A text without NULs is copied whole.                                    *)
LEMMA NoNul ==
  ASSUME NEW s \in Seq(1..255)
  PROVE  com_strdup(s) = s
<1> DEFINE C == 1..255
<1>1. s \in Seq(C)
  OBVIOUS
<1>2. NUL \notin C
  BY DEF NUL
<1> HIDE DEF C
<1>3. \A i \in 1..Len(s) : s[i] # NUL
  BY <1>1, <1>2, SeqIs
<1> QED BY <1>1, <1>3, StrdupWhole

(* Storage of a VARYING item: the header, and the characters.              *)
LEMMA VaryingStorage ==
  ASSUME NEW it \in Item, Varying(it), NEW t \in Seq(1..255), NEW s,
         s = HeaderOf(Len(t) \div Unit(it)) \o Justified(it, t)
  PROVE  /\ Len(s) = Bytes(it) /\ Bytes(it) = 4 + Width(it)
         /\ \A k \in 1..4 : s[k] = HeaderOf(Len(t) \div Unit(it))[k]
         /\ \A k \in 1..Width(it) : s[4 + k] = Justified(it, t)[k]
         /\ \A k \in 5..Bytes(it) : s[k] \in 1..255
<1> DEFINE C == 0..255
           H == HeaderOf(Len(t) \div Unit(it))
           J == Justified(it, t)
           W == Width(it)
<1>0. W \in Nat /\ Bytes(it) = 4 + W
  BY BytesIs
<1>1. H \in Seq(C) /\ Len(H) = 4
  <2>1. Len(t) \div Unit(it) \in Nat
    <3>1. \A n \in Nat : n \div 1 \in Nat /\ n \div 2 \in Nat
      OBVIOUS
    <3> QED BY <3>1 DEF Unit
  <2> QED BY <2>1, HeaderOfIs
<1>2. J \in Seq(1..255) /\ Len(J) = W
  BY JustifiedText
<1>3. J \in Seq(C) /\ \A k \in 1..W : J[k] \in 1..255
  <2> DEFINE T == 1..255
  <2>1. J \in Seq(T) /\ Len(J) = W
    BY <1>2
  <2>2. T \subseteq C
    OBVIOUS
  <2> HIDE DEF J, C, T
  <2>3. J \in Seq(C)
    BY <2>1, <2>2, SeqGrows
  <2>4. \A k \in 1..Len(J) : J[k] \in T
    BY <2>1, SeqIs
  <2> QED BY <2>1, <2>3, <2>4 DEF T
<1>4. s = H \o J
  OBVIOUS
<1> HIDE DEF H, J, C, W
<1>5. /\ Len(H \o J) = Len(H) + Len(J)
      /\ \A i \in 1..Len(H) : (H \o J)[i] = H[i]
      /\ \A i \in 1..Len(J) : (H \o J)[Len(H) + i] = J[i]
  <2>1. H \in Seq(C) /\ J \in Seq(C)
    BY <1>1, <1>3
  <2> QED BY <2>1, JoinIs, SMTT(30)
<1>6. Len(s) = 4 + W /\ (\A k \in 1..4 : s[k] = H[k]) /\ \A k \in 1..W : s[4 + k] = J[k]
  BY <1>1, <1>2, <1>4, <1>5
<1>7. ASSUME NEW k \in 5..Bytes(it) PROVE s[k] \in 1..255
  <2>1. k - 4 \in 1..W /\ 4 + (k - 4) = k
    BY <1>0
  <2>2. s[k] = J[k - 4]
    BY <1>6, <2>1
  <2> QED BY <1>3, <2>1, <2>2
<1> QED BY <1>0, <1>6, <1>7 DEF H, J, W

(* What the program may count on that the storage holds.                   *)
Known(it, t) ==
  /\ t \in Texts(it)
  /\ Numeric(it) => \E v \in Int : Reads(it, t, v) /\ Magnitude(v) < Pow10[it.length]
  /\ Varying(it) => Len(t) >= 1 /\ Len(t) % Unit(it) = 0 /\ Len(t) <= Width(it)

(* The rows that the server has from these programs: a national text may   *)
(* be a character too long, where its length was read off its characters.  *)
Tidy(it) ==
  {t \in Texts(it) :
     /\ Varying(it) => /\ Len(t) >= 1 /\ Len(t) % Unit(it) = 0
                       /\ Len(t) <= Width(it) + IF Unit(it) = 2 THEN 2 ELSE 0
     /\ ~Numeric(it) /\ ~Varying(it) => Len(t) \in {0, Width(it)}}

(* Whole characters, of one or two bytes.                                  *)
LEMMA WholeCharacters ==
  ASSUME NEW it \in Item, NEW n \in Nat, n % Unit(it) = 0
  PROVE  /\ n \div Unit(it) \in Nat /\ Unit(it) * (n \div Unit(it)) = n
         /\ (n \div Unit(it)) * Unit(it) = n
         /\ n >= 1 => n \div Unit(it) >= 1
         /\ n <= Width(it) => n \div Unit(it) <= it.length
         /\ n <= Width(it) + 2 /\ Unit(it) = 2 => n \div Unit(it) <= it.length + 1
<1>1. it.length \in Nat /\ Width(it) = Unit(it) * it.length /\ Unit(it) \in {1, 2}
  BY ItemIs, UnitIs DEF Unit
<1> DEFINE L == it.length
           u == Unit(it)
           W == Width(it)
<1> HIDE DEF L, u, W
<1>2. L \in Nat /\ W = u * L /\ u \in {1, 2} /\ n % u = 0
  BY <1>1 DEF L, u, W
<1>3. CASE u = 1
  <2>1. n \div 1 = n
    OBVIOUS
  <2> QED BY <1>2, <1>3, <2>1 DEF L, u, W
<1>4. CASE u = 2
  <2>1. 2 * (n \div 2) + (n % 2) = n /\ n \div 2 \in Nat
    OBVIOUS
  <2> DEFINE q == n \div 2
  <2>2. q \in Nat /\ 2 * q = n
    BY <1>2, <1>4, <2>1
  <2> HIDE DEF q
  <2>3. /\ q * 2 = n /\ (n >= 1 => q >= 1) /\ (n <= 2 * L => q <= L)
        /\ (n <= 2 * L + 2 => q <= L + 1)
    BY <1>2, <2>2
  <2>4. /\ q \in Nat /\ u * q = n /\ q * u = n /\ (n >= 1 => q >= 1) /\ (n <= W => q <= L)
        /\ (n <= W + 2 => q <= L + 1) /\ q = n \div u
    BY <1>2, <1>4, <2>2, <2>3 DEF q
  <2> QED BY <2>4 DEF L, u, W
<1> QED BY <1>2, <1>3, <1>4

(* A text of a VARYING item is read as it was put into storage.            *)
LEMMA VaryingReadBack ==
  ASSUME NEW it \in Item, Varying(it), NEW t, Known(it, t),
         NEW data \in Seq(0..255), Len(data) >= Bytes(it),
         \A k \in 1..Bytes(it) : data[k] = Storage(it, t)[k]
  PROVE  create_realdata(it, data) = t
<1> DEFINE C == 0..255
           u == Unit(it)
           n == Len(t)
           W == Width(it)
           d == Drop(data, 4)
           J == Justified(it, t)
           B == Bytes(it)
<1>1. t \in Seq(1..255) /\ n \in Nat /\ n >= 1 /\ n % u = 0 /\ n <= W
  BY DEF Known, Texts, Varying, Numeric, Packed
<1>2. W \in Nat /\ B = 4 + W /\ Width(it) \div it.length = u /\ Len(data) \in Nat
      /\ Len(data) >= B
  BY BytesIs, UnitIs
<1>3. Storage(it, t) = HeaderOf(n \div u) \o J
  BY <1>2, StorageCases
<1>4. /\ \A k \in 1..4 : Storage(it, t)[k] = HeaderOf(n \div u)[k]
      /\ \A k \in 1..W : Storage(it, t)[4 + k] = J[k]
  <2> DEFINE s == Storage(it, t)
  <2>1. t \in Seq(1..255) /\ s = HeaderOf(Len(t) \div Unit(it)) \o Justified(it, t)
    BY <1>1, <1>3
  <2> HIDE DEF s
  <2>2. /\ \A k \in 1..4 : s[k] = HeaderOf(Len(t) \div Unit(it))[k]
        /\ \A k \in 1..Width(it) : s[4 + k] = Justified(it, t)[k]
    BY <2>1, VaryingStorage
  <2> QED BY <2>2 DEF s
<1>5. n \div u \in Nat /\ (n \div u) * u = n /\ n \div u <= it.length
  BY <1>1, WholeCharacters
<1>6. Header(data) = n \div u
  <2>1. \A k \in 1..4 : data[k] = HeaderOf(n \div u)[k]
    BY <1>2, <1>4
  <2>2. n \div u <= MAX_LENGTH + 1
    BY <1>5, ItemIs, MaxLength
  <2> HIDE DEF u
  <2> QED BY <1>5, <2>1, <2>2, HeaderBack
<1>7. create_realdata(it, data) = com_strdup(Take(d, n))
  BY <1>2, <1>5, <1>6, ReadCases DEF OCDB_VARCHAR_HEADER_BYTE
<1>8. data \in Seq(C)
  OBVIOUS
<1>9. \A i \in 1..W : i <= n => J[i] = t[i]
  BY <1>1, JustifiedText
<1> HIDE DEF C
<1>10. d \in Seq(C) /\ Len(d) >= W /\ Len(d) \in Nat /\ \A i \in 1..Len(d) : d[i] = data[4 + i]
  BY <1>2, <1>8, DropIs
<1> HIDE DEF d, J
<1>11. Take(d, n) = t
  <2>1. Take(d, n) \in Seq(C) /\ Len(Take(d, n)) = n
        /\ \A i \in 1..n : Take(d, n)[i] = d[i]
    BY <1>1, <1>2, <1>10, TakeIs
  <2>2. \A i \in 1..n : d[i] = t[i]
    <3> SUFFICES ASSUME NEW i \in 1..n PROVE d[i] = t[i]
      OBVIOUS
    <3>1. i \in 1..W /\ i \in 1..Len(d) /\ 4 + i \in 1..B /\ i <= n
      BY <1>1, <1>2, <1>10
    <3>2. data[4 + i] = Storage(it, t)[4 + i]
      BY <3>1
    <3> QED BY <1>4, <1>9, <1>10, <3>1, <3>2
  <2> DEFINE x == Take(d, n)
  <2> HIDE DEF x, n
  <2>3. \A i \in 1..Len(x) : x[i] = t[i]
    BY <2>1, <2>2 DEF x
  <2> QED BY <1>1, <2>1, <2>3, SameSeq DEF x, n
<1>12. com_strdup(t) = t
  BY <1>1, NoNul
<1> QED BY <1>7, <1>11, <1>12

(* A character item is read at its full width.                             *)
LEMMA TextReadBack ==
  ASSUME NEW it \in Item, ~Numeric(it), ~Varying(it), NEW t \in Texts(it),
         NEW data \in Seq(0..255), Len(data) >= Bytes(it),
         \A k \in 1..Bytes(it) : data[k] = Storage(it, t)[k]
  PROVE  create_realdata(it, data) = Justified(it, t)
<1> DEFINE C == 0..255
           J == Justified(it, t)
           W == Width(it)
           x == Take(data, W)
<1>1. J \in Seq(1..255) /\ Len(J) = W
  BY JustifiedText DEF Texts
<1>2. W \in Nat /\ Bytes(it) = W /\ Storage(it, t) = J
  BY BytesIs, StorageCases DEF Numeric
<1>3. data \in Seq(C) /\ Len(data) \in Nat /\ Len(data) >= W
      /\ \A k \in 1..W : data[k] = J[k]
  BY <1>2
<1>4. create_realdata(it, data) = com_strdup(x)
  BY ReadCases
<1> HIDE DEF C, J, W
<1>5. x \in Seq(C) /\ Len(x) = W /\ \A i \in 1..W : x[i] = data[i]
  BY <1>2, <1>3, TakeIs
<1> HIDE DEF x
<1>6. x = J
  <2>1. \A i \in 1..Len(x) : x[i] = J[i]
    BY <1>3, <1>5
  <2> QED BY <1>1, <1>5, <2>1, SameSeq
<1>7. com_strdup(J) = J
  BY <1>1, NoNul
<1> QED BY <1>4, <1>6, <1>7 DEF J

(* The program may count on what it moves.                                 *)
LEMMA ValuesKnown ==
  ASSUME NEW it \in Item, NEW t \in Values(it)
  PROVE  Known(it, t)
<1>1. t \in Texts(it)
  BY ValuesAre
<1>2. ASSUME Numeric(it) PROVE \E v \in Int : Reads(it, t, v) /\ Magnitude(v) < Pow10[it.length]
  <2>1. PICK v \in Numbers : /\ t = Render(v, -it.power)
                             /\ Magnitude(v) < Pow10[it.length] /\ (v < 0 => Signed(it))
    BY <1>2 DEF Values
  <2>2. v \in Int
    BY <2>1, StatementsAssumption
  <2>3. -it.power \in Nat
    BY ItemIs
  <2>4. t # << >>
    <3> DEFINE b == Body(v, -it.power)
    <3>1. /\ t = IF v < 0 THEN <<MINUS>> \o b ELSE b
          /\ b \in Seq({POINT} \cup Figure) /\ Len(b) > 0
      BY <2>1, <2>2, <2>3, RenderIs
    <3> HIDE DEF b
    <3>2. Len(<<MINUS>> \o b) = Len(b) + 1
      BY <3>1, SignIs
    <3>3. Len(b) \in Nat /\ Len(t) > 0
      <4>1. Len(b) \in Nat
        BY <3>1
      <4> QED BY <3>1, <3>2, <4>1
    <3>4. Len(<< >>) = 0
      OBVIOUS
    <3> QED BY <3>3, <3>4
  <2> QED BY <2>1, <2>2, <2>4 DEF Reads
<1>3. ASSUME Varying(it)
      PROVE  Len(t) >= 1 /\ Len(t) % Unit(it) = 0 /\ Len(t) <= Width(it)
  <2>1. t \in Strings /\ Len(t) <= Width(it) /\ Len(t) % Len(Pad(it)) = 0
    BY <1>3 DEF Values, Varying, Numeric, Packed
  <2>2. t \in Seq(1..255) /\ t # << >>
    BY <2>1, StatementsAssumption
  <2>3. Len(Pad(it)) = Unit(it)
    <3>1. Width(it) = Unit(it) * it.length /\ it.length \in Nat /\ it.length >= 1
      BY ItemIs, UnitIs
    <3>2. Unit(it) = 1 \/ Unit(it) = 2
      BY DEF Unit
    <3>3. Width(it) = it.length <=> Unit(it) = 1
      BY <3>1, <3>2
    <3> QED BY <3>2, <3>3 DEF Pad
  <2>4. Len(t) >= 1
    <3> DEFINE C == 1..255
    <3>1. t \in Seq(C) /\ t # << >>
      BY <2>2
    <3> HIDE DEF C
    <3> QED BY <3>1, TailIs
  <2> QED BY <2>1, <2>3, <2>4
<1> QED BY <1>1, <1>2, <1>3 DEF Known

(* A number whose digits fit the buffer is one that the item can hold.     *)
LEMMA FaithfulKnown ==
  ASSUME NEW it \in Item, NEW t \in Tidy(it), Faithful(it, t)
  PROVE  Known(it, t)
<1>1. t \in Texts(it)
  BY DEF Tidy
<1>2. ASSUME Numeric(it) PROVE \E v \in Int : Reads(it, t, v) /\ Magnitude(v) < Pow10[it.length]
  <2>1. PICK v \in Int : Reads(it, t, v)
    BY <1>1, <1>2, TextReads
  <2> DEFINE s == -it.power
             L == it.length
             m == Magnitude(v)
             F == Figures(m, s)
             b == Body(v, s)
  <2>2. s \in Nat /\ L \in Nat /\ it.power = -s /\ it.power \in Int
    BY ItemIs
  <2>3. m \in Nat
    BY <2>1 DEF Magnitude
  <2>4. CASE t = << >>
    <3>1. v = 0
      BY <2>1, <2>4 DEF Reads
    <3>2. m = 0
      BY <3>1 DEF Magnitude
    <3>3. Pow10[L] > 0
      BY <2>2, Pow10Def
    <3> QED BY <2>1, <3>2, <3>3
  <2>5. CASE t # << >>
    <3>1. t = Render(v, s) /\ (v < 0 => Signed(it))
      BY <2>1, <2>5 DEF Reads
    <3>2. /\ Render(v, s) = IF v < 0 THEN <<MINUS>> \o b ELSE b
          /\ b \in Seq({POINT} \cup Figure) /\ PartsOf(b, Numeral(m, F), s)
      BY <2>1, <2>2, RenderIs
    <3>3. F \in Nat /\ F >= s + 1 /\ m < Pow10[F]
      BY <2>2, <2>3, FiguresIs
    <3> HIDE DEF F
    <3>4. Len(whole(b)) = F - s
      BY <2>3, <3>2, <3>3, NumeralIs DEF PartsOf
    <3> HIDE DEF b, m
    <3>5. Bare(it, t) = b
      <4>1. CASE v < 0
        <5>1. t = <<MINUS>> \o b /\ Signed(it)
          BY <3>1, <3>2, <4>1
        <5>2. Tail(<<MINUS>> \o b) = b /\ Negative(<<MINUS>> \o b)
          BY <3>2, SignIs
        <5> QED BY <5>1, <5>2 DEF Bare
      <4>2. CASE ~(v < 0)
        <5>1. t = b
          BY <3>1, <3>2, <4>2
        <5> QED BY <3>2, <5>1, NoSignIs DEF Bare
      <4> QED BY <4>1, <4>2
    <3>6. ~(fillzero(it, b) < 0)
      BY <1>2, <3>5 DEF Faithful, Overruns
    <3>7. fillzero(it, b) = L - (F - s) + it.power
      BY <3>4 DEF fillzero
    <3> HIDE DEF s, L
    <3>8. F <= L /\ L - F \in Nat /\ F + (L - F) = L
      BY <2>2, <3>3, <3>6, <3>7
    <3>9. Pow10[F] <= Pow10[L] /\ Pow10[F] \in Nat /\ Pow10[L] \in Nat
      BY <2>2, <3>3, <3>8, Pow10Grows, Pow10Def
    <3>10. m < Pow10[L]
      BY <2>3, <3>3, <3>9
    <3> QED BY <2>1, <3>10 DEF m, L
  <2> QED BY <2>4, <2>5
<1>3. ASSUME Varying(it)
      PROVE  Len(t) >= 1 /\ Len(t) % Unit(it) = 0 /\ Len(t) <= Width(it)
  <2>1. /\ Len(t) >= 1 /\ Len(t) % Unit(it) = 0
        /\ Len(t) <= Width(it) + IF Unit(it) = 2 THEN 2 ELSE 0
    BY <1>3 DEF Tidy
  <2>2. t \in Seq(1..255)
    BY <1>1, <1>3 DEF Texts, Varying, Numeric, Packed
  <2>3. Len(t) \in Nat /\ Width(it) \in Nat
    BY <2>2, BytesIs
  <2>4. CASE it.type = "JAPANESE_VARYING"
    BY <2>1, <2>3, <2>4 DEF Faithful
  <2>5. CASE it.type # "JAPANESE_VARYING"
    <3>1. Unit(it) = 1
      BY <1>3, <2>5 DEF Unit, Varying
    <3> QED BY <2>1, <2>3, <3>1
  <2> QED BY <2>1, <2>4, <2>5
<1> QED BY <1>1, <1>2, <1>3 DEF Known

(* What is written for such a text is the storage COBOL has for it, and    *)
(* for a trailing-combined number one byte more.                           *)
LEMMA FaithfulStored ==
  ASSUME NEW it \in Item, NEW t \in Tidy(it), Faithful(it, t)
  PROVE  /\ Len(create_coboldata(it, t)) >= Bytes(it)
         /\ \A k \in 1..Bytes(it) : create_coboldata(it, t)[k] = Storage(it, t)[k]
<1> DEFINE L == it.length
           B == Bytes(it)
           c == create_coboldata(it, t)
           s == Storage(it, t)
<1>1. t \in Texts(it) /\ L \in Nat /\ L >= 1 /\ B \in Nat
  BY ItemIs, BytesIs DEF Tidy
<1>2. Len(s) = B
  BY <1>1, StorageIs
<1>3. SUFFICES c = s \/ (Len(c) >= B /\ \A k \in 1..B : c[k] = s[k])
  BY <1>1, <1>2
<1>4. CASE Numeric(it)
  <2> DEFINE v == Bare(it, t)
             x == LastDigits(t, L)
  <2>1. PICK D \in Seq(Figure) :
          /\ Scale(it, t) \in 0..Len(D) /\ PartsOf(v, D, Scale(it, t)) /\ Digits(t) = D
    BY <1>1, <1>4, TextIs
  <2>2. Scale(it, t) = -it.power
    <3>1. it.power \in Int /\ -it.power \in Nat
      BY ItemIs
    <3>2. it.power < 0 => t # << >>
      BY <1>4 DEF Faithful
    <3> QED BY <3>1, <3>2 DEF Scale
  <2>3. fillzero(it, v) \in Int /\ fillzero(it, v) >= 0
    <3>1. ~(fillzero(it, v) < 0)
      BY <1>4 DEF Faithful, Overruns
    <3>2. Len(whole(v)) \in Nat
      BY <2>1 DEF PartsOf
    <3>3. it.power \in Int
      BY ItemIs
    <3>4. fillzero(it, v) \in Int
      BY <1>1, <3>2, <3>3 DEF fillzero
    <3> QED BY <3>1, <3>4
  <2> HIDE DEF v
  <2>4. final(it, << >>, v) = x
    BY <2>1, <2>2, <2>3, FinalDigits
  <2>5. x \in Seq(Figure) /\ Len(x) = L
    BY <1>1, <2>1, LastDigitsIs
  <2> HIDE DEF x
  <2>6. CASE it.type = "UNSIGNED_NUMBER"
    BY <2>4, <2>6, ConvertCases, StorageCases DEF v, x
  <2>7. CASE it.type = "SIGNED_NUMBER_TC"
    <3> DEFINE y == Combined(x, Negative(t))
    <3>1. c = y
      BY <2>4, <2>7, ConvertCases DEF v
    <3>2. s = IF Negative(t) THEN [x EXCEPT ![L] = NegativeFinal(@ - 48)] ELSE x
      BY <2>7, StorageCases DEF x
    <3>3. B = L
      BY <2>7, BytesIs DEF Packed, Varying, Width
    <3>4. x \in Seq({NUL} \cup Figure) /\ \A i \in 1..Len(x) : x[i] # NUL
      <4> DEFINE A == {NUL} \cup Figure
      <4>1. Figure \subseteq A
        OBVIOUS
      <4> HIDE DEF A
      <4>2. x \in Seq(A)
        BY <2>5, <4>1, SeqGrows
      <4>3. \A i \in 1..Len(x) : x[i] \in Figure
        BY <2>5, SeqIs
      <4>4. NUL \notin Figure
        BY DEF NUL, Figure
      <4> QED BY <4>2, <4>3, <4>4 DEF A
    <3>5. Negative(t) \in BOOLEAN /\ Len(x) > 0
      BY <1>1, <2>5 DEF Negative
    <3> DEFINE n == Negative(t)
    <3> HIDE DEF n
    <3>6. /\ Len(Combined(x, n)) = Len(x) + 1
          /\ \A i \in 1..Len(x) : Combined(x, n)[i]
               = IF n /\ i = Len(x) THEN NegativeFinal(x[i] - 48) ELSE x[i]
      BY <3>4, <3>5, CombinedIs DEF n
    <3> HIDE DEF c, s, B, L
    <3>7. Len(c) = L + 1 /\ \A i \in 1..L : c[i] = IF n /\ i = L THEN NegativeFinal(x[i] - 48) ELSE x[i]
      BY <2>5, <3>1, <3>6 DEF n
    <3>8. \A i \in 1..L : s[i] = IF n /\ i = L THEN NegativeFinal(x[i] - 48) ELSE x[i]
      BY <1>1, <2>5, <3>2 DEF n
    <3> QED BY <1>1, <3>3, <3>7, <3>8
  <2>8. CASE it.type = "SIGNED_NUMBER_LS"
    <3> DEFINE e == IF ~Negative(t) THEN PLUS ELSE MINUS
    <3>1. Sign(~Negative(t)) = <<e>>
      BY DEF Sign
    <3>2. fillzero(it, v) = 0
      BY <2>8 DEF Faithful, v
    <3>3. c = final(it, <<e>>, v)
      BY <2>8, <3>1, ConvertCases DEF v
    <3>4. s = <<e>> \o x
      BY <2>8, <3>1, StorageCases DEF x
    <3> HIDE DEF e
    <3>5. final(it, <<e>>, v) = <<e>> \o x
      BY <2>1, <2>2, <3>2, FinalSigned DEF x
    <3> QED BY <3>3, <3>4, <3>5
  <2>9. CASE Packed(it)
    <3>1. PICK g \in 0..15 : c = Pack(it, x, g) /\ s = PackedStorage(x, g)
      <4>1. it.type = "UNSIGNED_NUMBER_PD" \/ it.type = "SIGNED_NUMBER_PD"
        BY <2>9 DEF Packed
      <4>2. CASE it.type = "UNSIGNED_NUMBER_PD"
        <5>1. c = Pack(it, x, 15) /\ s = PackedStorage(x, 15)
          BY <2>4, <4>2, ConvertCases, StorageCases DEF v, x
        <5>2. 15 \in 0..15
          OBVIOUS
        <5> QED BY <5>1, <5>2
      <4>3. CASE it.type = "SIGNED_NUMBER_PD"
        <5> DEFINE g == IF Negative(t) THEN 13 ELSE 12
        <5>1. c = Pack(it, x, g) /\ s = PackedStorage(x, g)
          BY <2>4, <4>3, ConvertCases, StorageCases DEF v, x
        <5>2. g \in 0..15
          OBVIOUS
        <5> QED BY <5>1, <5>2
      <4> QED BY <4>1, <4>2, <4>3
    <3>2. PackedStorage(x, g) = Pack(it, x, g)
      BY <2>5, <2>9, PackedStorageIs DEF L
    <3> QED BY <3>1, <3>2
  <2> QED BY <1>4, <2>6, <2>7, <2>8, <2>9 DEF Numeric
<1>5. CASE Varying(it)
  <2> DEFINE n == Len(t)
             u == Unit(it)
             W == Width(it)
  <2>1. Known(it, t)
    BY FaithfulKnown
  <2>2. t \in Seq(1..255) /\ n \in Nat /\ n % u = 0 /\ n <= W /\ W \in Nat
    BY <1>5, <2>1, BytesIs DEF Known, Texts, Varying, Numeric, Packed
  <2>3. W \div it.length = u
    BY UnitIs
  <2>4. s = HeaderOf(n \div u) \o Justified(it, t)
    BY <1>5, <2>3, StorageCases
  <2>5. c = VaryingBytes(it, t)
    BY <1>5, ConvertCases
  <2>6. u * (n \div u) = n
    BY <2>2, WholeCharacters
  <2>7. CASE n >= W
    <3>1. n = W
      BY <2>2, <2>7
    <3>2. u # 2 /\ u = 1
      <4>1. it.type # "JAPANESE_VARYING"
        BY <2>2, <2>7 DEF Faithful
      <4> QED BY <1>5, <4>1 DEF Unit, Varying
    <3>3. n \div u = it.length
      <4>1. W = u * it.length
        BY UnitIs
      <4>2. \A y \in Nat : 1 * y = y /\ y \div 1 = y
        OBVIOUS
      <4> QED BY <1>1, <3>1, <3>2, <4>1, <4>2
    <3>4. c = HeaderOf(it.length) \o Justified(it, t)
      <4> HIDE DEF u
      <4>1. VaryingBytes(it, t) = HeaderOf(it.length) \o Justified(it, t)
        BY <2>3, <2>7, <3>2 DEF VaryingBytes
      <4> QED BY <2>5, <4>1
    <3> QED BY <2>4, <3>3, <3>4
  <2>8. CASE ~(n >= W)
    <3>1. Take(t, u * (n \div u)) = t
      BY <2>2, <2>6 DEF Take
    <3>2. VaryingBytes(it, t) = HeaderOf(n \div u) \o Justified(it, Take(t, u * (n \div u)))
      <4> HIDE DEF u
      <4> QED BY <2>3, <2>8 DEF VaryingBytes
    <3> QED BY <2>4, <2>5, <3>1, <3>2
  <2> QED BY <2>7, <2>8
<1>6. CASE ~Numeric(it) /\ ~Varying(it)
  BY <1>6, ConvertCases, StorageCases
<1> QED BY <1>4, <1>5, <1>6

(* Storage that a VARYING item can be read from: a header that counts at   *)
(* least one character, and no NUL among the characters.                   *)
Readable(it, m) ==
  /\ \A i \in DOMAIN m : i >= 5 => m[i] # NUL
  /\ Header(m) >= 1
  /\ it.type = "ALPHANUMERIC_VARYING" => Header(m) <= it.length

(* The storage of a text that the program may count on is such.            *)
LEMMA KnownReadable ==
  ASSUME NEW it \in Item, Varying(it), NEW t, Known(it, t)
  PROVE  /\ \A k \in 5..Bytes(it) : Storage(it, t)[k] # NUL
         /\ \A m : (\A k \in 1..4 : m[k] = Storage(it, t)[k])
                     => Header(m) >= 1 /\ Header(m) <= it.length
<1> DEFINE u == Unit(it)
           n == Len(t)
           s == Storage(it, t)
<1>1. t \in Seq(1..255) /\ n \in Nat /\ n >= 1 /\ n % u = 0 /\ n <= Width(it)
  BY DEF Known, Texts, Varying, Numeric, Packed
<1>2. Width(it) \div it.length = u
  BY UnitIs
<1>3. s = HeaderOf(n \div u) \o Justified(it, t)
  BY <1>2, StorageCases
<1> HIDE DEF s
<1>4. /\ \A k \in 1..4 : s[k] = HeaderOf(n \div u)[k]
      /\ \A k \in 5..Bytes(it) : s[k] \in 1..255
  <2>1. t \in Seq(1..255) /\ s = HeaderOf(Len(t) \div Unit(it)) \o Justified(it, t)
    BY <1>1, <1>3
  <2>2. /\ \A k \in 1..4 : s[k] = HeaderOf(Len(t) \div Unit(it))[k]
        /\ \A k \in 5..Bytes(it) : s[k] \in 1..255
    BY <2>1, VaryingStorage
  <2> QED BY <2>2
<1>5. n \div u \in Nat /\ n \div u >= 1 /\ n \div u <= it.length
  BY <1>1, WholeCharacters
<1>6. n \div u <= MAX_LENGTH + 1
  BY <1>5, ItemIs, MaxLength
<1>7. ASSUME NEW m, \A k \in 1..4 : m[k] = s[k] PROVE Header(m) = n \div u
  <2>1. \A k \in 1..4 : m[k] = HeaderOf(n \div u)[k]
    BY <1>4, <1>7
  <2> HIDE DEF u, n
  <2> QED BY <1>5, <1>6, <2>1, HeaderBack
<1>8. \A k \in 5..Bytes(it) : s[k] # NUL
  <2>1. \A x \in 1..255 : x # NUL
    BY DEF NUL
  <2> QED BY <1>4, <2>1, Zenon
<1> HIDE DEF u, n
<1> QED BY <1>5, <1>7, <1>8 DEF s

(* What is written of a row leaves a VARYING item readable, whether or not *)
(* it was written over the header.                                         *)
LEMMA WrittenReadable ==
  ASSUME NEW it \in Item, Varying(it), NEW t \in Tidy(it), NEW w, w = create_coboldata(it, t)
  PROVE  /\ w \in Seq(0..255) /\ Len(w) >= 4 /\ Len(w) <= Bytes(it)
         /\ \A k \in 5..Len(w) : w[k] # NUL
         /\ \A m : (\A k \in 1..4 : m[k] = w[k])
                     => /\ Header(m) >= 1
                        /\ it.type = "ALPHANUMERIC_VARYING" => Header(m) <= it.length
<1> DEFINE u == Unit(it)
           n == Len(t)
           W == Width(it)
           L == it.length
           C == 0..255
<1>1. t \in Seq(1..255) /\ n \in Nat
  BY DEF Tidy, Texts, Varying, Numeric, Packed
<1>2. L \in Nat /\ L >= 1 /\ W = u * L /\ W \div L = u /\ W \in Nat /\ Bytes(it) = 4 + W
  BY ItemIs, UnitIs, BytesIs
<1>3. w = VaryingBytes(it, t)
  BY ConvertCases
<1>4. w \in Seq(C) /\ Len(w) \in Nat /\ Len(w) <= Bytes(it)
  BY <1>1, <1>3, VaryingIs
<1>5. CASE n >= W /\ u = 2
  <2> DEFINE T == Take(t, W)
             H == HeaderOf(L)
             R == Drop(H, W)
  <2>1. w = T \o R
    <3> HIDE DEF u, T, R, H
    <3>1. VaryingBytes(it, t) = Take(t, W) \o Drop(HeaderOf(L), W)
      BY <1>2, <1>5 DEF VaryingBytes
    <3> QED BY <1>3, <3>1 DEF T, R, H
  <2>2. W >= 2 /\ (W < 4 => W = 2)
    <3> HIDE DEF W, L, u
    <3>1. u = 2
      BY <1>5
    <3>2. W = 2 * L
      BY <1>2, <3>1
    <3> QED BY <1>2, <3>2
  <2>3. T \in Seq(C) /\ Len(T) = W /\ \A i \in 1..W : T[i] \in 1..255
    <3> DEFINE S == 1..255
    <3>1. t \in Seq(S)
      BY <1>1
    <3>2. S \subseteq C
      OBVIOUS
    <3> HIDE DEF S, C
    <3>3. T \in Seq(S) /\ Len(T) = W
      BY <1>1, <1>2, <1>5, <3>1, TakeIs
    <3> HIDE DEF T
    <3>4. T \in Seq(C) /\ \A i \in 1..Len(T) : T[i] \in S
      BY <3>2, <3>3, SeqGrows, SeqIs
    <3> QED BY <3>3, <3>4 DEF S
  <2>4. H \in Seq(C) /\ Len(H) = 4
    BY <1>2, HeaderOfIs
  <2> HIDE DEF H, C
  <2>5. R \in Seq(C) /\ Len(R) = IF W < 4 THEN 4 - W ELSE 0
    <3> HIDE DEF W
    <3>1. R \in Seq(C) /\ Len(R) = IF W < Len(H) THEN Len(H) - W ELSE 0
      BY <1>2, <2>4, DropIs
    <3> QED BY <2>4, <3>1
  <2> HIDE DEF T, R, W
  <2>6. /\ Len(T \o R) = Len(T) + Len(R)
        /\ \A i \in 1..Len(T) : (T \o R)[i] = T[i]
    BY <2>3, <2>5, JoinIs, SMTT(30)
  <2>7. /\ Len(w) = IF W < 4 THEN 4 ELSE W
        /\ \A i \in 1..W : w[i] \in 1..255
    <3>1. Len(w) = W + Len(R) /\ \A i \in 1..W : w[i] = T[i]
      BY <2>1, <2>3, <2>6
    <3>2. Len(w) = IF W < 4 THEN 4 ELSE W
      BY <1>2, <2>5, <3>1
    <3> QED BY <2>3, <3>1, <3>2
  <2>8. Len(w) >= 4 /\ \A k \in 5..Len(w) : w[k] # NUL
    <3>1. CASE W < 4
      <4>1. Len(w) = 4
        BY <2>7, <3>1
      <4> QED BY <4>1
    <3>2. CASE ~(W < 4)
      <4>1. Len(w) = W /\ W >= 4
        BY <1>2, <2>7, <3>2
      <4>2. ASSUME NEW k \in 5..Len(w) PROVE w[k] # NUL
        <5>1. k \in 1..W
          BY <1>2, <4>1
        <5>2. w[k] \in 1..255
          BY <2>7, <5>1
        <5>3. \A x \in 1..255 : x # NUL
          BY DEF NUL
        <5> QED BY <5>2, <5>3, Zenon
      <4> QED BY <4>1, <4>2
    <3> QED BY <3>1, <3>2
  <2>9. ASSUME NEW m, \A k \in 1..4 : m[k] = w[k] PROVE Header(m) >= 1
    <3>1. \A k \in 1..4 : w[k] \in C
      BY <1>4, <2>8, SeqIs
    <3>2. m[1] \in 1..255
      <4>1. 1 \in 1..W /\ 1 \in 1..4
        BY <1>2, <2>2
      <4>2. m[1] = w[1] /\ w[1] \in 1..255
        BY <2>7, <2>9, <4>1
      <4> QED BY <4>2
    <3>3. m[2] \in Nat /\ m[3] \in Nat /\ m[4] \in Nat
      BY <2>9, <3>1, SMTT(30) DEF C
    <3> DEFINE p == m[1]
               q == m[2]
               r == m[3]
               x == m[4]
    <3>4. \A y \in Nat : y % 128 \in Nat
      OBVIOUS
    <3>5. x % 128 \in Nat
      BY <3>3, <3>4
    <3> DEFINE z == x % 128
    <3>6. Header(m) = p + 256 * q + 65536 * r + 16777216 * z
      BY DEF Header
    <3>7. p \in Nat /\ p >= 1 /\ q \in Nat /\ r \in Nat /\ z \in Nat
      BY <3>2, <3>3, <3>5
    <3> HIDE DEF p, q, r, z
    <3> QED BY <3>6, <3>7
  <2>10. it.type # "ALPHANUMERIC_VARYING"
    BY <1>5 DEF Unit
  <2> QED BY <1>4, <2>8, <2>9, <2>10 DEF C
<1>6. CASE ~(n >= W /\ u = 2)
  <2>1. Faithful(it, t)
    <3>1. ~Numeric(it) /\ it.type # "SIGNED_NUMBER_LS"
      BY DEF Varying, Numeric, Packed
    <3>2. it.type = "JAPANESE_VARYING" => n < W
      BY <1>1, <1>2, <1>6 DEF Unit
    <3> QED BY <3>1, <3>2 DEF Faithful, Overruns
  <2>2. Known(it, t) /\ Len(w) >= Bytes(it) /\ \A k \in 1..Bytes(it) : w[k] = Storage(it, t)[k]
    BY <2>1, FaithfulKnown, FaithfulStored
  <2>3. /\ \A k \in 5..Bytes(it) : Storage(it, t)[k] # NUL
        /\ \A m : (\A k \in 1..4 : m[k] = Storage(it, t)[k])
                    => Header(m) >= 1 /\ Header(m) <= it.length
    BY <2>2, KnownReadable
  <2>4. Len(w) = Bytes(it) /\ Bytes(it) >= 4
    BY <1>2, <1>4, <2>2
  <2> DEFINE s == Storage(it, t)
             B == Bytes(it)
  <2> HIDE DEF s, C
  <2>5. \A k \in 5..Len(w) : w[k] # NUL
    BY <1>2, <2>2, <2>3, <2>4 DEF s
  <2>6. ASSUME NEW m, \A k \in 1..4 : m[k] = w[k]
        PROVE  Header(m) >= 1 /\ Header(m) <= it.length
    <3>1. \A k \in 1..4 : m[k] = s[k]
      BY <1>2, <2>2, <2>6 DEF s
    <3> QED BY <2>3, <3>1 DEF s
  <2> QED BY <1>4, <2>4, <2>5, <2>6 DEF C
<1> QED BY <1>5, <1>6

(* What is read of a readable item, and of as much as lies behind it.      *)
LEMMA VaryingRead ==
  ASSUME NEW it \in Item, Varying(it), NEW data \in Seq(0..255), Len(data) = Bytes(it) + 2,
         Readable(it, data)
  PROVE  create_realdata(it, data) \in Tidy(it)
<1> DEFINE C == 0..255
           u == Unit(it)
           W == Width(it)
           L == it.length
           d == Drop(data, 4)
           n == Header(data) * u
           x == Take(d, n)
<1>1. L \in Nat /\ L >= 1 /\ W = u * L /\ W \div L = u /\ W \in Nat /\ Bytes(it) = 4 + W
  BY ItemIs, UnitIs, BytesIs
<1>2. data \in Seq(C) /\ Len(data) = W + 6 /\ Len(data) >= Bytes(it) /\ Len(data) >= 4
  BY <1>1
<1>3. create_realdata(it, data) = com_strdup(x)
  BY <1>1, ReadCases DEF OCDB_VARCHAR_HEADER_BYTE
<1>4. create_realdata(it, data) \in Texts(it)
  <2>1. ~Numeric(it)
    BY DEF Varying, Numeric, Packed
  <2> QED BY <1>2, <2>1, TextReadIs DEF Texts
<1>5. Header(data) \in Nat /\ Header(data) >= 1
      /\ (it.type = "ALPHANUMERIC_VARYING" => Header(data) <= L)
  BY <1>2, HeaderIs DEF Readable
<1>6. u \in {1, 2} /\ (u = 1 => it.type = "ALPHANUMERIC_VARYING")
  BY DEF Unit, Varying
<1> DEFINE h == Header(data)
<1> HIDE DEF C, W, L, u, h, d
<1>7. /\ d \in Seq(C) /\ Len(d) = W + 2
      /\ \A i \in 1..Len(d) : d[i] = data[4 + i]
  <2>1. 4 \in Nat /\ 4 < Len(data)
    BY <1>1, <1>2
  <2>2. /\ Drop(data, 4) \in Seq(C) /\ Len(Drop(data, 4)) = Len(data) - 4
        /\ \A i \in 1..Len(Drop(data, 4)) : Drop(data, 4)[i] = data[4 + i]
    BY <1>2, <2>1, DropIs
  <2>3. Len(data) - 4 = W + 2
    BY <1>1, <1>2
  <2> QED BY <2>2, <2>3 DEF d
<1>8. \A i \in 1..Len(d) : d[i] # NUL
  <2> SUFFICES ASSUME NEW i \in 1..Len(d) PROVE d[i] # NUL
    OBVIOUS
  <2>1. 4 + i \in 1..Len(data) /\ 4 + i >= 5
    BY <1>1, <1>2, <1>7
  <2>2. 4 + i \in DOMAIN data
    BY <1>2, <2>1
  <2> QED BY <1>7, <2>1, <2>2 DEF Readable
<1>9. n \in Nat
  <2>1. u = 1 \/ u = 2
    BY <1>6
  <2> QED BY <1>5, <2>1 DEF h
<1> HIDE DEF n
<1>10. /\ x \in Seq(C) /\ Len(x) = IF n < Len(d) THEN n ELSE Len(d)
       /\ \A i \in 1..Len(x) : x[i] = d[i]
  BY <1>7, <1>9, TakeIs
<1> HIDE DEF x
<1>11. com_strdup(x) = x
  <2>1. \A i \in 1..Len(x) : x[i] # NUL
    BY <1>1, <1>7, <1>8, <1>9, <1>10
  <2> QED BY <1>10, <2>1, StrdupWhole
<1>12. Len(x) = IF n < W + 2 THEN n ELSE W + 2
  BY <1>7, <1>10
<1>13. Len(x) >= 1 /\ Len(x) % u = 0 /\ Len(x) <= W + IF u = 2 THEN 2 ELSE 0
  <2>1. CASE u = 1
    <3>1. n = h /\ W = L /\ h \in Nat /\ h >= 1 /\ h <= L
      BY <1>1, <1>5, <1>6, <2>1 DEF n, h
    <3>2. Len(x) = h
      BY <1>1, <1>12, <3>1
    <3>3. h % 1 = 0
      BY <3>1
    <3> QED BY <1>1, <2>1, <3>1, <3>2, <3>3
  <2>2. CASE u = 2
    <3>1. n = h * 2 /\ W = 2 * L /\ h \in Nat /\ h >= 1
      BY <1>1, <1>5, <2>2 DEF n, h
    <3>2. \A y \in Nat : (y * 2) % 2 = 0
      OBVIOUS
    <3>3. CASE n < W + 2
      BY <1>1, <1>12, <2>2, <3>1, <3>2, <3>3
    <3>4. CASE ~(n < W + 2)
      <4>1. Len(x) = (L + 1) * 2 /\ L + 1 \in Nat
        BY <1>1, <1>12, <3>1, <3>4
      <4>2. Len(x) % 2 = 0
        BY <3>2, <4>1
      <4> QED BY <1>1, <1>12, <2>2, <3>1, <3>4, <4>2
    <3> QED BY <3>3, <3>4
  <2> QED BY <1>6, <2>1, <2>2
<1> QED BY <1>3, <1>4, <1>11, <1>13 DEF Tidy, u, W

(* A character item without NULs, or with nothing else, is read whole or   *)
(* as nothing.                                                             *)
LEMMA UniformRead ==
  ASSUME NEW it \in Item, ~Numeric(it), ~Varying(it), NEW data \in Seq(0..255),
         Len(data) >= Bytes(it),
         \/ \A k \in 1..Bytes(it) : data[k] = NUL
         \/ \A k \in 1..Bytes(it) : data[k] # NUL
  PROVE  create_realdata(it, data) \in Tidy(it)
<1> DEFINE C == 0..255
           W == Width(it)
           x == Take(data, W)
           c == com_strdup(x)
<1>1. W \in Nat /\ Bytes(it) = W
  BY BytesIs DEF Numeric
<1>2. data \in Seq(C) /\ Len(data) \in Nat /\ Len(data) >= W
  BY <1>1
<1>3. create_realdata(it, data) = c
  BY ReadCases
<1>4. c \in Texts(it)
  BY <1>3, TextReadIs DEF Texts
<1>5. \/ \A k \in 1..W : data[k] = NUL
      \/ \A k \in 1..W : data[k] # NUL
  BY <1>1
<1> HIDE DEF C, W
<1>6. x \in Seq(C) /\ Len(x) = W /\ \A i \in 1..W : x[i] = data[i]
  BY <1>1, <1>2, TakeIs
<1> HIDE DEF x
<1>7. /\ Len(c) \in Nat /\ Len(c) <= W
      /\ \A i \in 1..Len(c) : x[i] # NUL
      /\ Len(c) < W => x[Len(c) + 1] = NUL
  <2>1. /\ c \in Seq(C) /\ Len(c) <= Len(x)
        /\ \A i \in 1..Len(c) : c[i] = x[i] /\ x[i] # NUL
        /\ Len(c) < Len(x) => x[Len(c) + 1] = NUL
    BY <1>6, StrdupIs
  <2> HIDE DEF c
  <2>2. Len(c) \in Nat
    BY <2>1
  <2> QED BY <1>6, <2>1, <2>2
<1> DEFINE n == Len(c)
<1> HIDE DEF n
<1>8. n \in Nat /\ n <= W /\ (\A i \in 1..n : x[i] # NUL) /\ (n < W => x[n + 1] = NUL)
  BY <1>7 DEF n
<1>9. n \in {0, W}
  <2>1. CASE \A k \in 1..W : data[k] = NUL
    <3>1. n >= 1 => 1 \in 1..n /\ 1 \in 1..W
      BY <1>1, <1>8
    <3>2. ~(n >= 1)
      BY <1>6, <1>8, <2>1, <3>1
    <3> QED BY <1>8, <3>2
  <2>2. CASE \A k \in 1..W : data[k] # NUL
    <3>1. n < W => n + 1 \in 1..W
      BY <1>1, <1>8
    <3>2. ~(n < W)
      BY <1>6, <1>8, <2>2, <3>1
    <3> QED BY <1>1, <1>8, <3>2
  <2> QED BY <1>5, <2>1, <2>2
<1> QED BY <1>3, <1>4, <1>9 DEF Tidy, n, W

-----------------------------------------------------------------------------
(* What is sent for a value that was moved or delivered.                   *)

(* A table of VARYING items does not lie where the runtime looks for it.   *)
LEMMA VaryingAlone ==
  ASSUME HostOK, StrideRight(host), Varying(host.item)
  PROVE  /\ host.count = 1 /\ Offset(host, 1) = 0
         /\ Extent(host) = Bytes(host.item) + 2
<1> DEFINE B == Bytes(host.item)
           L == host.item.length
           p == stride(host)
<1>1. host.item \in Item /\ L \in Nat /\ B \in Nat /\ host.count \in Nat
      /\ host.group \in BOOLEAN /\ Gap(host) \in 0..1 /\ p = B + Gap(host)
  BY HostIs DEF HostOK
<1>2. B = 4 + Width(host.item) /\ Width(host.item) \in Nat /\ Width(host.item) >= L
  BY <1>1, BytesIs
<1>3. B > L
  BY <1>1, <1>2
<1>4. host.count = 1
  <2>1. host.count = 1 \/ B = L
    BY DEF StrideRight
  <2> QED BY <1>1, <1>3, <2>1
<1>5. ~host.group
  BY <1>1, <1>4, StatementsAssumption DEF HostOK
<1>6. Extent(host) = B + 2
  <2>1. Extent(host) = host.count * ((IF B < L THEN L ELSE B) + 0) + 2
    BY <1>5 DEF Extent
  <2> HIDE DEF B, L
  <2>2. Extent(host) = 1 * (B + 0) + 2
    BY <1>1, <1>3, <1>4, <2>1
  <2> QED BY <1>1, <2>2
<1>7. Offset(host, 1) = 0
  <2>1. Offset(host, 1) = (1 - 1) * p
    BY DEF Offset
  <2>2. p \in Nat
    BY <1>1
  <2> HIDE DEF p
  <2> QED BY <2>1, <2>2
<1> QED BY <1>4, <1>6, <1>7

(* The bytes that row j is read from.                                      *)
LEMMA RowData ==
  ASSUME HostOK, FrameOK, MemOK, StrideRight(host), NEW j \in 1..host.count, Placed \/ j = 1
  PROVE  \E data \in Seq(0..255) :
           /\ realdata(j) = create_realdata(host.item, data)
           /\ Len(data) >= Bytes(host.item)
           /\ \A k \in 1..Bytes(host.item) : data[k] = mem[Offset(host, j) + k]
           /\ Varying(host.item) => /\ Len(data) = Bytes(host.item) + 2
                                    /\ \A k \in 1..Len(data) : data[k] = mem[k]
<1> DEFINE A == Alphabet(host.item)
           C == 0..255
           E == Extent(host)
           a == Address(j)
           B == Bytes(host.item)
           data == Drop(mem, a)
<1>1. host.item \in Item /\ B \in Nat /\ B >= 1
  BY HostIs DEF HostOK
<1>2. a \in Nat /\ a + B <= E /\ a = Offset(host, j)
  BY AddressIs
<1>3. E \in Nat
  <2>1. 1 \in 1..host.count
    BY HostIs DEF HostOK
  <2> QED BY <2>1, ExtentIs DEF HostOK
<1>4. mem \in Seq(C) /\ Len(mem) = E
  <2>1. mem = [i \in 1..E |-> mem[i]] /\ \A i \in 1..E : mem[i] \in A
    BY DEF MemOK
  <2>2. A \subseteq C
    BY <1>1, AlphabetIs
  <2> HIDE DEF A, E, C
  <2>3. \A i \in 1..E : mem[i] \in C
    BY <2>1, <2>2
  <2> QED BY <1>3, <2>1, <2>3, Made
<1>5. realdata(j) = create_realdata(host.item, data)
  BY DEF realdata
<1>6. Varying(host.item) => E = B + 2 /\ a = 0
  <2>1. Varying(host.item) => host.count = 1 /\ Offset(host, 1) = 0 /\ E = B + 2
    BY VaryingAlone
  <2>2. host.count = 1 => j = 1
    OBVIOUS
  <2> QED BY <1>2, <2>1, <2>2
<1> HIDE DEF A, C, E, a, B
<1>7. data \in Seq(C) /\ Len(data) = E - a
      /\ \A i \in 1..(E - a) : data[i] = mem[a + i]
  <2>1. /\ data \in Seq(C) /\ Len(data) = IF a < Len(mem) THEN Len(mem) - a ELSE 0
        /\ \A i \in 1..Len(data) : data[i] = mem[a + i]
    BY <1>2, <1>4, DropIs
  <2> HIDE DEF data
  <2>2. Len(data) = E - a
    BY <1>1, <1>2, <1>3, <1>4, <2>1
  <2> QED BY <2>1, <2>2
<1> HIDE DEF data
<1>8. Len(data) >= B
  BY <1>1, <1>2, <1>3, <1>7
<1>9. \A k \in 1..B : data[k] = mem[Offset(host, j) + k]
  <2>1. \A k \in 1..B : k \in 1..(E - a)
    BY <1>1, <1>2, <1>3
  <2> QED BY <1>2, <1>7, <2>1
<1>10. Varying(host.item) => Len(data) = B + 2 /\ \A k \in 1..Len(data) : data[k] = mem[k]
  <2> SUFFICES ASSUME Varying(host.item)
               PROVE  Len(data) = B + 2 /\ \A k \in 1..Len(data) : data[k] = mem[k]
    OBVIOUS
  <2>1. E = B + 2 /\ a = 0
    BY <1>6
  <2> QED BY <1>1, <1>7, <2>1
<1> QED BY <1>5, <1>7, <1>8, <1>9, <1>10 DEF B, C

(* What row j of the host variable holds: the storage of the value the     *)
(* program counts on, and no text that is cut short by a NUL.              *)
HoldsRow(it, m, at, t) ==
  /\ t # Unknown => Known(it, t) /\ \A k \in 1..Bytes(it) : m[at + k] = Storage(it, t)[k]
  /\ ~Numeric(it) /\ ~Varying(it)
       => \/ \A k \in 1..Bytes(it) : m[at + k] = NUL
          \/ \A k \in 1..Bytes(it) : m[at + k] # NUL

HoldsRows ==
  /\ \A j \in 1..host.count : HoldsRow(host.item, mem, Offset(host, j), elems[j])
  /\ Varying(host.item) => Readable(host.item, mem)

(* A row that is stored from the host variable is tidy.                    *)
LEMMA RowTidy ==
  ASSUME HostOK, FrameOK, MemOK, StrideRight(host), HoldsRows,
         NEW j \in 1..host.count, Placed \/ j = 1, Accepts(host.item, realdata(j))
  PROVE  Stored(host.item, realdata(j)) \in Tidy(host.item)
<1> DEFINE it == host.item
<1>1. it \in Item
  BY HostIs DEF HostOK
<1>2. PICK data \in Seq(0..255) :
        /\ realdata(j) = create_realdata(it, data)
        /\ Len(data) >= Bytes(it)
        /\ \A k \in 1..Bytes(it) : data[k] = mem[Offset(host, j) + k]
        /\ Varying(it) => /\ Len(data) = Bytes(it) + 2
                          /\ \A k \in 1..Len(data) : data[k] = mem[k]
  BY RowData
<1>3. Stored(it, realdata(j)) \in Texts(it)
  BY RowStored
<1>4. CASE Numeric(it)
  <2>1. ~Varying(it)
    BY <1>4 DEF Numeric, Varying, Packed
  <2> QED BY <1>3, <1>4, <2>1 DEF Tidy
<1>5. CASE Varying(it)
  <2>1. ~Numeric(it)
    BY <1>5 DEF Numeric, Varying, Packed
  <2>2. Stored(it, realdata(j)) = create_realdata(it, data)
    BY <1>2, <2>1 DEF Stored
  <2>3. Len(data) = Bytes(it) + 2 /\ \A k \in 1..Len(data) : data[k] = mem[k]
    BY <1>2, <1>5
  <2>4. Bytes(it) \in Nat /\ Bytes(it) >= 4 /\ Len(data) \in Nat /\ DOMAIN data = 1..Len(data)
    BY <1>1, <1>5, <2>3, BytesIs
  <2>5. Readable(it, data)
    <3>1. \A k \in 1..4 : data[k] = mem[k]
      BY <2>3, <2>4
    <3>2. Header(data) = Header(mem)
      BY <3>1 DEF Header
    <3>3. Readable(it, mem)
      BY <1>5 DEF HoldsRows
    <3>4. DOMAIN mem = 1..Extent(host) /\ Extent(host) = Len(data)
      BY <1>5, <2>3, VaryingAlone DEF MemOK
    <3>5. \A i \in DOMAIN data : i >= 5 => data[i] # NUL
      BY <2>3, <2>4, <3>3, <3>4 DEF Readable
    <3> QED BY <3>2, <3>3, <3>5 DEF Readable
  <2> HIDE DEF it
  <2> QED BY <1>1, <1>5, <2>2, <2>3, <2>5, VaryingRead DEF it
<1>6. CASE ~Numeric(it) /\ ~Varying(it)
  <2>1. Stored(it, realdata(j)) = create_realdata(it, data)
    BY <1>2, <1>6 DEF Stored
  <2>2. \/ \A k \in 1..Bytes(it) : mem[Offset(host, j) + k] = NUL
        \/ \A k \in 1..Bytes(it) : mem[Offset(host, j) + k] # NUL
    BY <1>6 DEF HoldsRows, HoldsRow
  <2>3. \/ \A k \in 1..Bytes(it) : data[k] = NUL
        \/ \A k \in 1..Bytes(it) : data[k] # NUL
    BY <1>2, <2>2
  <2>4. data \in Seq(0..255) /\ Len(data) >= Bytes(it)
    BY <1>2
  <2> HIDE DEF it
  <2>5. create_realdata(it, data) \in Tidy(it)
    BY <1>1, <1>6, <2>3, <2>4, UniformRead, Zenon
  <2> QED BY <2>1, <2>5 DEF it
<1> QED BY <1>4, <1>5, <1>6

(* A row that the program counts on is sent as its value.                  *)
LEMMA RowBack ==
  ASSUME HostOK, FrameOK, MemOK, StrideRight(host), HoldsRows,
         NEW j \in 1..host.count, Placed \/ j = 1, Accepts(host.item, realdata(j)),
         elems[j] # Unknown
  PROVE  LET it == host.item
             t == elems[j]
             s == Stored(it, realdata(j))
         IN  /\ Known(it, t)
             /\ Numeric(it) => \E v \in Int : Reads(it, t, v) /\ s = Render(v, -it.power)
             /\ Varying(it) => s = t
             /\ ~Numeric(it) /\ ~Varying(it) => s = Justified(it, t)
<1> DEFINE it == host.item
           t == elems[j]
           s == Stored(it, realdata(j))
<1>1. it \in Item
  BY HostIs DEF HostOK
<1>2. PICK data \in Seq(0..255) :
        /\ realdata(j) = create_realdata(it, data)
        /\ Len(data) >= Bytes(it)
        /\ \A k \in 1..Bytes(it) : data[k] = mem[Offset(host, j) + k]
  BY RowData
<1>3. Known(it, t) /\ \A k \in 1..Bytes(it) : mem[Offset(host, j) + k] = Storage(it, t)[k]
  BY DEF HoldsRows, HoldsRow
<1> DEFINE r == realdata(j)
           b == Storage(it, t)
<1> HIDE DEF b
<1>4. \A k \in 1..Bytes(it) : data[k] = b[k]
  BY <1>2, <1>3 DEF b
<1>5. r = create_realdata(it, data) /\ Accepts(it, r)
  BY <1>2
<1>6. s = IF Numeric(it) THEN Render(Value(r, -it.power), -it.power) ELSE r
  BY DEF Stored
<1> HIDE DEF r, t, s, it
<1>7. CASE Numeric(it)
  <2>1. PICK v \in Int : Reads(it, t, v) /\ Magnitude(v) < Pow10[it.length]
    BY <1>3, <1>7 DEF Known
  <2>2. Value(r, -it.power) = v
    BY <1>1, <1>2, <1>4, <1>5, <1>7, <2>1, NumberReadBack DEF b
  <2>3. ~Varying(it)
    BY <1>7 DEF Numeric, Varying, Packed
  <2>4. s = Render(v, -it.power)
    BY <1>6, <1>7, <2>2
  <2> QED BY <1>3, <1>7, <2>1, <2>3, <2>4 DEF it, t, s
<1>8. CASE Varying(it)
  <2>1. ~Numeric(it)
    BY <1>8 DEF Numeric, Varying, Packed
  <2>2. r = t
    BY <1>1, <1>2, <1>3, <1>4, <1>5, <1>8, VaryingReadBack DEF b
  <2> QED BY <1>3, <1>6, <1>8, <2>1, <2>2 DEF it, t, s
<1>9. CASE ~Numeric(it) /\ ~Varying(it)
  <2>1. r = Justified(it, t)
    BY <1>1, <1>2, <1>3, <1>4, <1>5, <1>9, TextReadBack DEF b, Known
  <2> QED BY <1>3, <1>6, <1>9, <2>1 DEF it, t, s
<1> QED BY <1>7, <1>8, <1>9

(* It has the storage of its value.                                        *)
LEMMA StoredBack ==
  ASSUME HostOK, FrameOK, MemOK, StrideRight(host), HoldsRows,
         NEW j \in 1..host.count, Placed \/ j = 1, Accepts(host.item, realdata(j)),
         elems[j] # Unknown
  PROVE  Storage(host.item, Stored(host.item, realdata(j))) = Storage(host.item, elems[j])
<1> DEFINE it == host.item
           t == elems[j]
           s == Stored(it, realdata(j))
<1>1. it \in Item
  BY HostIs DEF HostOK
<1>2. /\ Known(it, t)
      /\ Numeric(it) => \E v \in Int : Reads(it, t, v) /\ s = Render(v, -it.power)
      /\ Varying(it) => s = t
      /\ ~Numeric(it) /\ ~Varying(it) => s = Justified(it, t)
  BY RowBack
<1> HIDE DEF t, s, it
<1>3. CASE Numeric(it)
  <2>1. PICK v \in Int : Reads(it, t, v) /\ s = Render(v, -it.power)
    BY <1>2, <1>3
  <2>2. LastDigits(t, it.length) = Numeral(Magnitude(v), it.length) /\ (Negative(t) <=> v < 0)
    BY <1>1, <2>1, ReadsIs
  <2>3. -it.power \in Nat /\ it.length \in Nat
    BY <1>1, ItemIs
  <2>4. LastDigits(s, it.length) = Numeral(Magnitude(v), it.length) /\ (Negative(s) <=> v < 0)
    BY <2>1, <2>3, LastFigures
  <2>5. Storage(it, s) = Storage(it, t)
    BY <1>1, <1>3, <2>2, <2>4, SameStorage
  <2> QED BY <2>5 DEF it, t, s
<1>4. CASE Varying(it)
  BY <1>2, <1>4 DEF it, t, s
<1>5. CASE ~Numeric(it) /\ ~Varying(it)
  <2>1. t \in Seq(1..255)
    BY <1>2, <1>5 DEF Known, Texts
  <2>2. s \in Seq(1..255) /\ Len(s) = Width(it)
    BY <1>1, <1>2, <1>5, <2>1, JustifiedText
  <2>3. Justified(it, s) = s
    BY <1>1, <2>2, JustifiedText
  <2>4. Storage(it, s) = Justified(it, s) /\ Storage(it, t) = Justified(it, t)
    BY <1>1, <1>5, StorageCases
  <2> QED BY <1>2, <1>5, <2>3, <2>4 DEF it, t, s
<1> QED BY <1>3, <1>4, <1>5

(* Texts of whole characters with the same storage are the same.           *)
LEMMA VaryingSame ==
  ASSUME NEW it \in Item, Varying(it), NEW row \in Tidy(it), NEW t, Known(it, t),
         Storage(it, row) = Storage(it, t)
  PROVE  row = t
<1> DEFINE u == Unit(it)
           s == Storage(it, t)
           m == Len(row)
           n == Len(t)
<1>1. t \in Seq(1..255) /\ n \in Nat /\ n % u = 0 /\ n <= Width(it)
  BY DEF Known, Texts, Varying, Numeric, Packed
<1>2. row \in Seq(1..255) /\ m \in Nat /\ m % u = 0
      /\ m <= Width(it) + IF u = 2 THEN 2 ELSE 0
  BY DEF Tidy, Texts, Varying, Numeric, Packed
<1>3. Width(it) \div it.length = u /\ u \in {1, 2} /\ Width(it) \in Nat
  BY UnitIs, BytesIs DEF Unit
<1>4. s = HeaderOf(Len(t) \div Unit(it)) \o Justified(it, t)
      /\ s = HeaderOf(Len(row) \div Unit(it)) \o Justified(it, row)
  BY <1>3, StorageCases
<1> HIDE DEF s
<1>5. /\ \A k \in 1..4 : s[k] = HeaderOf(n \div u)[k]
      /\ \A k \in 1..Width(it) : s[4 + k] = Justified(it, t)[k]
  <2>1. s = HeaderOf(Len(t) \div Unit(it)) \o Justified(it, t) /\ t \in Seq(1..255)
    BY <1>1, <1>4
  <2> QED BY <2>1, VaryingStorage
<1>6. /\ \A k \in 1..4 : s[k] = HeaderOf(m \div u)[k]
      /\ \A k \in 1..Width(it) : s[4 + k] = Justified(it, row)[k]
  <2>1. s = HeaderOf(Len(row) \div Unit(it)) \o Justified(it, row) /\ row \in Seq(1..255)
    BY <1>2, <1>4
  <2> QED BY <2>1, VaryingStorage
<1>7. n \div u \in Nat /\ n \div u <= it.length /\ u * (n \div u) = n
  BY <1>1, WholeCharacters
<1>8. m \div u \in Nat /\ m \div u <= it.length + 1 /\ u * (m \div u) = m
  <2>1. m \div u \in Nat /\ u * (m \div u) = m
    BY <1>2, WholeCharacters
  <2>2. CASE u = 1
    <3>1. m <= Width(it)
      BY <1>2, <1>3, <2>2
    <3>2. m \div u <= it.length
      BY <1>2, <3>1, WholeCharacters
    <3>3. it.length \in Nat
      BY ItemIs
    <3> HIDE DEF m, u
    <3> QED BY <2>1, <3>2, <3>3
  <2>3. CASE u = 2
    <3>1. m <= Width(it) + 2 /\ Unit(it) = 2
      BY <1>2, <1>3, <2>3
    <3>2. m \div u <= it.length + 1
      BY <1>2, <3>1, WholeCharacters
    <3> HIDE DEF m, u
    <3> QED BY <2>1, <3>2
  <2> QED BY <1>3, <2>2, <2>3
<1>9. n \div u = m \div u
  <2>1. it.length <= MAX_LENGTH /\ it.length \in Nat /\ MAX_LENGTH \in Nat
    BY ItemIs, MaxLength
  <2> DEFINE x == n \div u
             y == m \div u
  <2>2. /\ x \in Nat /\ \A k \in 1..4 : s[k] = HeaderOf(x)[k]
        /\ y \in Nat /\ \A k \in 1..4 : s[k] = HeaderOf(y)[k]
    BY <1>5, <1>6, <1>7, <1>8
  <2>3. x <= it.length /\ y <= it.length + 1
    BY <1>7, <1>8
  <2> HIDE DEF x, y
  <2>4. x <= MAX_LENGTH + 1 /\ y <= MAX_LENGTH + 1
    BY <2>1, <2>2, <2>3
  <2>5. Header(s) = x /\ Header(s) = y
    BY <2>2, <2>4, HeaderBack
  <2> QED BY <2>5 DEF x, y
<1>10. m = n
  BY <1>7, <1>8, <1>9
<1>11. \A i \in 1..m : row[i] = t[i]
  <2> SUFFICES ASSUME NEW i \in 1..m PROVE row[i] = t[i]
    OBVIOUS
  <2>1. i \in 1..Width(it) /\ i <= m /\ i <= n
    BY <1>1, <1>2, <1>3, <1>10
  <2>2. Justified(it, row)[i] = row[i]
    BY <1>2, <2>1, JustifiedText
  <2>3. Justified(it, t)[i] = t[i]
    BY <1>1, <2>1, JustifiedText
  <2> QED BY <1>5, <1>6, <2>1, <2>2, <2>3
<1> QED BY <1>1, <1>2, <1>10, <1>11, SameSeq

(* The rows that the server finds equal to the parameter are those that    *)
(* have its value.                                                         *)
LEMMA MatchBack ==
  ASSUME HostOK, FrameOK, MemOK, StrideRight(host), HoldsRows,
         Accepts(host.item, realdata(1)), elems[1] # Unknown, NEW row \in Tidy(host.item)
  PROVE  row = Stored(host.item, realdata(1)) <=> Equals(row)
<1> DEFINE it == host.item
           t == elems[1]
           s == Stored(it, realdata(1))
<1>1. it \in Item /\ 1 \in 1..host.count
  BY HostIs DEF HostOK
<1>2. /\ Known(it, t)
      /\ Numeric(it) => \E v \in Int : Reads(it, t, v) /\ s = Render(v, -it.power)
      /\ Varying(it) => s = t
      /\ ~Numeric(it) /\ ~Varying(it) => s = Justified(it, t)
  BY <1>1, RowBack
<1>3. Equals(row) <=> IF Numeric(it)
                      THEN row = IF t = << >> THEN Render(0, -it.power) ELSE t
                      ELSE row # << >> /\ Storage(it, row) = Storage(it, t)
  BY DEF Equals
<1> DEFINE e == Equals(row)
<1> HIDE DEF e
<1>4. row \in Tidy(it)
  OBVIOUS
<1> HIDE DEF t, s, it
<1>5. CASE Numeric(it)
  <2>1. PICK v \in Int : Reads(it, t, v) /\ s = Render(v, -it.power)
    BY <1>2, <1>5
  <2>2. s = IF t = << >> THEN Render(0, -it.power) ELSE t
    BY <2>1 DEF Reads
  <2>3. row = s <=> e
    BY <1>3, <1>5, <2>2 DEF e
  <2> QED BY <2>3 DEF it, s, e
<1>6. CASE Varying(it)
  <2>0. ~Numeric(it)
    BY <1>6 DEF Numeric, Varying, Packed
  <2>1. row # << >>
    <3>1. Len(row) >= 1
      BY <1>4, <1>6 DEF Tidy
    <3>2. Len(<< >>) = 0
      OBVIOUS
    <3> QED BY <3>1, <3>2
  <2>2. Storage(it, row) = Storage(it, t) => row = t
    BY <1>1, <1>2, <1>4, <1>6, VaryingSame
  <2>3. row = s <=> e
    BY <1>2, <1>3, <1>6, <2>0, <2>1, <2>2 DEF e
  <2> QED BY <2>3 DEF it, s, e
<1>7. CASE ~Numeric(it) /\ ~Varying(it)
  <2>1. t \in Seq(1..255) /\ row \in Seq(1..255) /\ Len(row) \in {0, Width(it)}
    BY <1>2, <1>4, <1>7 DEF Known, Texts, Tidy
  <2>2. Width(it) \in Nat /\ Width(it) >= 1
    BY <1>1, BytesIs, ItemIs
  <2>3. Len(Justified(it, t)) = Width(it)
    BY <1>1, <2>1, JustifiedText
  <2>4. Len(row) = Width(it) => Justified(it, row) = row
    BY <1>1, <2>1, JustifiedText
  <2>5. row # << >> <=> Len(row) = Width(it)
    <3>1. row = << >> <=> Len(row) = 0
      <4> DEFINE S == 1..255
      <4>1. row \in Seq(S)
        BY <2>1
      <4> HIDE DEF S
      <4> QED BY <4>1
    <3> QED BY <2>1, <2>2, <3>1
  <2>6. Storage(it, row) = Justified(it, row) /\ Storage(it, t) = Justified(it, t)
    BY <1>1, <1>7, StorageCases
  <2>7. row = s <=> e
    BY <1>2, <1>3, <1>7, <2>3, <2>4, <2>5, <2>6 DEF e
  <2> QED BY <2>7 DEF it, s, e
<1> QED BY <1>5, <1>6, <1>7

-----------------------------------------------------------------------------
(* What a read leaves in the host variable.                                *)

(* Later rows lie behind earlier ones. *)
LEMMA OffsetIs ==
  ASSUME HostOK, NEW j \in 1..host.count
  PROVE  /\ Offset(host, j) \in Nat
         /\ Offset(host, j) + Bytes(host.item) <= Extent(host)
         /\ \A r \in 1..host.count : j <= r => Offset(host, j) <= Offset(host, r)
<1> DEFINE B == Bytes(host.item)
           p == stride(host)
<1>1. host.count \in Nat /\ B \in Nat /\ Gap(host) \in 0..1 /\ p = B + Gap(host) /\ p \in Nat
  BY HostIs DEF HostOK
<1>2. \A r \in 1..host.count : Offset(host, r) = (r - 1) * p
  BY DEF Offset
<1>3. Offset(host, j) \in Nat /\ Offset(host, j) + B <= Extent(host)
  <2>1. (j - 1) * (B + Gap(host)) \in Nat /\ (j - 1) * (B + Gap(host)) + B <= Extent(host)
    BY ExtentIs DEF HostOK
  <2>2. Offset(host, j) = (j - 1) * (B + Gap(host))
    BY <1>1, <1>2
  <2> QED BY <2>1, <2>2
<1>4. ASSUME NEW r \in 1..host.count, j <= r PROVE Offset(host, j) <= Offset(host, r)
  <2>1. \A x \in Nat, y \in Nat, z \in Nat : x <= y => x * z <= y * z
    OBVIOUS
  <2>2. j - 1 \in Nat /\ r - 1 \in Nat /\ j - 1 <= r - 1
    BY <1>1, <1>4
  <2> HIDE DEF p
  <2> QED BY <1>1, <1>2, <2>1, <2>2
<1> QED BY <1>3, <1>4

(* Row j is what was written for it, and beyond that what was there.       *)
LEMMA RowWritten ==
  ASSUME HostOK, FrameOK, MemOK, Placed, StrideRight(host),
         NEW W, W = [j \in 1..host.count |-> W[j]],
         \A j \in 1..host.count : W[j] \in Seq(Alphabet(host.item)),
         NEW j \in 1..host.count, NEW k \in 1..Bytes(host.item), k <= Len(W[j])
  PROVE  Overwritten(W)[Offset(host, j) + k] = W[j][k]
<1> DEFINE n == host.count
           B == Bytes(host.item)
           A == Alphabet(host.item)
           m == Overwritten(W)
           o == Offset(host, j)
           i == o + k
           p == stride(host)
<1>1. n \in Nat /\ B \in Nat /\ p \in Nat /\ B <= p
  BY HostIs DEF HostOK
<1>2. o \in Nat /\ o + B <= Extent(host)
  BY OffsetIs
<1>3. Extent(host) \in Nat
  BY ExtentIs DEF HostOK
<1>0. k \in 1..B
  OBVIOUS
<1> HIDE DEF B, m, p, o
<1>4. i \in 1..Extent(host)
  BY <1>0, <1>1, <1>2, <1>3
<1>5. \A r \in 1..n : Address(r) = Offset(host, r)
  BY AddressIs
<1>6. Len(W[j]) \in Nat
  <2> DEFINE w == W[j]
  <2>1. w \in Seq(A)
    OBVIOUS
  <2> HIDE DEF w, A
  <2>2. Len(w) \in Nat
    BY <2>1, SeqIs
  <2> QED BY <2>2 DEF w
<1>7. \/ \A r \in 1..n : i - Address(r) \notin 1..Len(W[r])
      \/ \E r \in 1..n : /\ i - Address(r) \in 1..Len(W[r])
                         /\ m[i] = W[r][i - Address(r)]
                         /\ \A q \in 1..n : i - Address(q) \in 1..Len(W[q]) => q <= r
  <2> HIDE DEF n, A, i
  <2>1. /\ HostOK /\ MemOK /\ n \in Nat /\ W = [r \in 1..n |-> W[r]]
        /\ \A r \in 1..n : W[r] \in Seq(A)
    BY <1>1 DEF n, A
  <2>2. \A x \in 1..Extent(host) :
              \/ /\ Overwritten(W)[x] = mem[x]
                 /\ \A r \in 1..n : x - Address(r) \notin 1..Len(W[r])
              \/ \E r \in 1..n : /\ x - Address(r) \in 1..Len(W[r])
                                 /\ Overwritten(W)[x] = W[r][x - Address(r)]
                                 /\ \A q \in 1..n : x - Address(q) \in 1..Len(W[q]) => q <= r
    BY <2>1, OverwrittenIs DEF A
  <2> QED BY <1>4, <2>2, Zenon DEF m
<1>8. i - o = k
  BY <1>1, <1>2
<1>9. i - Address(j) \in 1..Len(W[j])
  <2> DEFINE l == Len(W[j])
  <2> HIDE DEF l, i
  <2>1. l \in Nat /\ k <= l
    BY <1>6 DEF l
  <2>2. k \in 1..l
    BY <1>1, <2>1
  <2> QED BY <1>5, <1>8, <2>2 DEF o, l
<1>10. PICK r \in 1..n : /\ i - Address(r) \in 1..Len(W[r])
                         /\ m[i] = W[r][i - Address(r)]
                         /\ \A q \in 1..n : i - Address(q) \in 1..Len(W[q]) => q <= r
  <2> HIDE DEF i
  <2> QED BY <1>7, <1>9
<1>11. j <= r
  <2> HIDE DEF i
  <2> QED BY <1>9, <1>10
<1> DEFINE x == Offset(host, r)
<1>12. x \in Nat /\ o <= x
  BY <1>11, OffsetIs DEF o
<1>13. i - x \in Nat /\ i - x >= 1
  <2> HIDE DEF i
  <2>1. i - x \in 1..Len(W[r])
    BY <1>5, <1>10
  <2> HIDE DEF x
  <2>2. i \in Nat
    BY <1>3, <1>4
  <2> QED BY <1>12, <2>1, <2>2
<1> HIDE DEF x
<1>14. i - x \in 1..p /\ k \in 1..p
  BY <1>0, <1>1, <1>2, <1>12, <1>13
<1>15. r = j
  <2>1. i \in Nat /\ i >= 1 /\ r \in Nat /\ r >= 1 /\ j \in Nat /\ j >= 1
    BY <1>1, <1>3, <1>4
  <2> DEFINE y == (i - 1) \div stride(host) + 1
  <2>2. \A q \in Nat : q >= 1 /\ i - Offset(host, q) \in 1..stride(host) => q = y
    <3> HIDE DEF i
    <3> QED BY <2>1, RowOf DEF HostOK
  <2> HIDE DEF y, i
  <2>3. i - Offset(host, r) \in 1..stride(host) /\ i - Offset(host, j) \in 1..stride(host)
    BY <1>8, <1>14 DEF p, x, o
  <2> QED BY <2>1, <2>2, <2>3
<1>16. m[i] = W[j][k]
  <2> HIDE DEF i
  <2> QED BY <1>5, <1>8, <1>10, <1>15 DEF o
<1> QED BY <1>16 DEF m, o

(* Tidy rows are rows.                                                     *)
LEMMA TidyRows ==
  ASSUME NEW it \in Item, NEW rows \in Seq(Tidy(it))
  PROVE  /\ rows \in Seq(Texts(it)) /\ Len(rows) \in Nat
         /\ \A j \in 1..Len(rows) : rows[j] \in Tidy(it)
<1> DEFINE S == Tidy(it)
           T == Texts(it)
<1>1. S \subseteq T
  BY DEF Tidy
<1>2. rows \in Seq(S)
  OBVIOUS
<1> HIDE DEF S, T
<1>3. rows \in Seq(T) /\ Len(rows) \in Nat /\ \A j \in 1..Len(rows) : rows[j] \in S
  BY <1>1, <1>2, SeqGrows, SeqIs
<1> QED BY <1>3 DEF S, T

(* What is written row by row.                                             *)
LEMMA FilledRow ==
  ASSUME HostOK, FrameOK, MemOK, Placed, StrideRight(host),
         NEW rows \in Seq(Tidy(host.item)), rows # << >>, NEW j \in 1..host.count, NEW w,
         w = IF j <= Len(rows) THEN create_coboldata(host.item, rows[j])
                               ELSE create_coboldata_lowvalue(host.item)
  PROVE  /\ w \in Seq(Alphabet(host.item))
         /\ \A k \in 1..Bytes(host.item) :
              k <= Len(w) => Filled(rows, host.count)[Offset(host, j) + k] = w[k]
<1> DEFINE n == host.count
           W == Written(rows, n)
<1>1. host.item \in Item
  BY HostIs DEF HostOK
<1>2. rows \in Seq(Texts(host.item))
  BY <1>1, TidyRows
<1>3. /\ W = [r \in 1..n |-> W[r]]
      /\ \A r \in 1..n : W[r] \in Seq(Alphabet(host.item))
  BY <1>2, WrittenIs
<1>4. W[j] = w
  BY DEF Written
<1>5. Filled(rows, n) = Overwritten(W)
  BY DEF Filled
<1> HIDE DEF W
<1>6. ASSUME NEW k \in 1..Bytes(host.item), k <= Len(W[j])
      PROVE  Overwritten(W)[Offset(host, j) + k] = W[j][k]
  BY <1>3, <1>6, RowWritten
<1> QED BY <1>3, <1>4, <1>5, <1>6

(* A row that was delivered has the storage of its value; the rows past    *)
(* the last one are low-values.                                            *)
LEMMA FilledHolds ==
  ASSUME HostOK, FrameOK, MemOK, Placed, StrideRight(host),
         NEW rows \in Seq(Tidy(host.item)), rows # << >>, NEW j \in 1..host.count
  PROVE  LET it == host.item
             m == Filled(rows, host.count)
             at == Offset(host, j)
         IN  /\ j <= Len(rows) /\ Faithful(it, rows[j])
                  => \A k \in 1..Bytes(it) : m[at + k] = Storage(it, rows[j])[k]
             /\ ~(j <= Len(rows))
                  => it.length = Bytes(it) /\ \A k \in 1..it.length : m[at + k] = NUL
             /\ j <= Len(rows) /\ ~Numeric(it) /\ ~Varying(it)
                  => \/ \A k \in 1..Bytes(it) : m[at + k] = NUL
                     \/ \A k \in 1..Bytes(it) : m[at + k] # NUL
<1> DEFINE it == host.item
           m == Filled(rows, host.count)
           at == Offset(host, j)
           B == Bytes(it)
<1>1. it \in Item /\ host.count \in Nat /\ it.length \in Nat /\ B \in Nat /\ B >= 1
  BY HostIs DEF HostOK
<1>2. Len(rows) \in Nat /\ Len(rows) >= 1 /\ \A r \in 1..Len(rows) : rows[r] \in Tidy(it)
  <2>1. Len(rows) \in Nat /\ \A r \in 1..Len(rows) : rows[r] \in Tidy(it)
    BY <1>1, TidyRows
  <2>2. Len(rows) >= 1
    <3> DEFINE S == Tidy(it)
    <3>1. rows \in Seq(S)
      OBVIOUS
    <3> HIDE DEF S
    <3> QED BY <3>1, TailIs
  <2> QED BY <2>1, <2>2
<1>3. CASE j <= Len(rows)
  <2> DEFINE t == rows[j]
             w == create_coboldata(it, t)
  <2>1. t \in Tidy(it)
    BY <1>1, <1>2, <1>3
  <2>2. \A k \in 1..B : k <= Len(w) => m[at + k] = w[k]
    <3>1. w = IF j <= Len(rows) THEN create_coboldata(host.item, rows[j])
                                ELSE create_coboldata_lowvalue(host.item)
      BY <1>3
    <3> HIDE DEF w
    <3> QED BY <3>1, FilledRow
  <2> DEFINE s == Storage(it, t)
  <2>3. ASSUME Faithful(it, t) PROVE \A k \in 1..B : m[at + k] = s[k]
    <3>1. Len(w) >= B /\ \A k \in 1..B : w[k] = s[k]
      <4> HIDE DEF it, t
      <4> QED BY <1>1, <2>1, <2>3, FaithfulStored
    <3>2. Len(w) \in Nat
      <4>1. w \in Seq(Alphabet(it))
        <5>1. t \in Texts(it)
          BY <2>1 DEF Tidy
        <5> HIDE DEF it, t
        <5> QED BY <1>1, <5>1, ConvertIs
      <4> HIDE DEF w
      <4> QED BY <4>1, SeqIs
    <3> HIDE DEF w, s, B, m, at
    <3>3. \A k \in 1..B : k <= Len(w)
      BY <1>1, <3>1, <3>2
    <3> QED BY <2>2, <3>1, <3>3
  <2>4. ASSUME ~Numeric(it), ~Varying(it)
        PROVE  \A k \in 1..B : m[at + k] # NUL
    <3>1. t \in Seq(1..255)
      BY <2>1, <2>4 DEF Tidy, Texts
    <3>2. w = Justified(it, t)
      BY <1>1, <2>4, ConvertCases
    <3>3. B = Width(it)
      BY <1>1, <2>4, BytesIs DEF Numeric
    <3>4. w \in Seq(1..255) /\ Len(w) = Width(it)
      BY <1>1, <3>1, <3>2, JustifiedText
    <3> DEFINE C == 1..255
    <3>5. \A x \in C : x # NUL
      BY DEF NUL
    <3> HIDE DEF C, w, m, at, B
    <3>6. \A k \in 1..Len(w) : w[k] \in C
      BY <3>4, SeqIs DEF C
    <3>7. \A k \in 1..B : k <= Len(w) /\ k \in 1..Len(w)
      BY <1>1, <3>3, <3>4
    <3> QED BY <2>2, <3>5, <3>6, <3>7
  <2> HIDE DEF w, s
  <2> QED BY <1>3, <2>3, <2>4 DEF s
<1>4. CASE ~(j <= Len(rows))
  <2> DEFINE w == create_coboldata_lowvalue(it)
  <2>1. it.length = B
    <3>1. host.count # 1
      BY <1>1, <1>2, <1>4
    <3> QED BY <3>1 DEF StrideRight
  <2>2. w = [k \in 1..it.length |-> NUL] /\ Len(w) = it.length
    BY <1>1 DEF create_coboldata_lowvalue
  <2>3. \A k \in 1..B : k <= Len(w) => m[at + k] = w[k]
    <3>1. w = IF j <= Len(rows) THEN create_coboldata(host.item, rows[j])
                                ELSE create_coboldata_lowvalue(host.item)
      BY <1>4
    <3> HIDE DEF w
    <3> QED BY <3>1, FilledRow
  <2>4. \A k \in 1..it.length : m[at + k] = NUL
    <3> HIDE DEF B, m, at, w
    <3> SUFFICES ASSUME NEW k \in 1..it.length PROVE m[at + k] = NUL
      OBVIOUS
    <3>1. k \in 1..B /\ k <= Len(w) /\ w[k] = NUL
      BY <1>1, <2>1, <2>2
    <3> QED BY <2>3, <3>1
  <2> QED BY <1>4, <2>1, <2>4
<1> QED BY <1>3, <1>4

(* A VARYING item stays readable.                                          *)
LEMMA FilledReadable ==
  ASSUME HostOK, FrameOK, MemOK, Placed, StrideRight(host), Varying(host.item),
         Readable(host.item, mem), NEW rows \in Seq(Tidy(host.item)), rows # << >>
  PROVE  Readable(host.item, Filled(rows, host.count))
<1> DEFINE it == host.item
           m == Filled(rows, host.count)
           W == Written(rows, 1)
           w == create_coboldata(it, rows[1])
           E == Extent(host)
<1>1. it \in Item /\ host.count = 1 /\ 1 \in 1..host.count
  BY HostIs, VaryingAlone DEF HostOK
<1>2. 1 <= Len(rows) /\ rows[1] \in Tidy(it)
  <2>1. Len(rows) \in Nat /\ \A r \in 1..Len(rows) : rows[r] \in Tidy(it)
    BY <1>1, TidyRows
  <2>2. Len(rows) >= 1
    <3> DEFINE S == Tidy(it)
    <3>1. rows \in Seq(S)
      OBVIOUS
    <3> HIDE DEF S
    <3> QED BY <3>1, TailIs
  <2> QED BY <2>1, <2>2
<1>3. /\ w \in Seq(0..255) /\ Len(w) >= 4 /\ Len(w) <= Bytes(it)
      /\ \A k \in 5..Len(w) : w[k] # NUL
      /\ \A x : (\A k \in 1..4 : x[k] = w[k])
                  => /\ Header(x) >= 1
                     /\ it.type = "ALPHANUMERIC_VARYING" => Header(x) <= it.length
  <2> HIDE DEF it
  <2>1. it \in Item /\ Varying(it) /\ rows[1] \in Tidy(it)
    BY <1>1, <1>2 DEF it
  <2> QED BY <2>1, WrittenReadable
<1>4. Bytes(it) \in Nat /\ Bytes(it) >= 4 /\ E = Bytes(it) + 2 /\ Offset(host, 1) = 0
  <2>1. E = Bytes(it) + 2 /\ Offset(host, 1) = 0
    BY VaryingAlone
  <2>2. Bytes(it) = 4 + Width(it) /\ Width(it) \in Nat
    BY <1>1, BytesIs
  <2> QED BY <2>1, <2>2
<1>5. m = Overwritten(W) /\ W = [j \in 1..1 |-> W[j]] /\ W[1] = w
  <2>1. m = Overwritten(W)
    BY <1>1 DEF Filled
  <2>2. W = [j \in 1..1 |-> W[j]]
    BY DEF Written
  <2>3. W[1] = w
    BY <1>2 DEF Written
  <2> QED BY <2>1, <2>2, <2>3
<1>6. W[1] \in Seq(Alphabet(it))
  <2>1. rows[1] \in Texts(it)
    BY <1>2 DEF Tidy
  <2> HIDE DEF it
  <2> QED BY <1>1, <1>5, <2>1, ConvertIs
<1>7. Address(1) = 0
  BY <1>1, <1>4, AddressIs
<1> HIDE DEF w, W, m
<1>8. /\ m \in [1..E -> Alphabet(it)]
      /\ \A i \in 1..E :
           \/ m[i] = mem[i] /\ i \notin 1..Len(w)
           \/ i \in 1..Len(w) /\ m[i] = w[i]
  <2>1. \A j \in 1..1 : W[j] \in Seq(Alphabet(host.item))
    BY <1>6
  <2>2. /\ Overwritten(W) \in [1..Extent(host) -> Alphabet(host.item)]
        /\ \A i \in 1..Extent(host) :
              \/ /\ Overwritten(W)[i] = mem[i]
                 /\ \A j \in 1..1 : i - Address(j) \notin 1..Len(W[j])
              \/ \E j \in 1..1 : /\ i - Address(j) \in 1..Len(W[j])
                                 /\ Overwritten(W)[i] = W[j][i - Address(j)]
                                 /\ \A k \in 1..1 : i - Address(k) \in 1..Len(W[k]) => k <= j
    BY <1>5, <2>1, OverwrittenIs, 1 \in Nat
  <2>3. \A j \in 1..1 : j = 1
    OBVIOUS
  <2>4. \A i \in 1..E : i - 0 = i
    <3>1. E \in Nat
      BY <1>4
    <3> QED BY <3>1
  <2> HIDE DEF E
  <2>5. ASSUME NEW i \in 1..E
        PROVE  \/ m[i] = mem[i] /\ i \notin 1..Len(w)
               \/ i \in 1..Len(w) /\ m[i] = w[i]
    <3>1. CASE m[i] = mem[i] /\ \A j \in 1..1 : i - Address(j) \notin 1..Len(W[j])
      BY <1>5, <1>7, <2>4, <3>1, 1 \in 1..1
    <3>2. ASSUME NEW j \in 1..1, i - Address(j) \in 1..Len(W[j]), m[i] = W[j][i - Address(j)]
          PROVE  i \in 1..Len(w) /\ m[i] = w[i]
      BY <1>5, <1>7, <2>3, <2>4, <3>2
    <3> QED BY <1>5, <2>2, <3>1, <3>2 DEF E
  <2> QED BY <1>5, <2>2, <2>5 DEF E
<1> DEFINE l == Len(w)
<1>9. l \in Nat /\ l >= 4 /\ l <= E
  <2>1. l \in Nat
    BY <1>3
  <2> QED BY <1>3, <1>4, <2>1
<1> HIDE DEF l, E
<1>10. \A k \in 1..4 : m[k] = w[k]
  <2> SUFFICES ASSUME NEW k \in 1..4 PROVE m[k] = w[k]
    OBVIOUS
  <2>1. k \in 1..E /\ k \in 1..l
    BY <1>4, <1>9
  <2> QED BY <1>8, <2>1 DEF l
<1>11. ASSUME NEW i \in DOMAIN m, i >= 5 PROVE m[i] # NUL
  <2>1. i \in 1..E /\ i \in DOMAIN mem
    BY <1>8 DEF MemOK, E
  <2>2. CASE m[i] = mem[i]
    BY <1>11, <2>1, <2>2 DEF Readable
  <2>3. CASE i \in 1..l /\ m[i] = w[i]
    <3>1. i \in 5..l
      BY <1>9, <1>11, <2>3
    <3> QED BY <1>3, <2>3, <3>1 DEF l
  <2> QED BY <1>8, <2>1, <2>2, <2>3 DEF l
<1> QED BY <1>3, <1>10, <1>11 DEF Readable, m

-----------------------------------------------------------------------------
(* The invariant of the values.                                            *)

(* The rows of the server, of the cursor and of the last result are such   *)
(* as the statements store and read.                                       *)
RowsTidy ==
  /\ table \in Seq(Tidy(host.item))
  /\ cursor.rows \in Seq(Tidy(host.item))
  /\ res.rows \in Seq(Tidy(host.item))

Holding == StrideRight(host) => RowsTidy /\ HoldsRows

(* Values moved to the host variable are held there.                       *)
LEMMA LaidHolds ==
  ASSUME HostOK, StrideRight(host), NEW es \in [1..host.count -> Values(host.item)]
  PROVE  LET m == Laid(host, es)
         IN  /\ \A j \in 1..host.count : HoldsRow(host.item, m, Offset(host, j), es[j])
             /\ Varying(host.item) => Readable(host.item, m)
<1> DEFINE it == host.item
           B == Bytes(it)
           m == Laid(host, es)
           n == host.count
<1>1. it \in Item /\ n \in Nat /\ n >= 1 /\ B \in Nat
  BY HostIs DEF HostOK
<1>2. es \in [1..n -> Texts(it)]
  BY <1>1, ValuesAre
<1>3. /\ m \in [1..Extent(host) -> Alphabet(it)]
      /\ \A i \in 1..Extent(host) :
              \/ m[i] = NEIGHBOUR
              \/ \E j \in 1..n : /\ i - Offset(host, j) \in 1..B
                                 /\ m[i] = Storage(it, es[j])[i - Offset(host, j)]
      /\ \A j \in 1..n : \A k \in 1..B : m[Offset(host, j) + k] = Storage(it, es[j])[k]
  BY <1>2, LaidIs DEF HostOK
<1>4. \A j \in 1..n : es[j] \in Values(it)
  OBVIOUS
<1> HIDE DEF m, it, B, n
<1>5. ASSUME NEW j \in 1..n PROVE HoldsRow(it, m, Offset(host, j), es[j])
  <2> DEFINE t == es[j]
             s == Storage(it, t)
  <2>1. Known(it, t) /\ t \in Texts(it)
    BY <1>1, <1>4, ValuesKnown DEF Known
  <2>2. \A k \in 1..B : m[Offset(host, j) + k] = s[k]
    BY <1>3
  <2>3. ASSUME ~Numeric(it), ~Varying(it)
        PROVE  \A k \in 1..B : s[k] # NUL
    <3>1. t \in Seq(1..255)
      BY <2>1, <2>3 DEF Texts
    <3>2. s = Justified(it, t)
      BY <1>1, <2>3, StorageCases
    <3>3. B = Width(it)
      BY <1>1, <2>3, BytesIs DEF Numeric, B
    <3>4. s \in Seq(1..255) /\ Len(s) = B
      BY <1>1, <3>1, <3>2, <3>3, JustifiedText
    <3> DEFINE C == 1..255
    <3>5. \A x \in C : x # NUL
      BY DEF NUL
    <3> HIDE DEF C, s
    <3>6. \A k \in 1..Len(s) : s[k] \in C
      BY <3>4, SeqIs DEF C
    <3> QED BY <3>4, <3>5, <3>6, Zenon
  <2> HIDE DEF t, s
  <2>4. HoldsRow(it, m, Offset(host, j), t)
    BY <2>1, <2>2, <2>3 DEF HoldsRow, B, s
  <2> QED BY <2>4 DEF t
<1>6. ASSUME Varying(it) PROVE Readable(it, m)
  <2> DEFINE s == Storage(it, es[1])
  <2>1. n = 1 /\ Offset(host, 1) = 0 /\ Extent(host) = B + 2
    BY <1>6, VaryingAlone DEF n, it, B
  <2>2. B >= 4
    <3>1. B = 4 + Width(it) /\ Width(it) \in Nat
      BY <1>1, <1>6, BytesIs DEF B
    <3> QED BY <3>1
  <2>3. Known(it, es[1])
    BY <1>1, <1>4, <2>1, ValuesKnown, 1 \in 1..1
  <2>4. /\ \A k \in 5..B : s[k] # NUL
        /\ \A x : (\A k \in 1..4 : x[k] = s[k])
                    => Header(x) >= 1 /\ Header(x) <= it.length
    BY <1>1, <1>6, <2>3, KnownReadable DEF B
  <2> HIDE DEF s
  <2>5. \A i \in Nat : i - 0 = i /\ 0 + i = i
    OBVIOUS
  <2>6. \A k \in 1..4 : m[k] = s[k]
    <3> SUFFICES ASSUME NEW k \in 1..4 PROVE m[k] = s[k]
      OBVIOUS
    <3>1. k \in 1..B /\ k \in Nat /\ 1 \in 1..n
      BY <1>1, <2>2
    <3>2. m[Offset(host, 1) + k] = s[k]
      BY <1>3, <3>1 DEF s
    <3> QED BY <2>1, <2>5, <3>1, <3>2
  <2>7. ASSUME NEW i \in DOMAIN m, i >= 5 PROVE m[i] # NUL
    <3>1. i \in 1..Extent(host) /\ i \in Nat
      BY <1>1, <1>3, <2>1
    <3>2. CASE m[i] = NEIGHBOUR
      BY <3>2 DEF NEIGHBOUR, NUL
    <3>3. ASSUME NEW j \in 1..n, i - Offset(host, j) \in 1..B,
                 m[i] = Storage(it, es[j])[i - Offset(host, j)]
          PROVE  m[i] # NUL
      <4>1. j = 1
        BY <2>1
      <4>2. i \in 1..B /\ m[i] = s[i]
        BY <2>1, <2>5, <3>1, <3>3, <4>1 DEF s
      <4>3. i \in 5..B
        BY <1>1, <2>7, <4>2
      <4> QED BY <2>4, <4>2, <4>3
    <3> QED BY <1>3, <3>1, <3>2, <3>3
  <2> QED BY <2>4, <2>6, <2>7 DEF Readable
<1> QED BY <1>5, <1>6 DEF m, it, B, n

(* Rows that are delivered are held.                                       *)
LEMMA DeliveredHolds ==
  ASSUME IInv, Placed, StrideRight(host), HoldsRows, NEW op, NEW announced, NEW count,
         NEW rows \in Seq(Tidy(host.item)), rows # << >>,
         Delivers(op, announced, rows, host.count, count)
  PROVE  HoldsRows'
<1> DEFINE it == host.item
           m == Filled(rows, host.count)
           e == [j \in 1..host.count |->
                   IF j \in DOMAIN rows /\ StrideRight(host) /\ Faithful(it, rows[j])
                   THEN rows[j] ELSE Unknown]
<1>1. host' = host /\ mem' = m /\ elems' = e
  BY DEF Delivers, Ends
<1>2. HostOK /\ FrameOK /\ MemOK /\ it \in Item
  BY HostIs DEF IInv, HostOK
<1>3. Len(rows) \in Nat /\ DOMAIN rows = 1..Len(rows)
      /\ \A j \in 1..Len(rows) : rows[j] \in Tidy(it)
  BY <1>2, TidyRows
<1>4. ASSUME NEW j \in 1..host.count
      PROVE  HoldsRow(it, m, Offset(host, j), e[j])
  <2> DEFINE at == Offset(host, j)
             t == rows[j]
  <2>1. /\ j <= Len(rows) /\ Faithful(it, t)
             => \A k \in 1..Bytes(it) : m[at + k] = Storage(it, t)[k]
        /\ ~(j <= Len(rows))
             => it.length = Bytes(it) /\ \A k \in 1..it.length : m[at + k] = NUL
        /\ j <= Len(rows) /\ ~Numeric(it) /\ ~Varying(it)
             => \/ \A k \in 1..Bytes(it) : m[at + k] = NUL
                \/ \A k \in 1..Bytes(it) : m[at + k] # NUL
    BY <1>2, FilledHolds
  <2>2. e[j] # Unknown => j <= Len(rows) /\ Faithful(it, t) /\ e[j] = t /\ t \in Tidy(it)
    BY <1>3
  <2>3. e[j] # Unknown => Known(it, t)
    <3> HIDE DEF e, t, it
    <3> QED BY <1>2, <2>2, FaithfulKnown
  <2> HIDE DEF e, t, it, m, at
  <2>4. ~Numeric(it) /\ ~Varying(it)
          => \/ \A k \in 1..Bytes(it) : m[at + k] = NUL
             \/ \A k \in 1..Bytes(it) : m[at + k] # NUL
    BY <2>1
  <2>5. HoldsRow(it, m, at, e[j])
    BY <2>1, <2>2, <2>3, <2>4 DEF HoldsRow
  <2> QED BY <2>5 DEF at
<1>5. ASSUME Varying(it) PROVE Readable(it, m)
  BY <1>2, <1>5, FilledReadable DEF HoldsRows
<1> HIDE DEF m, e
<1> QED BY <1>1, <1>4, <1>5 DEF HoldsRows

(* What is left alone is held as it was.                                   *)
LEMMA HeldStays ==
  ASSUME HoldsRows, UNCHANGED <<host, elems, mem>>
  PROVE  HoldsRows'
BY DEF HoldsRows

(* The invariant holds at the start.                                       *)
LEMMA InitHolding == Init => Holding
<1> SUFFICES ASSUME Init, StrideRight(host) PROVE RowsTidy /\ HoldsRows
  BY DEF Holding
<1> DEFINE it == host.item
           S == Tidy(it)
<1>1. HostOK /\ it \in Item
  BY HostIs DEF Init, HostOK
<1>2. HoldsRows
  BY <1>1, LaidHolds DEF Init, HoldsRows
<1>3. table \in {<< >>} \cup (IF Varying(it) THEN {} ELSE {<< << >> >>})
                        \cup (IF Numeric(it) THEN {<<Wide(it)>>} ELSE {})
  BY DEF Init
<1>4. << >> \in Texts(it) /\ (Numeric(it) => Wide(it) \in Texts(it))
  BY <1>1, ValuesAre
<1>5. ~Varying(it) => << >> \in S
  <2>1. Len(<< >>) = 0
    OBVIOUS
  <2> QED BY <1>4, <2>1 DEF Tidy
<1>6. Numeric(it) => Wide(it) \in S
  BY <1>4 DEF Tidy, Numeric, Varying, Packed
<1> HIDE DEF S
<1>7. << >> \in Seq(S) /\ \A x \in S : <<x>> \in Seq(S)
  OBVIOUS
<1>8. table \in Seq(S)
  BY <1>3, <1>5, <1>6, <1>7
<1>9. cursor.rows = << >> /\ res.rows = << >>
  BY DEF Init, NoCursor, NoResult
<1> QED BY <1>2, <1>7, <1>8, <1>9 DEF RowsTidy, S

(* The rows of a result.                                                   *)
LEMMA ResultRows ==
  /\ Failed.rows = << >> /\ \A n : Done(n).rows = << >>
  /\ \A rows : Tuples(rows).rows = rows /\ Tuples(rows).kind = "tuples"
  /\ \A S : << >> \in Seq(S)
BY DEF Failed, Done, Tuples

(* A statement that leaves storage and table as they were.                 *)
LEMMA LeavesHolding ==
  ASSUME Holding, NEW op, NEW n, NEW code, NEW count, Leaves(op, n, code, count),
         StrideRight(host) => /\ cursor'.rows \in Seq(Tidy(host.item))
                              /\ res'.rows \in Seq(Tidy(host.item))
  PROVE  Holding'
<1>1. UNCHANGED <<host, elems, mem, table>>
  BY DEF Leaves, Ends
<1> SUFFICES ASSUME StrideRight(host) PROVE RowsTidy' /\ HoldsRows'
  BY <1>1 DEF Holding
<1>2. RowsTidy /\ HoldsRows
  BY DEF Holding
<1>3. HoldsRows'
  BY <1>1, <1>2, HeldStays
<1>4. RowsTidy'
  BY <1>1, <1>2 DEF RowsTidy
<1> QED BY <1>3, <1>4

(* A statement that sends nothing.                                         *)
LEMMA RefusedHolding ==
  ASSUME Holding, NEW op, NEW n, NEW code, NEW count, Refused(op, n, code, count)
  PROVE  Holding'
<1>1. Leaves(op, n, code, count) /\ UNCHANGED <<cursor, res>>
  BY DEF Refused
<1>2. StrideRight(host) => /\ cursor'.rows \in Seq(Tidy(host.item))
                           /\ res'.rows \in Seq(Tidy(host.item))
  BY <1>1 DEF Holding, RowsTidy
<1> QED BY <1>1, <1>2, LeavesHolding

(* Values that are moved.                                                  *)
LEMMA MoveHolding == ASSUME IInv, Holding, Move PROVE Holding'
<1>1. UNCHANGED <<host, table, cursor, res>>
  BY DEF Move
<1> SUFFICES ASSUME StrideRight(host) PROVE RowsTidy' /\ HoldsRows'
  BY <1>1 DEF Holding
<1>2. RowsTidy'
  BY <1>1 DEF Holding, RowsTidy
<1>3. PICK es \in [1..host.count -> Values(host.item)] : elems' = es /\ mem' = Laid(host, es)
  BY DEF Move
<1>4. HoldsRows'
  BY <1>1, <1>3, LaidHolds DEF HoldsRows, IInv
<1> QED BY <1>2, <1>4

(* Rows sent to the server.                                                *)
LEMMA InsertsHolding ==
  ASSUME IInv, Holding, NEW op, NEW k \in Nat, k <= host.count, Placed \/ k <= 1, NEW rows,
         Inserts(op, k, rows)
  PROVE  Holding'
<1> DEFINE S == Tidy(host.item)
           u == [j \in 1..k |-> Stored(host.item, realdata(j))]
<1>1. UNCHANGED <<host, elems, mem, cursor>>
  BY DEF Inserts, Ends
<1> SUFFICES ASSUME StrideRight(host) PROVE RowsTidy' /\ HoldsRows'
  BY <1>1 DEF Holding
<1>2. RowsTidy /\ HoldsRows
  BY DEF Holding
<1>3. HoldsRows'
  BY <1>1, <1>2, HeldStays
<1>4. res'.rows \in Seq(S)
  BY ResultRows DEF Inserts
<1>5. table' \in Seq(S)
  <2>1. table' = table \o u
    BY DEF Inserts
  <2>2. ASSUME NEW j \in 1..k PROVE u[j] \in S
    <3>1. Accepts(host.item, realdata(j))
      BY DEF Inserts
    <3>2. j \in 1..host.count /\ (Placed \/ j = 1)
      <4>1. host.count \in Nat
        BY HostIs DEF IInv, HostOK
      <4> QED BY <4>1
    <3> QED BY <1>2, <3>1, <3>2, RowTidy DEF IInv
  <2>3. u = [j \in 1..k |-> u[j]]
    OBVIOUS
  <2>4. table \in Seq(S)
    BY <1>2 DEF RowsTidy
  <2> HIDE DEF u, S
  <2>5. u \in Seq(S)
    BY <2>2, <2>3, Made
  <2>6. table \o u \in Seq(S)
    BY <2>4, <2>5, JoinIs, Zenon
  <2> QED BY <2>1, <2>6
<1> QED BY <1>1, <1>2, <1>3, <1>4, <1>5 DEF RowsTidy

(* INSERT, of one host variable or of a table of them.                     *)
LEMMA SendHolding == ASSUME IInv, Holding, SendNext PROVE Holding'
<1>1. PICK n \in 0..2 : _ocesqlExecParams(n) \/ _ocesqlExecParamsOccurs(n)
  BY DEF SendNext
<1>0. host.count \in Nat /\ host.count >= 1 /\ frame.iter \in {0, host.count}
  BY HostIs DEF IInv, HostOK, FrameOK
<1>2. CASE _ocesqlExecParams(n)
  <2>1. CASE ArgumentError(n) # 0 /\ Refused("ExecParams", n, ArgumentError(n), 0)
    BY <2>1, RefusedHolding
  <2>2. ASSUME NEW k \in 0..1, Inserts("ExecParams", k, 1) PROVE Holding'
    <3>1. k \in Nat /\ k <= host.count /\ k <= 1
      BY <1>0
    <3> QED BY <2>2, <3>1, InsertsHolding
  <2> QED BY <1>2, <2>1, <2>2 DEF _ocesqlExecParams
<1>3. CASE _ocesqlExecParamsOccurs(n)
  <2>1. CASE Refused("ExecParamsOccurs", n, EMPTY, 0)
    BY <2>1, RefusedHolding
  <2>2. ASSUME NEW k \in 0..frame.iter, Inserts("ExecParamsOccurs", k, frame.iter), frame.iter > 0
        PROVE  Holding'
    <3>1. k \in Nat /\ k <= host.count
      BY <1>0
    <3> QED BY <2>2, <3>1, InsertsHolding DEF Placed
  <2> QED BY <1>3, <2>1, <2>2 DEF _ocesqlExecParamsOccurs
<1> QED BY <1>1, <1>2, <1>3

(* Rows stored in the host variable.                                       *)
LEMMA DeliversHolding ==
  ASSUME IInv, Holding, Placed, NEW op, NEW announced, NEW rows, rows # << >>, NEW count,
         StrideRight(host) => /\ rows \in Seq(Tidy(host.item))
                              /\ cursor'.rows \in Seq(Tidy(host.item))
                              /\ res'.rows \in Seq(Tidy(host.item)),
         Delivers(op, announced, rows, host.count, count)
  PROVE  Holding'
<1>1. UNCHANGED <<host, table>>
  BY DEF Delivers, Ends
<1> SUFFICES ASSUME StrideRight(host) PROVE RowsTidy' /\ HoldsRows'
  BY <1>1 DEF Holding
<1>2. RowsTidy /\ HoldsRows
  BY DEF Holding
<1>3. HoldsRows'
  BY <1>2, DeliveredHolds
<1>4. RowsTidy'
  BY <1>1, <1>2 DEF RowsTidy
<1> QED BY <1>3, <1>4

(* A SELECT INTO.                                                          *)
LEMMA SelectsHolding ==
  ASSUME IInv, Holding, Placed, NEW op, NEW n \in 0..1, Selects(op, n, host.count)
  PROVE  Holding'
<1> DEFINE S == Tidy(host.item)
<1>1. PICK r \in Results(n) :
        LET code == StatusOf(r, IF n > 0 THEN ArgumentError(n) ELSE SUCCESS) IN
        /\ res' = r
        /\ UNCHANGED cursor
        /\ IF code < 0 THEN Leaves(op, n, code, r.count)
           ELSE IF r.kind # "tuples" \/ frame.results # 1 THEN Leaves(op, n, EMPTY, r.count)
           ELSE IF r.rows = << >> THEN Leaves(op, n, NOT_FOUND, 0)
           ELSE Delivers(op, n, Take(r.rows, host.count), host.count, r.count)
  BY DEF Selects
<1>2. \/ \E c, k : Leaves(op, n, c, k)
      \/ r.rows # << >> /\ Delivers(op, n, Take(r.rows, host.count), host.count, r.count)
  BY <1>1
<1>3. StrideRight(host) => r.rows \in Seq(S) /\ cursor'.rows \in Seq(S)
  <2> SUFFICES ASSUME StrideRight(host) PROVE r.rows \in Seq(S) /\ cursor'.rows \in Seq(S)
    OBVIOUS
  <2>1. table \in Seq(S) /\ cursor.rows \in Seq(S) /\ res.rows \in Seq(S)
    BY DEF Holding, RowsTidy
  <2> HIDE DEF S
  <2>2. Selected(n) \in Seq(S)
    BY <2>1, MatchingIs DEF Selected
  <2>3. \A x \in Answers(n) : x = Failed \/ x = Tuples(Selected(n))
    BY DEF Answers
  <2>4. r = res \/ r \in Answers(n)
    BY DEF Results
  <2> QED BY <1>1, <2>1, <2>2, <2>3, <2>4, ResultRows
<1>4. CASE \E c, k : Leaves(op, n, c, k)
  BY <1>1, <1>3, <1>4, LeavesHolding
<1>5. CASE r.rows # << >> /\ Delivers(op, n, Take(r.rows, host.count), host.count, r.count)
  <2>1. host.count \in Nat /\ host.count >= 1
    BY HostIs DEF IInv, HostOK
  <2> DEFINE rows == Take(r.rows, host.count)
  <2>2. rows # << >>
    <3>1. r.rows \in Rows
      <4>1. table \in Rows
        BY DEF IInv, TableOK
      <4>2. Selected(n) \in Rows
        BY <4>1, MatchingIs DEF Selected, Rows
      <4>3. \A x \in Answers(n) : x = Failed \/ x = Tuples(Selected(n))
        BY DEF Answers
      <4>4. r = res \/ r \in Answers(n)
        BY DEF Results
      <4> QED BY <4>2, <4>3, <4>4, ResultRows, NoRows DEF IInv, ResOK
    <3> QED BY <1>5, <2>1, <3>1, TakenIs DEF Rows
  <2>3. StrideRight(host) => rows \in Seq(S)
    <3> HIDE DEF S
    <3> QED BY <1>3, <1>5, <2>1, TakenIs
  <2> HIDE DEF rows
  <2>4. Delivers(op, n, rows, host.count, r.count)
    BY <1>5 DEF rows
  <2> QED BY <1>1, <1>3, <2>2, <2>3, <2>4, DeliversHolding
<1> QED BY <1>2, <1>4, <1>5

(* Both forms of SELECT INTO.                                              *)
LEMMA SelectHolding == ASSUME IInv, Holding, SelectNext PROVE Holding'
<1>1. PICK n \in 0..1 : _ocesqlExecSelectIntoOne(n) \/ _ocesqlExecSelectIntoOccurs(n)
  BY DEF SelectNext
<1>2. CASE _ocesqlExecSelectIntoOne(n)
  BY <1>2, SelectsHolding DEF _ocesqlExecSelectIntoOne, Placed
<1>3. CASE _ocesqlExecSelectIntoOccurs(n)
  <2>1. frame.iter > 0 /\ frame.iter = host.count
    BY <1>3 DEF _ocesqlExecSelectIntoOccurs, IInv, FrameOK
  <2>2. CASE Refused("SelectInto", n, EMPTY, sqlerrd)
    BY <2>2, RefusedHolding
  <2>3. CASE Selects("SelectInto", n, frame.iter)
    BY <2>1, <2>3, SelectsHolding DEF Placed
  <2> QED BY <1>3, <2>2, <2>3 DEF _ocesqlExecSelectIntoOccurs
<1> QED BY <1>1, <1>2, <1>3

(* The rows due to a FETCH, and those it takes.                            *)
LEMMA DueTidy ==
  ASSUME IInv, RowsTidy, NEW n \in Nat
  PROVE  /\ Drop(cursor.rows, cursor.pos) \in Seq(Tidy(host.item))
         /\ Fetched(n) \in Seq(Tidy(host.item))
<1> DEFINE S == Tidy(host.item)
<1>1. cursor.rows \in Seq(S) /\ cursor.pos \in Nat
  BY DEF RowsTidy, IInv, CursorOK
<1> HIDE DEF S
<1>2. Drop(cursor.rows, cursor.pos) \in Seq(S)
  BY <1>1, DropIs
<1>3. Fetched(n) \in Seq(S)
  BY <1>2, TakeIs DEF Fetched
<1> QED BY <1>2, <1>3 DEF S

(* A FETCH.                                                                *)
LEMMA FetchesHolding ==
  ASSUME IInv, Holding, Placed, NEW op, NEW refusal, NEW empty,
         Fetches(op, host.count, refusal, empty)
  PROVE  Holding'
<1> DEFINE n == host.count
           F == Fetched(n)
<1>1. n \in Nat
  BY HostIs DEF IInv, HostOK
<1>2. cursor'.rows = cursor.rows
  BY DEF Fetches, IInv, CursorOK
<1>3. res' = Failed \/ res' = Tuples(F)
  BY DEF Fetches
<1>4. \/ \E c, k : Leaves(op, 0, c, k)
      \/ F # << >> /\ Delivers(op, 0, F, n, Counted(n))
  BY DEF Fetches
<1>5. StrideRight(host) => /\ F \in Seq(Tidy(host.item))
                           /\ cursor'.rows \in Seq(Tidy(host.item))
                           /\ res'.rows \in Seq(Tidy(host.item))
  BY <1>1, <1>2, <1>3, DueTidy, ResultRows DEF Holding, RowsTidy
<1> HIDE DEF F
<1>6. CASE \E c, k : Leaves(op, 0, c, k)
  BY <1>5, <1>6, LeavesHolding
<1>7. CASE F # << >> /\ Delivers(op, 0, F, n, Counted(n))
  BY <1>5, <1>7, DeliversHolding
<1> QED BY <1>4, <1>6, <1>7

(* The operations on the cursor.                                           *)
LEMMA CursorHolding == ASSUME IInv, Holding, CursorNext PROVE Holding'
<1>1. ASSUME UNCHANGED <<host, elems, mem, table>>,
             StrideRight(host) => /\ cursor'.rows \in Seq(Tidy(host.item))
                                  /\ res'.rows \in Seq(Tidy(host.item))
      PROVE  Holding'
  <2> SUFFICES ASSUME StrideRight(host) PROVE RowsTidy' /\ HoldsRows'
    BY <1>1 DEF Holding
  <2>1. RowsTidy /\ HoldsRows
    BY DEF Holding
  <2>2. HoldsRows'
    BY <1>1, <2>1, HeldStays
  <2> QED BY <1>1, <2>1, <2>2 DEF RowsTidy
<1>2. StrideRight(host) => /\ table \in Seq(Tidy(host.item)) /\ res.rows \in Seq(Tidy(host.item))
                           /\ << >> \in Seq(Tidy(host.item))
  BY ResultRows DEF Holding, RowsTidy
<1>3. CASE OCESQLCursorDeclare
  <2>1. UNCHANGED <<host, elems, mem, table, res>> /\ cursor'.rows = << >>
    BY <1>3 DEF OCESQLCursorDeclare, NoCursor
  <2> QED BY <1>1, <1>2, <2>1
<1>4. CASE OCESQLCursorOpen
  <2>1. UNCHANGED <<host, elems, mem, table>> /\ res' = Done(0)
        /\ cursor' = [cursor EXCEPT !.open = TRUE, !.rows = table]
    BY <1>4 DEF OCESQLCursorOpen, OnlyCursor
  <2>2. cursor'.rows = table
    BY <2>1 DEF IInv, CursorOK
  <2> QED BY <1>1, <1>2, <2>1, <2>2, ResultRows
<1>5. CASE OCESQLCursorClose
  <2>1. UNCHANGED <<host, elems, mem, table>> /\ res' = Done(0)
        /\ cursor' = [cursor EXCEPT !.open = FALSE, !.rows = << >>, !.pos = 0,
                                    !.base = @ + cursor.pos]
    BY <1>5 DEF OCESQLCursorClose, OnlyCursor
  <2>2. cursor'.rows = << >>
    BY <2>1 DEF IInv, CursorOK
  <2> QED BY <1>1, <1>2, <2>1, <2>2, ResultRows
<1>6. CASE OCESQLCursorFetchOne
  <2>1. Placed /\ Fetches("FetchOne", host.count, PGSQL, cursor.tuples)
    BY <1>6 DEF OCESQLCursorFetchOne, Placed
  <2> QED BY <2>1, FetchesHolding
<1>7. CASE OCESQLCursorFetchOccurs
  <2>1. frame.iter > 0 /\ frame.iter = host.count
    BY <1>7 DEF OCESQLCursorFetchOccurs, IInv, FrameOK
  <2>2. CASE Refused("FetchOccurs", 0, EMPTY, 0)
    BY <2>2, RefusedHolding
  <2>3. CASE Fetches("FetchOccurs", frame.iter,
                     IF frame.results = 0 THEN NOT_FOUND ELSE EMPTY, 0)
    BY <2>1, <2>3, FetchesHolding DEF Placed
  <2> QED BY <1>7, <2>2, <2>3 DEF OCESQLCursorFetchOccurs
<1> QED BY <1>3, <1>4, <1>5, <1>6, <1>7 DEF CursorNext

(* Every step keeps what is held.                                          *)
LEMMA NextHolding == ASSUME IInv, Holding, [Next]_vars PROVE Holding'
<1>1. CASE UNCHANGED vars \/ FrameNext
  <2>1. UNCHANGED <<host, elems, mem, table, cursor, res>>
    BY <1>1 DEF vars, FrameNext, OCESQLStartSQL, OCESQLSetSQLParams, OCESQLSetResultParams,
                OCESQLSetHostTable, OCESQLEndSQL, OnlyFrame
  <2>2. RowsTidy => RowsTidy'
    BY <2>1 DEF RowsTidy
  <2>3. HoldsRows => HoldsRows'
    BY <2>1, HeldStays
  <2> QED BY <2>1, <2>2, <2>3 DEF Holding
<1> QED BY <1>1, MoveHolding, SendHolding, SelectHolding, CursorHolding DEF Next

(* Both invariants hold in every state.                                    *)
LEMMA AlwaysHolding == Spec => [](IInv /\ Holding)
<1>1. Init => IInv /\ Holding
  BY InitIInv, InitHolding
<1>2. IInv /\ Holding /\ [Next]_vars => (IInv /\ Holding)'
  BY NextIInv, NextHolding
<1> QED BY <1>1, <1>2, PTL DEF Spec

-----------------------------------------------------------------------------
(* What the statements promise.                                            *)

(* Which statement a step ended.                                           *)
LEMMA WhoExecutes ==
  ASSUME IInv, [Next]_vars, ~frame.done, frame'.done
  PROVE  \/ SendNext /\ told'.op \in {"ExecParams", "ExecParamsOccurs"}
         \/ SelectNext /\ told'.op = "SelectInto"
         \/ OCESQLCursorFetchOne /\ told'.op = "FetchOne"
         \/ OCESQLCursorFetchOccurs /\ told'.op = "FetchOccurs"
<1>1. \A op, n, code, count : Ends(op, n, code, count) => told'.op = op
  BY DEF Ends
<1>2. ~(Move \/ UNCHANGED vars \/ FrameNext)
  BY DEF IInv, FrameOK, Move, vars, FrameNext, OCESQLStartSQL, OCESQLSetSQLParams,
         OCESQLSetResultParams, OCESQLSetHostTable, OCESQLEndSQL, OnlyFrame, NoFrame
<1>3. ~(OCESQLCursorDeclare \/ OCESQLCursorOpen \/ OCESQLCursorClose)
  BY DEF OCESQLCursorDeclare, OCESQLCursorOpen, OCESQLCursorClose, OnlyCursor
<1>4. SendNext => told'.op \in {"ExecParams", "ExecParamsOccurs"}
  BY <1>1 DEF SendNext, _ocesqlExecParams, _ocesqlExecParamsOccurs, Refused, Leaves, Inserts
<1>5. SelectNext => told'.op = "SelectInto"
  BY <1>1 DEF SelectNext, _ocesqlExecSelectIntoOne, _ocesqlExecSelectIntoOccurs, Selects,
              Refused, Leaves, Delivers
<1>6. OCESQLCursorFetchOne => told'.op = "FetchOne"
  BY <1>1 DEF OCESQLCursorFetchOne, Fetches, Leaves, Delivers
<1>7. OCESQLCursorFetchOccurs => told'.op = "FetchOccurs"
  BY <1>1 DEF OCESQLCursorFetchOccurs, Refused, Fetches, Leaves, Delivers
<1> QED BY <1>2, <1>3, <1>4, <1>5, <1>6, <1>7 DEF Next, CursorNext

(* The two parts of a sequence that was appended to. *)
LEMMA Appended ==
  ASSUME NEW S, NEW a \in Seq(S), NEW b \in Seq(S)
  PROVE  Take(a \o b, Len(a)) = a /\ Drop(a \o b, Len(a)) = b
<1> DEFINE c == a \o b
           p == Take(c, Len(a))
           q == Drop(c, Len(a))
<1>1. Len(a) \in Nat /\ Len(b) \in Nat
  OBVIOUS
<1>2. /\ c \in Seq(S) /\ Len(c) = Len(a) + Len(b)
      /\ \A i \in 1..Len(a) : c[i] = a[i]
      /\ \A i \in 1..Len(b) : c[Len(a) + i] = b[i]
  <2>1. a \in Seq(S) /\ b \in Seq(S)
    OBVIOUS
  <2> QED BY <2>1, JoinIs, SMTT(30)
<1> HIDE DEF c
<1>3. /\ p \in Seq(S) /\ Len(p) = IF Len(a) < Len(c) THEN Len(a) ELSE Len(c)
      /\ \A i \in 1..Len(p) : p[i] = c[i]
  BY <1>1, <1>2, TakeIs
<1>4. /\ q \in Seq(S) /\ Len(q) = IF Len(a) < Len(c) THEN Len(c) - Len(a) ELSE 0
      /\ \A i \in 1..Len(q) : q[i] = c[Len(a) + i]
  BY <1>1, <1>2, DropIs
<1> HIDE DEF p, q
<1>5. Len(p) = Len(a) /\ Len(q) = Len(b)
  BY <1>1, <1>2, <1>3, <1>4
<1>6. p = a
  <2>1. \A i \in 1..Len(p) : p[i] = a[i]
    BY <1>2, <1>3, <1>5
  <2> QED BY <1>3, <1>5, <2>1, SameSeq
<1>7. q = b
  <2>1. \A i \in 1..Len(q) : q[i] = b[i]
    BY <1>2, <1>4, <1>5
  <2> QED BY <1>4, <1>5, <2>1, SameSeq
<1> QED BY <1>6, <1>7 DEF c, p, q

(* What a statement that sends rows leaves in the server's table.          *)
LEMMA SentIs ==
  ASSUME IInv, Holding, NEW op, NEW k \in Nat, k <= host.count, Placed \/ k <= 1,
         NEW rows, rows = Room, Inserts(op, k, rows)
  PROVE  Inserted
<1> DEFINE T == Texts(host.item)
           u == [j \in 1..k |-> Stored(host.item, realdata(j))]
<1>1. table' = table \o u /\ table \in Seq(T)
  BY DEF Inserts, IInv, TableOK, Rows
<1>2. ASSUME NEW j \in 1..k PROVE j \in 1..host.count /\ (Placed \/ j = 1)
  <2>1. host.count \in Nat
    BY HostIs DEF IInv, HostOK
  <2> QED BY <2>1
<1>3. u \in Seq(T) /\ Len(u) = k
  <2>1. ASSUME NEW j \in 1..k PROVE u[j] \in T
    <3>1. Accepts(host.item, realdata(j))
      BY DEF Inserts
    <3> QED BY <1>2, <3>1, RowStored DEF IInv
  <2>2. u = [j \in 1..k |-> u[j]]
    OBVIOUS
  <2> HIDE DEF u, T
  <2> QED BY <2>1, <2>2, Made
<1>4. \A j \in 1..k : StrideRight(host) /\ elems[j] # Unknown
        => Storage(host.item, u[j]) = Storage(host.item, elems[j])
  <2> SUFFICES ASSUME NEW j \in 1..k, StrideRight(host), elems[j] # Unknown
               PROVE  Storage(host.item, Stored(host.item, realdata(j)))
                        = Storage(host.item, elems[j])
    OBVIOUS
  <2>1. Accepts(host.item, realdata(j))
    BY DEF Inserts
  <2> QED BY <1>2, <2>1, StoredBack DEF IInv, Holding
<1> HIDE DEF u, T
<1>5. Take(table', Len(table)) = table /\ Drop(table', Len(table)) = u
  BY <1>1, <1>3, Appended
<1>6. told'.code = IF k = rows THEN SUCCESS ELSE PGSQL
  BY DEF Inserts, Ends
<1>7. told'.code = SUCCESS <=> k = rows
  BY <1>6 DEF SUCCESS, PGSQL
<1>8. DOMAIN u = 1..k
  BY <1>3
<1> QED BY <1>3, <1>4, <1>5, <1>6, <1>7, <1>8 DEF Inserted

(* A statement that was refused leaves the table.                          *)
LEMMA NothingSent ==
  ASSUME IInv, NEW op, NEW n, NEW code, code \notin {SUCCESS, PGSQL}, NEW count,
         Refused(op, n, code, count)
  PROVE  Inserted
<1>1. table' = table /\ told'.code = code
  BY DEF Refused, Leaves, Ends
<1>2. table \in Rows
  BY DEF IInv, TableOK
<1>3. Take(table, Len(table)) = table /\ Drop(table, Len(table)) = << >>
  <2> DEFINE S == Texts(host.item)
  <2>1. table \in Seq(S) /\ << >> \in Seq(S)
    BY <1>2 DEF Rows
  <2> HIDE DEF S
  <2>2. table \o << >> = table
    BY <2>1
  <2> QED BY <2>1, <2>2, Appended
<1>4. Room # 0
  <2>1. frame.iter \in Nat
    BY HostIs DEF IInv, HostOK, FrameOK
  <2> QED BY <2>1 DEF Room
<1>5. Len(<< >>) = 0 /\ DOMAIN << >> = {}
  OBVIOUS
<1> QED BY <1>1, <1>3, <1>4, <1>5 DEF Inserted

(* An INSERT of a host variable, or of a table of them row by row, ends    *)
(* with SQLCODE 0 exactly when the server has every row; if not, it has    *)
(* the rows up to the one refused, in order; and each is the value that    *)
(* was moved or delivered there, in every type but for the rows of tables  *)
(* that the runtime looks for in other places than COBOL.                  *)
THEOREM InsertsPrefix == Spec => InsertedPrefix
<1>1. ASSUME IInv, Holding, [Next]_vars, Executes({"ExecParams", "ExecParamsOccurs"})
      PROVE  Inserted
  <2>1. ~frame.done /\ frame'.done /\ told'.op \in {"ExecParams", "ExecParamsOccurs"}
    BY <1>1 DEF Executes
  <2>2. SendNext
    BY <1>1, <2>1, WhoExecutes
  <2>3. PICK n \in 0..2 : _ocesqlExecParams(n) \/ _ocesqlExecParamsOccurs(n)
    BY <2>2 DEF SendNext
  <2>4. host.count \in Nat /\ host.count >= 1 /\ frame.iter \in {0, host.count}
    BY <1>1, HostIs DEF IInv, HostOK, FrameOK
  <2>5. CASE _ocesqlExecParams(n)
    <3>1. CASE ArgumentError(n) # 0 /\ Refused("ExecParams", n, ArgumentError(n), 0)
      <4>1. ArgumentError(n) \notin {SUCCESS, PGSQL}
        BY <3>1 DEF ArgumentError, EMPTY, TOO_MANY_ARGUMENTS, TOO_FEW_ARGUMENTS,
                    SUCCESS, PGSQL
      <4> QED BY <1>1, <3>1, <4>1, NothingSent
    <3>2. ASSUME NEW k \in 0..1, Inserts("ExecParams", k, 1), frame.iter = 0 PROVE Inserted
      <4>1. k \in Nat /\ k <= host.count /\ k <= 1 /\ 1 = Room
        BY <2>4, <3>2 DEF Room
      <4> QED BY <1>1, <3>2, <4>1, SentIs
    <3> QED BY <2>5, <3>1, <3>2 DEF _ocesqlExecParams
  <2>6. CASE _ocesqlExecParamsOccurs(n)
    <3>1. CASE Refused("ExecParamsOccurs", n, EMPTY, 0)
      <4>1. EMPTY \notin {SUCCESS, PGSQL}
        BY DEF EMPTY, SUCCESS, PGSQL
      <4> QED BY <1>1, <3>1, <4>1, NothingSent
    <3>2. ASSUME NEW k \in 0..frame.iter, Inserts("ExecParamsOccurs", k, frame.iter),
                 frame.iter > 0
          PROVE  Inserted
      <4>1. k \in Nat /\ k <= host.count /\ frame.iter = Room /\ Placed
        BY <2>4, <3>2 DEF Room, Placed
      <4> QED BY <1>1, <3>2, <4>1, SentIs
    <3> QED BY <2>6, <3>1, <3>2 DEF _ocesqlExecParamsOccurs
  <2> QED BY <2>3, <2>5, <2>6
<1>2. Spec => [](IInv /\ Holding)
  BY AlwaysHolding
<1>3. IInv /\ Holding /\ [Next]_vars
        => [Executes({"ExecParams", "ExecParamsOccurs"}) => Inserted]_vars
  BY <1>1
<1> QED BY <1>2, <1>3, PTL DEF Spec, InsertedPrefix

(* Row j of the storage m.                                                 *)
LEMMA ElementIs ==
  ASSUME HostOK, NEW C, NEW m \in [1..Extent(host) -> C], NEW j \in 1..host.count
  PROVE  /\ Element(m, j) \in Seq(C) /\ Len(Element(m, j)) = Bytes(host.item)
         /\ \A k \in 1..Bytes(host.item) : Element(m, j)[k] = m[Offset(host, j) + k]
<1> DEFINE o == Offset(host, j)
           B == Bytes(host.item)
           E == Extent(host)
<1>1. o \in Nat /\ o + B <= E /\ B \in Nat /\ B >= 1 /\ E \in Nat
  BY OffsetIs, HostIs, ExtentIs DEF HostOK
<1>2. Element(m, j) = SubSeq(m, o + 1, o + B)
  BY DEF Element
<1> HIDE DEF o, B, E
<1>3. m \in Seq(C) /\ Len(m) = E
  <2>1. m = [i \in 1..E |-> m[i]] /\ \A i \in 1..E : m[i] \in C
    BY DEF E
  <2> QED BY <1>1, <2>1, Made
<1>4. /\ SubSeq(m, o + 1, o + B) \in Seq(C) /\ Len(SubSeq(m, o + 1, o + B)) = B
      /\ \A k \in 1..B : SubSeq(m, o + 1, o + B)[k] = m[o + k]
  <2>1. o + 1 \in 1..Len(m) /\ o + B \in 1..Len(m) /\ o + 1 <= o + B
    BY <1>1, <1>3
  <2> DEFINE a == o + 1
             b == o + B
  <2>2. a \in 1..Len(m) /\ b \in 1..Len(m) /\ a <= b /\ (b - a) + 1 = B
        /\ \A k \in 1..B : (a + k) - 1 = o + k
    BY <1>1, <2>1
  <2> HIDE DEF a, b
  <2>3. SubSeq(m, a, b) \in Seq(C)
    <3> DEFINE q == SubSeq(m, a, b)
    <3>1. /\ Len(q) = B /\ DOMAIN q = 1..Len(q)
          /\ \A k \in 1..B : q[k] = m[(a + k) - 1]
      BY <1>3, <2>2
    <3>2. q = [k \in 1..Len(q) |-> q[k]]
      BY <1>3, <2>2
    <3>3. \A k \in 1..B : (a + k) - 1 \in 1..Len(m)
      BY <1>3, <2>2
    <3> HIDE DEF q
    <3>4. \A k \in 1..B : q[k] \in C
      BY <1>3, <3>1, <3>3, SeqIs
    <3> QED BY <1>1, <3>1, <3>2, <3>4, Made DEF q
  <2>4. Len(SubSeq(m, a, b)) = (b - a) + 1
    BY <1>3, <2>2
  <2>5. \A k \in 1..((b - a) + 1) : SubSeq(m, a, b)[k] = m[(a + k) - 1]
    BY <1>3, <2>2
  <2> QED BY <2>2, <2>3, <2>4, <2>5 DEF a, b
<1> QED BY <1>2, <1>4 DEF o, B

(* The rows due are delivered.                                             *)
LEMMA DueDelivered ==
  ASSUME IInv, Holding, Placed, StrideRight(host), NEW D \in Seq(Tidy(host.item)),
         Due = D, NEW rows, rows = Take(D, host.count), rows # << >>,
         NEW op, NEW announced, NEW count,
         Delivers(op, announced, rows, host.count, count)
  PROVE  Due # << >> /\ Delivered
<1> DEFINE it == host.item
           S == Tidy(it)
           n == host.count
           m == Filled(rows, n)
           B == Bytes(it)
<1>1. HostOK /\ FrameOK /\ MemOK /\ it \in Item /\ n \in Nat /\ n >= 1 /\ B \in Nat
  BY HostIs DEF IInv, HostOK
<1>2. mem' = m
  BY DEF Delivers
<1>3. Room = n
  BY DEF Room, Placed, IInv, FrameOK
<1>4. /\ rows \in Seq(S) /\ Len(D) \in Nat
      /\ Len(rows) = IF n < Len(D) THEN n ELSE Len(D)
      /\ \A j \in 1..Len(rows) : rows[j] = D[j]
  <2>1. D \in Seq(S)
    OBVIOUS
  <2> HIDE DEF S, n
  <2>2. n \in Nat /\ rows = Take(D, n)
    BY <1>1 DEF n
  <2>3. /\ Take(D, n) \in Seq(S)
        /\ Len(Take(D, n)) = IF n < Len(D) THEN n ELSE Len(D)
        /\ \A j \in 1..Len(Take(D, n)) : Take(D, n)[j] = D[j]
    BY <2>1, <2>2, TakeIs
  <2> QED BY <2>1, <2>2, <2>3, SeqIs
<1>5. Len(rows) >= 1
  <2> HIDE DEF S
  <2> QED BY <1>4, TailIs
<1>6. Due # << >> /\ DOMAIN Due = 1..Len(D)
  <2>1. Len(D) >= 1
    BY <1>1, <1>4, <1>5
  <2>2. Len(<< >>) = 0
    OBVIOUS
  <2>3. DOMAIN D = 1..Len(D)
    <3>1. D \in Seq(S)
      OBVIOUS
    <3> HIDE DEF S
    <3> QED BY <3>1
  <2> QED BY <2>1, <2>2, <2>3
<1>7. rows \in Seq(Texts(it))
  BY <1>1, <1>4, TidyRows
<1>8. m \in [1..Extent(host) -> Alphabet(it)]
  BY <1>1, <1>7, FilledIs
<1> DEFINE good(j) ==
      IF j \in DOMAIN Due
      THEN Faithful(it, Due[j]) => Element(mem', j) = Storage(it, Due[j])
      ELSE \A k \in 1..it.length : Element(mem', j)[k] = NUL
<1>9. ASSUME NEW j \in 1..n PROVE good(j)
  <2> DEFINE at == Offset(host, j)
             e == Element(mem', j)
  <2>1. /\ j <= Len(rows) /\ Faithful(it, rows[j])
             => \A k \in 1..B : m[at + k] = Storage(it, rows[j])[k]
        /\ ~(j <= Len(rows))
             => it.length = B /\ \A k \in 1..it.length : m[at + k] = NUL
    BY <1>1, <1>4, FilledHolds
  <2>2. e \in Seq(Alphabet(it)) /\ Len(e) = B /\ \A k \in 1..B : e[k] = m[at + k]
    <3> DEFINE A == Alphabet(it)
    <3>1. HostOK /\ m \in [1..Extent(host) -> A]
      BY <1>1, <1>8
    <3> HIDE DEF A, m
    <3>2. Element(m, j) \in Seq(A) /\ Len(Element(m, j)) = Bytes(host.item)
          /\ \A k \in 1..Bytes(host.item) : Element(m, j)[k] = m[Offset(host, j) + k]
      BY <3>1, ElementIs
    <3> QED BY <1>2, <3>2 DEF A
  <2> HIDE DEF m, e, at
  <2>3. CASE j \in DOMAIN Due
    <3> DEFINE t == D[j]
               s == Storage(it, t)
    <3>1. j <= Len(rows) /\ rows[j] = t
      BY <1>1, <1>4, <1>6, <2>3
    <3>2. SUFFICES ASSUME Faithful(it, t) PROVE e = s
      BY <2>3 DEF e
    <3>3. t \in Texts(it)
      <4>1. j \in 1..Len(rows)
        BY <1>1, <1>4, <3>1
      <4>2. rows[j] \in Tidy(it)
        BY <1>1, <1>4, <4>1, TidyRows
      <4> QED BY <3>1, <4>2 DEF Tidy
    <3>4. s \in Seq(Alphabet(it)) /\ Len(s) = B
      <4> HIDE DEF it, t
      <4> QED BY <1>1, <3>3, StorageIs
    <3> HIDE DEF s
    <3>5. \A k \in 1..B : m[at + k] = s[k]
      BY <2>1, <3>1, <3>2 DEF s
    <3>6. \A k \in 1..Len(e) : e[k] = s[k]
      BY <2>2, <3>5
    <3> QED BY <2>2, <3>4, <3>6, SameSeq
  <2>4. CASE j \notin DOMAIN Due
    <3>1. ~(j <= Len(rows))
      BY <1>1, <1>4, <1>6, <2>4
    <3>2. \A k \in 1..it.length : e[k] = NUL
      BY <2>1, <2>2, <3>1
    <3> QED BY <2>4, <3>2 DEF e
  <2> QED BY <2>3, <2>4
<1>10. Delivered
  BY <1>3, <1>9 DEF Delivered
<1> QED BY <1>6, <1>10

(* A SELECT INTO delivers the rows due.                                    *)
LEMMA SelectsRead ==
  ASSUME IInv, Holding, Placed, StrideRight(host), NEW n \in 0..1,
         Selects("SelectInto", n, host.count), told'.code = SUCCESS,
         told'.announced > 0 => told'.announced = frame.params /\ elems[1] # Unknown
  PROVE  Due # << >> /\ Delivered
<1> DEFINE S == Tidy(host.item)
           equal == {row \in {table[i] : i \in DOMAIN table} : Equals(row)}
           D == IF n = 0 THEN table ELSE Matching(table, equal)
<1>1. PICK r \in Results(n) :
        LET code == StatusOf(r, IF n > 0 THEN ArgumentError(n) ELSE SUCCESS) IN
        /\ res' = r
        /\ UNCHANGED cursor
        /\ IF code < 0 THEN Leaves("SelectInto", n, code, r.count)
           ELSE IF r.kind # "tuples" \/ frame.results # 1
                THEN Leaves("SelectInto", n, EMPTY, r.count)
           ELSE IF r.rows = << >> THEN Leaves("SelectInto", n, NOT_FOUND, 0)
           ELSE Delivers("SelectInto", n, Take(r.rows, host.count), host.count, r.count)
  BY DEF Selects
<1>2. \A code, count : Leaves("SelectInto", n, code, count) => told'.code = code
  BY DEF Leaves, Ends
<1>3. r.rows # << >> /\ Delivers("SelectInto", n, Take(r.rows, host.count), host.count, r.count)
  <2> DEFINE code == StatusOf(r, IF n > 0 THEN ArgumentError(n) ELSE SUCCESS)
  <2>1. code < 0 => code # SUCCESS
    BY DEF SUCCESS
  <2> HIDE DEF code
  <2> QED BY <1>1, <1>2, <2>1 DEF code, EMPTY, NOT_FOUND, SUCCESS
<1>4. told' = [op |-> "SelectInto", announced |-> n, code |-> SUCCESS]
  BY <1>3 DEF Delivers, Ends
<1>5. Due = D
  <2>1. told'.op = "SelectInto" /\ told'.announced = n
    BY <1>4
  <2> QED BY <2>1 DEF Due
<1>6. table \in Seq(S) /\ HoldsRows /\ HostOK /\ FrameOK /\ MemOK
  BY DEF Holding, RowsTidy, IInv
<1>7. r.rows = D
  <2>1. \A x \in Answers(n) : x.rows # << >> =>
          /\ x.rows = Selected(n)
          /\ n = 1 => Accepts(host.item, realdata(1))
    BY ResultRows DEF Answers
  <2>2. CASE n = 0
    <3>1. r \in Answers(n)
      BY <2>2 DEF Results
    <3> QED BY <1>3, <2>1, <2>2, <3>1 DEF Selected
  <2>3. CASE n = 1
    <3>1. 1 = frame.params /\ elems[1] # Unknown
      BY <1>4, <2>3
    <3>2. ArgumentError(1) = 0
      BY <3>1 DEF ArgumentError
    <3>3. r \in Answers(1)
      BY <2>3, <3>2 DEF Results
    <3> DEFINE s == Stored(host.item, realdata(1))
    <3>4. Accepts(host.item, realdata(1)) /\ r.rows = Matching(table, {s})
      <4>1. r \in Answers(n) /\ Selected(n) = Matching(table, {s})
        BY <2>3, <3>3 DEF Selected
      <4> HIDE DEF s
      <4>2. r.rows = Selected(n) /\ Accepts(host.item, realdata(1))
        BY <1>3, <2>1, <2>3, <4>1
      <4> QED BY <4>1, <4>2
    <3>5. ASSUME NEW i \in 1..Len(table) PROVE table[i] \in {s} <=> table[i] \in equal
      <4> DEFINE row == table[i]
      <4>1. row \in S /\ i \in DOMAIN table
        <5>1. table \in Seq(S)
          BY <1>6
        <5> HIDE DEF S
        <5> QED BY <5>1, SeqIs
      <4>2. row = s <=> Equals(row)
        BY <1>6, <3>1, <3>4, <4>1, MatchBack
      <4> HIDE DEF s
      <4> QED BY <4>1, <4>2
    <3> HIDE DEF s, equal, S
    <3>6. Matching(table, {s}) = Matching(table, equal)
      BY <1>6, <3>5, MatchingSame
    <3> QED BY <2>3, <3>4, <3>6 DEF equal
  <2> QED BY <2>2, <2>3
<1>8. D \in Seq(S)
  <2> HIDE DEF S, equal
  <2>1. Matching(table, equal) \in Seq(S)
    BY <1>6, MatchingIs
  <2> QED BY <1>6, <2>1
<1> HIDE DEF D
<1> DEFINE rows == Take(D, host.count)
<1>9. rows # << >>
  <2>1. host.count \in Nat /\ host.count >= 1
    BY <1>6, HostIs DEF HostOK
  <2> HIDE DEF S
  <2> QED BY <1>3, <1>7, <1>8, <2>1, TakenIs
<1>10. Delivers("SelectInto", n, rows, host.count, r.count)
  BY <1>3, <1>7
<1> DEFINE count == r.count
<1> HIDE DEF rows, count
<1>11. Delivers("SelectInto", n, rows, host.count, count) /\ rows = Take(D, host.count)
  BY <1>10 DEF rows, count
<1> QED BY <1>5, <1>8, <1>9, <1>11, DueDelivered

(* So does a FETCH. *)
LEMMA FetchesRead ==
  ASSUME IInv, Holding, Placed, StrideRight(host), NEW op \in {"FetchOne", "FetchOccurs"},
         NEW refusal, refusal # SUCCESS, NEW empty,
         Fetches(op, host.count, refusal, empty), told'.code = SUCCESS
  PROVE  Due # << >> /\ Delivered
<1> DEFINE n == host.count
           D == Drop(cursor.rows, cursor.pos)
           rows == Fetched(n)
<1>1. \A a, code, count : Leaves(op, a, code, count) => told'.code = code
  BY DEF Leaves, Ends
<1>2. rows # << >> /\ Delivers(op, 0, rows, n, Counted(n))
  BY <1>1 DEF Fetches, SUCCESS, NOT_FOUND, EMPTY
<1>3. told'.op = op
  BY <1>2 DEF Delivers, Ends
<1>4. Due = D
  <2>1. told'.op \in {"FetchOne", "FetchOccurs"}
    BY <1>3
  <2> QED BY <2>1 DEF Due
<1>5. D \in Seq(Tidy(host.item))
  BY DueTidy, 0 \in Nat DEF Holding
<1>6. rows = Take(D, n)
  BY DEF Fetched
<1> DEFINE count == Counted(n)
<1>7. rows = Take(D, host.count) /\ Delivers(op, 0, rows, host.count, count)
  BY <1>2, <1>6
<1> HIDE DEF rows, D, count
<1> QED BY <1>2, <1>4, <1>5, <1>7, DueDelivered

(* A SELECT INTO or a FETCH that ends with SQLCODE 0 has put the rows due, *)
(* in their order, in the rows of the host variable, each in the storage   *)
(* COBOL has for the value, and low-values in the rows left, whatever was  *)
(* moved, inserted, selected and fetched before.                           *)
THEOREM ReadsDeliver == Spec => RowsRead
<1>1. ASSUME IInv, Holding, [Next]_vars,
             Executes({"SelectInto", "FetchOne", "FetchOccurs"}),
             told'.code = SUCCESS, StrideRight(host),
             told'.announced > 0 => told'.announced = frame.params /\ elems[1] # Unknown
      PROVE  Due # << >> /\ Delivered
  <2>1. ~frame.done /\ frame'.done /\ told'.op \in {"SelectInto", "FetchOne", "FetchOccurs"}
    BY <1>1 DEF Executes
  <2>2. SelectNext \/ OCESQLCursorFetchOne \/ OCESQLCursorFetchOccurs
    BY <1>1, <2>1, WhoExecutes
  <2>3. \A op, n, count : ~Refused(op, n, EMPTY, count)
    BY <1>1 DEF Refused, Leaves, Ends, EMPTY, SUCCESS
  <2>4. CASE SelectNext
    <3>1. PICK n \in 0..1 : _ocesqlExecSelectIntoOne(n) \/ _ocesqlExecSelectIntoOccurs(n)
      BY <2>4 DEF SelectNext
    <3>2. CASE _ocesqlExecSelectIntoOne(n)
      <4>1. Placed /\ Selects("SelectInto", n, host.count)
        BY <3>2 DEF _ocesqlExecSelectIntoOne, Placed
      <4> QED BY <1>1, <4>1, SelectsRead
    <3>3. CASE _ocesqlExecSelectIntoOccurs(n)
      <4>1. frame.iter > 0 /\ frame.iter = host.count
        BY <1>1, <3>3 DEF _ocesqlExecSelectIntoOccurs, IInv, FrameOK
      <4>2. Placed /\ Selects("SelectInto", n, host.count)
        BY <2>3, <3>3, <4>1 DEF _ocesqlExecSelectIntoOccurs, Placed
      <4> QED BY <1>1, <4>2, SelectsRead
    <3> QED BY <3>1, <3>2, <3>3
  <2>5. CASE OCESQLCursorFetchOne
    <3>1. Placed /\ Fetches("FetchOne", host.count, PGSQL, cursor.tuples)
      BY <2>5 DEF OCESQLCursorFetchOne, Placed
    <3>2. PGSQL # SUCCESS
      BY DEF PGSQL, SUCCESS
    <3> QED BY <1>1, <3>1, <3>2, FetchesRead
  <2>6. CASE OCESQLCursorFetchOccurs
    <3> DEFINE refusal == IF frame.results = 0 THEN NOT_FOUND ELSE EMPTY
    <3>1. frame.iter > 0 /\ frame.iter = host.count
      BY <1>1, <2>6 DEF OCESQLCursorFetchOccurs, IInv, FrameOK
    <3>2. Placed /\ Fetches("FetchOccurs", host.count, refusal, 0)
      BY <2>3, <2>6, <3>1 DEF OCESQLCursorFetchOccurs, Placed
    <3>3. refusal # SUCCESS
      BY DEF NOT_FOUND, EMPTY, SUCCESS
    <3> HIDE DEF refusal
    <3> QED BY <1>1, <3>2, <3>3, FetchesRead
  <2> QED BY <2>2, <2>4, <2>5, <2>6
<1>2. Spec => [](IInv /\ Holding)
  BY AlwaysHolding
<1>3. IInv /\ Holding /\ [Next]_vars
        => [ /\ Executes({"SelectInto", "FetchOne", "FetchOccurs"})
             /\ told'.code = SUCCESS /\ StrideRight(host)
             /\ told'.announced > 0 => told'.announced = frame.params /\ elems[1] # Unknown
             => Due # << >> /\ Delivered ]_vars
  BY <1>1
<1> QED BY <1>2, <1>3, PTL DEF Spec, RowsRead
=============================================================================
