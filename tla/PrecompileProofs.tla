--------------------------- MODULE PrecompileProofs --------------------------
(***************************************************************************)
(* What ocesql keeps and promises, for every program, every file it        *)
(* includes and every picture and text.                                    *)
(*                                                                         *)
(* In this order: sequences and what is counted in them; the walks over    *)
(* the tree of host variables; the texts cut into FILLERs; the items that  *)
(* one entry becomes; the types of the scanner, rule by rule, and its tree *)
(* while it grows; the copies; the invariant, and what follows from it;    *)
(* the lines of the program.                                               *)
(***************************************************************************)
EXTENDS Precompile, Recursions, FiniteSetTheorems

(* A sequence, whatever it is made of.                                     *)
IsSeq(q) == \E S : q \in Seq(S)

LEMMA SeqIs ==
  ASSUME NEW q, IsSeq(q)
  PROVE  Len(q) \in Nat /\ DOMAIN q = 1..Len(q) /\ q = [i \in 1..Len(q) |-> q[i]]
<1>1. PICK S : q \in Seq(S)
  BY DEF IsSeq
<1> QED BY <1>1

(* A function on 1..n is a sequence.                                       *)
LEMMA SeqMade ==
  ASSUME NEW n \in Nat, NEW q, q = [i \in 1..n |-> q[i]]
  PROVE  IsSeq(q) /\ Len(q) = n
<1> DEFINE S == {q[i] : i \in 1..n}
<1>1. q \in [1..n -> S]
  OBVIOUS
<1> HIDE DEF S
<1>2. q \in Seq(S) /\ Len(q) = n
  BY <1>1
<1> QED BY <1>2 DEF IsSeq

LEMMA SeqParts ==
  /\ IsSeq(<<>>) /\ Len(<<>>) = 0
  /\ \A x : IsSeq(<<x>>) /\ Len(<<x>>) = 1 /\ <<x>>[1] = x
<1>1. <<>> \in Seq({}) /\ Len(<<>>) = 0
  OBVIOUS
<1>2. \A x : <<x>> \in Seq({x}) /\ Len(<<x>>) = 1 /\ <<x>>[1] = x
  OBVIOUS
<1> QED BY <1>1, <1>2 DEF IsSeq

LEMMA SeqConcat ==
  ASSUME NEW a, NEW b, IsSeq(a), IsSeq(b)
  PROVE  /\ IsSeq(a \o b) /\ Len(a \o b) = Len(a) + Len(b)
         /\ \A i \in 1..Len(a) : (a \o b)[i] = a[i]
         /\ \A i \in 1..Len(b) : (a \o b)[Len(a) + i] = b[i]
<1>1. PICK S : a \in Seq(S)
  BY DEF IsSeq
<1>2. PICK T : b \in Seq(T)
  BY DEF IsSeq
<1> DEFINE U == S \cup T
<1>3. S \subseteq U /\ T \subseteq U
  OBVIOUS
<1> HIDE DEF U
<1>4. a \in Seq(U) /\ b \in Seq(U)
  BY <1>1, <1>2, <1>3
<1>5. a \o b \in Seq(U)
  BY <1>4
<1> QED BY <1>4, <1>5 DEF IsSeq

(* Every place of a \o b is one of a or one of b.                          *)
LEMMA SeqPlaces ==
  ASSUME NEW a, NEW b, IsSeq(a), IsSeq(b), NEW i \in 1..Len(a \o b)
  PROVE  \/ i \in 1..Len(a) /\ (a \o b)[i] = a[i]
         \/ i - Len(a) \in 1..Len(b) /\ (a \o b)[i] = b[i - Len(a)]
<1>1. Len(a) \in Nat /\ Len(b) \in Nat /\ Len(a \o b) = Len(a) + Len(b)
  BY SeqConcat, SeqIs
<1>2. CASE i \in 1..Len(a)
  BY <1>2, SeqConcat
<1>3. CASE i \notin 1..Len(a)
  <2> DEFINE j == i - Len(a)
  <2>1. j \in 1..Len(b) /\ Len(a) + j = i
    BY <1>1, <1>3
  <2>2. (a \o b)[Len(a) + j] = b[j]
    BY <2>1, SeqConcat
  <2> QED BY <2>1, <2>2
<1> QED BY <1>2, <1>3

LEMMA SeqEmpty ==
  ASSUME NEW a, IsSeq(a)
  PROVE  a \o <<>> = a /\ <<>> \o a = a /\ (a = <<>> <=> Len(a) = 0)
<1>1. PICK S : a \in Seq(S)
  BY DEF IsSeq
<1> QED BY <1>1

LEMMA SeqAssociative ==
  ASSUME NEW a, NEW b, NEW c, IsSeq(a), IsSeq(b), IsSeq(c)
  PROVE  (a \o b) \o c = a \o (b \o c)
<1>1. PICK S : a \in Seq(S)
  BY DEF IsSeq
<1>2. PICK T : b \in Seq(T)
  BY DEF IsSeq
<1>3. PICK U : c \in Seq(U)
  BY DEF IsSeq
<1> DEFINE V == S \cup T \cup U
<1>4. a \in Seq(V) /\ b \in Seq(V) /\ c \in Seq(V)
  <2>1. S \subseteq V /\ T \subseteq V /\ U \subseteq V
    OBVIOUS
  <2> HIDE DEF V
  <2> QED BY <1>1, <1>2, <1>3, <2>1
<1> HIDE DEF V
<1>5. a \o b \in Seq(V) /\ b \o c \in Seq(V)
  BY <1>4
<1> QED BY <1>4, <1>5

(* The sequences of a sequence, one behind the other: step by step.        *)
LEMMA Flatten ==
  ASSUME NEW q, IsSeq(q), Len(q) > 0, \A i \in 1..Len(q) : IsSeq(q[i])
  PROVE  \E g : /\ g[0] = <<>> /\ FlattenSeq(q) = g[Len(q)]
                /\ \A i \in 0..Len(q) : IsSeq(g[i])
                /\ \A i \in 1..Len(q) : g[i] = g[i - 1] \o q[i]
<1> DEFINE n == Len(q)
           S == UNION {{q[i][j] : j \in 1..Len(q[i])} : i \in 1..n}
           step == [p \in (1..n) \X Seq(S) |-> p[2] \o q[p[1]]]
<1>1. n \in Nat /\ n > 0
  BY SeqIs
<1>2. ASSUME NEW i \in 1..n PROVE q[i] \in Seq(S)
  <2>1. Len(q[i]) \in Nat /\ q[i] = [j \in 1..Len(q[i]) |-> q[i][j]]
    BY SeqIs
  <2>2. \A j \in 1..Len(q[i]) : q[i][j] \in S
    OBVIOUS
  <2> HIDE DEF S
  <2>3. q[i] \in [1..Len(q[i]) -> S]
    BY <2>1, <2>2, Zenon
  <2> QED BY <2>1, <2>3
<1> HIDE DEF S
<1>3. step \in [(1..n) \X Seq(S) -> Seq(S)]
  BY <1>2
<1>4. \A i \in 1..n : \A v \in Seq(S) : step[<<i, v>>] = v \o q[i]
  OBVIOUS
<1>5. <<>> \in Seq(S)
  OBVIOUS
<1> DEFINE V == Seq(S)
<1> HIDE DEF step, n
<1>6. PICK g \in [0..n -> Seq(S)] : g[0] = <<>> /\ \A i \in 1..n : g[i] = step[<<i, g[i - 1]>>]
  <2>1. <<>> \in V /\ n \in Nat /\ step \in [(1..n) \X V -> V]
    BY <1>1, <1>3, <1>5
  <2> HIDE DEF V
  <2>2. \E g : Upward(V, <<>>, n, step, g)
    BY <2>1, IntervalRecursion
  <2> QED BY <2>2 DEF V, Upward
<1>7. ASSUME NEW i \in 1..n PROVE g[i] = g[i - 1] \o q[i]
  <2>1. i - 1 \in 0..n
    BY <1>1
  <2>2. g[i - 1] \in Seq(S)
    BY <2>1
  <2> QED BY <1>4, <1>6, <2>2
<1>8. FlattenSeq(q) = g[n]
  <2> DEFINE Is(h) == h = [i \in 1..n |-> IF i = 1 THEN q[i] ELSE h[i - 1] \o q[i]]
             h == [i \in 1..n |-> g[i]]
  <2>1. h[1] = q[1]
    <3>1. 1 \in 1..n /\ 1 - 1 = 0
      BY <1>1
    <3>2. g[1] = <<>> \o q[1]
      BY <1>6, <1>7, <3>1
    <3> QED BY <1>2, <3>1, <3>2
  <2>2. ASSUME NEW i \in 1..n, i # 1 PROVE h[i] = h[i - 1] \o q[i]
    <3>1. i - 1 \in 1..n
      BY <1>1, <2>2
    <3> QED BY <1>7, <3>1
  <2>3. Is(h)
    BY <2>1, <2>2
  <2>4. FlattenSeq(q) = (CHOOSE x : Is(x))[n]
    BY <1>1, n = Len(q) DEF FlattenSeq, n
  <2> DEFINE c == CHOOSE x : Is(x)
  <2>5. Is(c)
    <3> HIDE DEF Is, h
    <3> QED BY <2>3, Zenon
  <2> HIDE DEF h
  <2> DEFINE E == {i \in 0..n : i > 0 => c[i] = g[i]}
  <2>6. \A i \in 1..n : c[i] = IF i = 1 THEN q[i] ELSE c[i - 1] \o q[i]
    <3> HIDE DEF c
    <3> QED BY <2>5, Zenon
  <2> HIDE DEF c
  <2>7. \A i \in 0..n : i \in E
    <3>1. 0 \in E
      BY <1>1
    <3>2. ASSUME NEW i \in 1..n, i - 1 \in E PROVE i \in E
      <4>1. CASE i = 1
        <5>1. c[i] = q[i]
          BY <2>6, <4>1
        <5>2. g[i] = q[i]
          BY <2>1, <4>1 DEF h
        <5> QED BY <5>1, <5>2
      <4>2. CASE i # 1
        <5>1. i - 1 > 0 /\ c[i - 1] = g[i - 1]
          BY <1>1, <3>2, <4>2
        <5>2. c[i] = g[i - 1] \o q[i]
          BY <2>6, <4>2, <5>1
        <5>3. i \in 0..n /\ i \in 1..n
          BY <1>1
        <5>4. g[i] = g[i - 1] \o q[i]
          BY <1>7, <5>3
        <5>5. c[i] = g[i]
          BY <5>2, <5>4, Zenon
        <5> QED BY <5>3, <5>5
      <4> QED BY <4>1, <4>2
    <3> HIDE DEF E
    <3> QED BY <1>1, <3>1, <3>2, InductInterval
  <2>8. c[n] = g[n]
    <3>1. n > 0 /\ n \in 0..n
      BY <1>1
    <3>2. n \in E
      BY <2>7, <3>1, Zenon
    <3> QED BY <3>1, <3>2, Zenon
  <2> QED BY <2>4, <2>8 DEF c
<1>9. \A i \in 0..n : IsSeq(g[i])
  BY <1>6 DEF IsSeq
<1> QED BY <1>6, <1>7, <1>8, <1>9 DEF n

-----------------------------------------------------------------------------
(* What is counted in a sequence                                           *)

Beyond(m, B) == {m + k : k \in B}

Places(A, n) == A \subseteq 1..n

LEMMA Shifted ==
  ASSUME NEW m \in Nat, NEW n \in Nat, NEW A, NEW B, Places(A, m), Places(B, n)
  PROVE  Cardinality(A \cup Beyond(m, B)) = Cardinality(A) + Cardinality(B)
<1> DEFINE D == {m + k : k \in B}
           g == [k \in B |-> m + k]
<1>0. A \subseteq 1..m /\ B \subseteq 1..n
  BY DEF Places
<1>1. IsFiniteSet(A) /\ IsFiniteSet(B)
  <2>1. IsFiniteSet(1..m) /\ IsFiniteSet(1..n)
    BY FS_Interval
  <2> QED BY <1>0, <2>1, FS_Subset
<1>2. g \in Bijection(B, D)
  <2>1. \A k \in B : k \in Nat
    BY <1>0
  <2>2. g \in [B -> D]
    OBVIOUS
  <2>3. \A j, k \in B : g[j] = g[k] => j = k
    BY <2>1
  <2>4. \A d \in D : \E k \in B : g[k] = d
    OBVIOUS
  <2> HIDE DEF g, D
  <2> QED BY <2>2, <2>3, <2>4 DEF Bijection, Injection, Surjection, IsInjective
<1>3. IsFiniteSet(D) /\ Cardinality(D) = Cardinality(B)
  <2>1. ExistsBijection(B, D)
    BY <1>2 DEF ExistsBijection
  <2> HIDE DEF D
  <2> QED BY <1>1, <2>1, FS_Bijection
<1>4. A \cap D = {}
  <2>1. \A k \in B : k \in Nat /\ k > 0 /\ m + k > m
    BY <1>0
  <2>2. \A a \in A : a <= m
    BY <1>0
  <2>3. \A d \in D : d > m
    BY <2>1
  <2>4. \A a \in A : a \in Nat
    BY <1>0
  <2>5. \A a \in A : a \notin D
    <3> HIDE DEF D
    <3> QED BY <2>2, <2>3, <2>4
  <2> QED BY <2>5
<1> HIDE DEF D, g
<1>5. Cardinality(A \cup D) = Cardinality(A) + Cardinality(D) - Cardinality(A \cap D)
  BY <1>1, <1>3, FS_Union
<1>6. Cardinality(A \cap D) = 0
  BY <1>4, FS_EmptySet
<1>7. Cardinality(A) \in Nat /\ Cardinality(D) \in Nat
  BY <1>1, <1>3, FS_CardinalityType
<1>8. Beyond(m, B) = D
  BY DEF D, Beyond
<1>9. Cardinality(A \cup D) = Cardinality(A) + Cardinality(B)
  BY <1>3, <1>5, <1>6, <1>7
<1> QED BY <1>8, <1>9, Zenon

(* The calls of fn among the items.                                        *)
CallsOf(items, fn) == {k \in 1..Len(items) : items[k].kind = "call" /\ items[k].fn = fn}

LEMMA CountConcat ==
  ASSUME NEW a, NEW b, IsSeq(a), IsSeq(b), NEW fn
  PROVE  /\ Count(a \o b, fn) = Count(a, fn) + Count(b, fn)
         /\ Count(a, fn) \in Nat
<1> DEFINE m == Len(a)
           n == Len(b)
           A == CallsOf(a, fn)
           B == CallsOf(b, fn)
           C == CallsOf(a \o b, fn)
<1>1. m \in Nat /\ n \in Nat /\ Len(a \o b) = m + n
  BY SeqConcat, SeqIs
<1>2. /\ \A i \in 1..m : (a \o b)[i] = a[i]
      /\ \A i \in 1..n : (a \o b)[m + i] = b[i]
  BY SeqConcat
<1> DEFINE c == a \o b
<1> HIDE DEF c
<1>3. C = A \cup Beyond(m, B)
  <2>0. C = {k \in 1..(m + n) : c[k].kind = "call" /\ c[k].fn = fn}
    BY <1>1 DEF CallsOf, c
  <2>1. ASSUME NEW k \in C PROVE k \in A \cup {m + j : j \in B}
    <3>1. CASE k \in 1..m
      BY <1>2, <3>1, <2>0 DEF CallsOf, c
    <3>2. CASE k \notin 1..m
      <4>1. k - m \in 1..n /\ k = m + (k - m)
        BY <1>1, <3>2, <2>0
      <4>2. k - m \in B
        BY <1>2, <4>1, <2>0 DEF CallsOf, c
      <4> QED BY <4>1, <4>2
    <3> QED BY <3>1, <3>2
  <2>2. ASSUME NEW k \in A PROVE k \in C
    <3>1. k \in 1..m /\ k \in 1..(m + n)
      BY <1>1 DEF CallsOf
    <3> QED BY <1>2, <2>0, <3>1 DEF CallsOf, c
  <2>3. ASSUME NEW j \in B PROVE m + j \in C
    <3>1. j \in 1..n /\ m + j \in 1..(m + n)
      BY <1>1 DEF CallsOf
    <3> QED BY <1>2, <2>0, <3>1 DEF CallsOf, c
  <2> HIDE DEF A, B, C
  <2> QED BY <2>1, <2>2, <2>3 DEF Beyond
<1>4. A \subseteq 1..m /\ B \subseteq 1..n
  BY DEF CallsOf
<1>5. IsFiniteSet(A)
  <2>1. 1 \in Int /\ m \in Int
    BY <1>1
  <2>2. IsFiniteSet(1..m)
    BY <2>1, FS_Interval
  <2> HIDE DEF A
  <2> QED BY <1>4, <2>2, FS_Subset
<1>6. Cardinality(A) \in Nat
  BY <1>5, FS_CardinalityType
<1>7. Cardinality(C) = Cardinality(A) + Cardinality(B)
  <2> HIDE DEF A, B, C, m, n
  <2>0. Places(A, m) /\ Places(B, n)
    BY <1>4 DEF Places
  <2>1. Cardinality(A \cup Beyond(m, B)) = Cardinality(A) + Cardinality(B)
    BY <1>1, <2>0, Shifted
  <2> QED BY <1>3, <2>1
<1> QED BY <1>6, <1>7 DEF Count, CallsOf

LEMMA CountNone ==
  ASSUME NEW a, IsSeq(a), NEW fn, \A k \in 1..Len(a) : a[k].kind = "call" => a[k].fn # fn
  PROVE  Count(a, fn) = 0
<1>1. {k \in 1..Len(a) : a[k].kind = "call" /\ a[k].fn = fn} = {}
  OBVIOUS
<1> QED BY <1>1, FS_EmptySet DEF Count

LEMMA CountPlaced ==
  ASSUME NEW a, IsSeq(a), NEW fn, Count(a, fn) # 0
  PROVE  \E k \in 1..Len(a) : a[k].kind = "call" /\ a[k].fn = fn
BY CountNone

(* A call and its end.                                                     *)
LEMMA CountPair ==
  ASSUME NEW fn, NEW args, NEW p
  PROVE  /\ IsSeq(Call(fn, args)) /\ IsSeq(End(p)) /\ IsSeq(Call(fn, args) \o End(p))
         /\ Len(Call(fn, args) \o End(p)) = 2
         /\ (Call(fn, args) \o End(p))[1] = [kind |-> "call", fn |-> fn, args |-> args]
         /\ (Call(fn, args) \o End(p))[2] = [kind |-> "end", period |-> p]
<1> DEFINE c == Call(fn, args) \o End(p)
           d == Call(fn, args)
           e == End(p)
<1>0. /\ IsSeq(d) /\ Len(d) = 1 /\ d[1] = [kind |-> "call", fn |-> fn, args |-> args]
      /\ IsSeq(e) /\ Len(e) = 1 /\ e[1] = [kind |-> "end", period |-> p]
  BY SeqParts DEF Call, End
<1>1. /\ IsSeq(c) /\ Len(c) = 2 /\ c[1] = d[1] /\ c[2] = e[1]
  <2> HIDE DEF d, e
  <2>1. c = d \o e
    BY DEF d, e
  <2>2. IsSeq(c) /\ Len(c) = 1 + 1 /\ \A i \in 1..1 : c[i] = d[i] /\ c[1 + i] = e[i]
    <3>0. IsSeq(d) /\ IsSeq(e)
      BY <1>0
    <3>1. /\ IsSeq(d \o e) /\ Len(d \o e) = Len(d) + Len(e)
          /\ \A i \in 1..Len(d) : (d \o e)[i] = d[i]
          /\ \A i \in 1..Len(e) : (d \o e)[Len(d) + i] = e[i]
      BY <3>0, SeqConcat
    <3> QED BY <1>0, <2>1, <3>1
  <2> QED BY <2>2
<1> HIDE DEF c
<1> QED BY <1>0, <1>1 DEF c

PairOf(c, fn, args, p) ==
  /\ IsSeq(c) /\ Len(c) = 2
  /\ c[1] = [kind |-> "call", fn |-> fn, args |-> args]
  /\ c[2] = [kind |-> "end", period |-> p]

LEMMA PairMade ==
  ASSUME NEW fn, NEW args, NEW p
  PROVE  PairOf(Call(fn, args) \o End(p), fn, args, p)
<1> DEFINE c == Call(fn, args) \o End(p)
<1>1. /\ IsSeq(c) /\ Len(c) = 2 /\ c[1] = [kind |-> "call", fn |-> fn, args |-> args]
      /\ c[2] = [kind |-> "end", period |-> p]
  BY CountPair
<1> HIDE DEF c
<1>2. PairOf(c, fn, args, p)
  BY <1>1 DEF PairOf
<1> QED BY <1>2 DEF c

-----------------------------------------------------------------------------
(* The walks over the tree of host variables                               *)

(* The pointers of the fields f: TreeOK without the tree.                  *)
WellLinked(f) ==
  /\ IsSeq(f)
  /\ \A i \in 1..Len(f) : /\ f[i].parent \in 0..(i - 1)
                          /\ f[i].sister \in {Null} \cup (i + 1)..Len(f)
                          /\ f[i].children \in {Null} \cup (i + 1)..Len(f)

LEMMA Pointers ==
  ASSUME NEW f, WellLinked(f)
  PROVE  /\ Len(f) \in Nat
         /\ Backward(Len(f), [k \in 1..Len(f) |-> f[k].parent])
         /\ Onward(Len(f), [k \in 1..Len(f) |-> f[k].sister])
         /\ Onward(Len(f), [k \in 1..Len(f) |-> f[k].children])
<1> DEFINE n == Len(f)
           a == [k \in 1..n |-> f[k].parent]
           b == [k \in 1..n |-> f[k].sister]
           c == [k \in 1..n |-> f[k].children]
<1>1. n \in Nat
  BY SeqIs DEF WellLinked
<1>2. \A k \in 1..n : /\ f[k].parent \in 0..n /\ f[k].parent < k
                      /\ f[k].sister \in 0..n /\ (f[k].sister # 0 => f[k].sister > k)
                      /\ f[k].children \in 0..n /\ (f[k].children # 0 => f[k].children > k)
  BY <1>1 DEF WellLinked, Null
<1> HIDE DEF n
<1>3. Backward(n, a)
  BY <1>1, <1>2 DEF Backward
<1>4. Onward(n, b)
  BY <1>1, <1>2 DEF Onward
<1>5. Onward(n, c)
  BY <1>1, <1>2 DEF Onward
<1> QED BY <1>1, <1>3, <1>4, <1>5 DEF n

(* The founder is a field, and nobody's child.                             *)
LEMMA FounderIs ==
  ASSUME NEW f, WellLinked(f), NEW i \in 1..Len(f)
  PROVE  cb_field_founder(f, i) \in 1..Len(f) /\ f[cb_field_founder(f, i)].parent = Null
<1> DEFINE n == Len(f)
           a == [k \in 1..n |-> f[k].parent]
           V == 0..n
           step == [p \in (1..n) \X V \X V |-> IF f[p[1]].parent = Null THEN p[1] ELSE p[2]]
           Is(u) == u = [k \in 1..n |-> IF f[k].parent = Null THEN k ELSE u[f[k].parent]]
<1>1. n \in Nat /\ Backward(n, a)
  BY Pointers
<1>2. Stepping(1..n, V, step)
  <2>1. step \in [(1..n) \X V \X V -> V]
    BY <1>1
  <2> QED BY <2>1 DEF Stepping
<1>3. 0 \in V /\ \A k \in 1..n, x, y \in V :
                    step[<<k, x, y>>] = IF f[k].parent = Null THEN k ELSE x
  BY <1>1
<1>4. \A k \in 1..n : a[k] = f[k].parent /\ a[k] \in 0..n /\ a[k] < k
  BY <1>1 DEF Backward
<1> HIDE DEF step, a, V
<1>5. PICK g : Followed(1..n, a, a, V, 0, step, g)
  BY <1>1, <1>2, <1>3, BackwardRecursion
<1> DEFINE h == [k \in 1..n |-> g[k]]
<1>6. Is(h)
  <2>1. ASSUME NEW k \in 1..n
        PROVE  h[k] = IF f[k].parent = Null THEN k ELSE h[f[k].parent]
    <3>1. a[k] \in (1..n) \cup {0}
      BY <1>1, <1>4
    <3>2. g[k] = step[<<k, g[a[k]], g[a[k]]>>] /\ g[a[k]] \in V
      BY <1>5, <3>1 DEF Followed
    <3>3. g[k] = IF f[k].parent = Null THEN k ELSE g[a[k]]
      BY <1>3, <3>2
    <3>4. f[k].parent # Null => a[k] \in 1..n /\ h[a[k]] = g[a[k]]
      BY <1>4, <3>1 DEF Null
    <3> QED BY <1>4, <3>3, <3>4
  <2> QED BY <2>1
<1> HIDE DEF h
<1> DEFINE up == CHOOSE u : Is(u)
<1>7. Is(up)
  <2> HIDE DEF Is
  <2> QED BY <1>6, Zenon
<1>8. cb_field_founder(f, i) = up[i]
  BY DEF cb_field_founder
<1> HIDE DEF up
<1> DEFINE S == {k \in 1..n : up[k] \in 1..n /\ f[up[k]].parent = Null}
<1>9. \A k \in 1..n : (\A j \in 1..(k - 1) : j \in S) => k \in S
  <2> SUFFICES ASSUME NEW k \in 1..n, \A j \in 1..(k - 1) : j \in S
               PROVE  up[k] \in 1..n /\ f[up[k]].parent = Null
    OBVIOUS
  <2>1. up[k] = IF f[k].parent = Null THEN k ELSE up[f[k].parent]
    BY <1>7
  <2>2. f[k].parent # Null => f[k].parent \in 1..(k - 1)
    BY <1>1, <1>4 DEF Null
  <2> QED BY <2>1, <2>2
<1> HIDE DEF S
<1>10. \A k \in 1..n : k \in S
  BY <1>1, <1>9, BackwardInduction
<1> QED BY <1>8, <1>10 DEF S

(* The walk up, one field after another.                                   *)
LEMMA SameLevelStep ==
  ASSUME NEW f, WellLinked(f), NEW p \in 0..Len(f), NEW level
  PROVE  SameLevel(f, p, level) =
           IF p = Null \/ f[p].level < level THEN Null
           ELSE IF f[p].level = level THEN p ELSE SameLevel(f, f[p].parent, level)
<1> DEFINE n == Len(f)
           a == [k \in 1..n |-> f[k].parent]
           V == 0..n
           step == [t \in (1..n) \X V \X V |->
                      IF f[t[1]].level < level THEN Null
                      ELSE IF f[t[1]].level = level THEN t[1] ELSE t[2]]
           Is(u) == u = [k \in 0..n |-> IF k = Null \/ f[k].level < level THEN Null
                                        ELSE IF f[k].level = level THEN k ELSE u[f[k].parent]]
<1>1. n \in Nat /\ Backward(n, a)
  BY Pointers
<1>2. Stepping(1..n, V, step)
  <2>1. step \in [(1..n) \X V \X V -> V]
    BY <1>1 DEF Null
  <2> QED BY <2>1 DEF Stepping
<1>3. 0 \in V /\ \A k \in 1..n, x, y \in V :
                    step[<<k, x, y>>] = IF f[k].level < level THEN Null
                                        ELSE IF f[k].level = level THEN k ELSE x
  BY <1>1
<1>4. \A k \in 1..n : a[k] = f[k].parent /\ a[k] \in 0..n /\ a[k] < k
  BY <1>1 DEF Backward
<1> HIDE DEF step, a, V
<1>5. PICK g : Followed(1..n, a, a, V, 0, step, g)
  BY <1>1, <1>2, <1>3, BackwardRecursion
<1>6. Is(g)
  <2>1. ASSUME NEW k \in 0..n
        PROVE  g[k] = IF k = Null \/ f[k].level < level THEN Null
                      ELSE IF f[k].level = level THEN k ELSE g[f[k].parent]
    <3>1. CASE k = Null
      BY <1>5, <3>1 DEF Followed, Null
    <3>2. CASE k # Null
      <4>1. k \in 1..n /\ a[k] \in (1..n) \cup {0}
        BY <1>1, <1>4, <3>2 DEF Null
      <4>2. g[k] = step[<<k, g[a[k]], g[a[k]]>>] /\ g[a[k]] \in V
        BY <1>5, <4>1 DEF Followed
      <4> QED BY <1>3, <1>4, <3>2, <4>1, <4>2
    <3> QED BY <3>1, <3>2
  <2>2. g = [k \in 0..n |-> g[k]]
    <3>1. (1..n) \cup {0} = 0..n
      BY <1>1
    <3> QED BY <1>5, <3>1 DEF Followed
  <2> QED BY <2>1, <2>2
<1> DEFINE up == CHOOSE u : Is(u)
<1>7. Is(up)
  <2> HIDE DEF Is
  <2> QED BY <1>6, Zenon
<1>8. \A k : SameLevel(f, k, level) = up[k]
  BY DEF SameLevel
<1> HIDE DEF up
<1> QED BY <1>7, <1>8

(* The ancestor at a level is a field or none.                             *)
LEMMA SameLevelIs ==
  ASSUME NEW f, WellLinked(f), NEW p \in 0..Len(f), NEW level
  PROVE  SameLevel(f, p, level) \in 0..Len(f)
<1> DEFINE n == Len(f)
           S == {k \in 1..n : SameLevel(f, k, level) \in 0..n}
<1>1. n \in Nat /\ SameLevel(f, 0, level) = 0
  <2>1. n \in Nat
    BY Pointers
  <2> QED BY <2>1, SameLevelStep DEF Null
<1>2. \A k \in 1..n : (\A j \in 1..(k - 1) : j \in S) => k \in S
  <2> SUFFICES ASSUME NEW k \in 1..n, \A j \in 1..(k - 1) : j \in S
               PROVE  SameLevel(f, k, level) \in 0..n
    OBVIOUS
  <2>1. f[k].parent = 0 \/ f[k].parent \in 1..(k - 1)
    BY <1>1 DEF WellLinked
  <2>2. SameLevel(f, f[k].parent, level) \in 0..n
    BY <1>1, <2>1
  <2>3. k \in 0..n
    BY <1>1
  <2> QED BY <1>1, <2>2, <2>3, SameLevelStep DEF Null
<1> HIDE DEF S
<1>3. \A k \in 1..n : k \in S
  BY <1>1, <1>2, BackwardInduction
<1>4. p = 0 \/ p \in 1..n
  BY <1>1
<1> QED BY <1>1, <1>3, <1>4 DEF S

(* What is found by a name is none or a field of that name.                *)
LEMMA FoundIs ==
  ASSUME NEW f, WellLinked(f), NEW i \in 0..Len(f), NEW name
  PROVE  LET k == getfieldbynamefrom(f, name, i)
         IN  k \in 0..Len(f) /\ (k # Null => f[k].sname = name)
<1> DEFINE n == Len(f)
           a == [k \in 1..n |-> f[k].sister]
           b == [k \in 1..n |-> f[k].children]
           V == 0..n
           step == [t \in (1..n) \X V \X V |->
                      IF f[t[1]].sname = name THEN t[1]
                      ELSE IF t[2] # Null THEN t[2] ELSE t[3]]
           Is(u) == u = [k \in 0..n |-> IF k = Null \/ f[k].sname = name THEN k
                                        ELSE IF u[f[k].sister] # Null THEN u[f[k].sister]
                                        ELSE u[f[k].children]]
<1>1. n \in Nat /\ Onward(n, a) /\ Onward(n, b)
  BY Pointers
<1>2. Stepping(1..n, V, step)
  <2>1. step \in [(1..n) \X V \X V -> V]
    BY <1>1 DEF Null
  <2> QED BY <2>1 DEF Stepping
<1>3. 0 \in V /\ \A k \in 1..n, x, y \in V :
                    step[<<k, x, y>>] = IF f[k].sname = name THEN k
                                        ELSE IF x # Null THEN x ELSE y
  BY <1>1
<1>4. \A k \in 1..n : /\ a[k] = f[k].sister /\ a[k] \in 0..n /\ (a[k] # 0 => a[k] > k)
                      /\ b[k] = f[k].children /\ b[k] \in 0..n /\ (b[k] # 0 => b[k] > k)
  BY <1>1 DEF Onward
<1> HIDE DEF step, a, b, V
<1>5. PICK g : Followed(1..n, a, b, V, 0, step, g)
  BY <1>1, <1>2, <1>3, OnwardRecursion
<1>6. Is(g)
  <2>1. ASSUME NEW k \in 0..n
        PROVE  g[k] = IF k = Null \/ f[k].sname = name THEN k
                      ELSE IF g[f[k].sister] # Null THEN g[f[k].sister] ELSE g[f[k].children]
    <3>1. CASE k = Null
      BY <1>5, <3>1 DEF Followed, Null
    <3>2. CASE k # Null
      <4>1. k \in 1..n /\ a[k] \in (1..n) \cup {0} /\ b[k] \in (1..n) \cup {0}
        BY <1>1, <1>4, <3>2 DEF Null
      <4>2. g[k] = step[<<k, g[a[k]], g[b[k]]>>] /\ g[a[k]] \in V /\ g[b[k]] \in V
        BY <1>5, <4>1 DEF Followed
      <4> QED BY <1>3, <1>4, <3>2, <4>1, <4>2
    <3> QED BY <3>1, <3>2
  <2>2. g = [k \in 0..n |-> g[k]]
    <3>1. (1..n) \cup {0} = 0..n
      BY <1>1
    <3> QED BY <1>5, <3>1 DEF Followed
  <2> QED BY <2>1, <2>2
<1> DEFINE found == CHOOSE u : Is(u)
<1>7. Is(found)
  <2> HIDE DEF Is
  <2> QED BY <1>6, Zenon
<1>8. getfieldbynamefrom(f, name, i) = found[i]
  BY DEF getfieldbynamefrom
<1> HIDE DEF found
<1>12. \A k \in 0..n : found[k] = IF k = Null \/ f[k].sname = name THEN k
                                  ELSE IF found[f[k].sister] # Null THEN found[f[k].sister]
                                  ELSE found[f[k].children]
  BY <1>7, Zenon
<1> DEFINE S == {k \in 1..n : found[k] \in 0..n /\ (found[k] # 0 => f[found[k]].sname = name)}
<1>0. found[0] = 0
  BY <1>1, <1>7 DEF Null
<1>9. \A k \in 1..n : (\A j \in (k + 1)..n : j \in S) => k \in S
  <2> SUFFICES ASSUME NEW k \in 1..n, \A j \in (k + 1)..n : j \in S PROVE k \in S
    OBVIOUS
  <2>1. found[k] = IF f[k].sname = name THEN k
                   ELSE IF found[f[k].sister] # Null THEN found[f[k].sister]
                   ELSE found[f[k].children]
    BY <1>1, <1>12 DEF Null
  <2>2. /\ f[k].sister = 0 \/ f[k].sister \in (k + 1)..n
        /\ f[k].children = 0 \/ f[k].children \in (k + 1)..n
    BY <1>1, <1>4
  <2>3. /\ found[f[k].sister] = 0 \/ f[k].sister \in S
        /\ found[f[k].children] = 0 \/ f[k].children \in S
    BY <1>0, <2>2
  <2> QED BY <1>0, <1>1, <2>1, <2>3 DEF Null
<1> HIDE DEF S
<1>10. \A k \in 1..n : k \in S
  BY <1>1, <1>9, OnwardInduction
<1>11. i = 0 \/ i \in 1..n
  BY <1>1
<1> QED BY <1>0, <1>1, <1>8, <1>10, <1>11 DEF S, Null

(* A field and the sisters behind it, one after another.                   *)
LEMMA SistersIs ==
  ASSUME NEW f, WellLinked(f), NEW i \in 0..Len(f)
  PROVE  Sisters(f, i) \in Seq(1..Len(f)) /\ (i # Null => Sisters(f, i) # <<>>)
<1> DEFINE n == Len(f)
           a == [k \in 1..n |-> f[k].sister]
           V == Seq(1..n)
           step == [t \in (1..n) \X V \X V |-> <<t[1]>> \o t[2]]
           Is(u) == u = [k \in 0..n |-> IF k = Null THEN <<>> ELSE <<k>> \o u[f[k].sister]]
<1>1. n \in Nat /\ Onward(n, a)
  BY Pointers
<1>2. Stepping(1..n, V, step)
  <2>1. step \in [(1..n) \X V \X V -> V]
    BY <1>1
  <2> QED BY <2>1 DEF Stepping
<1>3. <<>> \in V /\ \A k \in 1..n, x, y \in V : step[<<k, x, y>>] = <<k>> \o x
  BY <1>1
<1>4. \A k \in 1..n : a[k] = f[k].sister /\ a[k] \in 0..n /\ (a[k] # 0 => a[k] > k)
  BY <1>1 DEF Onward
<1> HIDE DEF step, a, V
<1>5. PICK g : Followed(1..n, a, a, V, <<>>, step, g)
  BY <1>1, <1>2, <1>3, OnwardRecursion
<1>6. Is(g)
  <2>1. ASSUME NEW k \in 0..n
        PROVE  g[k] = IF k = Null THEN <<>> ELSE <<k>> \o g[f[k].sister]
    <3>1. CASE k = Null
      BY <1>5, <3>1 DEF Followed, Null
    <3>2. CASE k # Null
      <4>1. k \in 1..n /\ a[k] \in (1..n) \cup {0}
        BY <1>1, <1>4, <3>2 DEF Null
      <4>2. g[k] = step[<<k, g[a[k]], g[a[k]]>>] /\ g[a[k]] \in V
        BY <1>5, <4>1 DEF Followed
      <4>3. g[k] = <<k>> \o g[a[k]]
        BY <1>3, <4>1, <4>2
      <4> QED BY <1>4, <3>2, <4>1, <4>3
    <3> QED BY <3>1, <3>2
  <2>2. g = [k \in 0..n |-> g[k]]
    <3>1. (1..n) \cup {0} = 0..n
      BY <1>1
    <3> QED BY <1>5, <3>1 DEF Followed
  <2> QED BY <2>1, <2>2
<1> DEFINE row == CHOOSE u : Is(u)
<1>7. Is(row)
  <2> HIDE DEF Is
  <2> QED BY <1>6, Zenon
<1>8. Sisters(f, i) = row[i]
  BY DEF Sisters
<1> HIDE DEF row
<1>12. \A k \in 0..n : row[k] = IF k = Null THEN <<>> ELSE <<k>> \o row[f[k].sister]
  BY <1>7, Zenon
<1> DEFINE S == {k \in 1..n : row[k] \in Seq(1..n) /\ row[k] # <<>>}
<1>0. row[0] = <<>>
  <2>1. 0 \in 0..n /\ 0 = Null
    BY <1>1 DEF Null
  <2> QED BY <1>12, <2>1, Zenon
<1>9. \A k \in 1..n : (\A j \in (k + 1)..n : j \in S) => k \in S
  <2> SUFFICES ASSUME NEW k \in 1..n, \A j \in (k + 1)..n : j \in S PROVE k \in S
    OBVIOUS
  <2>1. row[k] = <<k>> \o row[f[k].sister]
    <3>1. k \in 0..n /\ k # Null
      BY <1>1 DEF Null
    <3> QED BY <1>12, <3>1, Zenon
  <2>2. f[k].sister = 0 \/ f[k].sister \in (k + 1)..n
    BY <1>1, <1>4
  <2>3. row[f[k].sister] \in Seq(1..n)
    <3>1. <<>> \in Seq(1..n)
      OBVIOUS
    <3> QED BY <1>0, <2>2, <3>1
  <2>4. \A x \in Seq(1..n) : <<k>> \o x \in Seq(1..n) /\ <<k>> \o x # <<>>
    OBVIOUS
  <2> QED BY <2>1, <2>3, <2>4
<1> HIDE DEF S
<1>10. \A k \in 1..n : k \in S
  BY <1>1, <1>9, OnwardInduction
<1>11. i = 0 \/ i \in 1..n
  BY <1>1
<1>13. <<>> \in Seq(1..n)
  OBVIOUS
<1> QED BY <1>0, <1>8, <1>10, <1>11, <1>13 DEF S, Null

-----------------------------------------------------------------------------
(* Items in a row                                                          *)

LEMMA SeqPrefix ==
  ASSUME NEW a, NEW b, IsSeq(a), IsSeq(b), NEW k \in 0..Len(a)
  PROVE  SubSeq(a \o b, 1, k) = SubSeq(a, 1, k)
<1>1. PICK S : a \in Seq(S)
  BY DEF IsSeq
<1>2. PICK T : b \in Seq(T)
  BY DEF IsSeq
<1> DEFINE U == S \cup T
<1>3. a \in Seq(U) /\ b \in Seq(U)
  <2>1. S \subseteq U /\ T \subseteq U
    OBVIOUS
  <2> HIDE DEF U
  <2> QED BY <1>1, <1>2, <2>1
<1> HIDE DEF U
<1> DEFINE c == a \o b
<1>4. c \in Seq(U) /\ Len(c) = Len(a) + Len(b) /\ \A i \in 1..Len(a) : c[i] = a[i]
  BY <1>3
<1> HIDE DEF c
<1>5. \A i \in 1..k : c[i] = a[i]
  BY <1>3, <1>4
<1>6. SubSeq(c, 1, k) = [i \in 1..k |-> c[i]] /\ SubSeq(a, 1, k) = [i \in 1..k |-> a[i]]
  BY <1>3, <1>4
<1> QED BY <1>5, <1>6 DEF c

LEMMA SeqWhole ==
  ASSUME NEW a, IsSeq(a)
  PROVE  SubSeq(a, 1, Len(a)) = a
<1>1. PICK S : a \in Seq(S)
  BY DEF IsSeq
<1> QED BY <1>1

LEMMA SeqSub ==
  ASSUME NEW a, IsSeq(a), NEW k \in 0..Len(a)
  PROVE  /\ IsSeq(SubSeq(a, 1, k)) /\ Len(SubSeq(a, 1, k)) = k
         /\ \A i \in 1..k : SubSeq(a, 1, k)[i] = a[i]
<1>1. PICK S : a \in Seq(S)
  BY DEF IsSeq
<1>2. SubSeq(a, 1, k) \in Seq(S) /\ Len(SubSeq(a, 1, k)) = k
      /\ \A i \in 1..k : SubSeq(a, 1, k)[i] = a[i]
  BY <1>1
<1> QED BY <1>2 DEF IsSeq

Part(f) == IsSeq(f) /\ \A k \in 1..Len(f) : f[k].kind \in {"call", "end", "error", "crash"}

Broken(f) == \E k \in 1..Len(f) : f[k].kind \in {"error", "crash"}

Alternating(f) ==
  Len(f) % 2 = 0 /\ \A k \in 1..Len(f) : f[k].kind = IF k % 2 = 1 THEN "call" ELSE "end"

Quiet(f) == \A k \in 1..Len(f) : f[k].kind = "end" => f[k].period = FALSE

(* All calls are of fn, and none announces a number.                       *)
Tame(f, fn) ==
  \A k \in 1..Len(f) : f[k].kind = "call" =>
      f[k].fn = fn /\ "count" \notin DOMAIN f[k].args /\ "results" \notin DOMAIN f[k].args

(* Parameters set one after another, with or without an error.             *)
Sets(f, fn) == Part(f) /\ (Broken(f) \/ Alternating(f)) /\ Quiet(f) /\ Tame(f, fn)

LEMMA PartConcat ==
  ASSUME NEW a, NEW b, Part(a), Part(b)
  PROVE  /\ Part(a \o b)
         /\ Broken(a) => Broken(a \o b)
         /\ Broken(b) => Broken(a \o b)
         /\ Broken(a \o b) => Broken(a) \/ Broken(b)
         /\ Alternating(a) /\ Alternating(b) => Alternating(a \o b)
         /\ Quiet(a) /\ Quiet(b) => Quiet(a \o b)
         /\ \A fn : Tame(a, fn) /\ Tame(b, fn) => Tame(a \o b, fn)
<1> DEFINE c == a \o b
           m == Len(a)
           n == Len(b)
<1>1. IsSeq(a) /\ IsSeq(b)
  BY DEF Part
<1>2. IsSeq(c) /\ m \in Nat /\ n \in Nat /\ Len(c) = m + n
  BY <1>1, SeqConcat, SeqIs
<1>3. /\ \A i \in 1..m : i \in 1..(m + n) /\ c[i] = a[i]
      /\ \A i \in 1..n : m + i \in 1..(m + n) /\ c[m + i] = b[i]
  BY <1>1, <1>2, SeqConcat
<1>4. ASSUME NEW i \in 1..(m + n)
      PROVE  \/ i \in 1..m /\ c[i] = a[i]
             \/ i - m \in 1..n /\ c[i] = b[i - m] /\ ~(i \in 1..m)
  <2>1. CASE i \in 1..m
    BY <1>3, <2>1
  <2>2. CASE i \notin 1..m
    <3>1. i - m \in 1..n /\ m + (i - m) = i
      BY <1>2, <2>2
    <3> QED BY <1>3, <2>2, <3>1
  <2> QED BY <2>1, <2>2
<1> HIDE DEF c, m, n
<1>5. Part(c)
  BY <1>2, <1>4 DEF Part, m, n
<1>6. (Broken(a) => Broken(c)) /\ (Broken(b) => Broken(c)) /\ (Broken(c) => Broken(a) \/ Broken(b))
  BY <1>2, <1>3, <1>4 DEF Broken, m, n
<1>7. ASSUME Alternating(a), Alternating(b) PROVE Alternating(c)
  <2>1. m % 2 = 0 /\ n % 2 = 0
    BY <1>7 DEF Alternating, m, n
  <2>2. (m + n) % 2 = 0 /\ \A i \in 1..n : (m + i) % 2 = i % 2
    BY <1>2, <2>1
  <2>3. ASSUME NEW i \in 1..(m + n) PROVE c[i].kind = IF i % 2 = 1 THEN "call" ELSE "end"
    <3>1. CASE i \in 1..m
      BY <1>3, <1>7, <3>1 DEF Alternating, m
    <3>2. CASE i \notin 1..m
      <4>1. i - m \in 1..n /\ c[i] = b[i - m] /\ m + (i - m) = i
        BY <1>2, <1>4, <3>2
      <4>2. (m + (i - m)) % 2 = (i - m) % 2
        BY <2>2, <4>1
      <4> QED BY <1>7, <4>1, <4>2 DEF Alternating, n
    <3> QED BY <3>1, <3>2
  <2> QED BY <1>2, <2>2, <2>3 DEF Alternating
<1>8. Quiet(a) /\ Quiet(b) => Quiet(c)
  BY <1>2, <1>4 DEF Quiet, m, n
<1>9. ASSUME NEW fn, Tame(a, fn), Tame(b, fn) PROVE Tame(c, fn)
  BY <1>2, <1>4, <1>9 DEF Tame, m, n
<1> QED BY <1>5, <1>6, <1>7, <1>8, <1>9 DEF c

LEMMA SetsConcat ==
  ASSUME NEW a, NEW b, NEW fn, Sets(a, fn), Sets(b, fn)
  PROVE  Sets(a \o b, fn)
BY PartConcat DEF Sets

LEMMA SetsEmpty ==
  ASSUME NEW fn
  PROVE  Sets(<<>>, fn) /\ ~Broken(<<>>)
BY SeqParts DEF Sets, Part, Quiet, Tame, Broken, Alternating

LEMMA SetsError ==
  ASSUME NEW ret, NEW name, NEW fn
  PROVE  Sets(Error(ret, name), fn) /\ Broken(Error(ret, name))
<1> DEFINE f == Error(ret, name)
<1>1. IsSeq(f) /\ Len(f) = 1 /\ f[1] = [kind |-> "error", ret |-> ret, name |-> name]
  BY SeqParts DEF Error
<1> HIDE DEF f
<1>2. f[1].kind = "error"
  BY <1>1
<1>3. Sets(f, fn) /\ Broken(f)
  BY <1>1, <1>2 DEF Sets, Part, Quiet, Tame, Broken
<1> QED BY <1>3 DEF f

LEMMA CrashIs == Part(Crash) /\ Broken(Crash)
<1>1. IsSeq(Crash) /\ Len(Crash) = 1 /\ Crash[1] = [kind |-> "crash"]
  BY SeqParts DEF Crash
<1>2. Crash[1].kind = "crash"
  BY <1>1
<1> QED BY <1>1, <1>2 DEF Part, Broken

LEMMA PairIs ==
  ASSUME NEW fn, NEW args, NEW p
  PROVE  LET c == Call(fn, args) \o End(p)
         IN  /\ Part(c) /\ ~Broken(c) /\ Alternating(c) /\ Len(c) = 2
             /\ p = FALSE => Quiet(c)
             /\ "count" \notin DOMAIN args /\ "results" \notin DOMAIN args => Tame(c, fn)
<1> DEFINE c == Call(fn, args) \o End(p)
<1>1. /\ IsSeq(c) /\ Len(c) = 2 /\ c[1] = [kind |-> "call", fn |-> fn, args |-> args]
      /\ c[2] = [kind |-> "end", period |-> p]
  BY CountPair
<1> HIDE DEF c
<1>2. /\ c[1].kind = "call" /\ c[1].fn = fn /\ c[1].args = args
      /\ c[2].kind = "end" /\ c[2].period = p
      /\ 1..Len(c) = {1, 2} /\ 1 % 2 = 1 /\ 2 % 2 = 0
  BY <1>1
<1>3. /\ Part(c) /\ ~Broken(c) /\ Alternating(c)
      /\ p = FALSE => Quiet(c)
      /\ "count" \notin DOMAIN args /\ "results" \notin DOMAIN args => Tame(c, fn)
  BY <1>1, <1>2 DEF Part, Broken, Alternating, Quiet, Tame
<1> QED BY <1>1, <1>3 DEF c

-----------------------------------------------------------------------------
(* Frames: items that announce what stands before them                     *)

Setters == {"SetSQLParams", "SetResultParams"}

(* A frame as far as it is written, or an error in it.  exact: the numbers *)
(* announced are to be right; tabled: a table is to have a parameter.      *)
Frame(f, exact, tabled) ==
  /\ Part(f)
  /\ \/ Broken(f)
     \/ /\ Alternating(f)
        /\ exact => \A k \in 1..Len(f) : f[k].kind = "call" => Announced(f, k)
        /\ tabled => \A k \in 1..Len(f) : (f[k].kind = "call" /\ f[k].fn = "SetHostTable") =>
                        \E j \in 1..k : f[j].kind = "call" /\ f[j].fn \in Setters

LEMMA FrameEmpty ==
  ASSUME NEW exact, NEW tabled
  PROVE  Frame(<<>>, exact, tabled) /\ ~Broken(<<>>) /\ Quiet(<<>>)
BY SeqParts DEF Frame, Part, Broken, Alternating, Quiet

(* What announces nothing may follow a frame, and a table may follow when  *)
(* a parameter was set.                                                    *)
LEMMA FrameFollowed ==
  ASSUME NEW a, NEW b, NEW exact, NEW tabled, Frame(a, exact, tabled), Part(b),
         Broken(b) \/ Alternating(b),
         \A k \in 1..Len(b) : b[k].kind = "call" =>
            /\ exact /\ ~Broken(a) => Announced(a \o b, Len(a) + k)
            /\ tabled /\ ~Broken(a) /\ b[k].fn = "SetHostTable" =>
                  \E j \in 1..Len(a) : a[j].kind = "call" /\ a[j].fn \in Setters
  PROVE  Frame(a \o b, exact, tabled)
<1> DEFINE c == a \o b
           m == Len(a)
           n == Len(b)
<1>1. IsSeq(a) /\ IsSeq(b) /\ Part(a) /\ Part(b)
  BY DEF Frame, Part
<1>2. m \in Nat /\ n \in Nat /\ Len(c) = m + n
  BY <1>1, SeqConcat, SeqIs
<1>3. /\ \A i \in 1..m : i \in 1..(m + n) /\ c[i] = a[i]
      /\ \A i \in 1..n : m + i \in 1..(m + n) /\ c[m + i] = b[i]
  BY <1>1, <1>2, SeqConcat
<1>4. /\ Part(c) /\ (Broken(a) => Broken(c)) /\ (Broken(b) => Broken(c))
      /\ Alternating(a) /\ Alternating(b) => Alternating(c)
  BY <1>1, PartConcat
<1>5. ASSUME NEW i \in 1..(m + n), i \notin 1..m PROVE i - m \in 1..n /\ m + (i - m) = i
  BY <1>2, <1>5
<1> SUFFICES ASSUME ~Broken(a), ~Broken(b) PROVE Frame(c, exact, tabled)
  BY <1>4 DEF Frame
<1>6. ASSUME NEW i \in 1..m PROVE Announced(c, i) <=> Announced(a, i)
  <2>1. i \in 0..Len(a)
    BY <1>2
  <2>2. SubSeq(c, 1, i) = SubSeq(a, 1, i)
    BY <1>1, <2>1, SeqPrefix
  <2>3. c[i] = a[i]
    BY <1>3
  <2> HIDE DEF c, m
  <2> QED BY <2>2, <2>3 DEF Announced
<1> HIDE DEF c, m, n
<1>7. ASSUME exact, NEW i \in 1..(m + n), c[i].kind = "call" PROVE Announced(c, i)
  <2>1. CASE i \in 1..m
    BY <1>3, <1>6, <1>7, <2>1 DEF Frame, m
  <2>2. CASE i \notin 1..m
    <3>1. i - m \in 1..n /\ m + (i - m) = i
      BY <1>5, <2>2
    <3>2. b[i - m].kind = "call"
      BY <1>3, <1>7, <3>1
    <3> QED BY <1>7, <3>1, <3>2 DEF c, m, n
  <2> QED BY <2>1, <2>2
<1>8. ASSUME tabled, NEW i \in 1..(m + n), c[i].kind = "call", c[i].fn = "SetHostTable"
      PROVE  \E j \in 1..i : c[j].kind = "call" /\ c[j].fn \in Setters
  <2>1. CASE i \in 1..m
    <3>1. PICK j \in 1..i : a[j].kind = "call" /\ a[j].fn \in Setters
      BY <1>3, <1>8, <2>1 DEF Frame, m
    <3>2. j \in 1..m
      BY <1>2, <2>1
    <3> QED BY <1>3, <3>1, <3>2
  <2>2. CASE i \notin 1..m
    <3>1. i - m \in 1..n /\ m + (i - m) = i
      BY <1>5, <2>2
    <3>2. b[i - m].kind = "call" /\ b[i - m].fn = "SetHostTable"
      BY <1>3, <1>8, <3>1
    <3>3. PICK j \in 1..m : a[j].kind = "call" /\ a[j].fn \in Setters
      BY <1>8, <3>1, <3>2 DEF m, n
    <3>4. j \in 1..i /\ c[j] = a[j]
      BY <1>2, <1>3, <2>2
    <3> QED BY <3>3, <3>4
  <2> QED BY <2>1, <2>2
<1>9. Alternating(c)
  BY <1>4 DEF Frame
<1> QED BY <1>2, <1>4, <1>7, <1>8, <1>9 DEF Frame

(* Parameters after a frame.                                               *)
LEMMA FrameSets ==
  ASSUME NEW a, NEW b, NEW fn \in Setters, NEW exact, NEW tabled,
         Frame(a, exact, tabled), Sets(b, fn)
  PROVE  Frame(a \o b, exact, tabled)
<1>1. IsSeq(a) /\ IsSeq(b) /\ Part(b) /\ Tame(b, fn) /\ (Broken(b) \/ Alternating(b))
  BY DEF Frame, Sets, Part
<1>2. ASSUME NEW k \in 1..Len(b), b[k].kind = "call"
      PROVE  Announced(a \o b, Len(a) + k) /\ b[k].fn # "SetHostTable"
  <2>1. (a \o b)[Len(a) + k] = b[k]
    BY <1>1, SeqConcat
  <2>2. "count" \notin DOMAIN b[k].args /\ "results" \notin DOMAIN b[k].args /\ b[k].fn = fn
    BY <1>1, <1>2 DEF Tame
  <2>3. fn # "SetHostTable"
    BY DEF Setters
  <2> QED BY <2>1, <2>2, <2>3 DEF Announced
<1> QED BY <1>1, <1>2, FrameFollowed

(* The args of a call announce the numbers set and got.                    *)
Announces(args, set, got) ==
  ("count" \in DOMAIN args => args.count = set) /\ ("results" \in DOMAIN args => args.results = got)

(* A call that may stand behind a frame, and what comes of it.             *)
Callable(a, fn, args, exact, tabled) ==
  /\ Frame(a, exact, tabled)
  /\ fn \notin Setters
  /\ exact /\ ~Broken(a) =>
        Announces(args, Count(a, "SetSQLParams"), Count(a, "SetResultParams"))
  /\ tabled /\ ~Broken(a) /\ fn = "SetHostTable" =>
        \E j \in 1..Len(a) : a[j].kind = "call" /\ a[j].fn \in Setters

Called(a, fn, args, p, exact, tabled) ==
  LET c == a \o (Call(fn, args) \o End(p))
  IN  /\ Frame(c, exact, tabled)
      /\ Len(c) = Len(a) + 2 /\ c[Len(c) - 1].fn = fn
      /\ c[1] = IF Len(a) = 0 THEN [kind |-> "call", fn |-> fn, args |-> args] ELSE a[1]
      /\ Broken(c) => Broken(a)
      /\ Broken(a) => Broken(c)
      /\ Quiet(a) /\ p = FALSE => Quiet(c)
      /\ Quiet(a) => \A k \in 1..Len(c) : c[k].kind = "end" =>
                       c[k].period = IF k = Len(c) THEN p ELSE FALSE

LEMMA FrameCall ==
  ASSUME NEW a, NEW fn, NEW args, NEW p, NEW exact, NEW tabled,
         Callable(a, fn, args, exact, tabled)
  PROVE  Called(a, fn, args, p, exact, tabled)
<1>0. /\ Frame(a, exact, tabled) /\ fn \notin Setters
      /\ exact /\ ~Broken(a) =>
            Announces(args, Count(a, "SetSQLParams"), Count(a, "SetResultParams"))
      /\ tabled /\ ~Broken(a) /\ fn = "SetHostTable" =>
            \E j \in 1..Len(a) : a[j].kind = "call" /\ a[j].fn \in Setters
  BY DEF Callable
<1> DEFINE b == Call(fn, args) \o End(p)
           c == a \o b
           m == Len(a)
<1>1. /\ IsSeq(b) /\ Len(b) = 2 /\ b[1] = [kind |-> "call", fn |-> fn, args |-> args]
      /\ b[2] = [kind |-> "end", period |-> p]
  BY CountPair
<1>2. Part(b) /\ ~Broken(b) /\ Alternating(b) /\ (p = FALSE => Quiet(b))
  BY PairIs
<1>3. IsSeq(a) /\ Part(a)
  BY <1>0 DEF Frame, Part
<1> HIDE DEF b
<1>4. /\ m \in Nat /\ IsSeq(c) /\ Len(c) = m + 2 /\ \A i \in 1..m : c[i] = a[i]
      /\ c[m + 1] = b[1] /\ c[m + 2] = b[2]
  <2>1. 1 \in 1..Len(b) /\ 2 \in 1..Len(b)
    BY <1>1
  <2>2. m \in Nat
    BY <1>3, SeqIs
  <2>3. /\ IsSeq(c) /\ Len(c) = Len(a) + Len(b) /\ \A i \in 1..Len(a) : c[i] = a[i]
        /\ \A i \in 1..Len(b) : c[Len(a) + i] = b[i]
    <3>1. IsSeq(a) /\ IsSeq(b)
      BY <1>1, <1>3
    <3> HIDE DEF b
    <3> QED BY <3>1, SeqConcat
  <2> HIDE DEF c
  <2> QED BY <1>1, <2>1, <2>2, <2>3
<1>5. Announced(c, m + 1) <=>
        Announces(args, Count(a, "SetSQLParams") + Count(Call(fn, args), "SetSQLParams"),
                        Count(a, "SetResultParams") + Count(Call(fn, args), "SetResultParams"))
  <2> DEFINE d == Call(fn, args)
             e == End(p)
  <2>1. IsSeq(d) /\ IsSeq(e) /\ Len(d) = 1 /\ b = d \o e
    BY SeqParts DEF Call, End, b
  <2> HIDE DEF d, e
  <2>2. c = (a \o d) \o e /\ IsSeq(a \o d) /\ Len(a \o d) = m + 1
    <3>1. c = a \o (d \o e)
      BY <2>1
    <3>2. (a \o d) \o e = a \o (d \o e)
      BY <1>3, <2>1, SeqAssociative
    <3>3. IsSeq(a \o d) /\ Len(a \o d) = Len(a) + Len(d)
      BY <1>3, <2>1, SeqConcat
    <3> QED BY <2>1, <3>1, <3>2, <3>3
  <2>3. m + 1 \in 0..Len(a \o d)
    BY <1>4, <2>2
  <2>4. SubSeq(c, 1, m + 1) = SubSeq(a \o d, 1, m + 1)
    <3> HIDE DEF c, m
    <3> QED BY <2>1, <2>2, <2>3, SeqPrefix
  <2>5. SubSeq(c, 1, m + 1) = a \o d
    BY <2>2, <2>4, SeqWhole
  <2>6. \A g : Count(a \o d, g) = Count(a, g) + Count(d, g)
    BY <1>3, <2>1, CountConcat
  <2>7. c[m + 1].args = args
    BY <1>1, <1>4
  <2> HIDE DEF c, m
  <2> QED BY <2>5, <2>6, <2>7 DEF Announced, Announces, d
<1>6. Count(Call(fn, args), "SetSQLParams") = 0 /\ Count(Call(fn, args), "SetResultParams") = 0
  <2> DEFINE d == Call(fn, args)
  <2>1. IsSeq(d) /\ Len(d) = 1 /\ d[1].fn = fn
    BY SeqParts DEF Call
  <2> HIDE DEF d
  <2>2. fn # "SetSQLParams" /\ fn # "SetResultParams" /\ \A k \in 1..Len(d) : k = 1
    BY <1>0, <2>1 DEF Setters
  <2>3. Count(d, "SetSQLParams") = 0 /\ Count(d, "SetResultParams") = 0
    BY <2>1, <2>2, CountNone
  <2> QED BY <2>3 DEF d
<1>7. Count(a, "SetSQLParams") \in Nat /\ Count(a, "SetResultParams") \in Nat
  BY <1>3, CountConcat
<1>8. exact /\ ~Broken(a) => Announced(c, m + 1)
  <2>1. Announced(c, m + 1) <=> Announces(args, Count(a, "SetSQLParams"), Count(a, "SetResultParams"))
    BY <1>5, <1>6, <1>7
  <2> QED BY <1>0, <2>1
<1>9. Frame(c, exact, tabled)
  <2>1. ASSUME NEW k \in 1..Len(b), b[k].kind = "call"
        PROVE  k = 1 /\ b[k].fn = fn
    <3>1. k = 1 \/ k = 2
      BY <1>1
    <3> QED BY <1>1, <2>1, <3>1
  <2> QED BY <1>0, <1>2, <1>8, <2>1, FrameFollowed
<1>10. (Broken(c) => Broken(a)) /\ (Broken(a) => Broken(c)) /\ (Quiet(a) /\ p = FALSE => Quiet(c))
  BY <1>2, <1>3, PartConcat
<1>11. c[Len(c) - 1].fn = fn
  BY <1>1, <1>4
<1>12. ASSUME Quiet(a), NEW k \in 1..Len(c), c[k].kind = "end"
       PROVE  c[k].period = IF k = Len(c) THEN p ELSE FALSE
  <2>1. k \in 1..m \/ k = m + 1 \/ k = m + 2
    BY <1>4
  <2>2. CASE k \in 1..m
    <3>1. c[k] = a[k] /\ k # Len(c) /\ k \in 1..Len(a)
      BY <1>4, <2>2
    <3> QED BY <1>12, <3>1 DEF Quiet
  <2>3. CASE k = m + 1
    BY <1>1, <1>4, <1>12, <2>3
  <2>4. CASE k = m + 2
    BY <1>1, <1>4, <2>4
  <2> QED BY <2>1, <2>2, <2>3, <2>4
<1> HIDE DEF c
<1>13. Len(c) = Len(a) + 2
  BY <1>4
<1>14. c[1] = IF Len(a) = 0 THEN [kind |-> "call", fn |-> fn, args |-> args] ELSE a[1]
  <2>1. CASE m = 0
    BY <1>1, <1>4, <2>1
  <2>2. CASE m # 0
    <3>1. 1 \in 1..m
      BY <1>4, <2>2
    <3> QED BY <1>4, <2>2, <3>1
  <2> QED BY <2>1, <2>2
<1> QED BY <1>9, <1>10, <1>11, <1>12, <1>13, <1>14 DEF b, c, Called

-----------------------------------------------------------------------------
(* Host variables as parameters                                            *)

LEMMA FlattenSets ==
  ASSUME NEW q, NEW fn, IsSeq(q), \A i \in 1..Len(q) : Sets(q[i], fn)
  PROVE  /\ Sets(FlattenSeq(q), fn)
         /\ (\A i \in 1..Len(q) : Broken(q[i]) \/ Count(q[i], fn) = 1) =>
               Broken(FlattenSeq(q)) \/ Count(FlattenSeq(q), fn) = Len(q)
         /\ Len(q) > 0 => /\ Broken(q[1]) => Broken(FlattenSeq(q))
                          /\ Count(FlattenSeq(q), fn) >= Count(q[1], fn)
<1> DEFINE n == Len(q)
<1>1. n \in Nat /\ \A i \in 1..n : IsSeq(q[i]) /\ Part(q[i])
  BY SeqIs DEF Sets, Part
<1>2. Count(<<>>, fn) = 0 /\ IsSeq(<<>>)
  <2>1. IsSeq(<<>>) /\ Len(<<>>) = 0
    BY SeqParts
  <2>2. \A k \in 1..Len(<<>>) : <<>>[k].kind = "call" => <<>>[k].fn # fn
    BY <2>1
  <2> QED BY <2>1, <2>2, CountNone
<1>3. CASE n = 0
  <2>1. q = <<>> /\ FlattenSeq(q) = q
    BY <1>3, SeqEmpty DEF FlattenSeq
  <2>2. Sets(<<>>, fn)
    BY SetsEmpty
  <2> QED BY <1>2, <1>3, <2>1, <2>2
<1>4. CASE n # 0
  <2>0. n > 0 /\ 1 \in 1..n /\ n \in 1..n /\ 1 - 1 = 0
    BY <1>1, <1>4
  <2>1. PICK g : /\ g[0] = <<>> /\ FlattenSeq(q) = g[n]
                 /\ \A i \in 0..n : IsSeq(g[i])
                 /\ \A i \in 1..n : g[i] = g[i - 1] \o q[i]
    BY <1>1, <2>0, Flatten
  <2> HIDE DEF n
  <2> DEFINE S == {i \in 0..n : Sets(g[i], fn)}
  <2>2. \A i \in 0..n : i \in S
    <3>1. 0 \in S
      BY <1>1, <2>1, SetsEmpty
    <3>2. ASSUME NEW i \in 1..n, i - 1 \in S PROVE i \in S
      <4>1. Sets(g[i - 1], fn) /\ Sets(q[i], fn) /\ i \in 0..n /\ g[i] = g[i - 1] \o q[i]
        <5>1. g[i] = g[i - 1] \o q[i]
          BY <2>1, Zenon
        <5>2. Sets(q[i], fn)
          BY DEF n
        <5>3. Sets(g[i - 1], fn) /\ i \in 0..n
          BY <1>1, <3>2
        <5> QED BY <5>1, <5>2, <5>3
      <4> QED BY <4>1, SetsConcat
    <3> HIDE DEF S
    <3> QED BY <1>1, <3>1, <3>2, InductInterval
  <2>3. \A i \in 0..n : Sets(g[i], fn) /\ Part(g[i])
    BY <2>2 DEF Sets
  <2>4. ASSUME NEW i \in 1..n
        PROVE  /\ Broken(g[i - 1]) => Broken(g[i])
               /\ Broken(q[i]) => Broken(g[i])
               /\ Count(g[i], fn) = Count(g[i - 1], fn) + Count(q[i], fn)
               /\ Count(g[i - 1], fn) \in Nat /\ Count(q[i], fn) \in Nat
    <3>1. i - 1 \in 0..n /\ g[i] = g[i - 1] \o q[i]
      <4>1. g[i] = g[i - 1] \o q[i]
        BY <2>1, Zenon
      <4>2. i - 1 \in 0..n
        BY <1>1
      <4> QED BY <4>1, <4>2
    <3>2. Part(g[i - 1]) /\ Part(q[i]) /\ IsSeq(g[i - 1]) /\ IsSeq(q[i])
      BY <1>1, <2>1, <2>3, <3>1
    <3>3. (Broken(g[i - 1]) => Broken(g[i])) /\ (Broken(q[i]) => Broken(g[i]))
      BY <3>1, <3>2, PartConcat
    <3>4. Count(g[i], fn) = Count(g[i - 1], fn) + Count(q[i], fn)
      BY <3>1, <3>2, CountConcat
    <3>5. Count(g[i - 1], fn) \in Nat /\ Count(q[i], fn) \in Nat
      BY <3>2, CountConcat
    <3> QED BY <3>3, <3>4, <3>5
  <2>5. ASSUME \A i \in 1..n : Broken(q[i]) \/ Count(q[i], fn) = 1
        PROVE  Broken(g[n]) \/ Count(g[n], fn) = n
    <3> DEFINE T == {i \in 0..n : Broken(g[i]) \/ Count(g[i], fn) = i}
    <3>1. 0 \in T
      BY <1>1, <1>2, <2>1
    <3>2. ASSUME NEW i \in 1..n, i - 1 \in T PROVE i \in T
      <4>1. Broken(g[i - 1]) \/ Count(g[i - 1], fn) = i - 1
        BY <3>2
      <4>2. Broken(q[i]) \/ Count(q[i], fn) = 1
        BY <2>5
      <4>3. i \in 0..n /\ (i - 1) + 1 = i
        BY <1>1
      <4>4. Broken(g[i]) \/ Count(g[i], fn) = i
        BY <2>4, <4>1, <4>2, <4>3
      <4> QED BY <4>3, <4>4
    <3> HIDE DEF T
    <3>3. \A i \in 0..n : i \in T
      BY <1>1, <3>1, <3>2, InductInterval
    <3> QED BY <1>1, <3>3 DEF T
  <2>6. (Broken(q[1]) => Broken(g[n])) /\ Count(g[n], fn) >= Count(q[1], fn)
    <3> DEFINE T == {i \in 0..n : i > 0 => /\ Broken(q[1]) => Broken(g[i])
                                           /\ Count(g[i], fn) >= Count(q[1], fn)}
    <3>1. 0 \in T
      BY <1>1
    <3>2. ASSUME NEW i \in 1..n, i - 1 \in T PROVE i \in T
      <4>1. i \in 0..n /\ Count(q[1], fn) \in Nat
        BY <1>1, <2>0, <2>4
      <4>2. CASE i = 1
        <5>1. Count(g[0], fn) = 0
          BY <1>2, <2>1
        <5>2. Count(g[1], fn) = Count(q[1], fn) /\ (Broken(q[1]) => Broken(g[1]))
          BY <2>0, <2>4, <5>1
        <5> QED BY <4>1, <4>2, <5>2
      <4>3. CASE i # 1
        <5>1. i - 1 > 0
          BY <1>1, <4>3
        <5>2. (Broken(q[1]) => Broken(g[i - 1])) /\ Count(g[i - 1], fn) >= Count(q[1], fn)
          BY <3>2, <5>1
        <5>3. (Broken(q[1]) => Broken(g[i])) /\ Count(g[i], fn) >= Count(q[1], fn)
          BY <2>4, <4>1, <5>2
        <5> QED BY <4>1, <5>3
      <4> QED BY <4>2, <4>3
    <3> HIDE DEF T
    <3>3. \A i \in 0..n : i \in T
      BY <1>1, <3>1, <3>2, InductInterval
    <3> QED BY <1>1, <2>0, <3>3 DEF T
  <2>7. Sets(g[n], fn)
    BY <1>1, <2>3
  <2> QED BY <2>1, <2>5, <2>6, <2>7 DEF n
<1> QED BY <1>3, <1>4

LEMMA CountOne ==
  ASSUME NEW fn, NEW args, NEW p
  PROVE  Count(Call(fn, args) \o End(p), fn) = 1
<1> DEFINE c == Call(fn, args) \o End(p)
<1>1. /\ Len(c) = 2 /\ c[1] = [kind |-> "call", fn |-> fn, args |-> args]
      /\ c[2] = [kind |-> "end", period |-> p]
  BY CountPair
<1> HIDE DEF c
<1>2. 1..Len(c) = {1, 2}
  BY <1>1
<1>3. {k \in 1..Len(c) : c[k].kind = "call" /\ c[k].fn = fn} = {1}
  BY <1>1, <1>2
<1>4. Count(c, fn) = 1
  BY <1>3, FS_Singleton DEF Count
<1> QED BY <1>4 DEF c

(* One parameter set.                                                      *)
LEMMA SetParamIs ==
  ASSUME NEW fn, NEW name, NEW t, NEW iteration
  PROVE  LET f == SetParam(fn, name, t, iteration)
         IN  Sets(f, fn) /\ ~Broken(f) /\ Count(f, fn) = 1
<1> DEFINE args == [host |-> name, type |-> t.type, digits |-> t.digits, scale |-> t.scale,
                    first |-> iteration > 0]
           f == Call(fn, args) \o End(FALSE)
<1>1. DOMAIN args = {"host", "type", "digits", "scale", "first"}
  OBVIOUS
<1>2. SetParam(fn, name, t, iteration) = f
  BY DEF SetParam
<1> HIDE DEF args
<1>3. "count" \notin DOMAIN args /\ "results" \notin DOMAIN args
  BY <1>1
<1>4. Part(f) /\ ~Broken(f) /\ Alternating(f) /\ Quiet(f) /\ Tame(f, fn)
  BY <1>3, PairIs
<1>5. Count(f, fn) = 1
  BY CountOne
<1> QED BY <1>2, <1>4, <1>5 DEF Sets

(* The parameters of a list of names.                                      *)
LEMMA EachIs ==
  ASSUME NEW tree, NEW names, IsSeq(names), NEW iteration, NEW fn
  PROVE  LET f == Each(tree, names, iteration, fn)
         IN  /\ Sets(f, fn)
             /\ Len(names) > 0 => Broken(f) \/ Count(f, fn) >= 1
             /\ Len(names) = 1 => Broken(f) \/ Count(f, fn) = 1
<1> DEFINE n == Len(names)
           Bad(i) == Error(Type(tree, names[i]).ret, names[i])
           One(i) == SetParam(fn, names[i], Type(tree, names[i]), iteration)
           q == [i \in 1..n |->
                   IF \E j \in 1..(i - 1) : Type(tree, names[j]).ret # 0 THEN <<>>
                   ELSE IF Type(tree, names[i]).ret # 0 THEN Bad(i) ELSE One(i)]
           f == FlattenSeq(q)
<1>1. n \in Nat
  BY SeqIs
<1>2. IsSeq(q) /\ Len(q) = n
  BY <1>1, SeqMade
<1>3. Each(tree, names, iteration, fn) = f
  BY DEF Each
<1>4. \A i : Sets(Bad(i), fn) /\ Broken(Bad(i))
  BY SetsError
<1>5. \A i : Sets(One(i), fn) /\ ~Broken(One(i)) /\ Count(One(i), fn) = 1
  BY SetParamIs
<1> HIDE DEF Bad, One
<1>6. Sets(<<>>, fn)
  BY SetsEmpty
<1>7. \A i \in 1..n : q[i] = <<>> \/ q[i] = Bad(i) \/ q[i] = One(i)
  OBVIOUS
<1>8. n > 0 => 1 \in 1..n /\ (q[1] = Bad(1) \/ q[1] = One(1))
  <2>1. \A j \in 1..(1 - 1) : FALSE
    OBVIOUS
  <2> QED BY <1>1, <2>1
<1> HIDE DEF q, n
<1>9. \A i \in 1..Len(q) : Sets(q[i], fn)
  BY <1>2, <1>4, <1>5, <1>6, <1>7
<1>10. /\ Sets(f, fn)
       /\ (\A i \in 1..Len(q) : Broken(q[i]) \/ Count(q[i], fn) = 1) =>
               Broken(f) \/ Count(f, fn) = Len(q)
       /\ Len(q) > 0 => (Broken(q[1]) => Broken(f)) /\ Count(f, fn) >= Count(q[1], fn)
  BY <1>2, <1>9, FlattenSets
<1>11. n > 0 => Broken(f) \/ Count(f, fn) >= 1
  <2>1. n > 0 => Broken(q[1]) \/ Count(q[1], fn) = 1
    BY <1>4, <1>5, <1>8
  <2>2. Count(f, fn) \in Nat
    BY <1>10, CountConcat DEF Sets, Part
  <2> HIDE DEF f
  <2> QED BY <1>2, <1>10, <2>1, <2>2
<1>12. n = 1 => Broken(f) \/ Count(f, fn) = 1
  <2>1. n = 1 => \A i \in 1..Len(q) : i = 1
    BY <1>2
  <2>2. n = 1 => Broken(q[1]) \/ Count(q[1], fn) = 1
    BY <1>4, <1>5, <1>8
  <2> HIDE DEF f
  <2> QED BY <1>2, <1>10, <2>1, <2>2
<1> QED BY <1>3, <1>10, <1>11, <1>12 DEF n

-----------------------------------------------------------------------------
(* Groups of host variables                                                *)

(* A tree whose walks come to their end.                                   *)
Walkable(tree) == WellLinked(tree.f) /\ tree.first \in 0..Len(tree.f)

(* A name that has a type is that of a field.                              *)
LEMMA TypeIs ==
  ASSUME NEW tree, Walkable(tree), NEW name
  PROVE  LET i == getfieldbyname(tree, name)
         IN  /\ i \in 0..Len(tree.f)
             /\ i # Null => tree.f[i].sname = name
             /\ Type(tree, name).ret = 0 => i # Null
<1> DEFINE i == getfieldbyname(tree, name)
<1>1. i \in 0..Len(tree.f) /\ (i # Null => tree.f[i].sname = name)
  BY FoundIs DEF getfieldbyname, Walkable
<1>2. i = Null => Type(tree, name).ret = 1
  <2> HIDE DEF i
  <2> SUFFICES ASSUME i = Null PROVE Type(tree, name).ret = 1
    OBVIOUS
  <2>1. gethostvarianttype(tree, name) = [ret |-> 1, type |-> 0, digits |-> 0, scale |-> 0]
    BY DEF gethostvarianttype, i
  <2> QED BY <2>1 DEF Type
<1> QED BY <1>1, <1>2

LEMMA NamesIs ==
  ASSUME NEW tree, NEW places, IsSeq(places)
  PROVE  /\ IsSeq(NamesOf(tree, places)) /\ Len(NamesOf(tree, places)) = Len(places)
         /\ \A i \in 1..Len(places) : NamesOf(tree, places)[i] = tree.f[places[i]].sname
<1> DEFINE q == [i \in 1..Len(places) |-> tree.f[places[i]].sname]
<1>1. Len(places) \in Nat
  BY SeqIs
<1>2. IsSeq(q) /\ Len(q) = Len(places)
  BY <1>1, SeqMade
<1> QED BY <1>2 DEF NamesOf

(* The members of a group, some unless the tree is hollow.                 *)
LEMMA GroupIs ==
  ASSUME NEW tree, Walkable(tree), NEW name
  PROVE  LET q == NamesOf(tree, Children(tree.f, getfieldbyname(tree, name)))
         IN  IsGroup(tree, name) => IsSeq(q) /\ (Hollow(tree) \/ Len(q) > 0)
<1> SUFFICES ASSUME IsGroup(tree, name)
             PROVE  LET q == NamesOf(tree, Children(tree.f, getfieldbyname(tree, name)))
                    IN  IsSeq(q) /\ (Hollow(tree) \/ Len(q) > 0)
  OBVIOUS
<1> DEFINE i == getfieldbyname(tree, name)
           c == Children(tree.f, i)
<1>1. Type(tree, name).ret = 0
  BY DEF IsGroup
<1>2. i \in 0..Len(tree.f) /\ i # Null /\ tree.f[i].sname = name /\ Len(tree.f) \in Nat
  BY <1>1, TypeIs, SeqIs DEF Walkable, WellLinked
<1> HIDE DEF i
<1>3. i \in 1..Len(tree.f) /\ DOMAIN tree.f = 1..Len(tree.f)
  BY <1>2, SeqIs DEF Null, Walkable, WellLinked
<1>4. tree.f[i].children \in 0..Len(tree.f)
  BY <1>2, <1>3 DEF Walkable, WellLinked, Null
<1>5. c \in Seq(1..Len(tree.f)) /\ (tree.f[i].children # Null => c # <<>>)
  BY <1>4, SistersIs DEF Walkable, Children
<1>6. Hollow(tree) \/ tree.f[i].children # Null
  BY <1>2, <1>3 DEF Hollow
<1> HIDE DEF c
<1>7. IsSeq(c)
  BY <1>5 DEF IsSeq
<1>8. Len(c) \in Nat /\ (c # <<>> => Len(c) > 0)
  BY <1>7, SeqIs, SeqEmpty
<1>9. IsSeq(NamesOf(tree, c)) /\ Len(NamesOf(tree, c)) = Len(c)
  BY <1>7, NamesIs
<1> QED BY <1>5, <1>6, <1>8, <1>9 DEF c, i

(* One host variable: a parameter, or those of a group.                    *)
LEMMA ParamIs ==
  ASSUME NEW tree, Walkable(tree), NEW name, NEW iteration
  PROVE  LET f == ppoutputparam(tree, name, iteration)
         IN  /\ Sets(f, "SetSQLParams")
             /\ ~Hollow(tree) => Broken(f) \/ Count(f, "SetSQLParams") >= 1
             /\ ~IsGroup(tree, name) => Broken(f) \/ Count(f, "SetSQLParams") = 1
<1> DEFINE t == Type(tree, name)
           group == NamesOf(tree, Children(tree.f, getfieldbyname(tree, name)))
           fn == "SetSQLParams"
           f == ppoutputparam(tree, name, iteration)
<1>1. CASE t.ret # 0
  <2>1. f = Error(t.ret, name)
    BY <1>1 DEF ppoutputparam
  <2>2. Sets(Error(t.ret, name), fn) /\ Broken(Error(t.ret, name))
    BY SetsError
  <2> QED BY <2>1, <2>2
<1>2. CASE t.ret = 0 /\ t.type = VARTYPE_GROUP
  <2>1. IsGroup(tree, name) /\ f = Each(tree, group, iteration, fn)
    BY <1>2 DEF ppoutputparam, IsGroup
  <2>2. IsSeq(group) /\ (Hollow(tree) \/ Len(group) > 0)
    BY <2>1, GroupIs
  <2> HIDE DEF group
  <2>3. Sets(Each(tree, group, iteration, fn), fn)
        /\ (Len(group) > 0 => Broken(Each(tree, group, iteration, fn))
                              \/ Count(Each(tree, group, iteration, fn), fn) >= 1)
    BY <2>2, EachIs
  <2> QED BY <2>1, <2>2, <2>3
<1>3. CASE t.ret = 0 /\ t.type # VARTYPE_GROUP
  <2> DEFINE one == <<name>>
             e == Each(tree, one, iteration, fn)
  <2>1. f = e
    BY <1>3 DEF ppoutputparam
  <2>2. IsSeq(one) /\ Len(one) = 1
    BY SeqParts
  <2> HIDE DEF one
  <2>3. Sets(e, fn) /\ (Len(one) = 1 => Broken(e) \/ Count(e, fn) = 1)
    BY <2>2, EachIs
  <2> HIDE DEF e
  <2> QED BY <2>1, <2>2, <2>3
<1> QED BY <1>1, <1>2, <1>3

(* The host variables of a statement.                                      *)
LEMMA ParamsIs ==
  ASSUME NEW tree, Walkable(tree), NEW e, IsSeq(e.hosts), NEW iteration
  PROVE  LET f == Params(tree, e, iteration)
         IN  /\ Sets(f, "SetSQLParams")
             /\ ~Hollow(tree) /\ Len(e.hosts) > 0 => Broken(f) \/ Count(f, "SetSQLParams") >= 1
             /\ (\A k \in 1..Len(e.hosts) : ~IsGroup(tree, e.hosts[k])) =>
                   Broken(f) \/ Count(f, "SetSQLParams") = Len(e.hosts)
<1> DEFINE n == Len(e.hosts)
           fn == "SetSQLParams"
           q == [i \in 1..n |-> ppoutputparam(tree, e.hosts[i], iteration)]
           f == FlattenSeq(q)
<1>1. n \in Nat
  BY SeqIs
<1>2. IsSeq(q) /\ Len(q) = n
  BY <1>1, SeqMade
<1>3. Params(tree, e, iteration) = f
  BY DEF Params
<1>4. ASSUME NEW i \in 1..n
      PROVE  /\ Sets(q[i], fn) /\ (~Hollow(tree) => Broken(q[i]) \/ Count(q[i], fn) >= 1)
             /\ ~IsGroup(tree, e.hosts[i]) => Broken(q[i]) \/ Count(q[i], fn) = 1
  <2>1. q[i] = ppoutputparam(tree, e.hosts[i], iteration)
    OBVIOUS
  <2> HIDE DEF q
  <2> QED BY <2>1, ParamIs
<1> HIDE DEF q, n
<1>5. \A i \in 1..Len(q) : Sets(q[i], fn)
  BY <1>2, <1>4
<1>6. /\ Sets(f, fn)
      /\ (\A i \in 1..Len(q) : Broken(q[i]) \/ Count(q[i], fn) = 1) =>
              Broken(f) \/ Count(f, fn) = Len(q)
      /\ Len(q) > 0 => (Broken(q[1]) => Broken(f)) /\ Count(f, fn) >= Count(q[1], fn)
  BY <1>2, <1>5, FlattenSets
<1>7. ~Hollow(tree) /\ n > 0 => Broken(f) \/ Count(f, fn) >= 1
  <2> SUFFICES ASSUME ~Hollow(tree), n > 0 PROVE Broken(f) \/ Count(f, fn) >= 1
    OBVIOUS
  <2>1. 1 \in 1..n /\ 1 \in 1..Len(q)
    BY <1>1, <1>2
  <2>2. Broken(q[1]) \/ Count(q[1], fn) >= 1
    BY <1>4, <2>1
  <2>3. Count(f, fn) \in Nat /\ Count(q[1], fn) \in Nat
    BY <1>5, <1>6, <2>1, CountConcat DEF Sets, Part
  <2> HIDE DEF f
  <2> QED BY <1>2, <1>6, <2>2, <2>3
<1>8. (\A k \in 1..n : ~IsGroup(tree, e.hosts[k])) => Broken(f) \/ Count(f, fn) = n
  BY <1>2, <1>4, <1>6
<1> QED BY <1>3, <1>6, <1>7, <1>8 DEF n

-----------------------------------------------------------------------------
(* The groups of a group, which FETCH opens                                *)

LEMMA ResGroupIs ==
  ASSUME NEW tree, Walkable(tree), NEW i \in 0..Len(tree.f), NEW iteration
  PROVE  LET r == ppoutputresgroup(tree, i, iteration)
         IN  /\ Sets(r, "SetResultParams")
             /\ ~Hollow(tree) /\ i # Null => Broken(r) \/ Count(r, "SetResultParams") >= 1
<1> DEFINE f == tree.f
           n == Len(f)
           fn == "SetResultParams"
           T(k) == Type(tree, f[k].sname)
           Bad(k) == Error(T(k).ret, f[k].sname)
           One(k) == SetParam(fn, f[k].sname, T(k), iteration)
           Grouped(k) == T(k).type = VARTYPE_GROUP
           a == [k \in 1..n |-> f[k].children]
           b == [k \in 1..n |-> f[k].sister]
           E1 == UNION {{Bad(k)[j] : j \in 1..Len(Bad(k))} : k \in 1..n}
           E2 == UNION {{One(k)[j] : j \in 1..Len(One(k))} : k \in 1..n}
           E == E1 \cup E2
           V == Seq(E)
           step == [t \in (1..n) \X V \X V |->
                      IF T(t[1]).ret # 0 THEN Bad(t[1])
                      ELSE (IF Grouped(t[1]) THEN t[2] ELSE One(t[1])) \o t[3]]
           Is(u) == u = [k \in 0..n |->
                          IF k = Null THEN <<>>
                          ELSE IF T(k).ret # 0 THEN Bad(k)
                          ELSE (IF Grouped(k) THEN u[f[k].children] ELSE One(k)) \o u[f[k].sister]]
<1>1. n \in Nat /\ Onward(n, a) /\ Onward(n, b) /\ DOMAIN f = 1..n
  BY Pointers, SeqIs DEF Walkable, WellLinked
<1>2. \A k : Sets(Bad(k), fn) /\ Broken(Bad(k))
  BY SetsError
<1>3. \A k : Sets(One(k), fn) /\ ~Broken(One(k)) /\ Count(One(k), fn) = 1
  BY SetParamIs
<1>4. \A k : IsSeq(Bad(k)) /\ IsSeq(One(k))
  BY <1>2, <1>3 DEF Sets, Part
<1>5. \A k \in 1..n : a[k] = f[k].children /\ b[k] = f[k].sister
  OBVIOUS
<1> HIDE DEF T, Bad, One, Grouped
<1>6. ASSUME NEW k \in 1..n PROVE Bad(k) \in V /\ One(k) \in V
  <2>1. /\ Len(Bad(k)) \in Nat /\ Bad(k) = [j \in 1..Len(Bad(k)) |-> Bad(k)[j]]
        /\ Len(One(k)) \in Nat /\ One(k) = [j \in 1..Len(One(k)) |-> One(k)[j]]
    BY <1>4, SeqIs
  <2>2. /\ \A j \in 1..Len(Bad(k)) : Bad(k)[j] \in E
        /\ \A j \in 1..Len(One(k)) : One(k)[j] \in E
    <3>1. ASSUME NEW j \in 1..Len(Bad(k)) PROVE Bad(k)[j] \in E1
      OBVIOUS
    <3>2. ASSUME NEW j \in 1..Len(One(k)) PROVE One(k)[j] \in E2
      OBVIOUS
    <3> HIDE DEF E1, E2
    <3> QED BY <3>1, <3>2
  <2> HIDE DEF E
  <2>3. Bad(k) \in [1..Len(Bad(k)) -> E] /\ One(k) \in [1..Len(One(k)) -> E]
    BY <2>1, <2>2, Zenon
  <2> QED BY <2>1, <2>3
<1> HIDE DEF E
<1>7. Stepping(1..n, V, step)
  <2>1. \A x, y \in V : x \o y \in V
    OBVIOUS
  <2> HIDE DEF V
  <2>2. step \in [(1..n) \X V \X V -> V]
    BY <1>6, <2>1
  <2> QED BY <2>2 DEF Stepping
<1>8. <<>> \in V
  OBVIOUS
<1>9. \A k \in 1..n, x, y \in V : step[<<k, x, y>>] =
                      IF T(k).ret # 0 THEN Bad(k)
                      ELSE (IF Grouped(k) THEN x ELSE One(k)) \o y
  <2> HIDE DEF V
  <2> QED OBVIOUS
<1>10. \A k \in 1..n : /\ a[k] \in 0..n /\ (a[k] # 0 => a[k] > k)
                       /\ b[k] \in 0..n /\ (b[k] # 0 => b[k] > k)
  BY <1>1 DEF Onward
<1> HIDE DEF step, a, b, V, n
<1>11. PICK g : Followed(1..n, a, b, V, <<>>, step, g)
  BY <1>1, <1>7, <1>8, OnwardRecursion
<1>12. Is(g)
  <2>1. ASSUME NEW k \in 0..n
        PROVE  g[k] = IF k = Null THEN <<>>
                      ELSE IF T(k).ret # 0 THEN Bad(k)
                      ELSE (IF Grouped(k) THEN g[f[k].children] ELSE One(k)) \o g[f[k].sister]
    <3>1. CASE k = Null
      BY <1>11, <3>1 DEF Followed, Null
    <3>2. CASE k # Null
      <4>1. k \in 1..n /\ a[k] \in (1..n) \cup {0} /\ b[k] \in (1..n) \cup {0}
        BY <1>1, <1>10, <3>2 DEF Null
      <4>2. g[k] = step[<<k, g[a[k]], g[b[k]]>>] /\ g[a[k]] \in V /\ g[b[k]] \in V
        BY <1>11, <4>1 DEF Followed
      <4>3. g[k] = IF T(k).ret # 0 THEN Bad(k)
                   ELSE (IF Grouped(k) THEN g[a[k]] ELSE One(k)) \o g[b[k]]
        BY <1>9, <4>1, <4>2
      <4> QED BY <1>5, <3>2, <4>1, <4>3
    <3> QED BY <3>1, <3>2
  <2>2. g = [k \in 0..n |-> g[k]]
    <3>1. (1..n) \cup {0} = 0..n
      BY <1>1
    <3> QED BY <1>11, <3>1 DEF Followed
  <2> QED BY <2>1, <2>2
<1> DEFINE group == CHOOSE u : Is(u)
<1>13. Is(group)
  <2> HIDE DEF Is
  <2> QED BY <1>12, Zenon
<1>14. ppoutputresgroup(tree, i, iteration) = group[i]
  BY DEF ppoutputresgroup, T, Bad, One, Grouped, n
<1> HIDE DEF group
<1>15. \A k \in 0..n : group[k] =
          IF k = Null THEN <<>>
          ELSE IF T(k).ret # 0 THEN Bad(k)
          ELSE (IF Grouped(k) THEN group[f[k].children] ELSE One(k)) \o group[f[k].sister]
  BY <1>13, Zenon
<1> DEFINE Right(k) == /\ Sets(group[k], fn)
                       /\ ~Hollow(tree) /\ k # 0 => Broken(group[k]) \/ Count(group[k], fn) >= 1
           S == {k \in 1..n : Right(k)}
<1>16. Right(0)
  <2>1. 0 \in 0..n /\ 0 = Null
    BY <1>1 DEF Null
  <2>2. group[0] = <<>>
    BY <1>15, <2>1, Zenon
  <2> QED BY <2>2, SetsEmpty
<1>17. \A k \in 1..n : (\A j \in (k + 1)..n : j \in S) => k \in S
  <2> SUFFICES ASSUME NEW k \in 1..n, \A j \in (k + 1)..n : j \in S PROVE Right(k)
    OBVIOUS
  <2>1. k \in 0..n /\ k # Null
    BY <1>1 DEF Null
  <2>2. group[k] = IF T(k).ret # 0 THEN Bad(k)
                   ELSE (IF Grouped(k) THEN group[f[k].children] ELSE One(k)) \o group[f[k].sister]
    BY <1>15, <2>1, Zenon
  <2>3. /\ f[k].children = 0 \/ f[k].children \in (k + 1)..n
        /\ f[k].sister = 0 \/ f[k].sister \in (k + 1)..n
    BY <1>1, <1>5, <1>10
  <2>4. Right(f[k].children) /\ Right(f[k].sister)
    BY <1>16, <2>3
  <2>5. CASE T(k).ret # 0
    BY <1>2, <2>2, <2>5
  <2>6. CASE T(k).ret = 0
    <3> DEFINE x == IF Grouped(k) THEN group[f[k].children] ELSE One(k)
               y == group[f[k].sister]
    <3>1. group[k] = x \o y
      BY <2>2, <2>6
    <3>2. Sets(x, fn) /\ Sets(y, fn)
      BY <1>3, <2>4
    <3>3. ~Hollow(tree) => Broken(x) \/ Count(x, fn) >= 1
      <4>1. CASE Grouped(k)
        <5>1. IsGroup(tree, f[k].sname)
          BY <2>6, <4>1 DEF IsGroup, T, Grouped
        <5>2. ~Hollow(tree) => f[k].children # 0
          BY <1>1, <5>1 DEF Hollow, Null
        <5> QED BY <2>4, <4>1, <5>2
      <4>2. CASE ~Grouped(k)
        BY <1>3, <4>2
      <4> QED BY <4>1, <4>2
    <3> HIDE DEF x, y
    <3>4. Sets(x \o y, fn)
      BY <3>2, SetsConcat
    <3>5. Broken(x) => Broken(x \o y)
      BY <3>2, PartConcat DEF Sets
    <3>6. Count(x \o y, fn) = Count(x, fn) + Count(y, fn) /\ Count(x, fn) \in Nat
          /\ Count(y, fn) \in Nat
      <4>1. IsSeq(x) /\ IsSeq(y)
        BY <3>2 DEF Sets, Part
      <4> QED BY <4>1, CountConcat
    <3> QED BY <3>1, <3>3, <3>4, <3>5, <3>6
  <2> QED BY <2>5, <2>6
<1> HIDE DEF S, Right
<1>18. \A k \in 1..n : k \in S
  BY <1>1, <1>17, OnwardInduction
<1>19. Right(i)
  <2>1. i = 0 \/ i \in 1..n
    BY <1>1 DEF n
  <2> QED BY <1>16, <1>18, <2>1 DEF S
<1> QED BY <1>14, <1>19 DEF Right, Null

-----------------------------------------------------------------------------
(* Texts cut into lines                                                    *)

(* An even run of leading bytes ends no character in the middle.           *)
LEMMA RunEven ==
  ASSUME NEW b, NEW k \in Nat, NEW j \in 1..k, b[j] # "D",
         \A i \in (j + 1)..k : b[i] = "D", (k - j) % 2 = 0
  PROVE  ~Splits(b, k)
<1> SUFFICES ASSUME NEW m \in 0..k, (k - m) % 2 = 1, \A i \in (m + 1)..k : b[i] = "D",
                    m = 0 \/ b[m] # "D"
             PROVE  FALSE
  BY DEF Splits
<1>1. CASE m < j
  <2>1. j \in (m + 1)..k
    BY <1>1
  <2> QED BY <2>1
<1>2. CASE m = j
  BY <1>2
<1>3. CASE m > j
  <2>1. m \in (j + 1)..k /\ m # 0
    BY <1>3
  <2> QED BY <2>1
<1> QED BY <1>1, <1>2, <1>3

(* Where a line of n bytes from position at may end.                       *)
Cut(b, at, n) ==
  at + n = Len(b) + 1 \/ ~Splits(b, (at + n) - 1) \/ \A k \in at..(at + n - 1) : b[k] = "D"

(* How far back the first byte that leads nothing is.                      *)
Back(b, at, width, k) ==
  /\ k \in 1..width
  /\ k = width \/ b[at + width - k] # "D"
  /\ \A j \in 1..(k - 1) : b[at + width - j] = "D"

LEMMA BackIs ==
  ASSUME NEW b, NEW at \in Nat, NEW width \in Nat, width > 0
  PROVE  \E k : Back(b, at, width, k)
<1> DEFINE T == {k \in 1..width : k = width \/ b[at + width - k] # "D"}
<1>1. T \subseteq Nat /\ T # {}
  <2>1. width \in T
    OBVIOUS
  <2> QED BY <2>1
<1> HIDE DEF T
<1>2. PICK k \in T : \A y \in T : k <= y
  BY <1>1, LeastNat
<1>3. k \in 1..width /\ (k = width \/ b[at + width - k] # "D")
  BY DEF T
<1>4. ASSUME NEW j \in 1..(k - 1) PROVE b[at + width - j] = "D"
  <2>1. j \in 1..width /\ j # width /\ j < k /\ k \in Nat
    BY <1>3
  <2>2. j \notin T
    <3>1. ~(k <= j)
      BY <2>1
    <3> QED BY <1>2, <3>1
  <2> QED BY <2>1, <2>2 DEF T
<1> QED BY <1>3, <1>4 DEF Back

LEMMA SubstringIs ==
  ASSUME NEW b, IsSeq(b), NEW at \in 1..(Len(b) + 1), NEW width \in Nat, width > 1, NEW end \in BOOLEAN
  PROVE  LET n == substring(b, at, width, end)
             rest == Len(b) - at + 1
         IN  /\ width >= rest => n = rest
             /\ width < rest => n = width \/ n = IF end THEN width - 1 ELSE width + 1
             /\ Cut(b, at, n)
<1> DEFINE rest == Len(b) - at + 1
           n == substring(b, at, width, end)
           Is(k) == /\ k = width \/ b[at + width - k] # "D"
                    /\ \A j \in 1..(k - 1) : b[at + width - j] = "D"
           h == CHOOSE k \in 1..width : Is(k)
<1>1. Len(b) \in Nat
  BY SeqIs
<1>2. n = IF width >= rest THEN rest
          ELSE IF h % 2 = 0 THEN (IF end THEN width - 1 ELSE width + 1) ELSE width
  BY DEF substring
<1>3. CASE width >= rest
  <2>1. n = rest
    BY <1>2, <1>3
  <2>2. at + rest = Len(b) + 1
    BY <1>1
  <2> HIDE DEF n
  <2> QED BY <1>3, <2>1, <2>2 DEF Cut, n
<1>4. CASE ~(width >= rest)
  <2>1. \E k \in 1..width : Is(k)
    <3>1. at \in Nat /\ width > 0
      BY <1>1
    <3>2. \E k : Back(b, at, width, k)
      <4> HIDE DEF Is, h, n, rest
      <4> QED BY <3>1, BackIs
    <3>3. PICK k : Back(b, at, width, k)
      BY <3>2
    <3> QED BY <3>3 DEF Back
  <2>2. h \in 1..width /\ Is(h)
    <3> HIDE DEF Is
    <3> QED BY <2>1
  <2> HIDE DEF h
  <2>3. h \in Nat /\ at \in Nat /\ at > 0 /\ width < rest
    BY <1>1, <1>4, <2>2
  <2> DEFINE j == at + width - h
  <2>4. j \in Nat /\ j >= at /\ (h = width => j = at)
    BY <2>2, <2>3
  <2>5. \A i \in (j + 1)..(at + width - 1) : b[i] = "D"
    <3> SUFFICES ASSUME NEW i \in (j + 1)..(at + width - 1) PROVE b[i] = "D"
      OBVIOUS
    <3> DEFINE m == at + width - i
    <3>1. m \in 1..(h - 1) /\ at + width - m = i
      BY <2>2, <2>3, <2>4
    <3>2. b[at + width - m] = "D"
      BY <2>2, <3>1
    <3> QED BY <3>1, <3>2
  <2>6. b[j] = "D" => j = at
    BY <2>2, <2>4
  <2>j. j = at + width - h
    OBVIOUS
  <2> HIDE DEF j
  <2>7. CASE h % 2 = 1
    <3>1. n = width
      BY <1>2, <1>4, <2>3, <2>7
    <3>2. CASE b[j] # "D"
      <4> DEFINE k == at + width - 1
      <4>1. k \in Nat /\ j \in 1..k /\ (k - j) % 2 = 0
        <5>1. k - j = h - 1
          BY <2>2, <2>3, <2>j
        <5>2. (h - 1) % 2 = 0
          BY <2>3, <2>7
        <5> QED BY <2>2, <2>3, <2>4, <2>j, <5>1, <5>2
      <4>2. ~Splits(b, k)
        <5> HIDE DEF k
        <5>1. \A i \in (j + 1)..k : b[i] = "D"
          BY <2>5 DEF k
        <5> QED BY <3>2, <4>1, <5>1, RunEven
      <4> HIDE DEF n
      <4> QED BY <1>4, <3>1, <4>2 DEF Cut, n
    <3>3. CASE b[j] = "D"
      <4>1. \A k \in at..(at + width - 1) : b[k] = "D"
        BY <2>3, <2>4, <2>5, <2>6, <3>3
      <4> HIDE DEF n
      <4> QED BY <1>4, <3>1, <4>1 DEF Cut, n
    <3> QED BY <3>2, <3>3
  <2>8. CASE h % 2 = 0 /\ ~end
    <3>1. n = width + 1
      BY <1>2, <1>4, <2>8
    <3> DEFINE k == at + width
    <3>k. k \in Nat /\ k \in 1..k /\ k = (at + (width + 1)) - 1 /\ (k - k) % 2 = 0
      BY <2>3
    <3>2. CASE b[k] # "D"
      <4>1. ~Splits(b, k)
        <5> HIDE DEF k
        <5>1. \A i \in (k + 1)..k : b[i] = "D"
          BY <3>k
        <5> QED BY <3>2, <3>k, <5>1, RunEven
      <4> HIDE DEF n
      <4> QED BY <1>4, <2>8, <3>1, <3>k, <4>1 DEF Cut, n
    <3>3. CASE b[k] = "D" /\ b[j] # "D"
      <4>1. j \in 1..k /\ (k - j) % 2 = 0
        <5>1. k - j = h
          BY <2>2, <2>3, <2>j
        <5> QED BY <2>2, <2>3, <2>4, <2>8, <2>j, <5>1
      <4>2. \A i \in (j + 1)..k : b[i] = "D"
        <5>1. \A i \in (j + 1)..k : i = k \/ i \in (j + 1)..(at + width - 1)
          BY <2>3, <2>4
        <5> QED BY <2>5, <3>3, <5>1
      <4>3. ~Splits(b, k)
        <5> HIDE DEF k
        <5> QED BY <3>3, <3>k, <4>1, <4>2, RunEven
      <4> HIDE DEF n
      <4> QED BY <1>4, <2>8, <3>1, <3>k, <4>3 DEF Cut, n
    <3>4. CASE b[k] = "D" /\ b[j] = "D"
      <4>1. \A i \in at..k : b[i] = "D"
        <5>1. \A i \in at..k : i = k \/ i = at \/ i \in (at + 1)..(at + width - 1)
          BY <2>3, <2>4
        <5> QED BY <2>5, <2>6, <3>4, <5>1
      <4> HIDE DEF n
      <4> QED BY <1>4, <2>8, <3>1, <3>k, <4>1 DEF Cut, n
    <3> QED BY <3>2, <3>3, <3>4
  <2>9. CASE h % 2 = 0 /\ end
    <3>1. n = width - 1
      BY <1>2, <1>4, <2>9
    <3>h. h >= 2
      BY <2>2, <2>3, <2>9
    <3> DEFINE k == at + width - 2
    <3>k. k \in Nat /\ k = (at + (width - 1)) - 1 /\ k = at + (width - 1) - 1
      BY <2>3
    <3>2. CASE b[j] # "D"
      <4>1. j \in 1..k /\ (k - j) % 2 = 0
        <5>1. k - j = h - 2 /\ (h - 2) % 2 = 0
          BY <2>2, <2>3, <2>9, <2>j
        <5> QED BY <2>2, <2>3, <2>4, <2>j, <3>h, <5>1
      <4>2. \A i \in (j + 1)..k : b[i] = "D"
        BY <2>3, <2>4, <2>5
      <4>3. ~Splits(b, k)
        <5> HIDE DEF k
        <5> QED BY <3>2, <3>k, <4>1, <4>2, RunEven
      <4> HIDE DEF n
      <4> QED BY <1>4, <2>9, <3>1, <3>k, <4>3 DEF Cut, n
    <3>3. CASE b[j] = "D"
      <4>1. \A i \in at..k : b[i] = "D"
        <5>1. \A i \in at..k : i = at \/ i \in (at + 1)..(at + width - 1)
          BY <2>3, <2>4
        <5> QED BY <2>5, <2>6, <3>3, <5>1
      <4> HIDE DEF n
      <4> QED BY <1>4, <2>9, <3>1, <3>k, <4>1 DEF Cut, n
    <3> QED BY <3>2, <3>3
  <2>10. h % 2 = 0 \/ h % 2 = 1
    BY <2>3
  <2> QED BY <2>7, <2>8, <2>9, <2>10
<1> QED BY <1>3, <1>4

LEMMA SeqAppend ==
  ASSUME NEW q, IsSeq(q), NEW x
  PROVE  /\ IsSeq(Append(q, x)) /\ Len(Append(q, x)) = Len(q) + 1
         /\ Append(q, x)[Len(q) + 1] = x
         /\ \A i \in 1..Len(q) : Append(q, x)[i] = q[i]
         /\ Last(Append(q, x)) = x
<1>1. PICK S : q \in Seq(S)
  BY DEF IsSeq
<1> DEFINE U == S \cup {x}
<1>2. S \subseteq U /\ x \in U
  OBVIOUS
<1> HIDE DEF U
<1>3. q \in Seq(U)
  BY <1>1, <1>2
<1>4. Append(q, x) \in Seq(U)
  BY <1>2, <1>3
<1>5. Len(Append(q, x)) = Len(q) + 1 /\ Append(q, x)[Len(q) + 1] = x
  BY <1>2, <1>3
<1>6. \A i \in 1..Len(q) : Append(q, x)[i] = q[i]
  BY <1>2, <1>3
<1>7. Last(Append(q, x)) = x
  BY <1>5 DEF Last
<1> QED BY <1>4, <1>5, <1>6, <1>7 DEF IsSeq

(* The lines follow each other from the byte at, and end where they may.   *)
Rows(b, at, lines) ==
  /\ IsSeq(lines) /\ Len(lines) \in 0..5
  /\ Len(lines) > 0 => lines[1].at = at
  /\ \A j \in 1..Len(lines) : /\ lines[j].at \in 1..(Len(b) + 1) /\ lines[j].n \in Nat
                              /\ Cut(b, lines[j].at, lines[j].n)
  /\ \A j \in 1..(Len(lines) - 1) : lines[j + 1].at = lines[j].at + lines[j].n

(* What so many lines hold when none is made longer.                       *)
Reach(i) == IF i = 0 THEN 0 ELSE IF i = 1 THEN 30 ELSE IF i = 2 THEN 88
            ELSE IF i = 3 THEN 146 ELSE 204

(* The first i lines of a FILLER.                                          *)
Partly(b, at, lines, i) ==
  /\ Rows(b, at, lines)
  /\ Full(lines) => /\ Len(lines) > 0
                    /\ Behind(b, at, lines) = Len(b) + 1 /\ Len(b) + 1 - at <= 256
  /\ ~Full(lines) =>
       /\ Len(lines) = i /\ Wider(lines) \in 0..i /\ Wider(lines) <= 4
       /\ Behind(b, at, lines) <= Len(b) + 1
       /\ i < 5 => Behind(b, at, lines) = at + Reach(i) + Wider(lines)
       /\ i = 5 => /\ \/ /\ Last(lines).n = 52 - Wider(lines)
                         /\ Behind(b, at, lines) = at + 256
                      \/ /\ Last(lines).n = 51 - Wider(lines)
                         /\ Behind(b, at, lines) = at + 255
                   /\ Len(b) + 1 - at > 256

LEMMA NoRow ==
  ASSUME NEW b, IsSeq(b), NEW at \in 1..(Len(b) + 1)
  PROVE  Partly(b, at, <<>>, 0)
<1>1. IsSeq(<<>>) /\ Len(<<>>) = 0
  BY SeqParts
<1>2. Wider(<<>>) = 0
  <2>1. {i \in 1..Len(<<>>) : i < 5 /\ <<>>[i].n > Widths[i]} = {}
    BY <1>1
  <2> QED BY <2>1, FS_EmptySet DEF Wider
<1>3. ~Full(<<>>) /\ Behind(b, at, <<>>) = at
  BY DEF Full, Behind
<1>4. Len(b) \in Nat
  BY SeqIs
<1>5. Rows(b, at, <<>>)
  BY <1>1 DEF Rows
<1> QED BY <1>1, <1>2, <1>3, <1>4, <1>5 DEF Partly, Reach

LEMMA WiderIs ==
  ASSUME NEW q, IsSeq(q), NEW x, Len(q) \in 0..4
  PROVE  /\ Wider(q) \in 0..Len(q)
         /\ Wider(Append(q, x)) = Wider(q) + IF Len(q) < 4 /\ x.n > Widths[Len(q) + 1] THEN 1 ELSE 0
<1> DEFINE A == {i \in 1..Len(q) : i < 5 /\ q[i].n > Widths[i]}
           r == Append(q, x)
           B == {i \in 1..Len(r) : i < 5 /\ r[i].n > Widths[i]}
           m == Len(q) + 1
<1>1. IsFiniteSet(A) /\ Cardinality(A) \in 0..Len(q)
  <2>1. A \subseteq 1..Len(q) /\ IsFiniteSet(1..Len(q)) /\ Cardinality(1..Len(q)) = Len(q)
    BY FS_Interval
  <2>2. IsFiniteSet(A) /\ Cardinality(A) <= Cardinality(1..Len(q))
    BY <2>1, FS_Subset
  <2>3. Cardinality(A) \in Nat
    BY <2>2, FS_CardinalityType
  <2> HIDE DEF A
  <2> QED BY <2>1, <2>2, <2>3
<1>2. Len(r) = m /\ r[m] = x /\ \A i \in 1..Len(q) : r[i] = q[i]
  BY SeqAppend
<1>m. m \in Nat /\ m = Len(q) + 1
  OBVIOUS
<1>3. B = IF m < 5 /\ x.n > Widths[m] THEN A \cup {m} ELSE A
  <2>1. ASSUME NEW i PROVE i \in B <=> (i \in A \/ (i = m /\ m < 5 /\ x.n > Widths[m]))
    <3>1. CASE i \in 1..Len(q)
      <4>1. r[i] = q[i] /\ i # m /\ i \in 1..Len(r)
        BY <1>2, <1>m, <3>1
      <4> QED BY <3>1, <4>1
    <3>2. CASE i = m
      <4>1. r[i] = x /\ i \in 1..Len(r) /\ i \notin 1..Len(q)
        BY <1>2, <1>m, <3>2
      <4> QED BY <3>2, <4>1
    <3>3. CASE i \notin 1..Len(q) /\ i # m
      <4>1. i \notin 1..Len(r)
        BY <1>2, <1>m, <3>3
      <4> QED BY <3>3, <4>1
    <3> QED BY <3>1, <3>2, <3>3
  <2> HIDE DEF A, B, m
  <2> QED BY <2>1
<1>4. m \notin A
  OBVIOUS
<1>5. Cardinality(A \cup {m}) = Cardinality(A) + 1
  <2> HIDE DEF A, m
  <2> QED BY <1>1, <1>4, FS_AddElement
<1>6. Wider(q) = Cardinality(A) /\ Wider(r) = Cardinality(B)
  BY DEF Wider
<1> HIDE DEF A, B, r
<1>7. Wider(r) = Wider(q) + IF m < 5 /\ x.n > Widths[m] THEN 1 ELSE 0
  BY <1>1, <1>3, <1>5, <1>6
<1> QED BY <1>1, <1>6, <1>7 DEF r

LEMMA NextRow ==
  ASSUME NEW b, IsSeq(b), NEW at \in 1..(Len(b) + 1), NEW lines, NEW i \in 0..4,
         Partly(b, at, lines, i), ~Full(lines)
  PROVE  Partly(b, at, Append(lines, NextLine(b, at, lines)), i + 1)
<1> DEFINE wider == Wider(lines)
           width == Widths[i + 1] - IF i + 1 = 5 THEN wider ELSE 0
           here  == Behind(b, at, lines)
           end   == i + 1 = 5
           n     == substring(b, here, width, end)
           rest  == Len(b) - here + 1
           x     == NextLine(b, at, lines)
           r     == Append(lines, x)
<1>1. Len(b) \in Nat
  BY SeqIs
<1>2. /\ Rows(b, at, lines) /\ Len(lines) = i /\ wider \in 0..4 /\ wider <= i
      /\ here = at + Reach(i) + wider /\ here <= Len(b) + 1
  BY DEF Partly
<1>3. IsSeq(lines)
  BY <1>2 DEF Rows
<1>4. Widths[1] = 30 /\ Widths[2] = 58 /\ Widths[3] = 58 /\ Widths[4] = 58 /\ Widths[5] = 52
  BY DEF Widths
<1>5. here \in 1..(Len(b) + 1) /\ width \in Nat /\ width > 1
  <2> HIDE DEF here, wider
  <2> QED BY <1>1, <1>2, <1>4, SMTT(30) DEF Reach
<1>6. /\ width >= rest => n = rest
      /\ width < rest => n = width \/ n = IF end THEN width - 1 ELSE width + 1
      /\ Cut(b, here, n)
  <2>1. end \in BOOLEAN
    OBVIOUS
  <2> HIDE DEF here, width, end
  <2> QED BY <1>5, <2>1, SubstringIs
<1>7. x = [at |-> here, n |-> n, eof |-> width >= rest]
  BY <1>2 DEF NextLine
<1>8. IsSeq(r) /\ Len(r) = i + 1 /\ r[i + 1] = x /\ (\A j \in 1..i : r[j] = lines[j]) /\ Last(r) = x
  <2> HIDE DEF x
  <2> QED BY <1>2, <1>3, SeqAppend
<1> HIDE DEF x, r, n
<1>9. x.at = here /\ x.n = n /\ x.eof = (width >= rest)
  BY <1>7
<1>10. n \in Nat /\ here + n <= Len(b) + 1
  <2> HIDE DEF here, width
  <2> QED BY <1>1, <1>5, <1>6
<1>11. Rows(b, at, r)
  <2>1. Len(r) \in 0..5
    BY <1>8
  <2>2. r[1].at = at
    <3>1. CASE i = 0
      <4>1. lines = <<>>
        BY <1>2, <1>3, <3>1, SeqEmpty
      <4> QED BY <1>8, <1>9, <3>1, <4>1 DEF Behind
    <3>2. CASE i > 0
      BY <1>2, <1>8, <3>2 DEF Rows
    <3> QED BY <3>1, <3>2
  <2>3. ASSUME NEW j \in 1..Len(r)
        PROVE  r[j].at \in 1..(Len(b) + 1) /\ r[j].n \in Nat /\ Cut(b, r[j].at, r[j].n)
    <3>1. CASE j \in 1..i
      BY <1>2, <1>8, <3>1 DEF Rows
    <3>2. CASE j = i + 1
      <4> HIDE DEF here, width
      <4> QED BY <1>5, <1>6, <1>8, <1>9, <1>10, <3>2
    <3> QED BY <1>8, <3>1, <3>2
  <2>4. ASSUME NEW j \in 1..(Len(r) - 1)
        PROVE  r[j + 1].at = r[j].at + r[j].n
    <3>1. CASE j \in 1..(i - 1)
      <4>1. r[j] = lines[j] /\ r[j + 1] = lines[j + 1]
        BY <1>8, <3>1
      <4> QED BY <1>2, <3>1, <4>1 DEF Rows
    <3>2. CASE j = i
      <4>1. i # 0 /\ r[j] = lines[i] /\ r[j + 1] = x
        BY <1>8, <3>2
      <4>2. lines # <<>>
        BY <1>2, <4>1, SeqParts
      <4>3. here = lines[i].at + lines[i].n
        BY <1>2, <4>2 DEF Behind, Last
      <4> QED BY <1>9, <4>1, <4>3
    <3> QED BY <1>8, <3>1, <3>2
  <2> QED BY <1>8, <2>1, <2>2, <2>3, <2>4 DEF Rows
<1>12. r # <<>>
  BY <1>8, SeqParts
<1>13. (Full(r) <=> width >= rest) /\ Behind(b, at, r) = here + n
  BY <1>8, <1>9, <1>12 DEF Full, Behind
<1>14. Wider(r) = wider + IF i < 4 /\ n > Widths[i + 1] THEN 1 ELSE 0
  BY <1>2, <1>3, <1>9, WiderIs DEF r
<1>15. ASSUME width >= rest PROVE Partly(b, at, r, i + 1)
  <2>1. Behind(b, at, r) = Len(b) + 1
    <3> HIDE DEF here, width
    <3> QED BY <1>1, <1>5, <1>6, <1>13, <1>15
  <2>2. Len(b) + 1 - at <= 256
    <3> HIDE DEF here, wider
    <3> QED BY <1>1, <1>2, <1>4, <1>15 DEF Reach
  <2>3. Full(r)
    BY <1>13, <1>15
  <2> QED BY <1>8, <1>11, <2>1, <2>2, <2>3 DEF Partly
<1>16. ASSUME ~(width >= rest) PROVE Partly(b, at, r, i + 1)
  <2>1. ~Full(r)
    BY <1>13, <1>16
  <2>2. n = width \/ n = IF i + 1 = 5 THEN width - 1 ELSE width + 1
    <3> HIDE DEF here, width
    <3> QED BY <1>1, <1>5, <1>6, <1>16
  <2>3. CASE i < 4
    <3>1. width = Widths[i + 1] /\ i + 1 < 5
      BY <1>4, <2>3
    <3>2. Wider(r) = wider + n - width /\ Wider(r) \in 0..(i + 1) /\ Wider(r) <= 4
      <4> HIDE DEF wider, width
      <4> QED BY <1>2, <1>5, <1>14, <2>2, <2>3, <3>1
    <3>3. Behind(b, at, r) = at + Reach(i + 1) + Wider(r)
      <4>1. Reach(i + 1) = Reach(i) + width
        BY <1>4, <2>3 DEF Reach
      <4>2. Reach(i) \in Nat
        BY DEF Reach
      <4> HIDE DEF wider, width, here
      <4> QED BY <1>2, <1>5, <1>10, <1>13, <3>2, <4>1, <4>2, SMTT(30)
    <3>4. Behind(b, at, r) <= Len(b) + 1
      BY <1>10, <1>13
    <3> QED BY <1>8, <1>11, <2>1, <3>1, <3>2, <3>3, <3>4 DEF Partly
  <2>4. CASE i = 4
    <3>1. width = 52 - wider /\ here = at + 204 + wider /\ wider \in 0..4
      BY <1>2, <1>4, <2>4 DEF Reach
    <3>2. Wider(r) = wider
      <4> HIDE DEF wider
      <4> QED BY <1>2, <1>14, <2>4
    <3>3. \/ n = 52 - wider /\ Behind(b, at, r) = at + 256
          \/ n = 51 - wider /\ Behind(b, at, r) = at + 255
      <4> HIDE DEF wider, width, here
      <4> QED BY <1>13, <2>2, <2>4, <3>1
    <3>4. Len(b) + 1 - at > 256
      <4> HIDE DEF wider, width, here
      <4> QED BY <1>1, <1>16, <3>1
    <3>5. Behind(b, at, r) <= Len(b) + 1
      BY <1>10, <1>13
    <3> HIDE DEF wider, width, here
    <3> QED BY <1>8, <1>9, <1>11, <2>1, <2>4, <3>1, <3>2, <3>3, <3>4, <3>5 DEF Partly
  <2> QED BY <2>3, <2>4
<1> QED BY <1>15, <1>16 DEF r, x

LEMMA LinesIs ==
  ASSUME NEW b, IsSeq(b), NEW at \in 1..(Len(b) + 1)
  PROVE  Partly(b, at, Lines(b, at), 5)
<1> DEFINE Step(c) == IF Full(c) THEN c ELSE Append(c, NextLine(b, at, c))
           Is(u) == u = [i \in 0..5 |-> IF i = 0 THEN <<>> ELSE Step(u[i - 1])]
           Good(c, i) == Partly(b, at, c, i)
<1>1. \E u : Is(u)
  <2>1. PICK c0 : c0 = <<>>
    OBVIOUS
  <2>2. PICK c1 : c1 = Step(c0)
    OBVIOUS
  <2>3. PICK c2 : c2 = Step(c1)
    OBVIOUS
  <2>4. PICK c3 : c3 = Step(c2)
    OBVIOUS
  <2>5. PICK c4 : c4 = Step(c3)
    OBVIOUS
  <2>6. PICK c5 : c5 = Step(c4)
    OBVIOUS
  <2> HIDE DEF Step
  <2> DEFINE u == [i \in 0..5 |-> IF i = 0 THEN c0 ELSE IF i = 1 THEN c1 ELSE IF i = 2 THEN c2
                                  ELSE IF i = 3 THEN c3 ELSE IF i = 4 THEN c4 ELSE c5]
  <2>7. u[0] = c0 /\ u[1] = c1 /\ u[2] = c2 /\ u[3] = c3 /\ u[4] = c4 /\ u[5] = c5
    OBVIOUS
  <2>8. u = [i \in 0..5 |-> u[i]]
    OBVIOUS
  <2> HIDE DEF u
  <2>9. \A i \in 0..5 : u[i] = IF i = 0 THEN <<>> ELSE Step(u[i - 1])
    <3> SUFFICES ASSUME NEW i \in 0..5 PROVE u[i] = IF i = 0 THEN <<>> ELSE Step(u[i - 1])
      OBVIOUS
    <3>1. i = 0 \/ i = 1 \/ i = 2 \/ i = 3 \/ i = 4 \/ i = 5
      OBVIOUS
    <3> QED BY <2>1, <2>2, <2>3, <2>4, <2>5, <2>6, <2>7, <3>1
  <2>10. u = [i \in 0..5 |-> IF i = 0 THEN <<>> ELSE Step(u[i - 1])]
    BY <2>8, <2>9, Zenon
  <2> QED BY <2>10
<1>2. ASSUME NEW u, Is(u) PROVE Good(u[5], 5)
  <2>1. \A i \in 0..5 : u[i] = IF i = 0 THEN <<>> ELSE Step(u[i - 1])
    <3> HIDE DEF Step
    <3> QED BY <1>2, Zenon
  <2>2. u[0] = <<>> /\ u[1] = Step(u[0]) /\ u[2] = Step(u[1]) /\ u[3] = Step(u[2])
        /\ u[4] = Step(u[3]) /\ u[5] = Step(u[4])
    <3> HIDE DEF Step
    <3> QED BY <2>1
  <2>3. ASSUME NEW c, NEW i \in 0..4, Good(c, i)
        PROVE  Good(Step(c), i + 1)
    <3>1. CASE ~Full(c)
      BY <2>3, <3>1, NextRow
    <3>2. CASE Full(c)
      BY <2>3, <3>2 DEF Partly
    <3> QED BY <3>1, <3>2
  <2>4. Good(u[0], 0)
    BY <2>2, NoRow
  <2> HIDE DEF Good, Step
  <2>5. Good(u[1], 1)
    BY <2>2, <2>3, <2>4
  <2>6. Good(u[2], 2)
    BY <2>2, <2>3, <2>5
  <2>7. Good(u[3], 3)
    BY <2>2, <2>3, <2>6
  <2>8. Good(u[4], 4)
    BY <2>2, <2>3, <2>7
  <2> QED BY <2>2, <2>3, <2>8
<1>3. Lines(b, at) = (CHOOSE u : Is(u))[5]
  BY DEF Lines
<1>4. Is(CHOOSE u : Is(u))
  <2> HIDE DEF Is
  <2> QED BY <1>1
<1>5. Good((CHOOSE u : Is(u))[5], 5)
  <2> HIDE DEF Is, Good
  <2> QED BY <1>2, <1>4
<1> QED BY <1>3, <1>5

(* A FILLER says how much it holds, and its lines end where they may.      *)
Sound(b, y) ==
  /\ IsSeq(y.lines) /\ Len(y.lines) > 0
  /\ \A j \in 1..(Len(y.lines) - 1) : y.lines[j + 1].at = y.lines[j].at + y.lines[j].n
  /\ y.size = (Last(y.lines).at + Last(y.lines).n) - y.lines[1].at
  /\ \A j \in 1..Len(y.lines) : Cut(b, y.lines[j].at, y.lines[j].n)

LEMMA FillerIs ==
  ASSUME NEW b, IsSeq(b), NEW at \in 1..(Len(b) + 1)
  PROVE  LET y == Filler(b, at)
         IN  /\ Sound(b, y) /\ y.lines[1].at = at
             /\ Behind(b, at, y.lines) = Last(y.lines).at + Last(y.lines).n
             /\ Full(y.lines) => Behind(b, at, y.lines) = Len(b) + 1
             /\ ~Full(y.lines) => Behind(b, at, y.lines) \in (at + 1)..(Len(b) + 1)
<1> DEFINE lines == Lines(b, at)
           rest == Len(b) - at + 1
           y == Filler(b, at)
<1>1. Partly(b, at, lines, 5)
  BY LinesIs
<1>2. Len(b) \in Nat
  BY SeqIs
<1>3. y.lines = lines
  BY DEF Filler
<1>4. y.size = IF rest < 256 THEN rest
               ELSE IF ~Full(lines) /\ Last(lines).n # 52 - Wider(lines) THEN 255 ELSE 256
  BY DEF Filler
<1> HIDE DEF lines, y
<1>5. Rows(b, at, lines) /\ Len(lines) > 0
  <2>1. CASE Full(lines)
    BY <1>1, <2>1 DEF Partly
  <2>2. CASE ~Full(lines)
    <3>1. Rows(b, at, lines) /\ Len(lines) = 5
      BY <1>1, <2>2 DEF Partly
    <3> QED BY <3>1
  <2> QED BY <2>1, <2>2
<1>6. lines # <<>>
  BY <1>5, SeqParts
<1>7. Behind(b, at, lines) = Last(lines).at + Last(lines).n
  BY <1>6 DEF Behind
<1>8. /\ Full(lines) => Behind(b, at, lines) = Len(b) + 1
      /\ ~Full(lines) => Behind(b, at, lines) \in (at + 1)..(Len(b) + 1)
  BY <1>1, <1>2 DEF Partly
<1>9. y.size = Behind(b, at, lines) - at
  <2>1. CASE Full(lines)
    <3>1. rest <= 256 /\ Behind(b, at, lines) = Len(b) + 1
      BY <1>1, <1>2, <2>1 DEF Partly
    <3> QED BY <1>2, <1>4, <2>1, <3>1
  <2>2. CASE ~Full(lines)
    <3>1. /\ rest > 256 /\ Wider(lines) \in 0..5
          /\ \/ Last(lines).n = 52 - Wider(lines) /\ Behind(b, at, lines) = at + 256
             \/ Last(lines).n = 51 - Wider(lines) /\ Behind(b, at, lines) = at + 255
      BY <1>1, <1>2, <2>2 DEF Partly
    <3> QED BY <1>2, <1>4, <2>2, <3>1
  <2> QED BY <2>1, <2>2
<1>10. lines[1].at = at
  BY <1>5 DEF Rows
<1>11. Sound(b, y)
  <2>1. y.size = (Last(y.lines).at + Last(y.lines).n) - y.lines[1].at
    <3>1. Last(y.lines) = Last(lines) /\ y.lines[1].at = at
      BY <1>3, <1>10
    <3>2. y.size = (Last(lines).at + Last(lines).n) - at
      <4>1. Last(lines) = lines[Len(lines)] /\ Len(lines) \in 1..Len(lines)
        BY <1>5 DEF Last, Rows
      <4>2. Last(lines).at \in Nat /\ Last(lines).n \in Nat
        BY <1>2, <1>5, <4>1 DEF Rows
      <4> QED BY <1>7, <1>9, <4>2
    <3> QED BY <3>1, <3>2
  <2>2. IsSeq(lines) /\ \A j \in 1..(Len(lines) - 1) : lines[j + 1].at = lines[j].at + lines[j].n
    BY <1>5 DEF Rows
  <2>3. \A j \in 1..Len(lines) : Cut(b, lines[j].at, lines[j].n)
    BY <1>5 DEF Rows
  <2> QED BY <1>3, <1>5, <2>1, <2>2, <2>3 DEF Sound
<1> QED BY <1>3, <1>7, <1>8, <1>10, <1>11 DEF y

(* The FILLERs from the byte at hold every byte behind it.                 *)
WholeFrom(b, at, q) ==
  /\ IsSeq(q) /\ Len(q) > 0
  /\ \A i \in 1..Len(q) : Sound(b, q[i])
  /\ q[1].lines[1].at = at
  /\ \A i \in 1..(Len(q) - 1) : q[i + 1].lines[1].at = Last(q[i].lines).at + Last(q[i].lines).n
  /\ Last(q[Len(q)].lines).at + Last(q[Len(q)].lines).n = Len(b) + 1

LEMMA WholeOne ==
  ASSUME NEW b, NEW at, NEW y, Sound(b, y), y.lines[1].at = at,
         Last(y.lines).at + Last(y.lines).n = Len(b) + 1
  PROVE  WholeFrom(b, at, <<y>>)
<1>1. IsSeq(<<y>>) /\ Len(<<y>>) = 1 /\ <<y>>[1] = y
  BY SeqParts
<1> DEFINE q == <<y>>
<1>2. IsSeq(q) /\ Len(q) = 1 /\ q[1] = y
  BY <1>1
<1> HIDE DEF q
<1>3. WholeFrom(b, at, q)
  BY <1>2 DEF WholeFrom
<1> QED BY <1>3 DEF q

LEMMA WholeMore ==
  ASSUME NEW b, NEW at, NEW y, Sound(b, y), y.lines[1].at = at,
         NEW next, Last(y.lines).at + Last(y.lines).n = next,
         NEW q, WholeFrom(b, next, q)
  PROVE  WholeFrom(b, at, <<y>> \o q)
<1> DEFINE p == <<y>>
           r == p \o q
<1>1. IsSeq(p) /\ Len(p) = 1 /\ p[1] = y
  BY SeqParts
<1>2. IsSeq(q) /\ Len(q) > 0 /\ Len(q) \in Nat
  BY SeqIs DEF WholeFrom
<1> HIDE DEF p
<1>r. r = p \o q
  OBVIOUS
<1> HIDE DEF r
<1>3. IsSeq(r) /\ Len(r) = Len(p) + Len(q) /\ (\A i \in 1..Len(p) : r[i] = p[i])
      /\ (\A i \in 1..Len(q) : r[Len(p) + i] = q[i])
  <2>1. /\ IsSeq(p \o q) /\ Len(p \o q) = Len(p) + Len(q)
        /\ \A i \in 1..Len(p) : (p \o q)[i] = p[i]
        /\ \A i \in 1..Len(q) : (p \o q)[Len(p) + i] = q[i]
    <3>1. IsSeq(p) /\ IsSeq(q)
      BY <1>1, <1>2
    <3> QED BY <3>1, SeqConcat
  <2> QED BY <1>r, <2>1, Zenon
<1>4. Len(r) = 1 + Len(q) /\ r[1] = y /\ \A i \in 1..Len(q) : r[1 + i] = q[i]
  BY <1>1, <1>3
<1>5. \A i \in 2..Len(r) : i - 1 \in 1..Len(q) /\ r[i] = q[i - 1]
  <2> SUFFICES ASSUME NEW i \in 2..Len(r) PROVE i - 1 \in 1..Len(q) /\ r[i] = q[i - 1]
    OBVIOUS
  <2>1. i - 1 \in 1..Len(q) /\ 1 + (i - 1) = i
    BY <1>2, <1>4
  <2> QED BY <1>4, <2>1
<1>6. \A i \in 1..Len(r) : Sound(b, r[i])
  <2> SUFFICES ASSUME NEW i \in 1..Len(r) PROVE Sound(b, r[i])
    OBVIOUS
  <2>1. i = 1 \/ i \in 2..Len(r)
    BY <1>2, <1>4
  <2> QED BY <1>4, <1>5, <2>1 DEF WholeFrom
<1>7. \A i \in 1..(Len(r) - 1) : r[i + 1].lines[1].at = Last(r[i].lines).at + Last(r[i].lines).n
  <2> SUFFICES ASSUME NEW i \in 1..(Len(r) - 1)
               PROVE r[i + 1].lines[1].at = Last(r[i].lines).at + Last(r[i].lines).n
    OBVIOUS
  <2>1. CASE i = 1
    <3>1. r[i + 1] = q[1] /\ r[i] = y
      BY <1>2, <1>4, <2>1
    <3> QED BY <3>1 DEF WholeFrom
  <2>2. CASE i # 1
    <3>1. i \in 2..Len(r) /\ i + 1 \in 2..Len(r) /\ i - 1 \in 1..(Len(q) - 1)
          /\ (i - 1) + 1 = i /\ (i + 1) - 1 = i
      BY <1>2, <1>4, <2>2
    <3>2. r[i] = q[i - 1] /\ r[i + 1] = q[i]
      BY <1>5, <3>1
    <3>3. q[(i - 1) + 1].lines[1].at = Last(q[i - 1].lines).at + Last(q[i - 1].lines).n
      BY <3>1 DEF WholeFrom
    <3> QED BY <3>1, <3>2, <3>3
  <2> QED BY <2>1, <2>2
<1>8. Last(r[Len(r)].lines).at + Last(r[Len(r)].lines).n = Len(b) + 1
  <2>1. r[Len(r)] = q[Len(q)]
    BY <1>2, <1>4
  <2> QED BY <2>1 DEF WholeFrom
<1>9. WholeFrom(b, at, r)
  BY <1>2, <1>3, <1>4, <1>6, <1>7, <1>8 DEF WholeFrom
<1> QED BY <1>9 DEF r, p

(* Where the next FILLER begins; 0 behind the last.                        *)
LEMMA Cutting ==
  ASSUME NEW b, IsSeq(b)
  PROVE  \E cut : cut = [at \in 1..(Len(b) + 1) |->
                           <<Filler(b, at)>> \o IF Full(Filler(b, at).lines) THEN <<>>
                                                ELSE cut[Behind(b, at, Filler(b, at).lines)]]
<1> DEFINE n == Len(b) + 1
           F(k) == Filler(b, k)
           Next_(k) == Behind(b, k, Filler(b, k).lines)
           a == [k \in 1..n |-> IF Full(F(k).lines) THEN 0 ELSE Next_(k)]
           V == Seq({F(k) : k \in 1..n})
           step == [t \in (1..n) \X V \X V |-> <<F(t[1])>> \o t[2]]
<1>1. n \in Nat
  BY SeqIs
<1>2. \A k \in 1..n : ~Full(F(k).lines) => Next_(k) \in (k + 1)..n
  BY FillerIs
<1> HIDE DEF n, F, Next_
<1>3. Onward(n, a)
  <2>1. \A k \in 1..n : a[k] = IF Full(F(k).lines) THEN 0 ELSE Next_(k)
    OBVIOUS
  <2>2. \A k \in 1..n : a[k] \in 0..n /\ (a[k] # 0 => a[k] > k)
    BY <1>1, <1>2, <2>1
  <2>3. a \in [1..n -> 0..n]
    BY <2>2
  <2> HIDE DEF a
  <2> QED BY <2>2, <2>3 DEF Onward
<1>4. Stepping(1..n, V, step)
  <2>1. step \in [(1..n) \X V \X V -> V]
    OBVIOUS
  <2> QED BY <2>1 DEF Stepping
<1>5. <<>> \in V /\ \A k \in 1..n, x, y \in V : step[<<k, x, y>>] = <<F(k)>> \o x
  OBVIOUS
<1>6. \A k \in 1..n : a[k] = IF Full(F(k).lines) THEN 0 ELSE Next_(k)
  OBVIOUS
<1> HIDE DEF step, a, V
<1>7. PICK g : Followed(1..n, a, a, V, <<>>, step, g)
  BY <1>1, <1>3, <1>4, <1>5, OnwardRecursion
<1> DEFINE cut == [k \in 1..n |-> g[k]]
<1>8. ASSUME NEW k \in 1..n
      PROVE  cut[k] = <<F(k)>> \o IF Full(F(k).lines) THEN <<>> ELSE cut[Next_(k)]
  <2>1. a[k] \in 0..n /\ (a[k] # 0 => a[k] > k)
    BY <1>3 DEF Onward
  <2>2. a[k] \in (1..n) \cup {0}
    BY <1>1, <2>1
  <2>3. g[k] = step[<<k, g[a[k]], g[a[k]]>>] /\ g[a[k]] \in V /\ g[0] = <<>>
    BY <1>7, <2>2 DEF Followed
  <2>4. cut[k] = <<F(k)>> \o g[a[k]]
    BY <1>5, <2>3
  <2>5. CASE Full(F(k).lines)
    BY <1>6, <2>3, <2>4, <2>5
  <2>6. CASE ~Full(F(k).lines)
    <3>1. a[k] = Next_(k) /\ Next_(k) \in 1..n
      BY <1>1, <1>2, <1>6, <2>6
    <3>2. cut[Next_(k)] = g[a[k]]
      BY <3>1
    <3> HIDE DEF cut
    <3> QED BY <2>4, <2>6, <3>2
  <2> QED BY <2>5, <2>6
<1>9. cut = [k \in 1..n |-> cut[k]]
  OBVIOUS
<1> HIDE DEF cut
<1>10. cut = [k \in 1..n |-> <<F(k)>> \o IF Full(F(k).lines) THEN <<>> ELSE cut[Next_(k)]]
  BY <1>8, <1>9, Zenon
<1> QED BY <1>10 DEF n, F, Next_

(* A text is in its FILLERs whole: whatever it is, every byte once and in  *)
(* order, every PICTURE as long as its lines, and no line but the last of  *)
(* all ends inside a national character (sql_string, substring).           *)
LEMMA SqlStringIs ==
  ASSUME NEW b, IsSeq(b)
  PROVE  WholeFrom(b, 1, sql_string(b))
<1> DEFINE n == Len(b) + 1
           F(k) == Filler(b, k)
           Next_(k) == Behind(b, k, Filler(b, k).lines)
           Is(u) == u = [at \in 1..n |-> <<F(at)>> \o IF Full(F(at).lines) THEN <<>> ELSE u[Next_(at)]]
           cut == CHOOSE u : Is(u)
           S == {k \in 1..n : WholeFrom(b, k, cut[k])}
<1>1. n \in Nat /\ 1 \in 1..n
  BY SeqIs
<1>2. sql_string(b) = cut[1]
  BY DEF sql_string
<1>3. Is(cut)
  <2>1. \E u : Is(u)
    BY Cutting
  <2> HIDE DEF Is
  <2> QED BY <2>1
<1> HIDE DEF cut
<1>4. \A k \in 1..n : cut[k] = <<F(k)>> \o IF Full(F(k).lines) THEN <<>> ELSE cut[Next_(k)]
  <2> HIDE DEF n, F, Next_
  <2> QED BY <1>3, Zenon
<1>5. \A k \in 1..n : (\A j \in (k + 1)..n : j \in S) => k \in S
  <2> SUFFICES ASSUME NEW k \in 1..n, \A j \in (k + 1)..n : j \in S
               PROVE  WholeFrom(b, k, cut[k])
    OBVIOUS
  <2> DEFINE y == F(k)
  <2>1. /\ Sound(b, y) /\ y.lines[1].at = k
        /\ Next_(k) = Last(y.lines).at + Last(y.lines).n
        /\ Full(y.lines) => Next_(k) = n
        /\ ~Full(y.lines) => Next_(k) \in (k + 1)..n
    BY FillerIs
  <2>2. cut[k] = <<y>> \o IF Full(y.lines) THEN <<>> ELSE cut[Next_(k)]
    <3> HIDE DEF n, F, Next_
    <3> QED BY <1>4, Zenon
  <2> HIDE DEF F, Next_, y, S
  <2>3. CASE Full(y.lines)
    <3>1. cut[k] = <<y>>
      <4>1. <<y>> \o <<>> = <<y>>
        BY SeqParts, SeqEmpty
      <4> QED BY <2>2, <2>3, <4>1
    <3> QED BY <2>1, <2>3, <3>1, WholeOne
  <2>4. CASE ~Full(y.lines)
    <3>1. cut[k] = <<y>> \o cut[Next_(k)]
      BY <2>2, <2>4
    <3>2. WholeFrom(b, Next_(k), cut[Next_(k)])
      <4>1. Next_(k) \in S
        BY <2>1, <2>4
      <4> QED BY <4>1 DEF S
    <3> QED BY <2>1, <3>1, <3>2, WholeMore
  <2> QED BY <2>3, <2>4
<1> HIDE DEF S
<1>6. \A k \in 1..n : k \in S
  BY <1>1, <1>5, OnwardInduction
<1> QED BY <1>1, <1>2, <1>6 DEF S

LEMMA WholeFromIs ==
  ASSUME NEW b, NEW q, WholeFrom(b, 1, q)
  PROVE  Whole(b, q)
<1>1. q # <<>> /\ DOMAIN q = 1..Len(q) /\ Len(q) \in Nat /\ Len(q) > 0
  BY SeqIs, SeqParts DEF WholeFrom
<1>2. ASSUME NEW i \in 1..Len(q)
      PROVE  /\ q[i].lines # <<>> /\ DOMAIN q[i].lines = 1..Len(q[i].lines)
             /\ Sound(b, q[i])
  BY SeqIs, SeqParts DEF WholeFrom, Sound
<1>3. q[1].lines[1].at = 1
  BY DEF WholeFrom
<1>4. \A i \in 1..Len(q) : \A j \in 1..(Len(q[i].lines) - 1) :
         q[i].lines[j + 1].at = q[i].lines[j].at + q[i].lines[j].n
  BY DEF WholeFrom, Sound
<1>5. \A i \in 1..(Len(q) - 1) : q[i + 1].lines[1].at = Last(q[i].lines).at + Last(q[i].lines).n
  BY DEF WholeFrom
<1>6. Last(q[Len(q)].lines).at + Last(q[Len(q)].lines).n = Len(b) + 1
  BY DEF WholeFrom
<1>7. \A i \in 1..Len(q) :
         q[i].size = (Last(q[i].lines).at + Last(q[i].lines).n) - q[i].lines[1].at
  BY DEF WholeFrom, Sound
<1>8. \A i \in 1..Len(q) : \A j \in 1..Len(q[i].lines) :
         LET x == q[i].lines[j]
         IN  \/ x.at + x.n = Len(b) + 1 \/ ~Splits(b, (x.at + x.n) - 1) \/ Solid(b, x)
  BY <1>2 DEF Sound, Cut, Solid
<1>9. \A i \in DOMAIN q : q[i].lines # <<>>
  BY <1>1, <1>2
<1>10. \A i \in DOMAIN q : \A j \in DOMAIN q[i].lines :
         LET x == q[i].lines[j]
         IN  \/ x.at + x.n = Len(b) + 1 \/ ~Splits(b, (x.at + x.n) - 1) \/ Solid(b, x)
  <2> SUFFICES ASSUME NEW i \in DOMAIN q, NEW j \in DOMAIN q[i].lines
               PROVE  LET x == q[i].lines[j]
                      IN  \/ x.at + x.n = Len(b) + 1 \/ ~Splits(b, (x.at + x.n) - 1) \/ Solid(b, x)
    OBVIOUS
  <2>1. i \in 1..Len(q) /\ j \in 1..Len(q[i].lines)
    BY <1>1, <1>2
  <2> QED BY <1>8, <2>1
<1>11. DOMAIN q = 1..Len(q)
  BY <1>1
<1> DEFINE Lines_(i) == q[i].lines
           End_(x)   == x.at + x.n
<1>12. q # <<>> /\ (\A i \in DOMAIN q : Lines_(i) # <<>>) /\ Lines_(1)[1].at = 1
  BY <1>1, <1>3, <1>9
<1>13. \A i \in DOMAIN q : \A j \in 1..(Len(Lines_(i)) - 1) : Lines_(i)[j + 1].at = End_(Lines_(i)[j])
  BY <1>4, <1>11, Zenon
<1>14. /\ \A i \in 1..(Len(q) - 1) : Lines_(i + 1)[1].at = End_(Last(Lines_(i)))
       /\ End_(Last(Lines_(Len(q)))) = Len(b) + 1
  BY <1>5, <1>6, Zenon
<1>15. \A i \in DOMAIN q : q[i].size = End_(Last(Lines_(i))) - Lines_(i)[1].at
  BY <1>7, <1>11, Zenon
<1>16. \A i \in DOMAIN q : \A j \in DOMAIN Lines_(i) :
         LET x == Lines_(i)[j]
         IN  \/ End_(x) = Len(b) + 1 \/ ~Splits(b, End_(x) - 1) \/ Solid(b, x)
  BY <1>10, Zenon
<1> QED BY <1>12, <1>13, <1>14, <1>15, <1>16, Zenon DEF Whole

LEMMA TextBytesIs ==
  ASSUME NEW text, IsSeq(text)
  PROVE  IsSeq(TextBytes(text))
<1> DEFINE n == Len(text)
           Blank_(i) == IF i < n /\ text[i + 1].text # "," THEN <<"s">> ELSE <<>>
           q == [i \in 1..n |-> Bytes(text[i]) \o Blank_(i)]
<1>1. TextBytes(text) = FlattenSeq(q)
  BY DEF TextBytes
<1>2. n \in Nat
  BY SeqIs
<1>3. \A piece : IsSeq(Bytes(piece))
  <2> SUFFICES ASSUME NEW piece PROVE IsSeq(Bytes(piece))
    OBVIOUS
  <2>1. CASE piece.text \in DOMAIN Spellings
    BY <2>1, SpellingsAssumption DEF Bytes, IsSeq
  <2>2. CASE piece.text \notin DOMAIN Spellings
    <3>1. <<"s", "s">> \in Seq({"s"})
      OBVIOUS
    <3> QED BY <2>2, <3>1 DEF Bytes, IsSeq
  <2> QED BY <2>1, <2>2
<1>4. \A i : IsSeq(Blank_(i))
  BY SeqParts
<1> HIDE DEF Blank_
<1>5. \A i \in 1..n : IsSeq(q[i])
  <2> SUFFICES ASSUME NEW i \in 1..n PROVE IsSeq(q[i])
    OBVIOUS
  <2>1. q[i] = Bytes(text[i]) \o Blank_(i)
    OBVIOUS
  <2> QED BY <1>3, <1>4, <2>1, SeqConcat
<1>6. IsSeq(q) /\ Len(q) = n
  BY <1>2, SeqMade
<1> HIDE DEF q
<1>7. CASE n = 0
  <2>1. q = <<>>
    BY <1>6, <1>7, SeqEmpty
  <2>2. FlattenSeq(q) = <<>>
    BY <2>1 DEF FlattenSeq
  <2> QED BY <1>1, <2>2, SeqParts
<1>8. CASE n # 0
  <2>1. Len(q) > 0 /\ \A i \in 1..Len(q) : IsSeq(q[i])
    BY <1>2, <1>5, <1>6, <1>8
  <2>2. PICK g : FlattenSeq(q) = g[Len(q)] /\ \A i \in 0..Len(q) : IsSeq(g[i])
    BY <1>6, <2>1, Flatten
  <2> QED BY <1>1, <1>2, <1>6, <2>2
<1> QED BY <1>7, <1>8

(* A text of any tokens is in its FILLERs whole (sql_string, substring,    *)
(* outsqlfiller): cut nowhere inside a character, no byte lost or doubled. *)
THEOREM TextWhole ==
  ASSUME NEW text, IsSeq(text)
  PROVE  Whole(TextBytes(text), sql_string(TextBytes(text)))
BY TextBytesIs, SqlStringIs, WholeFromIs

-----------------------------------------------------------------------------
(* Frames that are closed                                                  *)

(* What an entry needs to be written.                                      *)
Emittable(e) == IsSeq(e.hosts) /\ IsSeq(e.res) /\ e.period \in BOOLEAN

Ends(f, p) == \A k \in 1..Len(f) : f[k].kind = "end" => f[k].period = IF k = Len(f) THEN p ELSE FALSE

(* A whole frame whose last period is p, or an error in it.                *)
Final(f, exact, tabled, p) ==
  /\ Frame(f, exact, tabled)
  /\ Broken(f) \/ (/\ Len(f) > 0 /\ Ends(f, p)
                   /\ Starts(f) => f[Len(f) - 1].fn \in {"EndSQL", "Disconnect"})

(* The text of an OPEN with a group announces too little.                  *)
Exact(tree, e) == ~(e.command = "OPEN" /\ \E k \in 1..Len(e.hosts) : IsGroup(tree, e.hosts[k]))

FinalFor(f, tree, e) == Final(f, Exact(tree, e), ~Hollow(tree), e.period)

Silent(args) == "count" \notin DOMAIN args /\ "results" \notin DOMAIN args

LEMMA SilentNone ==
  /\ Silent(None)
  /\ \A c : Silent([cursor |-> c]) /\ Silent([hosts |-> c]) /\ Silent([word |-> c]) /\ Silent([sql |-> c])
  /\ \A c, d : Silent([prep |-> c, hosts |-> d]) /\ Silent([cursor |-> c, sql |-> d])
               /\ Silent([cursor |-> c, prep |-> d])
BY DEF Silent, None

LEMMA SilentNamed ==
  ASSUME NEW e, NEW args, Silent(args)
  PROVE  Silent(Named(e, args))
BY DEF Silent, Named

LEMMA SilentTables ==
  /\ Silent(NoTable)
  /\ \A f, i : Silent(TableInfo(f, i))
<1>1. Silent(NoTable)
  BY DEF Silent, NoTable
<1>2. ASSUME NEW f, NEW i PROVE Silent(TableInfo(f, i))
  <2>1. DOMAIN TableInfo(f, i) = {"iteration", "length", "is_parent"}
    BY DEF TableInfo
  <2> QED BY <2>1 DEF Silent
<1> QED BY <1>1, <1>2

LEMMA SilentAnnounces ==
  ASSUME NEW args, Silent(args), NEW set, NEW got
  PROVE  Announces(args, set, got)
BY DEF Silent, Announces

LEMMA NamedAnnounces ==
  ASSUME NEW e, NEW args, NEW set, NEW got, Announces(args, set, got)
  PROVE  Announces(Named(e, args), set, got)
<1>1. CASE e.at
  <2> DEFINE n == [x \in DOMAIN args \cup {"db"} |-> IF x = "db" THEN e.db ELSE args[x]]
  <2>1. Named(e, args) = n
    BY <1>1 DEF Named
  <2>2. /\ "count" \in DOMAIN n => "count" \in DOMAIN args /\ n.count = args.count
        /\ "results" \in DOMAIN n => "results" \in DOMAIN args /\ n.results = args.results
    OBVIOUS
  <2> HIDE DEF n
  <2> QED BY <2>1, <2>2 DEF Announces
<1>2. CASE ~e.at
  BY <1>2 DEF Named
<1> QED BY <1>1, <1>2

LEMMA StartIs ==
  ASSUME NEW exact, NEW tabled
  PROVE  /\ Frame(Start, exact, tabled) /\ Quiet(Start) /\ ~Broken(Start)
         /\ Len(Start) = 2 /\ Start[1].kind = "call" /\ Start[1].fn = "StartSQL"
         /\ \A fn \in Setters : Count(Start, fn) = 0
<1>1. /\ IsSeq(Start) /\ Len(Start) = 2
      /\ Start[1] = [kind |-> "call", fn |-> "StartSQL", args |-> None]
      /\ Start[2] = [kind |-> "end", period |-> FALSE]
  <2>1. Start = Call("StartSQL", None) \o End(FALSE)
    BY DEF Start
  <2>2. PairOf(Start, "StartSQL", None, FALSE)
    BY <2>1, PairMade
  <2> QED BY <2>2 DEF PairOf
<1>2. Part(Start) /\ ~Broken(Start) /\ Alternating(Start) /\ Quiet(Start)
  BY PairIs DEF Start
<1>3. \A k \in 1..Len(Start) : k = 1 \/ k = 2
  BY <1>1
<1>4. \A fn \in Setters : \A k \in 1..Len(Start) : Start[k].kind = "call" => Start[k].fn # fn
  BY <1>1, <1>3 DEF Setters
<1>5. \A fn \in Setters : Count(Start, fn) = 0
  BY <1>1, <1>4, CountNone
<1>6. Frame(Start, exact, tabled)
  <2>1. Frame(<<>>, exact, tabled) /\ ~Broken(<<>>)
    BY FrameEmpty
  <2>2. Silent(None)
    BY SilentNone
  <2>3. Announces(None, Count(<<>>, "SetSQLParams"), Count(<<>>, "SetResultParams"))
    BY <2>2, SilentAnnounces
  <2>4. Frame(<<>> \o (Call("StartSQL", None) \o End(FALSE)), exact, tabled)
    <3>1. Callable(<<>>, "StartSQL", None, exact, tabled)
      BY <2>1, <2>3 DEF Callable, Setters
    <3>2. Called(<<>>, "StartSQL", None, FALSE, exact, tabled)
      BY <3>1, FrameCall
    <3> QED BY <3>2 DEF Called
  <2>5. <<>> \o Start = Start
    BY <1>1, SeqEmpty
  <2>6. Start = Call("StartSQL", None) \o End(FALSE)
    BY DEF Start
  <2> QED BY <2>4, <2>5, <2>6
<1> QED BY <1>1, <1>2, <1>5, <1>6

(* One call by itself, and its end or an error.                            *)
LEMMA Single ==
  ASSUME NEW tree, NEW e, NEW fn, NEW args, NEW exact, NEW tabled, NEW last, NEW p \in BOOLEAN,
         fn \notin Setters, fn \notin {"SetHostTable", "StartSQL"}, Silent(args),
         last = End(p) \/ \E ret, name : last = Error(ret, name)
  PROVE  /\ Final(Call(fn, args) \o last, exact, tabled, p)
         /\ Final(Call(fn, args) \o WithDb(tree, e, last), exact, tabled, p)
<1>1. ASSUME NEW ret, NEW name
      PROVE  Final(Call(fn, args) \o Error(ret, name), exact, tabled, p)
  <2> DEFINE c == Call(fn, args)
             d == Error(ret, name)
  <2>1. IsSeq(c) /\ Len(c) = 1 /\ c[1] = [kind |-> "call", fn |-> fn, args |-> args]
    BY SeqParts DEF Call
  <2>2. Part(d) /\ Broken(d)
    BY SetsError DEF Sets
  <2>3. Part(c)
    <3> HIDE DEF c
    <3>1. c[1].kind = "call" /\ \A k \in 1..Len(c) : k = 1
      BY <2>1
    <3> QED BY <2>1, <3>1 DEF Part
  <2>4. Part(c \o d) /\ Broken(c \o d)
    BY <2>2, <2>3, PartConcat
  <2> QED BY <2>4 DEF Final, Frame
<1>2. Final(Call(fn, args) \o End(p), exact, tabled, p)
  <2> DEFINE c == Call(fn, args) \o End(p)
             z == <<>>
             d == z \o c
  <2>1. Frame(z, exact, tabled) /\ ~Broken(z) /\ Quiet(z) /\ Len(z) = 0
    BY FrameEmpty, SeqParts
  <2>2. exact /\ ~Broken(z) => Announces(args, Count(z, "SetSQLParams"), Count(z, "SetResultParams"))
    BY SilentAnnounces
  <2>3. /\ Frame(d, exact, tabled) /\ Len(d) = 2
        /\ \A k \in 1..Len(d) : d[k].kind = "end" => d[k].period = IF k = Len(d) THEN p ELSE FALSE
    <3>1. fn # "SetHostTable"
      OBVIOUS
    <3> HIDE DEF z
    <3>2. Callable(z, fn, args, exact, tabled)
      BY <2>1, <2>2, <3>1 DEF Callable
    <3>3. Called(z, fn, args, p, exact, tabled)
      BY <3>2, FrameCall
    <3>4. /\ Frame(d, exact, tabled) /\ Len(d) = Len(z) + 2
          /\ Quiet(z) => \A k \in 1..Len(d) : d[k].kind = "end" =>
                           d[k].period = IF k = Len(d) THEN p ELSE FALSE
      BY <3>3, Zenon DEF Called
    <3> HIDE DEF d
    <3>5. Len(d) = 2
      BY <2>1, <3>4
    <3>6. \A k \in 1..Len(d) : d[k].kind = "end" => d[k].period = IF k = Len(d) THEN p ELSE FALSE
      BY <2>1, <3>4, Zenon
    <3> QED BY <3>4, <3>5, <3>6, Zenon
  <2>4. d = c
    BY CountPair, SeqEmpty
  <2>5. c[1].kind = "call" /\ c[1].fn = fn
    <3>1. PairOf(c, fn, args, p)
      BY PairMade
    <3> HIDE DEF c
    <3> QED BY <3>1 DEF PairOf
  <2> HIDE DEF c, d
  <2>6. Ends(c, p)
    BY <2>3, <2>4 DEF Ends
  <2> QED BY <2>3, <2>4, <2>5, <2>6 DEF Final, Starts, c
<1> QED BY <1>1, <1>2 DEF WithDb

LEMMA CallIs ==
  ASSUME NEW fn, NEW args
  PROVE  /\ IsSeq(Call(fn, args)) /\ Part(Call(fn, args)) /\ Quiet(Call(fn, args))
         /\ \A g : g # fn => Count(Call(fn, args), g) = 0
<1> DEFINE d == Call(fn, args)
<1>1. IsSeq(d) /\ Len(d) = 1 /\ d[1] = [kind |-> "call", fn |-> fn, args |-> args]
  BY SeqParts DEF Call
<1> HIDE DEF d
<1>2. d[1].kind = "call" /\ d[1].fn = fn /\ \A k \in 1..Len(d) : k = 1
  BY <1>1
<1>3. Part(d) /\ Quiet(d)
  BY <1>1, <1>2 DEF Part, Quiet
<1>4. ASSUME NEW g, g # fn PROVE Count(d, g) = 0
  BY <1>1, <1>2, <1>4, CountNone
<1> QED BY <1>1, <1>3, <1>4 DEF d

LEMMA EndIs == \A p : IsSeq(End(p))
BY SeqParts DEF End

(* An error at the end.                                                    *)
LEMMA Halted ==
  ASSUME NEW a, NEW b, Part(a), Part(b), Broken(b), NEW exact, NEW tabled, NEW p
  PROVE  Final(a \o b, exact, tabled, p)
BY PartConcat DEF Final, Frame

LEMMA HaltedError ==
  ASSUME NEW a, Part(a), NEW ret, NEW name, NEW exact, NEW tabled, NEW p
  PROVE  Final(a \o Error(ret, name), exact, tabled, p)
<1>1. Part(Error(ret, name)) /\ Broken(Error(ret, name))
  BY SetsError DEF Sets
<1> QED BY <1>1, Halted

LEMMA FrameEnds ==
  ASSUME NEW a, NEW fn, NEW args, NEW exact, NEW tabled, NEW p,
         Callable(a, fn, args, exact, tabled), Quiet(a), fn \in {"EndSQL", "Disconnect"}
  PROVE  Final(a \o (Call(fn, args) \o End(p)), exact, tabled, p)
<1> DEFINE c == a \o (Call(fn, args) \o End(p))
<1>1. Called(a, fn, args, p, exact, tabled)
  BY FrameCall
<1>2. /\ Frame(c, exact, tabled) /\ Len(c) = Len(a) + 2 /\ c[Len(c) - 1].fn = fn
      /\ \A k \in 1..Len(c) : c[k].kind = "end" => c[k].period = IF k = Len(c) THEN p ELSE FALSE
  BY <1>1, Zenon DEF Called
<1>3. Len(a) \in Nat
  BY SeqIs DEF Callable, Frame, Part
<1> HIDE DEF c
<1>4. Ends(c, p)
  BY <1>2, Zenon DEF Ends
<1>5. Len(c) > 0
  BY <1>2, <1>3
<1> QED BY <1>2, <1>4, <1>5 DEF Final, c

(* One more call after a quiet frame, and EndSQL.                          *)
LEMMA Closing ==
  ASSUME NEW a, NEW fn, NEW args, NEW exact, NEW tabled, NEW p,
         Callable(a, fn, args, exact, tabled), Quiet(a)
  PROVE  Final((a \o (Call(fn, args) \o End(FALSE))) \o (Call("EndSQL", None) \o End(p)),
               exact, tabled, p)
<1> DEFINE b == a \o (Call(fn, args) \o End(FALSE))
<1>1. Called(a, fn, args, FALSE, exact, tabled)
  BY FrameCall
<1>2. Frame(b, exact, tabled) /\ Quiet(b)
  BY <1>1, Zenon DEF Called
<1> HIDE DEF b
<1>3. Callable(b, "EndSQL", None, exact, tabled)
  <2>1. Announces(None, Count(b, "SetSQLParams"), Count(b, "SetResultParams"))
    BY SilentNone, SilentAnnounces
  <2> QED BY <1>2, <2>1 DEF Callable, Setters
<1>4. Final(b \o (Call("EndSQL", None) \o End(p)), exact, tabled, p)
  BY <1>2, <1>3, FrameEnds
<1> QED BY <1>4 DEF b

LEMMA Framed ==
  ASSUME NEW tree, NEW e, NEW a, NEW fn, NEW args, NEW exact, NEW tabled,
         Callable(a, fn, args, exact, tabled), Quiet(a)
  PROVE  /\ Final((a \o Call(fn, args)) \o (End(FALSE) \o Ended(e)), exact, tabled, e.period)
         /\ Final(((a \o Call(fn, args)) \o End(FALSE)) \o Ended(e), exact, tabled, e.period)
         /\ Final((a \o Call(fn, args)) \o WithDb(tree, e, End(FALSE) \o Ended(e)),
                  exact, tabled, e.period)
<1> DEFINE c == Call(fn, args)
           d == End(FALSE)
           g == Ended(e)
           p == e.period
<1>1. g = Call("EndSQL", None) \o End(p)
  BY DEF Ended, ppoutputendcall
<1>2. IsSeq(a) /\ Part(a)
  BY DEF Callable, Frame, Part
<1>3. IsSeq(c) /\ Part(c) /\ IsSeq(d) /\ IsSeq(g)
  <2>1. PairOf(g, "EndSQL", None, p)
    BY <1>1, PairMade
  <2> QED BY <2>1, CallIs, EndIs DEF PairOf
<1>4. Final((a \o (c \o d)) \o g, exact, tabled, p)
  BY <1>1, Closing
<1>5. Part(a \o c)
  BY <1>2, <1>3, PartConcat
<1>6. \A ret, name : Final((a \o c) \o Error(ret, name), exact, tabled, p)
  BY <1>5, HaltedError
<1> HIDE DEF c, d, g, p
<1>7. (a \o (c \o d)) = (a \o c) \o d
  BY <1>2, <1>3, SeqAssociative
<1>8. IsSeq(a \o c)
  BY <1>5 DEF Part
<1>9. ((a \o c) \o d) \o g = (a \o c) \o (d \o g)
  BY <1>3, <1>8, SeqAssociative
<1>10. Final((a \o c) \o (d \o g), exact, tabled, p) /\ Final(((a \o c) \o d) \o g, exact, tabled, p)
  BY <1>4, <1>7, <1>9
<1>11. Final((a \o c) \o WithDb(tree, e, d \o g), exact, tabled, p)
  BY <1>6, <1>10 DEF WithDb
<1> QED BY <1>10, <1>11 DEF c, d, g, p

(* A table behind a frame that has set a parameter.                        *)
Tableable(a, exact, tabled) ==
  /\ Frame(a, exact, tabled) /\ Quiet(a)
  /\ tabled /\ ~Broken(a) => \E j \in 1..Len(a) : a[j].kind = "call" /\ a[j].fn \in Setters

WithATable(a, table, exact, tabled) ==
  LET b == a \o SetHostTable(table)
  IN  /\ Frame(b, exact, tabled) /\ Quiet(b)
      /\ Broken(b) <=> Broken(a)
      /\ \A fn \in Setters : Count(b, fn) = Count(a, fn)
      /\ \A fn, args : a \o (SetHostTable(table) \o Call(fn, args)) = b \o Call(fn, args)

LEMMA WithTable ==
  ASSUME NEW a, NEW table, NEW exact, NEW tabled, Tableable(a, exact, tabled), Silent(table)
  PROVE  WithATable(a, table, exact, tabled)
<1>0. /\ Frame(a, exact, tabled) /\ Quiet(a)
      /\ tabled /\ ~Broken(a) => \E j \in 1..Len(a) : a[j].kind = "call" /\ a[j].fn \in Setters
  BY DEF Tableable
<1> DEFINE t == SetHostTable(table)
           b == a \o t
<1>1. t = Call("SetHostTable", table) \o End(FALSE)
  BY DEF SetHostTable
<1>2. PairOf(t, "SetHostTable", table, FALSE)
  BY <1>1, PairMade
<1>3. IsSeq(t) /\ IsSeq(a)
  BY <1>0, <1>2 DEF PairOf, Frame, Part
<1>4. Callable(a, "SetHostTable", table, exact, tabled)
  <2>1. Announces(table, Count(a, "SetSQLParams"), Count(a, "SetResultParams"))
    BY SilentAnnounces
  <2> QED BY <1>0, <2>1 DEF Callable, Setters
<1>5. Called(a, "SetHostTable", table, FALSE, exact, tabled)
  BY <1>4, FrameCall, Zenon
<1>6. Frame(b, exact, tabled) /\ Quiet(b) /\ (Broken(b) <=> Broken(a))
  <2>1. b = a \o (Call("SetHostTable", table) \o End(FALSE))
    BY <1>1
  <2> HIDE DEF t, b
  <2> QED BY <1>0, <1>5, <2>1, Zenon DEF Called
<1> HIDE DEF t
<1>7. ASSUME NEW fn \in Setters PROVE Count(b, fn) = Count(a, fn)
  <2>1. \A k \in 1..Len(t) : t[k].kind = "call" => t[k].fn # fn
    <3>1. \A k \in 1..Len(t) : k = 1 \/ k = 2
      BY <1>2 DEF PairOf
    <3> QED BY <1>2, <3>1 DEF PairOf, Setters
  <2>2. Count(t, fn) = 0
    BY <1>3, <2>1, CountNone
  <2>3. Count(b, fn) = Count(a, fn) + Count(t, fn) /\ Count(a, fn) \in Nat
    BY <1>3, CountConcat
  <2> QED BY <2>2, <2>3
<1>8. ASSUME NEW fn, NEW args PROVE a \o (t \o Call(fn, args)) = b \o Call(fn, args)
  BY <1>3, CallIs, SeqAssociative
<1> QED BY <1>6, <1>7, <1>8 DEF t, WithATable

(* Parameters behind a frame.                                              *)
LEMMA Opened ==
  ASSUME NEW a, NEW q, NEW fn \in Setters, NEW exact, NEW tabled,
         Frame(a, exact, tabled), Quiet(a), Sets(q, fn)
  PROVE  /\ Frame(a \o q, exact, tabled) /\ Quiet(a \o q)
         /\ Broken(a \o q) <=> Broken(a) \/ Broken(q)
         /\ Count(a \o q, fn) = Count(a, fn) + Count(q, fn)
         /\ \A g \in Setters \ {fn} : Count(a \o q, g) = Count(a, g)
         /\ Count(q, fn) >= 1 => \E j \in 1..Len(a \o q) :
                (a \o q)[j].kind = "call" /\ (a \o q)[j].fn \in Setters
<1>1. IsSeq(a) /\ IsSeq(q) /\ Part(a) /\ Part(q) /\ Quiet(q) /\ Tame(q, fn)
  BY DEF Frame, Sets, Part
<1>2. Frame(a \o q, exact, tabled) /\ Quiet(a \o q) /\ (Broken(a \o q) <=> Broken(a) \/ Broken(q))
  BY <1>1, FrameSets, PartConcat
<1>3. \A g : /\ Count(a \o q, g) = Count(a, g) + Count(q, g)
             /\ Count(a, g) \in Nat /\ Count(q, g) \in Nat
  BY <1>1, CountConcat
<1>4. ASSUME NEW g \in Setters \ {fn} PROVE Count(q, g) = 0
  <2>1. \A k \in 1..Len(q) : q[k].kind = "call" => q[k].fn # g
    BY <1>1 DEF Tame
  <2> QED BY <1>1, <2>1, CountNone
<1>5. IsSeq(a \o q)
  BY <1>1, SeqConcat
<1>6. ASSUME Count(q, fn) >= 1
      PROVE  \E j \in 1..Len(a \o q) : (a \o q)[j].kind = "call" /\ (a \o q)[j].fn \in Setters
  <2> DEFINE c == a \o q
  <2>1. Count(c, fn) # 0
    BY <1>3, <1>6
  <2>2. IsSeq(c)
    BY <1>5
  <2> HIDE DEF c
  <2>3. \E j \in 1..Len(c) : c[j].kind = "call" /\ c[j].fn = fn
    BY <2>1, <2>2, CountPlaced
  <2>4. \E j \in 1..Len(c) : c[j].kind = "call" /\ c[j].fn \in Setters
    BY <2>3
  <2> QED BY <2>4 DEF c
<1> QED BY <1>2, <1>3, <1>4, <1>6

(* What the frame a of the entry e has set: parameters and places.         *)
Ready(a, tree, exact, set, got) ==
  /\ Frame(a, exact, ~Hollow(tree)) /\ Quiet(a)
  /\ Count(a, "SetSQLParams") = set /\ Count(a, "SetResultParams") = got

Placed(a, tree) ==
  ~Hollow(tree) /\ ~Broken(a) => \E j \in 1..Len(a) : a[j].kind = "call" /\ a[j].fn \in Setters

LEMMA ReadyParams ==
  ASSUME NEW tree, Walkable(tree), NEW e, IsSeq(e.hosts), NEW iteration, NEW exact,
         NEW a, NEW got, Ready(a, tree, exact, 0, got)
  PROVE  LET p == Params(tree, e, iteration)
         IN  /\ Ready(a \o p, tree, exact, Count(p, "SetSQLParams"), got)
             /\ Len(e.hosts) > 0 => Placed(a \o p, tree)
             /\ Placed(a, tree) => Placed(a \o p, tree)
             /\ (\A k \in 1..Len(e.hosts) : ~IsGroup(tree, e.hosts[k])) =>
                   Broken(a \o p) \/ Count(p, "SetSQLParams") = Len(e.hosts)
<1> DEFINE p == Params(tree, e, iteration)
           fn == "SetSQLParams"
           tabled == ~Hollow(tree)
<1>1. /\ Sets(p, fn)
      /\ ~Hollow(tree) /\ Len(e.hosts) > 0 => Broken(p) \/ Count(p, fn) >= 1
      /\ (\A k \in 1..Len(e.hosts) : ~IsGroup(tree, e.hosts[k])) => Broken(p) \/ Count(p, fn) = Len(e.hosts)
  BY ParamsIs
<1> HIDE DEF p
<1>2. /\ Frame(a \o p, exact, tabled) /\ Quiet(a \o p)
      /\ Broken(a \o p) <=> Broken(a) \/ Broken(p)
      /\ Count(a \o p, fn) = Count(a, fn) + Count(p, fn)
      /\ \A g \in Setters \ {fn} : Count(a \o p, g) = Count(a, g)
      /\ Count(p, fn) >= 1 => \E j \in 1..Len(a \o p) :
             (a \o p)[j].kind = "call" /\ (a \o p)[j].fn \in Setters
  <2>1. Frame(a, exact, tabled) /\ Quiet(a) /\ fn \in Setters
    BY DEF Ready, Setters
  <2> HIDE DEF fn, tabled
  <2> QED BY <1>1, <2>1, Opened
<1>3. IsSeq(a) /\ IsSeq(p)
  BY <1>1 DEF Ready, Frame, Sets, Part
<1>4. Count(p, fn) \in Nat
  BY <1>3, CountConcat
<1>5. Ready(a \o p, tree, exact, Count(p, fn), got)
  BY <1>2, <1>4 DEF Ready, Setters
<1>6. Len(e.hosts) > 0 => Placed(a \o p, tree)
  BY <1>1, <1>2 DEF Placed
<1>7. Placed(a, tree) => Placed(a \o p, tree)
  <2> DEFINE c == a \o p
  <2>1. \A j \in 1..Len(a) : j \in 1..Len(c) /\ c[j] = a[j]
    <3>1. Len(a) \in Nat /\ Len(p) \in Nat /\ Len(c) = Len(a) + Len(p)
      BY <1>3, SeqConcat, SeqIs
    <3> QED BY <1>3, <3>1, SeqConcat
  <2>2. Broken(a) => Broken(c)
    BY <1>2
  <2> HIDE DEF c
  <2>3. Placed(a, tree) => Placed(c, tree)
    BY <2>1, <2>2 DEF Placed
  <2> QED BY <2>3 DEF c
<1> QED BY <1>1, <1>2, <1>5, <1>6, <1>7 DEF p

LEMMA ReadyResults ==
  ASSUME NEW tree, NEW exact, NEW r, Sets(r, "SetResultParams")
  PROVE  LET a == Start \o r
         IN  /\ Ready(a, tree, exact, 0, Count(r, "SetResultParams"))
             /\ (~Hollow(tree) => Broken(r) \/ Count(r, "SetResultParams") >= 1) => Placed(a, tree)
<1> DEFINE fn == "SetResultParams"
           tabled == ~Hollow(tree)
<1>1. /\ Frame(Start, exact, tabled) /\ Quiet(Start) /\ \A g \in Setters : Count(Start, g) = 0
      /\ fn \in Setters
  BY StartIs DEF Setters
<1>2. /\ Frame(Start \o r, exact, tabled) /\ Quiet(Start \o r)
      /\ Broken(Start \o r) <=> Broken(Start) \/ Broken(r)
      /\ Count(Start \o r, fn) = Count(Start, fn) + Count(r, fn)
      /\ \A g \in Setters \ {fn} : Count(Start \o r, g) = Count(Start, g)
      /\ Count(r, fn) >= 1 => \E j \in 1..Len(Start \o r) :
             (Start \o r)[j].kind = "call" /\ (Start \o r)[j].fn \in Setters
  <2>1. Sets(r, fn)
    OBVIOUS
  <2> HIDE DEF fn, tabled
  <2> QED BY <1>1, <2>1, Opened
<1>3. Count(r, fn) \in Nat
  <2>1. IsSeq(r)
    BY DEF Sets, Part
  <2> QED BY <2>1, CountConcat
<1>4. Ready(Start \o r, tree, exact, 0, Count(r, fn))
  BY <1>1, <1>2, <1>3 DEF Ready, Setters
<1>5. (~Hollow(tree) => Broken(r) \/ Count(r, fn) >= 1) => Placed(Start \o r, tree)
  BY <1>2 DEF Placed
<1> QED BY <1>4, <1>5

LEMMA ReadyStart ==
  ASSUME NEW tree, NEW exact
  PROVE  Ready(Start, tree, exact, 0, 0)
BY StartIs DEF Ready, Setters

LEMMA ReadyCall ==
  ASSUME NEW tree, NEW exact, NEW a, NEW set, NEW got, Ready(a, tree, exact, set, got),
         NEW fn, NEW args, fn \notin Setters, fn # "SetHostTable",
         exact /\ ~Broken(a) => Announces(args, set, got)
  PROVE  Callable(a, fn, args, exact, ~Hollow(tree)) /\ Quiet(a)
BY DEF Ready, Callable

(* The end of a statement, with a table of host variables or without.      *)
LEMMA ReadyEnd ==
  ASSUME NEW tree, NEW e, NEW exact, NEW a, NEW set, NEW got, Ready(a, tree, exact, set, got),
         NEW f1, NEW f2, NEW args, {f1, f2} \cap (Setters \cup {"SetHostTable"}) = {},
         exact /\ ~Broken(a) => Announces(args, set, got),
         NEW table, Silent(table), NEW many \in BOOLEAN, many => Placed(a, tree)
  PROVE  LET x == IF many THEN SetHostTable(table) \o Call(f1, args) ELSE Call(f2, args)
         IN  /\ Final((a \o x) \o WithDb(tree, e, End(FALSE) \o Ended(e)),
                      exact, ~Hollow(tree), e.period)
             /\ Final(((a \o x) \o End(FALSE)) \o Ended(e), exact, ~Hollow(tree), e.period)
<1> DEFINE tabled == ~Hollow(tree)
<1>1. CASE many
  <2> DEFINE b == a \o SetHostTable(table)
  <2>1. /\ Frame(a, exact, tabled) /\ Quiet(a)
        /\ tabled /\ ~Broken(a) => \E j \in 1..Len(a) : a[j].kind = "call" /\ a[j].fn \in Setters
    BY <1>1 DEF Ready, Placed
  <2>6. WithATable(a, table, exact, tabled)
    <3>1. Tableable(a, exact, tabled)
      BY <2>1 DEF Tableable
    <3> HIDE DEF tabled
    <3> QED BY <3>1, WithTable
  <2>2. /\ Frame(b, exact, tabled) /\ Quiet(b) /\ (Broken(b) <=> Broken(a))
        /\ \A fn \in Setters : Count(b, fn) = Count(a, fn)
        /\ a \o (SetHostTable(table) \o Call(f1, args)) = b \o Call(f1, args)
    <3> HIDE DEF tabled
    <3> QED BY <2>6 DEF WithATable
  <2> HIDE DEF b
  <2>3. Ready(b, tree, exact, set, got)
    BY <2>2 DEF Ready, Setters
  <2>4. Callable(b, f1, args, exact, tabled) /\ Quiet(b)
    BY <2>2, <2>3, ReadyCall
  <2>5. /\ Final((b \o Call(f1, args)) \o WithDb(tree, e, End(FALSE) \o Ended(e)), exact, tabled, e.period)
        /\ Final(((b \o Call(f1, args)) \o End(FALSE)) \o Ended(e), exact, tabled, e.period)
    <3> HIDE DEF tabled
    <3> QED BY <2>4, Framed
  <2> QED BY <1>1, <2>2, <2>5
<1>2. CASE ~many
  <2>1. Callable(a, f2, args, exact, tabled) /\ Quiet(a)
    BY ReadyCall
  <2>2. /\ Final((a \o Call(f2, args)) \o WithDb(tree, e, End(FALSE) \o Ended(e)), exact, tabled, e.period)
        /\ Final(((a \o Call(f2, args)) \o End(FALSE)) \o Ended(e), exact, tabled, e.period)
    <3> HIDE DEF tabled
    <3> QED BY <2>1, Framed
  <2> QED BY <1>2, <2>2
<1> QED BY <1>1, <1>2

-----------------------------------------------------------------------------
(* The frames of the commands                                              *)

LEMMA ConnectFinal ==
  ASSUME NEW tree, NEW e, e.period \in BOOLEAN
  PROVE  FinalFor(ppoutputconnect(tree, e), tree, e)
<1> DEFINE fn == CASE Len(e.hosts) = 0 -> "ConnectShort"
                   [] Len(e.hosts) = 1 -> "ConnectInformal"
                   [] OTHER            -> "Connect"
           bad == SelectInSeq(e.hosts, LAMBDA h : Type(tree, h).ret # 0)
           last == IF bad # 0 THEN Error(Type(tree, e.hosts[bad]).ret, e.hosts[bad])
                   ELSE ppoutputendcall(e)
           args == Named(e, [hosts |-> e.hosts])
<1>1. fn \notin Setters /\ fn \notin {"SetHostTable", "StartSQL"}
  BY DEF Setters
<1>2. Silent(args)
  BY SilentNone, SilentNamed
<1>3. last = End(e.period) \/ \E ret, name : last = Error(ret, name)
  BY DEF ppoutputendcall
<1>4. ppoutputconnect(tree, e) = Call(fn, args) \o WithDb(tree, e, last)
  BY DEF ppoutputconnect
<1> HIDE DEF fn, bad, last, args
<1>5. Final(Call(fn, args) \o WithDb(tree, e, last), Exact(tree, e), ~Hollow(tree), e.period)
  BY <1>1, <1>2, <1>3, Single
<1> QED BY <1>4, <1>5 DEF FinalFor

LEMMA OpenFinal ==
  ASSUME NEW tree, Walkable(tree), NEW e, Emittable(e), e.command = "OPEN"
  PROVE  FinalFor(ppoutputopen(tree, e), tree, e)
<1> DEFINE exact == Exact(tree, e)
           tabled == ~Hollow(tree)
           p == Params(tree, e, 0)
           a == Start \o p
           args == [cursor |-> e.cursor, count |-> Len(e.hosts)]
           fn == "CursorOpenParams"
<1>1. CASE e.hosts = <<>>
  <2>1. ppoutputopen(tree, e) = Call("CursorOpen", [cursor |-> e.cursor]) \o End(e.period)
    BY <1>1 DEF ppoutputopen, ppoutputendcall
  <2>2. Final(Call("CursorOpen", [cursor |-> e.cursor]) \o End(e.period), exact, tabled, e.period)
    <3>1. e.period \in BOOLEAN /\ Silent([cursor |-> e.cursor])
      BY SilentNone DEF Emittable
    <3>2. "CursorOpen" \notin Setters /\ "CursorOpen" \notin {"SetHostTable", "StartSQL"}
      BY DEF Setters
    <3> HIDE DEF exact, tabled
    <3> QED BY <3>1, <3>2, Single
  <2> QED BY <2>1, <2>2 DEF FinalFor
<1>2. CASE e.hosts # <<>>
  <2>1. ppoutputopen(tree, e) = ((a \o Call(fn, args)) \o End(FALSE)) \o Ended(e)
    BY <1>2 DEF ppoutputopen
  <2>2. IsSeq(e.hosts)
    BY DEF Emittable
  <2>3. /\ Ready(a, tree, exact, Count(p, "SetSQLParams"), 0)
        /\ (\A k \in 1..Len(e.hosts) : ~IsGroup(tree, e.hosts[k])) =>
              Broken(a) \/ Count(p, "SetSQLParams") = Len(e.hosts)
    <3>1. Ready(Start, tree, exact, 0, 0)
      BY ReadyStart
    <3> HIDE DEF exact
    <3> QED BY <2>2, <3>1, ReadyParams
  <2> HIDE DEF a, p
  <2>4. exact /\ ~Broken(a) => Announces(args, Count(p, "SetSQLParams"), 0)
    BY <2>3 DEF Exact, Announces
  <2>5. Callable(a, fn, args, exact, tabled) /\ Quiet(a)
    <3>1. fn \notin Setters /\ fn # "SetHostTable"
      BY DEF Setters
    <3> HIDE DEF exact, args, fn
    <3> QED BY <2>3, <2>4, <3>1, ReadyCall
  <2>6. Final(((a \o Call(fn, args)) \o End(FALSE)) \o Ended(e), exact, tabled, e.period)
    <3> HIDE DEF exact, tabled, args, fn
    <3> QED BY <2>5, Framed
  <2> QED BY <2>1, <2>6 DEF FinalFor
<1> QED BY <1>1, <1>2

LEMMA SingleFinal ==
  ASSUME NEW tree, NEW e, e.period \in BOOLEAN, NEW fn, NEW args, Silent(args),
         fn \notin Setters, fn \notin {"SetHostTable", "StartSQL"}
  PROVE  /\ FinalFor(Call(fn, args) \o ppoutputendcall(e), tree, e)
         /\ FinalFor(Call(fn, args) \o WithDb(tree, e, ppoutputendcall(e)), tree, e)
<1> DEFINE exact == Exact(tree, e)
           tabled == ~Hollow(tree)
<1>1. ppoutputendcall(e) = End(e.period)
  BY DEF ppoutputendcall
<1> HIDE DEF exact, tabled
<1>2. /\ Final(Call(fn, args) \o End(e.period), exact, tabled, e.period)
      /\ Final(Call(fn, args) \o WithDb(tree, e, End(e.period)), exact, tabled, e.period)
  BY Single
<1> QED BY <1>1, <1>2 DEF exact, tabled, FinalFor

LEMMA StartHalted ==
  ASSUME NEW tree, NEW e, NEW r, Part(r), Broken(r)
  PROVE  FinalFor(Start \o r, tree, e)
<1>1. Part(Start)
  BY StartIs DEF Frame
<1> QED BY <1>1, Halted DEF FinalFor

LEMMA StartError ==
  ASSUME NEW tree, NEW e, NEW ret, NEW name
  PROVE  FinalFor(Start \o Error(ret, name), tree, e)
<1>1. Part(Error(ret, name)) /\ Broken(Error(ret, name))
  BY SetsError DEF Sets
<1> QED BY <1>1, StartHalted

LEMMA FailedIs ==
  ASSUME NEW r, Part(r), Failed(r)
  PROVE  Broken(r)
<1>1. PICK S : r \in Seq(S)
  BY DEF Part, IsSeq
<1>2. Len(r) \in 1..Len(r) /\ Last(r) = r[Len(r)]
  BY <1>1 DEF Failed, Last
<1> QED BY <1>2 DEF Failed, Broken

LEMMA PrepareFinal ==
  ASSUME NEW tree, NEW e, e.period \in BOOLEAN
  PROVE  FinalFor(ppoutputprepare(tree, e), tree, e)
<1> DEFINE h  == e.hosts[1]
           t  == Type(tree, h)
           m  == NamesOf(tree, Children(tree.f, getfieldbyname(tree, h)))
           ok == Len(m) >= 2 /\ m[1] = h \o "-LEN" /\ m[2] = h \o "-ARR"
           last == CASE t.ret # 0                                 -> Error(t.ret, h)
                     [] t.ret = 0 /\ t.type # VARTYPE_GROUP       -> Error(13, h)
                     [] Memberless(tree, h) -> Crash
                     [] t.ret = 0 /\ t.type = VARTYPE_GROUP /\ ~Memberless(tree, h) /\ ~ok -> Error(14, h)
                     [] OTHER                                     -> ppoutputendcall(e)
           args == [prep |-> e.prep, hosts |-> IF t.ret = 0 THEN m ELSE <<>>]
           fn == "Prepare"
<1>1. ppoutputprepare(tree, e) = Call(fn, args) \o last
  BY DEF ppoutputprepare
<1>2. fn \notin Setters /\ fn \notin {"SetHostTable", "StartSQL"}
  BY DEF Setters
<1>3. Silent(args)
  BY SilentNone
<1>4. last = End(e.period) \/ last = Crash \/ \E ret, name : last = Error(ret, name)
  <2> HIDE DEF t, m, ok
  <2> QED BY DEF ppoutputendcall
<1> HIDE DEF last, args, fn
<1>5. CASE last = Crash
  <2>1. Part(Call(fn, args)) /\ Part(last) /\ Broken(last)
    BY <1>5, CallIs, CrashIs
  <2> QED BY <1>1, <2>1, Halted DEF FinalFor
<1>6. CASE last # Crash
  <2>1. Final(Call(fn, args) \o last, Exact(tree, e), ~Hollow(tree), e.period)
    BY <1>2, <1>3, <1>4, <1>6, Single
  <2> QED BY <1>1, <2>1 DEF FinalFor
<1> QED BY <1>5, <1>6

LEMMA DisconnectFinal ==
  ASSUME NEW tree, NEW e, e.period \in BOOLEAN
  PROVE  FinalFor(ppoutputdisconnect(tree, e), tree, e)
<1>1. Silent(Named(e, None))
  BY SilentNone, SilentNamed
<1>2. "Disconnect" \notin Setters /\ "Disconnect" \notin {"SetHostTable", "StartSQL"}
  BY DEF Setters
<1> QED BY <1>1, <1>2, SingleFinal DEF ppoutputdisconnect

LEMMA EndFinal ==
  ASSUME NEW tree, NEW e, NEW text
  PROVE  FinalFor(EndOfTransaction(tree, e, text), tree, e)
<1> DEFINE exact == Exact(tree, e)
           args == Named(e, [word |-> text])
           fn == "Exec"
<1>1. Silent(args)
  BY SilentNone, SilentNamed
<1>2. fn \notin Setters /\ fn # "SetHostTable"
  BY DEF Setters
<1>3. Ready(Start, tree, exact, 0, 0)
  BY ReadyStart
<1> HIDE DEF exact, args, fn
<1>4. Announces(args, 0, 0)
  BY <1>1, SilentAnnounces
<1>5. Callable(Start, fn, args, exact, ~Hollow(tree)) /\ Quiet(Start)
  BY <1>2, <1>3, <1>4, ReadyCall
<1> DEFINE tabled == ~Hollow(tree)
<1> HIDE DEF tabled
<1>6. Final((Start \o Call(fn, args)) \o WithDb(tree, e, End(FALSE) \o Ended(e)),
            exact, tabled, e.period)
  BY <1>5, Framed DEF tabled
<1> QED BY <1>6 DEF EndOfTransaction, FinalFor, exact, tabled, args, fn

LEMMA ExecPrepareFinal ==
  ASSUME NEW tree, Walkable(tree), NEW e, Emittable(e)
  PROVE  FinalFor(ppoutputexecprepare(tree, e), tree, e)
<1> DEFINE exact == Exact(tree, e)
           p == Params(tree, e, 0)
           a == Start \o p
           args == Named(e, [prep |-> e.prep, count |-> Count(p, "SetSQLParams")])
           fn == "ExecPrepare"
<1>1. CASE e.hosts # <<>> /\ Type(tree, e.hosts[1]).ret # 0
  BY <1>1, StartError DEF ppoutputexecprepare
<1>2. CASE ~(e.hosts # <<>> /\ Type(tree, e.hosts[1]).ret # 0)
  <2>1. ppoutputexecprepare(tree, e)
          = (a \o Call(fn, args)) \o WithDb(tree, e, End(FALSE) \o Ended(e))
    BY <1>2 DEF ppoutputexecprepare
  <2>2. IsSeq(e.hosts)
    BY DEF Emittable
  <2>3. Ready(a, tree, exact, Count(p, "SetSQLParams"), 0)
    <3>1. Ready(Start, tree, exact, 0, 0)
      BY ReadyStart
    <3> HIDE DEF exact
    <3> QED BY <2>2, <3>1, ReadyParams
  <2>4. Announces(args, Count(p, "SetSQLParams"), 0)
    <3> DEFINE n == Count(p, "SetSQLParams")
    <3> HIDE DEF n
    <3>1. Announces([prep |-> e.prep, count |-> n], n, 0)
      BY DEF Announces
    <3> QED BY <3>1, NamedAnnounces DEF n
  <2>5. fn \notin Setters /\ fn # "SetHostTable"
    BY DEF Setters
  <2> DEFINE tabled == ~Hollow(tree)
  <2> HIDE DEF a, p, exact, args, fn
  <2>6. Callable(a, fn, args, exact, tabled) /\ Quiet(a)
    BY <2>3, <2>4, <2>5, ReadyCall
  <2> HIDE DEF tabled
  <2>7. Final((a \o Call(fn, args)) \o WithDb(tree, e, End(FALSE) \o Ended(e)),
              exact, tabled, e.period)
    BY <2>6, Framed
  <2> QED BY <2>1, <2>7 DEF FinalFor, exact, tabled
<1> QED BY <1>1, <1>2

LEMMA CursorFinal ==
  ASSUME NEW tree, Walkable(tree), NEW e, Emittable(e)
  PROVE  FinalFor(SelectCursor(tree, e), tree, e)
<1> DEFINE exact == Exact(tree, e)
           p == Params(tree, e, 0)
           a == Start \o p
           args == Named(e, [cursor |-> e.cursor, sql |-> e.sqlname,
                             count |-> Count(p, "SetSQLParams")])
           fn == "CursorDeclareParams"
<1>1. CASE e.hosts = <<>>
  <2>1. Silent(Named(e, [cursor |-> e.cursor, sql |-> e.sqlname]))
    BY SilentNone, SilentNamed
  <2>2. "CursorDeclare" \notin Setters /\ "CursorDeclare" \notin {"SetHostTable", "StartSQL"}
    BY DEF Setters
  <2> QED BY <1>1, <2>1, <2>2, SingleFinal DEF SelectCursor, Emittable
<1>2. CASE e.hosts # <<>>
  <2>1. SelectCursor(tree, e)
          = (a \o Call(fn, args)) \o WithDb(tree, e, End(FALSE) \o Ended(e))
    BY <1>2 DEF SelectCursor
  <2>2. IsSeq(e.hosts)
    BY DEF Emittable
  <2>3. Ready(a, tree, exact, Count(p, "SetSQLParams"), 0)
    <3>1. Ready(Start, tree, exact, 0, 0)
      BY ReadyStart
    <3> HIDE DEF exact
    <3> QED BY <2>2, <3>1, ReadyParams
  <2>4. Announces(args, Count(p, "SetSQLParams"), 0)
    <3> DEFINE n == Count(p, "SetSQLParams")
    <3> HIDE DEF n
    <3>1. Announces([cursor |-> e.cursor, sql |-> e.sqlname, count |-> n], n, 0)
      BY DEF Announces
    <3> QED BY <3>1, NamedAnnounces DEF n
  <2>5. fn \notin Setters /\ fn # "SetHostTable"
    BY DEF Setters
  <2> DEFINE tabled == ~Hollow(tree)
  <2> HIDE DEF a, p, exact, args, fn
  <2>6. Callable(a, fn, args, exact, tabled) /\ Quiet(a)
    BY <2>3, <2>4, <2>5, ReadyCall
  <2> HIDE DEF tabled
  <2>7. Final((a \o Call(fn, args)) \o WithDb(tree, e, End(FALSE) \o Ended(e)),
              exact, tabled, e.period)
    BY <2>6, Framed
  <2> QED BY <2>1, <2>7 DEF FinalFor, exact, tabled
<1> QED BY <1>1, <1>2

LEMMA PreparedCursorFinal ==
  ASSUME NEW tree, NEW e, e.period \in BOOLEAN
  PROVE  FinalFor(PreparedCursor(tree, e), tree, e)
<1>1. Silent(Named(e, [cursor |-> e.cursor, prep |-> e.prep]))
  BY SilentNone, SilentNamed
<1>2. "PreparedCursorDeclare" \notin Setters
      /\ "PreparedCursorDeclare" \notin {"SetHostTable", "StartSQL"}
  BY DEF Setters
<1> QED BY <1>1, <1>2, SingleFinal DEF PreparedCursor

LEMMA CloseFinal ==
  ASSUME NEW tree, NEW e, e.period \in BOOLEAN
  PROVE  FinalFor(CursorClose(e), tree, e)
<1>1. Silent([cursor |-> e.cursor])
  BY SilentNone
<1>2. "CursorClose" \notin Setters /\ "CursorClose" \notin {"SetHostTable", "StartSQL"}
  BY DEF Setters
<1> QED BY <1>1, <1>2, SingleFinal DEF CursorClose

LEMMA OccursIs ==
  ASSUME NEW tree, NEW e
  PROVE  Silent(OccursOf(tree, e)) /\ Silent(TableOf(tree, e))
BY SilentTables DEF OccursOf, TableOf

LEMMA OtherFinal ==
  ASSUME NEW tree, Walkable(tree), NEW e, Emittable(e)
  PROVE  FinalFor(ppoutputother(tree, e), tree, e)
<1> DEFINE exact == Exact(tree, e)
           table == OccursOf(tree, e)
           p == Params(tree, e, table.iteration)
           a == Start \o p
           args == Named(e, [sql |-> e.sqlname, count |-> Count(p, "SetSQLParams")])
           f1 == "ExecParamsOccurs"
           f2 == "ExecParams"
           many == table.iteration > 0
           x == IF many THEN SetHostTable(table) \o Call(f1, args) ELSE Call(f2, args)
<1>0. IsSeq(e.hosts)
  BY DEF Emittable
<1>1. CASE e.hosts = <<>>
  <2>1. Silent(Named(e, [sql |-> e.sqlname]))
    BY SilentNone, SilentNamed
  <2>2. "Exec" \notin Setters /\ "Exec" \notin {"SetHostTable", "StartSQL"}
    BY DEF Setters
  <2> QED BY <1>1, <2>1, <2>2, SingleFinal DEF ppoutputother, Emittable
<1>2. CASE e.hosts # <<>>
  <2>1. ppoutputother(tree, e) = (a \o x) \o WithDb(tree, e, End(FALSE) \o Ended(e))
    BY <1>2 DEF ppoutputother
  <2>2. Len(e.hosts) > 0
    BY <1>0, <1>2, SeqEmpty, SeqIs
  <2>3. Silent(table)
    BY OccursIs
  <2> HIDE DEF table
  <2>4. Ready(a, tree, exact, Count(p, "SetSQLParams"), 0) /\ Placed(a, tree)
    <3>1. Ready(Start, tree, exact, 0, 0)
      BY ReadyStart
    <3> HIDE DEF exact
    <3> QED BY <1>0, <2>2, <3>1, ReadyParams
  <2>5. Announces(args, Count(p, "SetSQLParams"), 0)
    <3> DEFINE n == Count(p, "SetSQLParams")
    <3> HIDE DEF n
    <3>1. Announces([sql |-> e.sqlname, count |-> n], n, 0)
      BY DEF Announces
    <3> QED BY <3>1, NamedAnnounces DEF n
  <2>6. {f1, f2} \cap (Setters \cup {"SetHostTable"}) = {}
    BY DEF Setters
  <2>7. many \in BOOLEAN
    OBVIOUS
  <2> DEFINE tabled == ~Hollow(tree)
  <2> HIDE DEF a, p, exact, args, f1, f2, many
  <2>8. Final((a \o x) \o WithDb(tree, e, End(FALSE) \o Ended(e)), exact, tabled, e.period)
    BY <2>3, <2>4, <2>5, <2>6, <2>7, ReadyEnd
  <2> QED BY <2>1, <2>8 DEF FinalFor, exact
<1> QED BY <1>1, <1>2

LEMMA FetchFinal ==
  ASSUME NEW tree, Walkable(tree), NEW e, Emittable(e)
  PROVE  FinalFor(ppoutputfetch(tree, e), tree, e)
<1> DEFINE exact == Exact(tree, e)
           table == TableOf(tree, e)
           name  == e.res[1]
           i     == getfieldbyname(tree, name)
           alone == Type(tree, name).type # VARTYPE_GROUP
           r     == FetchResults(tree, e, table)
           a     == Start \o r
           args  == [cursor |-> e.cursor]
           f1    == "CursorFetchOccurs"
           f2    == "CursorFetchOne"
           many  == table.iteration # 0
           x     == IF many THEN SetHostTable(table) \o Call(f1, args) ELSE Call(f2, args)
           fn    == "SetResultParams"
<1>0. IsSeq(e.res)
  BY DEF Emittable
<1>1. CASE Type(tree, name).ret # 0
  BY <1>1, StartError DEF ppoutputfetch
<1>2. CASE Type(tree, name).ret = 0
  <2>1. CASE ~alone
    <3>1. IsGroup(tree, name)
      BY <1>2, <2>1 DEF IsGroup
    <3>2. i \in 1..Len(tree.f) /\ tree.f[i].sname = name /\ tree.f[i].children \in 0..Len(tree.f)
          /\ i \in DOMAIN tree.f
      <4>1. i \in 0..Len(tree.f) /\ i # Null /\ tree.f[i].sname = name /\ Len(tree.f) \in Nat
        BY <1>2, TypeIs, SeqIs DEF Walkable, WellLinked
      <4> HIDE DEF i
      <4>2. i \in 1..Len(tree.f) /\ DOMAIN tree.f = 1..Len(tree.f)
        BY <4>1, SeqIs DEF Null, Walkable, WellLinked
      <4>3. tree.f[i].children \in 0..Len(tree.f)
        BY <4>1, <4>2 DEF Walkable, WellLinked, Null
      <4> QED BY <4>1, <4>2, <4>3
    <3>3. r = ppoutputresgroup(tree, tree.f[i].children, table.iteration)
      BY <2>1 DEF FetchResults
    <3>4. ~Hollow(tree) => tree.f[i].children # Null
      <4> HIDE DEF i, name
      <4> QED BY <3>1, <3>2 DEF Hollow
    <3>5. Sets(r, fn) /\ (~Hollow(tree) => Broken(r) \/ Count(r, fn) >= 1)
      <4> DEFINE k == tree.f[i].children
      <4>1. k \in 0..Len(tree.f)
        BY <3>2
      <4> HIDE DEF k, table, r
      <4>2. /\ Sets(ppoutputresgroup(tree, k, table.iteration), fn)
            /\ ~Hollow(tree) /\ k # Null =>
                  Broken(ppoutputresgroup(tree, k, table.iteration))
                  \/ Count(ppoutputresgroup(tree, k, table.iteration), fn) >= 1
        BY <4>1, ResGroupIs
      <4> QED BY <3>3, <3>4, <4>2 DEF k
    <3> HIDE DEF r
    <3>6. ppoutputfetch(tree, e) = ((a \o x) \o End(FALSE)) \o Ended(e)
      BY <1>2, <2>1 DEF ppoutputfetch, r
    <3>7. Ready(a, tree, exact, 0, Count(r, fn)) /\ Placed(a, tree)
      <4> HIDE DEF exact
      <4> QED BY <3>5, ReadyResults
    <3>8. Silent(table) /\ Silent(args)
      BY OccursIs, SilentNone
    <3>9. Announces(args, 0, Count(r, fn))
      BY <3>8, SilentAnnounces
    <3>10. {f1, f2} \cap (Setters \cup {"SetHostTable"}) = {}
      BY DEF Setters
    <3>11. many \in BOOLEAN
      OBVIOUS
    <3> DEFINE tabled == ~Hollow(tree)
    <3> HIDE DEF a, table, exact, args, f1, f2, many, i, name, alone, fn
    <3>12. Final(((a \o x) \o End(FALSE)) \o Ended(e), exact, tabled, e.period)
      BY <3>7, <3>8, <3>9, <3>10, <3>11, ReadyEnd
    <3> QED BY <3>6, <3>12 DEF FinalFor, exact
  <2>2. CASE alone
    <3>1. r = Each(tree, e.res, 0, fn)
      BY <2>2 DEF FetchResults
    <3>2. Sets(r, fn)
      BY <1>0, <3>1, EachIs
    <3>3. table = NoTable
      BY <2>2 DEF TableOf
    <3>4. ~many
      BY <3>3 DEF NoTable
    <3> HIDE DEF r
    <3>5. CASE Failed(r)
      <4>1. Part(r) /\ Broken(r)
        BY <3>2, <3>5, FailedIs DEF Sets
      <4>2. ppoutputfetch(tree, e) = Start \o r
        BY <1>2, <2>2, <3>5 DEF ppoutputfetch, r
      <4> QED BY <4>1, <4>2, StartHalted
    <3>6. CASE ~Failed(r)
      <4>1. ppoutputfetch(tree, e) = ((a \o x) \o End(FALSE)) \o Ended(e)
        BY <1>2, <2>2, <3>6 DEF ppoutputfetch, r
      <4>2. Ready(a, tree, exact, 0, Count(r, fn))
        <5> HIDE DEF exact
        <5> QED BY <3>2, ReadyResults
      <4>3. Silent(table) /\ Silent(args)
        BY OccursIs, SilentNone
      <4>4. Announces(args, 0, Count(r, fn))
        BY <4>3, SilentAnnounces
      <4>5. {f1, f2} \cap (Setters \cup {"SetHostTable"}) = {}
        BY DEF Setters
      <4>6. many \in BOOLEAN /\ (many => Placed(a, tree))
        BY <3>4
      <4> DEFINE tabled == ~Hollow(tree)
      <4> HIDE DEF a, table, exact, args, f1, f2, many, i, name, alone, fn
      <4>7. Final(((a \o x) \o End(FALSE)) \o Ended(e), exact, tabled, e.period)
        BY <4>2, <4>3, <4>4, <4>5, <4>6, ReadyEnd
      <4> QED BY <4>1, <4>7 DEF FinalFor, exact
    <3> QED BY <3>5, <3>6
  <2> QED BY <2>1, <2>2
<1> QED BY <1>1, <1>2

LEMMA IntoFinal ==
  ASSUME NEW tree, Walkable(tree), NEW e, Emittable(e)
  PROVE  FinalFor(SelectInto(tree, e), tree, e)
<1> DEFINE exact == Exact(tree, e)
           table == TableOf(tree, e)
           name  == e.res[1]
           first_ == Type(tree, name)
           group == first_.type = VARTYPE_GROUP
           members == NamesOf(tree, Children(tree.f, getfieldbyname(tree, name)))
           names == IF group THEN members ELSE e.res
           fn    == "SetResultParams"
           r     == Each(tree, names, table.iteration, fn)
           p     == Params(tree, e, table.iteration)
           b     == Start \o r
           a     == b \o p
           args  == Named(e, [sql |-> e.sqlname, count |-> Count(p, "SetSQLParams"),
                              results |-> Count(r, fn)])
           f1    == "ExecSelectIntoOccurs"
           f2    == "ExecSelectIntoOne"
           many  == table.iteration # 0
           x     == IF many THEN SetHostTable(table) \o Call(f1, args) ELSE Call(f2, args)
<1>0. IsSeq(e.res) /\ IsSeq(e.hosts)
  BY DEF Emittable
<1>1. CASE first_.ret # 0
  BY <1>1, StartError DEF SelectInto
<1>2. CASE first_.ret = 0
  <2>1. IsSeq(names) /\ (many /\ ~Hollow(tree) => Len(names) > 0)
    <3>1. CASE group
      <4>1. IsGroup(tree, name)
        BY <1>2, <3>1 DEF IsGroup
      <4>2. IsSeq(members) /\ (Hollow(tree) \/ Len(members) > 0)
        BY <4>1, GroupIs
      <4> HIDE DEF members
      <4> QED BY <3>1, <4>2
    <3>2. CASE ~group
      <4>1. table = NoTable
        BY <3>2 DEF TableOf
      <4>2. ~many
        BY <4>1 DEF NoTable
      <4> QED BY <1>0, <3>2, <4>2
    <3> QED BY <3>1, <3>2
  <2> HIDE DEF names, table
  <2>2. Sets(r, fn) /\ (Len(names) > 0 => Broken(r) \/ Count(r, fn) >= 1)
    BY <2>1, EachIs
  <2>3. CASE Failed(r)
    <3>1. Part(r) /\ Broken(r)
      BY <2>2, <2>3, FailedIs DEF Sets
    <3>2. SelectInto(tree, e) = Start \o r
      BY <1>2, <2>3 DEF SelectInto, names, table
    <3> HIDE DEF r
    <3> QED BY <3>1, <3>2, StartHalted
  <2>4. CASE ~Failed(r)
    <3>1. SelectInto(tree, e) = (a \o x) \o WithDb(tree, e, End(FALSE) \o Ended(e))
      BY <1>2, <2>4 DEF SelectInto, names, table
    <3> HIDE DEF r, many
    <3>2. /\ Ready(b, tree, exact, 0, Count(r, fn))
          /\ (~Hollow(tree) => Broken(r) \/ Count(r, fn) >= 1) => Placed(b, tree)
      <4> HIDE DEF exact
      <4> QED BY <2>2, ReadyResults
    <3>3. many => Placed(b, tree)
      BY <2>1, <2>2, <3>2
    <3> HIDE DEF b
    <3>4. /\ Ready(a, tree, exact, Count(p, "SetSQLParams"), Count(r, fn))
          /\ Placed(b, tree) => Placed(a, tree)
      <4> HIDE DEF exact, fn
      <4> QED BY <1>0, <3>2, ReadyParams
    <3>5. Silent(table)
      BY OccursIs DEF table
    <3>6. Announces(args, Count(p, "SetSQLParams"), Count(r, fn))
      <4> DEFINE n == Count(p, "SetSQLParams")
                 m == Count(r, fn)
      <4> HIDE DEF n, m
      <4>1. Announces([sql |-> e.sqlname, count |-> n, results |-> m], n, m)
        BY DEF Announces
      <4> QED BY <4>1, NamedAnnounces DEF n, m
    <3>7. {f1, f2} \cap (Setters \cup {"SetHostTable"}) = {}
      BY DEF Setters
    <3>8. many \in BOOLEAN /\ (many => Placed(a, tree))
      BY <3>3, <3>4 DEF many
    <3> DEFINE tabled == ~Hollow(tree)
    <3> HIDE DEF a, p, exact, args, f1, f2, fn
    <3>9. Final((a \o x) \o WithDb(tree, e, End(FALSE) \o Ended(e)), exact, tabled, e.period)
      BY <3>4, <3>5, <3>6, <3>7, <3>8, ReadyEnd
    <3> QED BY <3>1, <3>9 DEF FinalFor, exact
  <2> QED BY <2>3, <2>4
<1> QED BY <1>1, <1>2

(* A frame that need not keep the period for its end.                      *)
Finished(f, exact, tabled) ==
  /\ Frame(f, exact, tabled)
  /\ Broken(f) \/ (/\ Len(f) > 0
                   /\ Starts(f) => f[Len(f) - 1].fn \in {"EndSQL", "Disconnect"})

LEMMA FinalFinished ==
  ASSUME NEW f, NEW tree, NEW e, FinalFor(f, tree, e)
  PROVE  Finished(f, Exact(tree, e), ~Hollow(tree))
BY DEF FinalFor, Final, Finished

LEMMA ReleaseFinished ==
  ASSUME NEW tree, NEW e, NEW text
  PROVE  Finished(EndOfTransaction(tree, e, text) \o ppoutputdisconnect(tree, e),
                  Exact(tree, e), ~Hollow(tree))
<1> DEFINE exact == Exact(tree, e)
           tabled == ~Hollow(tree)
           a == EndOfTransaction(tree, e, text)
           fn == "Disconnect"
           args == Named(e, None)
           b == Call(fn, args) \o End(e.period)
<1>1. Finished(a, exact, tabled)
  BY EndFinal, FinalFinished
<1> HIDE DEF a, exact, tabled
<1>2. Frame(a, exact, tabled) /\ IsSeq(a) /\ Part(a)
  BY <1>1 DEF Finished, Frame, Part
<1>3. Silent(args)
  BY SilentNone, SilentNamed
<1>4. Callable(a, fn, args, exact, tabled)
  <2> HIDE DEF args
  <2>1. Announces(args, Count(a, "SetSQLParams"), Count(a, "SetResultParams"))
    BY <1>3, SilentAnnounces
  <2> QED BY <1>2, <2>1 DEF Callable, Setters
<1>5. Finished(a \o b, exact, tabled)
  <2>1. Called(a, fn, args, e.period, exact, tabled)
    BY <1>4, FrameCall
  <2> DEFINE c == a \o b
  <2>2. Frame(c, exact, tabled) /\ Len(c) = Len(a) + 2 /\ c[Len(c) - 1].fn = fn
    BY <2>1, Zenon DEF Called
  <2>3. Len(a) \in Nat
    BY <1>2, SeqIs
  <2> HIDE DEF c
  <2>4. Finished(c, exact, tabled)
    BY <2>2, <2>3 DEF Finished
  <2> QED BY <2>4 DEF c
<1>6. ASSUME NEW ret, NEW name
      PROVE  Finished(a \o (Call(fn, args) \o Error(ret, name)), exact, tabled)
  <2> DEFINE d == Call(fn, args) \o Error(ret, name)
  <2>1. Part(d) /\ Broken(d)
    <3>1. Part(Error(ret, name)) /\ Broken(Error(ret, name)) /\ Part(Call(fn, args))
      BY SetsError, CallIs DEF Sets
    <3> HIDE DEF args, fn
    <3> QED BY <3>1, PartConcat
  <2> HIDE DEF d
  <2>2. Part(a \o d) /\ Broken(a \o d)
    BY <1>2, <2>1, PartConcat
  <2>3. Finished(a \o d, exact, tabled)
    BY <2>2 DEF Finished, Frame
  <2> QED BY <2>3 DEF d
<1>7. ppoutputdisconnect(tree, e) = Call(fn, args) \o WithDb(tree, e, End(e.period))
  BY DEF ppoutputdisconnect, ppoutputendcall
<1> QED BY <1>5, <1>6, <1>7 DEF WithDb, a, exact, tabled

LEMMA FinishedComplete ==
  ASSUME NEW f, NEW tree, NEW e, Finished(f, Exact(tree, e), ~Hollow(tree)), Emittable(e),
         Clean(f)
  PROVE  Complete(f, e, tree)
<1>1. IsSeq(f) /\ DOMAIN f = 1..Len(f) /\ IsSeq(e.hosts) /\ DOMAIN e.hosts = 1..Len(e.hosts)
  BY SeqIs DEF Finished, Frame, Part, Emittable
<1>2. ~Broken(f)
  BY <1>1 DEF Clean, Broken
<1>3. /\ Alternating(f)
      /\ Starts(f) => f[Len(f) - 1].fn \in {"EndSQL", "Disconnect"}
      /\ Exact(tree, e) => \A k \in 1..Len(f) : f[k].kind = "call" => Announced(f, k)
      /\ ~Hollow(tree) => \A k \in 1..Len(f) : (f[k].kind = "call" /\ f[k].fn = "SetHostTable") =>
            \E j \in 1..k : f[j].kind = "call" /\ f[j].fn \in Setters
  BY <1>2 DEF Finished, Frame
<1>4. Len(f) % 2 = 0 /\ \A k \in 1..Len(f) : f[k].kind = IF k % 2 = 1 THEN "call" ELSE "end"
  BY <1>3 DEF Alternating
<1>5. \/ \E k \in DOMAIN e.hosts : e.command = "OPEN" /\ IsGroup(tree, e.hosts[k])
      \/ \A k \in DOMAIN f : f[k].kind = "call" => Announced(f, k)
  BY <1>1, <1>3 DEF Exact
<1>6. \/ Hollow(tree)
      \/ \A k \in DOMAIN f : (f[k].kind = "call" /\ f[k].fn = "SetHostTable") =>
            \E j \in 1..k : f[j].kind = "call" /\ f[j].fn \in {"SetSQLParams", "SetResultParams"}
  BY <1>1, <1>3 DEF Setters
<1> QED BY <1>3, <1>4, <1>5, <1>6 DEF Complete

LEMMA FinalStopped ==
  ASSUME NEW f, NEW tree, NEW e, FinalFor(f, tree, e), Emittable(e), Clean(f)
  PROVE  Stopped(f, e)
<1>1. IsSeq(f) /\ DOMAIN f = 1..Len(f) /\ e.period \in BOOLEAN
  BY SeqIs DEF FinalFor, Final, Frame, Part, Emittable
<1>2. ~Broken(f)
  BY <1>1 DEF Clean, Broken
<1>3. Ends(f, e.period)
  BY <1>2 DEF FinalFor, Final
<1> SUFFICES ASSUME NEW k \in 1..Len(f), f[k].kind = "end"
             PROVE  f[k].period <=> k = Len(f) /\ e.period
  BY <1>1 DEF Stopped
<1>4. f[k].period = IF k = Len(f) THEN e.period ELSE FALSE
  BY <1>3, Zenon DEF Ends
<1>5. CASE k = Len(f)
  <2>1. f[k].period = e.period
    BY <1>4, <1>5, Zenon
  <2> QED BY <1>5, <2>1, Zenon
<1>6. CASE k # Len(f)
  <2>1. f[k].period = FALSE
    BY <1>4, <1>6, Zenon
  <2> QED BY <1>6, <2>1, Zenon
<1> QED BY <1>5, <1>6

(* What may be written for an entry.                                       *)
Writable(f, e, tree) ==
  /\ IsSeq(f)
  /\ \A k \in 1..Len(f) : f[k].kind \in {"call", "end", "error", "crash", "copy", "varying", "filler"}
  /\ Clean(f) => /\ Complete(f, e, tree)
                 /\ e.command \notin {"COMMIT_RELEASE", "ROLLBACK_RELEASE"} => Stopped(f, e)

Texts(f) ==
  \A k \in 1..Len(f) : f[k].kind = "filler" => Whole(TextBytes(f[k].text), f[k].fillers)

Later(list) == IsSeq(list) /\ \A i \in 1..Len(list) : IsSeq(list[i].text)

LEMMA FinalWritable ==
  ASSUME NEW f, NEW tree, NEW e, FinalFor(f, tree, e), Emittable(e)
  PROVE  Writable(f, e, tree) /\ Texts(f)
<1>1. Part(f)
  BY DEF FinalFor, Final, Frame
<1>2. Clean(f) => Complete(f, e, tree) /\ Stopped(f, e)
  BY FinalFinished, FinishedComplete, FinalStopped
<1> QED BY <1>1, <1>2 DEF Part, Writable, Texts

LEMMA ReleaseWritable ==
  ASSUME NEW tree, NEW e, Emittable(e), NEW text,
         e.command \in {"COMMIT_RELEASE", "ROLLBACK_RELEASE"}
  PROVE  LET f == EndOfTransaction(tree, e, text) \o ppoutputdisconnect(tree, e)
         IN  Writable(f, e, tree) /\ Texts(f)
<1> DEFINE f == EndOfTransaction(tree, e, text) \o ppoutputdisconnect(tree, e)
<1>1. Finished(f, Exact(tree, e), ~Hollow(tree))
  BY ReleaseFinished
<1> HIDE DEF f
<1>2. Part(f)
  BY <1>1 DEF Finished, Frame
<1>3. Clean(f) => Complete(f, e, tree)
  BY <1>1, FinishedComplete
<1> QED BY <1>2, <1>3 DEF Part, Writable, Texts, f

LEMMA OneWritable ==
  ASSUME NEW tree, NEW e, NEW x, x.kind \in {"copy", "varying"}
  PROVE  Writable(<<x>>, e, tree) /\ Texts(<<x>>)
<1> DEFINE f == <<x>>
<1>1. IsSeq(f) /\ Len(f) = 1 /\ f[1] = x
  BY SeqParts
<1> HIDE DEF f
<1>2. \A k \in 1..Len(f) : k = 1
  BY <1>1
<1>3. Writable(f, e, tree) /\ Texts(f)
  BY <1>1, <1>2 DEF Writable, Texts, Clean
<1> QED BY <1>3 DEF f

LEMMA EmptyWritable ==
  ASSUME NEW tree, NEW e
  PROVE  Writable(<<>>, e, tree) /\ Texts(<<>>)
<1> DEFINE z == <<>>
<1>1. IsSeq(z) /\ Len(z) = 0 /\ z = <<>>
  BY SeqParts
<1> HIDE DEF z
<1>2. Writable(z, e, tree) /\ Texts(z)
  BY <1>1 DEF Writable, Texts, Clean
<1> QED BY <1>2 DEF z

LEMMA FillerWritable ==
  ASSUME NEW tree, NEW e, NEW list, Later(list)
  PROVE  Writable(outsqlfiller(list), e, tree) /\ Texts(outsqlfiller(list))
<1> DEFINE n == Len(list)
           One(i) == [kind |-> "filler", sql |-> list[i].sqlname, text |-> list[i].text,
                      fillers |-> sql_string(TextBytes(list[i].text))]
           q == [i \in 1..n |-> IF list[i].text = <<>> THEN <<>> ELSE <<One(i)>>]
           f == FlattenSeq(q)
           Good(x) == x.kind = "filler" /\ Whole(TextBytes(x.text), x.fillers)
           Goods(a) == IsSeq(a) /\ \A k \in 1..Len(a) : Good(a[k])
<1>1. outsqlfiller(list) = f
  BY DEF outsqlfiller
<1>2. n \in Nat
  BY SeqIs DEF Later
<1>3. IsSeq(q) /\ Len(q) = n
  BY <1>2, SeqMade
<1>4. \A i \in 1..n : Good(One(i))
  BY TextWhole DEF Later
<1> HIDE DEF One, Good
<1>5. Goods(<<>>)
  BY SeqParts
<1>6. ASSUME NEW i \in 1..n PROVE Goods(q[i])
  <2>1. CASE list[i].text = <<>>
    BY <1>5, <2>1
  <2>2. CASE list[i].text # <<>>
    <3> DEFINE a == <<One(i)>>
    <3>1. IsSeq(a) /\ Len(a) = 1 /\ a[1] = One(i) /\ q[i] = a
      BY <2>2, SeqParts
    <3> HIDE DEF a, q
    <3>2. \A k \in 1..Len(a) : k = 1
      BY <3>1
    <3> QED BY <1>4, <3>1, <3>2
  <2> QED BY <2>1, <2>2
<1>7. ASSUME NEW a, NEW b, Goods(a), Goods(b) PROVE Goods(a \o b)
  <2>1. IsSeq(a \o b)
    BY <1>7, SeqConcat
  <2>2. \A k \in 1..Len(a \o b) : Good((a \o b)[k])
    <3> SUFFICES ASSUME NEW k \in 1..Len(a \o b) PROVE Good((a \o b)[k])
      OBVIOUS
    <3>1. \/ k \in 1..Len(a) /\ (a \o b)[k] = a[k]
          \/ k - Len(a) \in 1..Len(b) /\ (a \o b)[k] = b[k - Len(a)]
      BY <1>7, SeqPlaces
    <3> QED BY <1>7, <3>1
  <2> QED BY <2>1, <2>2
<1> HIDE DEF q
<1>8. Goods(f)
  <2>1. CASE n = 0
    <3>1. q = <<>>
      BY <1>3, <2>1, SeqEmpty
    <3>2. f = <<>>
      BY <3>1 DEF FlattenSeq
    <3> QED BY <1>5, <3>2
  <2>2. CASE n # 0
    <3>1. \A i \in 1..Len(q) : IsSeq(q[i])
      BY <1>3, <1>6
    <3>0. IsSeq(q) /\ Len(q) > 0
      BY <1>2, <1>3, <2>2
    <3>2. PICK g : /\ g[0] = <<>> /\ FlattenSeq(q) = g[Len(q)]
                   /\ \A i \in 0..Len(q) : IsSeq(g[i])
                   /\ \A i \in 1..Len(q) : g[i] = g[i - 1] \o q[i]
      BY <3>0, <3>1, Flatten
    <3> DEFINE S == {i \in 0..n : Goods(g[i])}
    <3>3. 0 \in S
      BY <1>2, <1>5, <3>2
    <3>4. \A i \in 1..n : i - 1 \in S => i \in S
      <4> SUFFICES ASSUME NEW i \in 1..n, Goods(g[i - 1]) PROVE Goods(g[i])
        BY <1>2
      <4> HIDE DEF Goods
      <4> QED BY <1>3, <1>6, <1>7, <3>2
    <3> HIDE DEF S
    <3>5. \A i \in 0..n : i \in S
      BY <1>2, <3>3, <3>4, InductInterval
    <3> HIDE DEF Goods
    <3>6. Goods(g[n])
      BY <1>2, <3>5 DEF S
    <3> QED BY <1>3, <3>2, <3>6
  <2> QED BY <2>1, <2>2
<1> HIDE DEF f
<1>9. IsSeq(f) /\ \A k \in 1..Len(f) : Good(f[k])
  BY <1>8
<1>10. ~Clean(f)
  <2> SUFFICES ASSUME Clean(f) PROVE FALSE
    OBVIOUS
  <2>1. Len(f) \in Nat /\ Len(f) # 0
    BY <1>9, SeqEmpty, SeqIs DEF Clean
  <2>2. f[1].kind = "filler"
    BY <1>9, <2>1 DEF Good
  <2> QED BY <2>2 DEF Clean
<1>11. Writable(f, e, tree)
  BY <1>9, <1>10 DEF Writable, Good
<1>12. Texts(f)
  BY <1>9 DEF Texts, Good
<1> QED BY <1>1, <1>11, <1>12

LEMMA ContextWritable ==
  ASSUME NEW tree, Walkable(tree), NEW e, Emittable(e), e.command \in Commands
  PROVE  Writable(ppoutcontext(tree, e), e, tree) /\ Texts(ppoutcontext(tree, e))
<1>0. e.period \in BOOLEAN
  BY DEF Emittable
<1>1. CASE e.command = "CONNECT"
  BY <1>0, <1>1, ConnectFinal, FinalWritable DEF ppoutcontext
<1>2. CASE e.command = "OPEN"
  BY <1>2, OpenFinal, FinalWritable DEF ppoutcontext
<1>3. CASE e.command = "EXECUTE"
  BY <1>3, ExecPrepareFinal, FinalWritable DEF ppoutcontext
<1>4. CASE e.command = "FETCH"
  BY <1>4, FetchFinal, FinalWritable DEF ppoutcontext
<1>5. CASE e.command = "COMMIT"
  BY <1>5, EndFinal, FinalWritable DEF ppoutcontext, ppoutputcommit
<1>6. CASE e.command = "COMMIT_RELEASE"
  BY <1>6, ReleaseWritable DEF ppoutcontext, ppoutputcommit
<1>7. CASE e.command = "ROLLBACK"
  BY <1>7, EndFinal, FinalWritable DEF ppoutcontext, ppoutputrollback
<1>8. CASE e.command = "ROLLBACK_RELEASE"
  BY <1>8, ReleaseWritable DEF ppoutcontext, ppoutputrollback
<1>9. CASE e.command \in {"INSERT", "UPDATE", "DELETE"}
  <2>1. ppoutcontext(tree, e) = ppoutputother(tree, e)
    BY <1>9 DEF ppoutcontext
  <2> QED BY <2>1, OtherFinal, FinalWritable
<1>10. CASE e.command = "PREPARE"
  BY <1>0, <1>10, PrepareFinal, FinalWritable DEF ppoutcontext
<1>11. CASE e.command = "DISCONNECT"
  BY <1>0, <1>11, DisconnectFinal, FinalWritable DEF ppoutcontext
<1> QED BY <1>1, <1>2, <1>3, <1>4, <1>5, <1>6, <1>7, <1>8, <1>9, <1>10, <1>11 DEF Commands

(* What ppbuff writes for any entry on any tree whose walks end: either a  *)
(* complete frame, with its period where it belongs, or an error is in it; *)
(* and the texts it writes are whole.                                      *)
THEOREM PpbuffWritable ==
  ASSUME NEW tree, Walkable(tree), NEW e, Emittable(e), NEW later, Later(later)
  PROVE  Writable(ppbuff(tree, e, later), e, tree) /\ Texts(ppbuff(tree, e, later))
<1> DEFINE f == ppbuff(tree, e, later)
<1>0. e.period \in BOOLEAN
  BY DEF Emittable
<1>1. CASE e.command \in Commands
  <2>1. f = ppoutcontext(tree, e)
    BY <1>1 DEF ppbuff, Commands
  <2> QED BY <1>1, <2>1, ContextWritable
<1>2. CASE e.command \notin Commands /\ e.putother
  <2>1. f = ppoutputother(tree, e)
    BY <1>2 DEF ppbuff
  <2> QED BY <2>1, OtherFinal, FinalWritable
<1>3. CASE e.command \notin Commands /\ ~e.putother
  <2>1. CASE e.command = "INCLUDE"
    <3>1. f = <<[kind |-> "copy"]>>
      BY <1>3, <2>1 DEF ppbuff, Commands
    <3> QED BY <3>1, OneWritable
  <2>2. CASE e.command = "WORKING_END"
    <3>1. f = outsqlfiller(later)
      BY <1>3, <2>2 DEF ppbuff, Commands
    <3> QED BY <3>1, FillerWritable
  <2>3. CASE e.command = "VARYING_PARAM"
    <3>1. f = VaryingLines(tree, e)
      BY <1>3, <2>3 DEF ppbuff, Commands
    <3> DEFINE x == [kind |-> "varying", name |-> tree.f[e.varying].sname,
                     size |-> tree.f[e.varying].picnsize]
    <3>2. f = <<x>> /\ x.kind = "varying"
      BY <3>1 DEF VaryingLines
    <3> HIDE DEF x, f
    <3>3. Writable(<<x>>, e, tree) /\ Texts(<<x>>)
      BY <3>2, OneWritable
    <3>4. Writable(f, e, tree) /\ Texts(f)
      BY <3>2, <3>3
    <3> QED BY <3>4 DEF f
  <2>4. CASE e.command = "SELECT"
    <3>1. f = IF e.res = <<>> THEN SelectCursor(tree, e) ELSE SelectInto(tree, e)
      BY <1>3, <2>4 DEF ppbuff, Commands
    <3> QED BY <3>1, CursorFinal, IntoFinal, FinalWritable
  <2>5. CASE e.command = "" /\ e.prep # ""
    <3>1. f = PreparedCursor(tree, e)
      BY <1>3, <2>5 DEF ppbuff, Commands
    <3> QED BY <1>0, <3>1, PreparedCursorFinal, FinalWritable
  <2>6. CASE e.command = "CLOSE"
    <3>1. f = CursorClose(e)
      BY <1>3, <2>6 DEF ppbuff, Commands
    <3> QED BY <1>0, <3>1, CloseFinal, FinalWritable
  <2>7. CASE /\ e.command \notin {"INCLUDE", "WORKING_END", "VARYING_PARAM", "SELECT", "CLOSE"}
             /\ ~(e.command = "" /\ e.prep # "")
    <3>1. f = <<>>
      BY <1>3, <2>7 DEF ppbuff
    <3>2. Writable(<<>>, e, tree) /\ Texts(<<>>)
      BY EmptyWritable
    <3> QED BY <3>1, <3>2
  <2> QED BY <2>1, <2>2, <2>3, <2>4, <2>5, <2>6, <2>7
<1> QED BY <1>1, <1>2, <1>3

-----------------------------------------------------------------------------
(* The types of the scanner, rule by rule                                  *)

States == {"INITIAL", "WORKING", "FUNC", "ESQL", "DBNAME", "WHERE_CURRENT_OF", "INCLUDE",
           "SWALLOWED"}

(* The strings of the scanner itself are written out: that a string is in  *)
(* STRING is nothing the provers know.                                     *)
Strings ==
  STRING \cup
  {"", "$", "TOKEN", "OTHERFUNC", "HOST", "AT", "SELECT", "INSERT", "DELETE", "UPDATE",
   "DISCONNECT", "CONNECT", "OPEN", "PREPARE", "EXECUTE", "CLOSE", "FETCH", "DECLARE",
   "COMMIT", "ROLLBACK", "COMMIT_RELEASE", "ROLLBACK_RELEASE", "SELECTFROM", "FROM", "CURSOR",
   "FOR", "IDENTIFIED", "USING", "INTO", "WHERECURRENTOF", "CURNAME", "INCLUDE",
   "INCLUDE_SQLCA", "INCLUDE_FILE", "INCFILE", "VARYING", "VARYING_PARAM", "HOST_BEGIN",
   "HOST_END", "WORKING_BEGIN", "WORKING_END"}

Tokens == [kind : Strings, text : Strings, n : Nat]

(* The fields that entries name are the first n; T are the trees.          *)
Globals(n) ==
  [hosts : Seq(Strings), res : Seq(Strings), text : Seq(Tokens), db : Strings, prep : Strings,
   cursor : Strings, sqlname : Nat, inc : Strings, varying : 0..n, at : BOOLEAN,
   putother : BOOLEAN]

Entries(n) ==
  [start : Nat, end : Nat, period : BOOLEAN, command : Strings, hosts : Seq(Strings),
   res : Seq(Strings), text : Seq(Tokens), db : Strings, prep : Strings, cursor : Strings,
   sqlname : Nat, inc : Strings, varying : 0..n, at : BOOLEAN, putother : BOOLEAN]

Scanners(T, n) ==
  [state : States, below : States, insql : BOOLEAN, select : BOOLEAN, sqlnum : Nat,
   period : BOOLEAN, command : Strings, start : Nat, end : Nat, toks : Seq(Tokens),
   list : Seq(Entries(n)), tree : T, error : BOOLEAN, here : Globals(n)]

LEMMA HereTyped ==
  ASSUME NEW T, NEW n \in Nat, NEW x \in Scanners(T, n)
  PROVE  /\ x.here \in Globals(n)
         /\ \A h \in Globals(n) : [x EXCEPT !.here = h] \in Scanners(T, n)
BY DEF Scanners

LEMMA TokTyped ==
  ASSUME NEW T, NEW n \in Nat, NEW x \in Scanners(T, n), NEW kind \in Strings, NEW w \in Words
  PROVE  Tok(x, kind, w) \in Scanners(T, n)
<1>0. w.text \in Strings /\ w.n \in Nat
  BY DEF Words, Strings
<1>1. [kind |-> kind, text |-> w.text, n |-> w.n] \in Tokens
  BY <1>0 DEF Tokens
<1>2. Append(x.toks, [kind |-> kind, text |-> w.text, n |-> w.n]) \in Seq(Tokens)
  BY <1>1 DEF Scanners
<1> QED BY <1>2 DEF Scanners, Tok

LEMMA NumberedTyped ==
  ASSUME NEW T, NEW n \in Nat, NEW x \in Scanners(T, n), NEW w \in Words
  PROVE  Numbered(x, w) \in Scanners(T, n)
<1> DEFINE h == [x.here EXCEPT !.sqlname = x.sqlnum + 1]
<1>0. w.text \in Strings
  BY DEF Words, Strings
<1>1. x.sqlnum + 1 \in Nat /\ w.text \in Strings
  BY <1>0 DEF Scanners
<1>4. x.here \in Globals(n)
  BY HereTyped
<1>2. h \in Globals(n)
  BY <1>1, <1>4 DEF Globals
<1>3. Numbered(x, w) = [x EXCEPT !.command = w.text, !.sqlnum = x.sqlnum + 1, !.here = h]
  BY DEF Numbered
<1> HIDE DEF h
<1> QED BY <1>1, <1>2, <1>3 DEF Scanners

LEMMA PushTyped ==
  ASSUME NEW T, NEW n \in Nat, NEW x \in Scanners(T, n), NEW state \in States
  PROVE  Push(x, state) \in Scanners(T, n) /\ Pop(x) \in Scanners(T, n)
BY DEF Push, Pop, Scanners

LEMMA BlankTyped ==
  ASSUME NEW n \in Nat
  PROVE  Blank \in Globals(n)
<1> DEFINE e == <<>>
<1>1. e \in Seq(Strings) /\ e \in Seq(Tokens)
  OBVIOUS
<1>2. Null \in 0..n
  BY DEF Null
<1>3. Blank = [hosts |-> e, res |-> e, text |-> e, db |-> "", prep |-> "", cursor |-> "",
               sqlname |-> 0, inc |-> "", varying |-> Null, at |-> FALSE, putother |-> FALSE]
  BY DEF Blank
<1> HIDE DEF e
<1>4. ASSUME NEW a \in Seq(Strings), NEW b \in Seq(Tokens), NEW c \in Strings, NEW d \in Nat,
             NEW i \in 0..n, NEW p \in BOOLEAN
      PROVE  [hosts |-> a, res |-> a, text |-> b, db |-> c, prep |-> c, cursor |-> c,
              sqlname |-> d, inc |-> c, varying |-> i, at |-> p, putother |-> p] \in Globals(n)
  BY DEF Globals
<1>5. "" \in Strings
  BY DEF Strings
<1>6. 0 \in Nat /\ FALSE \in BOOLEAN
  OBVIOUS
<1> QED BY <1>1, <1>2, <1>3, <1>4, <1>5, <1>6, Zenon

LEMMA ClearedTyped ==
  ASSUME NEW T, NEW n \in Nat, NEW x \in Scanners(T, n)
  PROVE  Cleared(x) \in Scanners(T, n)
BY BlankTyped, HereTyped DEF Cleared

LEMMA EntryTyped ==
  ASSUME NEW T, NEW n \in Nat, NEW x \in Scanners(T, n), NEW command \in Strings, NEW line_ \in Nat
  PROVE  Entry(x, command, line_) \in Scanners(T, n)
<1> DEFINE y == Cleared(x)
           e == x.toks # <<>>
<1>1. y \in Scanners(T, n)
  BY ClearedTyped
<1>2. Entry(x, command, line_) =
        [y EXCEPT !.command = command, !.start = line_, !.end = line_, !.error = e]
  BY DEF Entry
<1>3. e \in BOOLEAN
  OBVIOUS
<1> HIDE DEF y, e
<1> QED BY <1>1, <1>2, <1>3 DEF Scanners

LEMMA PutTyped ==
  ASSUME NEW T, NEW n \in Nat, NEW x \in Scanners(T, n)
  PROVE  put_exec_list(x) \in Scanners(T, n)
<1> DEFINE h == x.here
           e == [start |-> x.start, end |-> x.end, period |-> x.period,
                 command |-> x.command, hosts |-> h.hosts, res |-> h.res,
                 text |-> h.text, db |-> h.db, prep |-> h.prep, cursor |-> h.cursor,
                 sqlname |-> h.sqlname, inc |-> h.inc, varying |-> h.varying,
                 at |-> h.at, putother |-> h.putother]
<1>0. h \in Globals(n)
  BY HereTyped
<1>1. e \in Entries(n)
  <2> HIDE DEF h
  <2>1. x.start \in Nat /\ x.end \in Nat /\ x.period \in BOOLEAN /\ x.command \in Strings
    BY DEF Scanners
  <2> QED BY <1>0, <2>1 DEF Globals, Entries
<1>2. put_exec_list(x) = [x EXCEPT !.toks = <<>>, !.list = Append(x.list, e)]
  BY DEF put_exec_list
<1> HIDE DEF e
<1>3. Append(x.list, e) \in Seq(Entries(n))
  BY <1>1 DEF Scanners
<1>4. <<>> \in Seq(Tokens)
  OBVIOUS
<1> QED BY <1>2, <1>3, <1>4 DEF Scanners

LEMMA HostTyped ==
  ASSUME NEW T, NEW n \in Nat, NEW x \in Scanners(T, n), NEW name \in Strings
  PROVE  /\ cb_host_list_add(x, name) \in Scanners(T, n)
         /\ cb_res_host_list_add(x, name) \in Scanners(T, n)
         /\ cb_set_cursorname(x, name) \in Scanners(T, n)
         /\ [x EXCEPT !.here.prep = name] \in Scanners(T, n)
         /\ [x EXCEPT !.here.db = name] \in Scanners(T, n)
         /\ [x EXCEPT !.here.inc = name] \in Scanners(T, n)
<1> DEFINE h == x.here
<1>1. h \in Globals(n)
  BY HereTyped
<1>2. Append(h.hosts, name) \in Seq(Strings) /\ Append(h.res, name) \in Seq(Strings)
  <2> HIDE DEF h
  <2> QED BY <1>1 DEF Globals
<1>3. /\ [h EXCEPT !.hosts = Append(h.hosts, name)] \in Globals(n)
      /\ [h EXCEPT !.res = Append(h.res, name)] \in Globals(n)
      /\ [h EXCEPT !.cursor = name] \in Globals(n)
      /\ [h EXCEPT !.prep = name] \in Globals(n)
      /\ [h EXCEPT !.db = name] \in Globals(n)
      /\ [h EXCEPT !.inc = name] \in Globals(n)
  <2> HIDE DEF h
  <2> QED BY <1>1, <1>2 DEF Globals
<1>4. /\ cb_host_list_add(x, name) = [x EXCEPT !.here = [h EXCEPT !.hosts = Append(h.hosts, name)]]
      /\ cb_res_host_list_add(x, name) = [x EXCEPT !.here = [h EXCEPT !.res = Append(h.res, name)]]
      /\ cb_set_cursorname(x, name) = [x EXCEPT !.here = [h EXCEPT !.cursor = name]]
      /\ [x EXCEPT !.here.prep = name] = [x EXCEPT !.here = [h EXCEPT !.prep = name]]
      /\ [x EXCEPT !.here.db = name] = [x EXCEPT !.here = [h EXCEPT !.db = name]]
      /\ [x EXCEPT !.here.inc = name] = [x EXCEPT !.here = [h EXCEPT !.inc = name]]
  BY DEF cb_host_list_add, cb_res_host_list_add, cb_set_cursorname
<1> HIDE DEF h
<1>5. \A g \in Globals(n) : [x EXCEPT !.here = g] \in Scanners(T, n)
  BY HereTyped
<1> QED BY <1>3, <1>4, <1>5

LEMMA PieceTyped ==
  ASSUME NEW T, NEW n \in Nat, NEW x \in Scanners(T, n), NEW k \in Tokens
  PROVE  cb_add_text_list(x, k) \in Scanners(T, n)
<1>1. ASSUME NEW y \in Scanners(T, n), NEW p \in Tokens
      PROVE  [y EXCEPT !.here.text = Append(@, p)] \in Scanners(T, n)
  <2> DEFINE h == y.here
  <2>1. h \in Globals(n)
    BY HereTyped
  <2>2. [y EXCEPT !.here.text = Append(@, p)] = [y EXCEPT !.here = [h EXCEPT !.text = Append(h.text, p)]]
    OBVIOUS
  <2> HIDE DEF h
  <2>3. Append(h.text, p) \in Seq(Tokens)
    BY <2>1 DEF Globals
  <2>4. [h EXCEPT !.text = Append(h.text, p)] \in Globals(n)
    BY <2>1, <2>3 DEF Globals
  <2> QED BY <2>2, <2>4, HereTyped
<1>2. k.text \in Strings
  BY DEF Tokens
<1> DEFINE host == cb_host_list_add(x, k.text)
           p == [k EXCEPT !.text = "$", !.n = Len(host.here.hosts)]
<1>3. host \in Scanners(T, n) /\ cb_set_cursorname(x, k.text) \in Scanners(T, n)
  BY <1>2, HostTyped
<1>4. p \in Tokens
  <2> HIDE DEF host
  <2>0. host.here \in Globals(n)
    BY <1>3, HereTyped
  <2>1. Len(host.here.hosts) \in Nat /\ "$" \in Strings
    <3>1. host.here.hosts \in Seq(Strings)
      BY <2>0 DEF Globals
    <3>2. "$" \in Strings
      BY DEF Strings
    <3> QED BY <3>1, <3>2
  <2> QED BY <2>1 DEF Tokens
<1>5. CASE k.kind = "HOST"
  <2>1. cb_add_text_list(x, k) = [host EXCEPT !.here.text = Append(@, p)]
    BY <1>5 DEF cb_add_text_list
  <2> HIDE DEF host, p
  <2> QED BY <1>1, <1>3, <1>4, <2>1
<1>6. CASE k.kind = "CURNAME"
  <2>1. cb_add_text_list(x, k) = [cb_set_cursorname(x, k.text) EXCEPT !.here.text = Append(@, k)]
    BY <1>6 DEF cb_add_text_list
  <2> QED BY <1>1, <1>3, <2>1
<1>7. CASE k.kind \notin {"HOST", "CURNAME"}
  <2>1. cb_add_text_list(x, k) = [x EXCEPT !.here.text = Append(@, k)]
    BY <1>7 DEF cb_add_text_list
  <2> QED BY <1>1, <2>1
<1> QED BY <1>5, <1>6, <1>7


LEMMA TextTyped ==
  ASSUME NEW T, NEW n \in Nat, NEW x \in Scanners(T, n), NEW t \in Seq(Tokens)
  PROVE  TextOf(x, t) \in Scanners(T, n)
<1> DEFINE m == Len(t)
           V == Scanners(T, n)
           step == [p \in (1..m) \X V |-> cb_add_text_list(p[2], t[p[1]])]
           Is(u) == u = [i \in 0..m |-> IF i = 0 THEN x ELSE cb_add_text_list(u[i - 1], t[i])]
<1>1. m \in Nat /\ \A i \in 1..m : t[i] \in Tokens
  OBVIOUS
<1>2. \A i \in 1..m : \A y \in V : cb_add_text_list(y, t[i]) \in V
  BY <1>1, PieceTyped
<1>v. x \in V
  OBVIOUS
<1> HIDE DEF V
<1>3. step \in [(1..m) \X V -> V] /\ \A i \in 1..m : \A y \in V : step[<<i, y>>] = cb_add_text_list(y, t[i])
  BY <1>2
<1> HIDE DEF step, m
<1>4. PICK g : Upward(V, x, m, step, g)
  BY <1>1, <1>3, <1>v, IntervalRecursion
<1>5. Is(g)
  <2>1. ASSUME NEW i \in 0..m
        PROVE  g[i] = IF i = 0 THEN x ELSE cb_add_text_list(g[i - 1], t[i])
    <3>1. CASE i = 0
      BY <1>4, <3>1 DEF Upward
    <3>2. CASE i # 0
      <4>1. i \in 1..m /\ i - 1 \in 0..m
        BY <1>1, <3>2
      <4>2. g[i] = step[<<i, g[i - 1]>>] /\ g[i - 1] \in V
        BY <1>4, <4>1 DEF Upward
      <4> QED BY <1>3, <3>2, <4>1, <4>2
    <3> QED BY <3>1, <3>2
  <2>2. g = [i \in 0..m |-> g[i]]
    BY <1>4 DEF Upward
  <2> QED BY <2>1, <2>2, Zenon
<1> DEFINE u == CHOOSE u : Is(u)
<1>6. Is(u)
  <2> HIDE DEF Is
  <2> QED BY <1>5, Zenon
<1>7. TextOf(x, t) = u[m]
  BY DEF TextOf, m
<1> HIDE DEF u
<1>8. \A i \in 0..m : u[i] = IF i = 0 THEN x ELSE cb_add_text_list(u[i - 1], t[i])
  BY <1>6, Zenon
<1> DEFINE S == {i \in 0..m : u[i] \in V}
<1>9. 0 \in S
  BY <1>1, <1>8, <1>v
<1>10. \A i \in 1..m : i - 1 \in S => i \in S
  <2> SUFFICES ASSUME NEW i \in 1..m, u[i - 1] \in V PROVE u[i] \in V
    BY <1>1
  <2>1. i \in 0..m /\ i # 0
    BY <1>1
  <2>2. u[i] = cb_add_text_list(u[i - 1], t[i])
    BY <1>8, <2>1, Zenon
  <2> QED BY <1>2, <2>2
<1> HIDE DEF S
<1>11. \A i \in 0..m : i \in S
  BY <1>1, <1>9, <1>10, InductInterval
<1> QED BY <1>1, <1>7, <1>11 DEF S, V

LEMMA HostsTyped ==
  ASSUME NEW T, NEW n \in Nat, NEW x \in Scanners(T, n), NEW t \in Seq(Tokens)
  PROVE  HostsOf(x, t, cb_host_list_add) \in Scanners(T, n)
<1> DEFINE m == Len(t)
           V == Scanners(T, n)
           Step(i, y) == IF t[i].kind = "HOST" THEN cb_host_list_add(y, t[i].text) ELSE y
           step == [p \in (1..m) \X V |-> Step(p[1], p[2])]
           Is(u) == u = [i \in 0..m |-> IF i = 0 THEN x ELSE Step(i, u[i - 1])]
<1>1. m \in Nat /\ \A i \in 1..m : t[i] \in Tokens
  OBVIOUS
<1>2. \A i \in 1..m : \A y \in V : Step(i, y) \in V
  BY <1>1, HostTyped DEF Tokens
<1>v. x \in V
  OBVIOUS
<1> HIDE DEF V
<1>3. step \in [(1..m) \X V -> V] /\ \A i \in 1..m : \A y \in V : step[<<i, y>>] = Step(i, y)
  BY <1>2
<1> HIDE DEF step, m, Step
<1>4. PICK g : Upward(V, x, m, step, g)
  BY <1>1, <1>3, <1>v, IntervalRecursion
<1>5. Is(g)
  <2>1. ASSUME NEW i \in 0..m
        PROVE  g[i] = IF i = 0 THEN x ELSE Step(i, g[i - 1])
    <3>1. CASE i = 0
      BY <1>4, <3>1 DEF Upward
    <3>2. CASE i # 0
      <4>1. i \in 1..m /\ i - 1 \in 0..m
        BY <1>1, <3>2
      <4>2. g[i] = step[<<i, g[i - 1]>>] /\ g[i - 1] \in V
        BY <1>4, <4>1 DEF Upward
      <4> QED BY <1>3, <3>2, <4>1, <4>2
    <3> QED BY <3>1, <3>2
  <2>2. g = [i \in 0..m |-> g[i]]
    BY <1>4 DEF Upward
  <2> QED BY <2>1, <2>2, Zenon
<1> DEFINE u == CHOOSE u : Is(u)
<1>6. Is(u)
  <2> HIDE DEF Is
  <2> QED BY <1>5, Zenon
<1>7. HostsOf(x, t, cb_host_list_add) = u[m]
  BY DEF HostsOf, m, Step
<1> HIDE DEF u
<1>8. \A i \in 0..m : u[i] = IF i = 0 THEN x ELSE Step(i, u[i - 1])
  BY <1>6, Zenon
<1> DEFINE S == {i \in 0..m : u[i] \in V}
<1>9. 0 \in S
  BY <1>1, <1>8, <1>v
<1>10. \A i \in 1..m : i - 1 \in S => i \in S
  <2> SUFFICES ASSUME NEW i \in 1..m, u[i - 1] \in V PROVE u[i] \in V
    BY <1>1
  <2>1. i \in 0..m /\ i # 0
    BY <1>1
  <2>2. u[i] = Step(i, u[i - 1])
    BY <1>8, <2>1, Zenon
  <2> QED BY <1>2, <2>2
<1> HIDE DEF S
<1>11. \A i \in 0..m : i \in S
  BY <1>1, <1>9, <1>10, InductInterval
<1> QED BY <1>1, <1>7, <1>11 DEF S, V

LEMMA ResTyped ==
  ASSUME NEW T, NEW n \in Nat, NEW x \in Scanners(T, n), NEW t \in Seq(Tokens)
  PROVE  HostsOf(x, t, cb_res_host_list_add) \in Scanners(T, n)
<1> DEFINE m == Len(t)
           V == Scanners(T, n)
           Step(i, y) == IF t[i].kind = "HOST" THEN cb_res_host_list_add(y, t[i].text) ELSE y
           step == [p \in (1..m) \X V |-> Step(p[1], p[2])]
           Is(u) == u = [i \in 0..m |-> IF i = 0 THEN x ELSE Step(i, u[i - 1])]
<1>1. m \in Nat /\ \A i \in 1..m : t[i] \in Tokens
  OBVIOUS
<1>2. \A i \in 1..m : \A y \in V : Step(i, y) \in V
  BY <1>1, HostTyped DEF Tokens
<1>v. x \in V
  OBVIOUS
<1> HIDE DEF V
<1>3. step \in [(1..m) \X V -> V] /\ \A i \in 1..m : \A y \in V : step[<<i, y>>] = Step(i, y)
  BY <1>2
<1> HIDE DEF step, m, Step
<1>4. PICK g : Upward(V, x, m, step, g)
  BY <1>1, <1>3, <1>v, IntervalRecursion
<1>5. Is(g)
  <2>1. ASSUME NEW i \in 0..m
        PROVE  g[i] = IF i = 0 THEN x ELSE Step(i, g[i - 1])
    <3>1. CASE i = 0
      BY <1>4, <3>1 DEF Upward
    <3>2. CASE i # 0
      <4>1. i \in 1..m /\ i - 1 \in 0..m
        BY <1>1, <3>2
      <4>2. g[i] = step[<<i, g[i - 1]>>] /\ g[i - 1] \in V
        BY <1>4, <4>1 DEF Upward
      <4> QED BY <1>3, <3>2, <4>1, <4>2
    <3> QED BY <3>1, <3>2
  <2>2. g = [i \in 0..m |-> g[i]]
    BY <1>4 DEF Upward
  <2> QED BY <2>1, <2>2, Zenon
<1> DEFINE u == CHOOSE u : Is(u)
<1>6. Is(u)
  <2> HIDE DEF Is
  <2> QED BY <1>5, Zenon
<1>7. HostsOf(x, t, cb_res_host_list_add) = u[m]
  BY DEF HostsOf, m, Step
<1> HIDE DEF u
<1>8. \A i \in 0..m : u[i] = IF i = 0 THEN x ELSE Step(i, u[i - 1])
  BY <1>6, Zenon
<1> DEFINE S == {i \in 0..m : u[i] \in V}
<1>9. 0 \in S
  BY <1>1, <1>8, <1>v
<1>10. \A i \in 1..m : i - 1 \in S => i \in S
  <2> SUFFICES ASSUME NEW i \in 1..m, u[i - 1] \in V PROVE u[i] \in V
    BY <1>1
  <2>1. i \in 0..m /\ i # 0
    BY <1>1
  <2>2. u[i] = Step(i, u[i - 1])
    BY <1>8, <2>1, Zenon
  <2> QED BY <1>2, <2>2
<1> HIDE DEF S
<1>11. \A i \in 0..m : i \in S
  BY <1>1, <1>9, <1>10, InductInterval
<1> QED BY <1>1, <1>7, <1>11 DEF S, V

LEMMA SubTyped ==
  ASSUME NEW S, NEW t \in Seq(S), NEW i \in Nat, i > 0, NEW j \in 0..Len(t)
  PROVE  SubSeq(t, i, j) \in Seq(S)
<1>1. CASE i <= j
  BY <1>1
<1>2. CASE i > j
  <2>1. SubSeq(t, i, j) = <<>>
    BY <1>2
  <2> QED BY <2>1
<1> QED BY <1>1, <1>2

LEMMA Selected ==
  ASSUME NEW m \in Nat, NEW I, I \subseteq 1..m
  PROVE  (IF I # {} THEN Min(I) ELSE 0) \in 0..m
<1>1. CASE I # {}
  <2>1. I \subseteq Nat
    OBVIOUS
  <2>2. \E x \in I : \A y \in I : x <= y
    BY <1>1, <2>1, LeastNat
  <2>3. Min(I) \in I
    BY <2>2 DEF Min
  <2> DEFINE k == Min(I)
  <2>4. k \in 0..m
    <3>1. k \in I
      BY <2>3
    <3> HIDE DEF k
    <3> QED BY <3>1
  <2> HIDE DEF k
  <2>5. (IF I # {} THEN k ELSE 0) \in 0..m
    BY <1>1, <2>4
  <2> QED BY <2>5 DEF k
<1>2. CASE I = {}
  BY <1>2
<1> QED BY <1>1, <1>2

(* The productions, each with the states it leads to.                      *)
LEMMA WhenTyped ==
  ASSUME NEW V, NEW cond, NEW y, cond => y \in V
  PROVE  When(cond, y) \subseteq V
BY DEF When

LEMMA TailTyped ==
  ASSUME NEW b \in Seq(Tokens), NEW i \in Nat, i > 0
  PROVE  From(b, i) \in Seq(Tokens)
BY SubTyped DEF From

LEMMA WordTyped ==
  ASSUME NEW b \in Seq(Tokens), NEW i \in Nat, i > 0, i <= Len(b)
  PROVE  b[i] \in Tokens /\ b[i].text \in Strings
<1>1. b[i] \in Tokens
  OBVIOUS
<1> QED BY <1>1 DEF Tokens

LEMMA SimpleTyped ==
  ASSUME NEW T, NEW n \in Nat, NEW x \in Scanners(T, n), NEW b \in Seq(Tokens), b # <<>>
  PROVE  /\ TextSql(x, b) \subseteq Scanners(T, n)
         /\ EndSql(x, b) \subseteq Scanners(T, n)
         /\ IncludeSql(x, b) \subseteq Scanners(T, n)
         /\ connectsql(x, b) \subseteq Scanners(T, n)
BY TextTyped, HostsTyped, WhenTyped DEF TextSql, EndSql, IncludeSql, connectsql

LEMMA CursorsTyped ==
  ASSUME NEW T, NEW n \in Nat, NEW x \in Scanners(T, n), NEW b \in Seq(Tokens)
  PROVE  /\ fetchsql(x, b) \subseteq Scanners(T, n)
         /\ closesql(x, b) \subseteq Scanners(T, n)
         /\ opensql(x, b) \subseteq Scanners(T, n)
<1> DEFINE y == cb_set_cursorname(x, b[2].text)
<1>1. Len(b) \in Nat
  OBVIOUS
<1>2. Len(b) >= 2 => y \in Scanners(T, n)
  <2> SUFFICES ASSUME Len(b) >= 2 PROVE y \in Scanners(T, n)
    OBVIOUS
  <2>1. b[2].text \in Strings
    BY <1>1, WordTyped
  <2> QED BY <2>1, HostTyped
<1>3. \A i \in 1..Len(b) : From(b, i) \in Seq(Tokens)
  BY TailTyped
<1>4. From(b, 3) \in Seq(Tokens) /\ From(b, 4) \in Seq(Tokens)
  BY TailTyped
<1> HIDE DEF y
<1>5. fetchsql(x, b) \subseteq Scanners(T, n)
  <2>1. ASSUME Len(b) >= 2 PROVE HostsOf(y, From(b, 4), cb_res_host_list_add) \in Scanners(T, n)
    BY <1>2, <1>4, <2>1, ResTyped
  <2>2. CASE Len(b) >= 2
    BY <2>1, <2>2 DEF fetchsql, When, y
  <2>3. CASE ~(Len(b) >= 2)
    <3>1. ~(Len(b) >= 4)
      BY <1>1, <2>3
    <3> QED BY <3>1 DEF fetchsql, When
  <2> QED BY <2>2, <2>3
<1>6. closesql(x, b) \subseteq Scanners(T, n)
  <2>2. CASE Len(b) >= 2
    BY <1>2, <2>2 DEF closesql, When, y
  <2>3. CASE ~(Len(b) >= 2)
    <3>1. Len(b) # 2
      <4>1. Len(b) = 2 => Len(b) >= 2
        OBVIOUS
      <4> QED BY <2>3, <4>1
    <3> QED BY <3>1 DEF closesql, When
  <2> QED BY <2>2, <2>3
<1>7. opensql(x, b) \subseteq Scanners(T, n)
  <2>1. ASSUME Len(b) >= 2 PROVE HostsOf(y, From(b, 3), cb_host_list_add) \in Scanners(T, n)
    BY <1>2, <1>4, <2>1, HostsTyped
  <2>2. CASE Len(b) >= 2
    BY <2>1, <2>2 DEF opensql, When, y
  <2>3. CASE ~(Len(b) >= 2)
    BY <2>3 DEF opensql, When
  <2> QED BY <2>2, <2>3
<1> QED BY <1>5, <1>6, <1>7

LEMMA PreparedTyped ==
  ASSUME NEW T, NEW n \in Nat, NEW x \in Scanners(T, n), NEW b \in Seq(Tokens)
  PROVE  /\ preparesql(x, b) \subseteq Scanners(T, n)
         /\ execsql(x, b) \subseteq Scanners(T, n)
<1> DEFINE y == [x EXCEPT !.here.prep = b[2].text]
<1>1. Len(b) \in Nat
  OBVIOUS
<1>2. Len(b) >= 2 => y \in Scanners(T, n)
  <2> SUFFICES ASSUME Len(b) >= 2 PROVE y \in Scanners(T, n)
    OBVIOUS
  <2>1. b[2].text \in Strings
    BY <1>1, WordTyped
  <2> HIDE DEF Strings
  <2> QED BY <2>1, HostTyped
<1>3. From(b, 3) \in Seq(Tokens)
  BY TailTyped
<1> HIDE DEF y
<1>4. preparesql(x, b) \subseteq Scanners(T, n)
  <2>1. CASE KindsOf(b) = <<"PREPARE", "TOKEN", "FROM", "HOST">>
    <3>1. Len(b) = 4
      <4>1. Len(KindsOf(b)) = Len(b)
        BY DEF KindsOf
      <4>2. Len(KindsOf(b)) = 4
        BY <2>1
      <4> QED BY <4>1, <4>2
    <3>2. b[4].text \in Strings
      <4>1. 4 \in Nat /\ 4 > 0 /\ 4 <= Len(b)
        BY <3>1
      <4> QED BY <4>1, WordTyped
    <3>3. y \in Scanners(T, n)
      BY <1>2, <3>1
    <3>4. cb_host_list_add(y, b[4].text) \in Scanners(T, n)
      BY <3>2, <3>3, HostTyped
    <3> QED BY <3>4 DEF preparesql, When, y
  <2>2. CASE KindsOf(b) # <<"PREPARE", "TOKEN", "FROM", "HOST">>
    BY <2>2 DEF preparesql, When
  <2> QED BY <2>1, <2>2
<1>5. execsql(x, b) \subseteq Scanners(T, n)
  <2>1. ASSUME Len(b) >= 2 PROVE HostsOf(y, From(b, 3), cb_host_list_add) \in Scanners(T, n)
    BY <1>2, <1>3, <2>1, HostsTyped
  <2>2. CASE Len(b) >= 2
    BY <2>1, <2>2 DEF execsql, When, y
  <2>3. CASE ~(Len(b) >= 2)
    BY <2>3 DEF execsql, When
  <2> QED BY <2>2, <2>3
<1> QED BY <1>4, <1>5

LEMMA IntoTyped ==
  ASSUME NEW T, NEW n \in Nat, NEW x \in Scanners(T, n), NEW b \in Seq(Tokens)
  PROVE  selectintosql(x, b) \subseteq Scanners(T, n)
<1> DEFINE into == SelectInSeq(b, LAMBDA k : k.kind = "INTO")
           from == SelectInSeq(b, LAMBDA k : k.kind = "SELECTFROM")
           end  == IF from = 0 THEN Len(b) ELSE from - 1
           rest == IF from = 0 THEN <<>> ELSE From(b, from)
           head == Upto(b, into - 1)
           host == SubSeq(b, into + 1, end)
           y == HostsOf(TextOf(x, head), host, cb_res_host_list_add)
           cond == /\ b[1].kind = "SELECT" /\ into > 2 /\ (from = 0 \/ from > into)
                   /\ IsTokenList(SubSeq(b, 2, into - 1))
                   /\ IsHosts(host)
                   /\ from # 0 => IsTokenList(From(b, from + 1))
<1>1. Len(b) \in Nat
  OBVIOUS
<1>2. into \in 0..Len(b) /\ from \in 0..Len(b)
  <2> DEFINE I == {i \in 1..Len(b) : b[i].kind = "INTO"}
             J == {i \in 1..Len(b) : b[i].kind = "SELECTFROM"}
  <2>1. into = (IF I # {} THEN Min(I) ELSE 0) /\ from = (IF J # {} THEN Min(J) ELSE 0)
    BY DEF SelectInSeq
  <2>2. I \subseteq 1..Len(b) /\ J \subseteq 1..Len(b)
    OBVIOUS
  <2> HIDE DEF I, J, into, from
  <2>3. (IF I # {} THEN Min(I) ELSE 0) \in 0..Len(b) /\ (IF J # {} THEN Min(J) ELSE 0) \in 0..Len(b)
    BY <1>1, <2>2, Selected
  <2> QED BY <2>1, <2>3
<1>3. selectintosql(x, b) = When(cond, TextOf(y, rest))
  BY DEF selectintosql
<1> HIDE DEF into, from
<1>4. CASE into > 2
  <2>1. head \in Seq(Tokens)
    <3>1. into - 1 \in 0..Len(b)
      BY <1>2, <1>4
    <3> QED BY <3>1, SubTyped DEF Upto
  <2>2. host \in Seq(Tokens)
    <3>1. into + 1 \in Nat /\ into + 1 > 0 /\ end \in 0..Len(b)
      BY <1>1, <1>2, <1>4
    <3> HIDE DEF end
    <3> QED BY <3>1, SubTyped
  <2>3. rest \in Seq(Tokens)
    <3>1. CASE from = 0
      BY <3>1
    <3>2. CASE from # 0
      BY <1>2, <3>2, TailTyped
    <3> QED BY <3>1, <3>2
  <2> HIDE DEF head, host, rest
  <2>4. TextOf(x, head) \in Scanners(T, n)
    BY <2>1, TextTyped
  <2>5. y \in Scanners(T, n)
    BY <2>2, <2>4, ResTyped
  <2> HIDE DEF y, cond
  <2>6. TextOf(y, rest) \in Scanners(T, n)
    BY <2>3, <2>5, TextTyped
  <2> QED BY <1>3, <2>6, WhenTyped
<1>5. CASE ~(into > 2)
  <2>1. ~cond
    BY <1>5
  <2> HIDE DEF cond, y, rest
  <2> QED BY <1>3, <2>1 DEF When
<1> QED BY <1>4, <1>5

LEMMA DeclareTyped ==
  ASSUME NEW T, NEW n \in Nat, NEW x \in Scanners(T, n), NEW b \in Seq(Tokens)
  PROVE  declaresql(x, b) \subseteq Scanners(T, n)
<1> DEFINE y == cb_set_cursorname(x, b[2].text)
           z == IF b[5].kind = "SELECT" THEN TextOf(y, From(b, 5)) ELSE [y EXCEPT !.here.prep = b[5].text]
<1>1. Len(b) \in Nat
  OBVIOUS
<1>2. CASE Len(b) >= 5
  <2>1. b[2].text \in Strings /\ b[5].text \in Strings
    BY <1>1, <1>2, WordTyped
  <2>2. y \in Scanners(T, n)
    BY <2>1, HostTyped
  <2>3. From(b, 5) \in Seq(Tokens)
    BY TailTyped
  <2>4. z \in Scanners(T, n)
    <3> HIDE DEF y
    <3>1. TextOf(y, From(b, 5)) \in Scanners(T, n)
      BY <2>2, <2>3, TextTyped
    <3>2. [y EXCEPT !.here.prep = b[5].text] \in Scanners(T, n)
      BY <2>1, <2>2, HostTyped
    <3> QED BY <3>1, <3>2
  <2>5. \E cond : declaresql(x, b) = When(cond, z)
    BY DEF declaresql
  <2> HIDE DEF z
  <2> QED BY <2>4, <2>5, WhenTyped
<1>3. CASE ~(Len(b) >= 5)
  BY <1>3 DEF declaresql, When
<1> QED BY <1>2, <1>3

LEMMA DbTyped ==
  ASSUME NEW T, NEW n \in Nat, NEW x \in Scanners(T, n), OtherDb(x.toks)
  PROVE  WithoutDb(x.toks) \in Seq(Tokens) /\ cb_set_dbname(x) \in Scanners(T, n)
<1> DEFINE t == x.toks
           i == SelectInSeq(t, LAMBDA k : k.kind = "AT")
           I == {j \in 1..Len(t) : t[j].kind = "AT"}
<1>1. t \in Seq(Tokens)
  BY DEF Scanners
<1>2. i = IF I # {} THEN Min(I) ELSE 0
  BY DEF SelectInSeq
<1>3. WithoutDb(t) = IF i = 0 THEN t ELSE Upto(t, i - 1) \o From(t, i + 2)
  BY DEF WithoutDb
<1>4. cb_set_dbname(x) = IF i = 0 THEN x ELSE [x EXCEPT !.here.db = t[i + 1].text]
  BY DEF cb_set_dbname
<1> HIDE DEF i, t
<1>5. Len(t) \in Nat /\ I \subseteq 1..Len(t)
  BY <1>1
<1>6. CASE I = {}
  <2>1. i = 0
    BY <1>2, <1>6
  <2> QED BY <1>1, <1>3, <1>4, <2>1 DEF t
<1>7. CASE I # {}
  <2>1. \E k \in I : \A y \in I : k <= y
    <3>1. I \subseteq Nat
      BY <1>5
    <3> HIDE DEF I
    <3> QED BY <1>7, <3>1, LeastNat
  <2>2. i \in I
    <3> HIDE DEF I
    <3> QED BY <1>2, <1>7, <2>1 DEF Min
  <2>3. i \in 1..Len(t) /\ i < Len(t) /\ i # 0
    BY <1>5, <2>2 DEF OtherDb, t
  <2>4. t[i + 1].text \in Strings
    <3>1. i + 1 \in Nat /\ i + 1 > 0 /\ i + 1 <= Len(t)
      BY <1>5, <2>3
    <3> HIDE DEF I
    <3> QED BY <1>1, <3>1, WordTyped
  <2>5. Upto(t, i - 1) \in Seq(Tokens) /\ From(t, i + 2) \in Seq(Tokens)
    <3>1. i - 1 \in 0..Len(t) /\ i + 2 \in Nat /\ i + 2 > 0
      BY <1>5, <2>3
    <3> HIDE DEF I
    <3>2. Upto(t, i - 1) \in Seq(Tokens)
      BY <1>1, <3>1, SubTyped DEF Upto
    <3> QED BY <1>1, <3>1, <3>2, TailTyped
  <2>6. [x EXCEPT !.here.db = t[i + 1].text] \in Scanners(T, n)
    <3> HIDE DEF I
    <3> QED BY <2>4, HostTyped
  <2>7. Upto(t, i - 1) \o From(t, i + 2) \in Seq(Tokens)
    BY <2>5
  <2>8. WithoutDb(t) \in Seq(Tokens)
    BY <1>3, <2>3, <2>7
  <2> QED BY <1>4, <2>3, <2>6, <2>8 DEF t
<1> QED BY <1>6, <1>7

LEMMA ReduceTyped ==
  ASSUME NEW T, NEW n \in Nat, NEW x \in Scanners(T, n)
  PROVE  Reduce(x) \in Scanners(T, n)
<1> DEFINE b == WithoutDb(x.toks)
           y == cb_set_dbname(x)
           U == UNION {TextSql(y, b), EndSql(y, b), fetchsql(y, b), closesql(y, b),
                       opensql(y, b), preparesql(y, b), execsql(y, b), connectsql(y, b),
                       selectintosql(y, b), declaresql(y, b), IncludeSql(y, b)}
           r == IF b = <<>> \/ ~OtherDb(x.toks) THEN {} ELSE U
<1>1. Reduce(x) = IF r = {} THEN [x EXCEPT !.error = TRUE]
                  ELSE put_exec_list(CHOOSE z \in r : TRUE)
  BY DEF Reduce
<1>2. r \subseteq Scanners(T, n)
  <2>1. CASE b = <<>> \/ ~OtherDb(x.toks)
    <3> HIDE DEF U, b
    <3> QED BY <2>1
  <2>2. CASE b # <<>> /\ OtherDb(x.toks)
    <3>1. b \in Seq(Tokens) /\ y \in Scanners(T, n) /\ b # <<>>
      BY <2>2, DbTyped
    <3>r. r = U
      <4> HIDE DEF U, b
      <4> QED BY <2>2
    <3> HIDE DEF b, y
    <3>2. /\ TextSql(y, b) \subseteq Scanners(T, n) /\ EndSql(y, b) \subseteq Scanners(T, n)
          /\ IncludeSql(y, b) \subseteq Scanners(T, n) /\ connectsql(y, b) \subseteq Scanners(T, n)
      BY <3>1, SimpleTyped
    <3>3. /\ fetchsql(y, b) \subseteq Scanners(T, n) /\ closesql(y, b) \subseteq Scanners(T, n)
          /\ opensql(y, b) \subseteq Scanners(T, n)
      BY <3>1, CursorsTyped
    <3>4. preparesql(y, b) \subseteq Scanners(T, n) /\ execsql(y, b) \subseteq Scanners(T, n)
      BY <3>1, PreparedTyped
    <3>5. selectintosql(y, b) \subseteq Scanners(T, n) /\ declaresql(y, b) \subseteq Scanners(T, n)
      BY <3>1, IntoTyped, DeclareTyped
    <3>6. U \subseteq Scanners(T, n)
      BY <3>2, <3>3, <3>4, <3>5, Zenon
    <3> HIDE DEF U, r
    <3> QED BY <3>r, <3>6
  <2> QED BY <2>1, <2>2
<1> HIDE DEF r
<1>3. CASE r = {}
  <2>1. [x EXCEPT !.error = TRUE] \in Scanners(T, n)
    BY DEF Scanners
  <2> QED BY <1>1, <1>3, <2>1
<1>4. CASE r # {}
  <2>1. (CHOOSE z \in r : TRUE) \in r
    BY <1>4
  <2> QED BY <1>1, <1>2, <1>4, <2>1, PutTyped
<1> QED BY <1>3, <1>4

Verbs == {"CONNECT", "OPEN", "PREPARE", "EXECUTE", "CLOSE", "FETCH"}

Changes == {"INSERT", "DELETE", "DISCONNECT", "UPDATE"}

LEMMA FuncTyped ==
  ASSUME NEW T, NEW n \in Nat, NEW x \in Scanners(T, n), NEW w \in Words
  PROVE  FuncRule(x, w) \in Scanners(T, n)
<1> DEFINE e == [x EXCEPT !.state = "ESQL"]
           y == Numbered(e, w)
<1>1. e \in Scanners(T, n)
  <2>1. "ESQL" \in States
    BY DEF States
  <2> QED BY <2>1 DEF Scanners
<1>2. y \in Scanners(T, n)
  <2> HIDE DEF e
  <2> QED BY <1>1, NumberedTyped
<1> HIDE DEF e, y
<1>3. ASSUME NEW z \in Scanners(T, n), NEW command \in Strings
      PROVE  /\ [z EXCEPT !.insql = TRUE, !.select = TRUE] \in Scanners(T, n)
             /\ [z EXCEPT !.insql = TRUE] \in Scanners(T, n)
             /\ [z EXCEPT !.command = command] \in Scanners(T, n)
             /\ [z EXCEPT !.here.at = TRUE] \in Scanners(T, n)
             /\ [z EXCEPT !.here.putother = TRUE] \in Scanners(T, n)
  <2>1. z.here \in Globals(n)
    BY HereTyped
  <2>2. [z.here EXCEPT !.at = TRUE] \in Globals(n) /\ [z.here EXCEPT !.putother = TRUE] \in Globals(n)
    BY <2>1 DEF Globals
  <2>3. [z EXCEPT !.here = [z.here EXCEPT !.at = TRUE]] \in Scanners(T, n)
    BY <2>2, HereTyped
  <2>4. [z EXCEPT !.here = [z.here EXCEPT !.putother = TRUE]] \in Scanners(T, n)
    BY <2>2, HereTyped
  <2>5. /\ [z EXCEPT !.insql = TRUE, !.select = TRUE] \in Scanners(T, n)
        /\ [z EXCEPT !.insql = TRUE] \in Scanners(T, n)
        /\ [z EXCEPT !.command = command] \in Scanners(T, n)
    BY DEF Scanners
  <2> QED BY <2>3, <2>4, <2>5
<1>4. ASSUME NEW z \in Scanners(T, n), NEW kind \in Strings
      PROVE  Tok(z, kind, w) \in Scanners(T, n)
  BY TokTyped
<1>5. CASE w.rule = "SELECT"
  <2>1. FuncRule(x, w) = Tok([y EXCEPT !.insql = TRUE, !.select = TRUE], "SELECT", w)
    BY <1>5 DEF FuncRule, e, y
  <2>2. "SELECT" \in Strings
    BY DEF Strings
  <2> QED BY <1>2, <1>3, <1>4, <2>1, <2>2
<1>6. CASE w.rule \in Changes
  <2>1. FuncRule(x, w) = Tok([y EXCEPT !.insql = TRUE], w.rule, w)
    BY <1>6 DEF FuncRule, e, y, Changes
  <2>2. w.rule \in Strings
    BY <1>6 DEF Strings, Changes
  <2> QED BY <1>2, <1>3, <1>4, <2>1, <2>2
<1>7. CASE w.rule \in Verbs
  <2>1. FuncRule(x, w) = Tok([e EXCEPT !.command = w.rule], w.rule, w)
    BY <1>7 DEF FuncRule, e, Verbs
  <2>2. w.rule \in Strings
    BY <1>7 DEF Strings, Verbs
  <2> QED BY <1>1, <1>3, <1>4, <2>1, <2>2
<1>8. CASE w.rule = "DECLARE"
  <2>1. FuncRule(x, w) = Tok(e, "DECLARE", w)
    BY <1>8 DEF FuncRule, e
  <2>2. "DECLARE" \in Strings
    BY DEF Strings
  <2> QED BY <1>1, <1>4, <2>1, <2>2
<1>9. CASE w.rule \in {"COMMIT", "COMMIT_RELEASE"}
  <2>1. FuncRule(x, w) = Tok([e EXCEPT !.command = w.rule], "COMMIT", w)
    BY <1>9 DEF FuncRule, e
  <2>2. w.rule \in Strings /\ "COMMIT" \in Strings
    BY <1>9 DEF Strings
  <2> QED BY <1>1, <1>3, <1>4, <2>1, <2>2
<1>10. CASE w.rule \in {"ROLLBACK", "ROLLBACK_RELEASE"}
  <2>1. FuncRule(x, w) = Tok([e EXCEPT !.command = w.rule], "ROLLBACK", w)
    BY <1>10 DEF FuncRule, e
  <2>2. w.rule \in Strings /\ "ROLLBACK" \in Strings
    BY <1>10 DEF Strings
  <2> QED BY <1>1, <1>3, <1>4, <2>1, <2>2
<1>11. CASE w.rule = "AT"
  <2>1. FuncRule(x, w) = IF x.insql \/ x.here.at THEN Tok(x, "TOKEN", w)
                         ELSE Tok([Push(x, "DBNAME") EXCEPT !.here.at = TRUE], "AT", w)
    BY <1>11 DEF FuncRule
  <2>2. "TOKEN" \in Strings /\ "AT" \in Strings /\ "DBNAME" \in States
    BY DEF Strings, States
  <2>3. Push(x, "DBNAME") \in Scanners(T, n)
    BY <2>2, PushTyped
  <2>4. [Push(x, "DBNAME") EXCEPT !.here.at = TRUE] \in Scanners(T, n)
    BY <1>3, <2>2, <2>3
  <2> QED BY <1>4, <2>1, <2>2, <2>4
<1>12. CASE w.rule \notin {"SELECT", "DECLARE", "COMMIT", "COMMIT_RELEASE", "ROLLBACK",
                            "ROLLBACK_RELEASE", "AT"} \cup Verbs \cup Changes
  <2>1. FuncRule(x, w) = Tok([y EXCEPT !.here.putother = TRUE], "OTHERFUNC", w)
    BY <1>12 DEF FuncRule, e, y, Verbs, Changes
  <2>2. "OTHERFUNC" \in Strings
    BY DEF Strings
  <2> QED BY <1>2, <1>3, <1>4, <2>1, <2>2
<1> QED BY <1>5, <1>6, <1>7, <1>8, <1>9, <1>10, <1>11, <1>12

LEMMA EndExecTyped ==
  ASSUME NEW T, NEW n \in Nat, NEW x \in Scanners(T, n), NEW w \in Words, NEW line_ \in Nat
  PROVE  EndExec(x, w, line_) \in Scanners(T, n)
<1> DEFINE p == x.period \/ w.rule = "END-EXEC."
           y == [x EXCEPT !.insql = FALSE, !.select = FALSE, !.end = line_, !.period = p,
                          !.state = "INITIAL"]
<1>1. p \in BOOLEAN
  OBVIOUS
<1>2. "INITIAL" \in States
  BY DEF States
<1>3. EndExec(x, w, line_) = Reduce(y)
  BY DEF EndExec
<1>4. y \in Scanners(T, n)
  <2> HIDE DEF p
  <2> QED BY <1>1, <1>2 DEF Scanners
<1> HIDE DEF y
<1> QED BY <1>3, <1>4, ReduceTyped

LEMMA EsqlTyped ==
  ASSUME NEW T, NEW n \in Nat, NEW x \in Scanners(T, n), NEW w \in Words, NEW line_ \in Nat
  PROVE  EsqlRule(x, w, line_) \in Scanners(T, n)
<1>0. ASSUME NEW z \in Scanners(T, n)
      PROVE  /\ [z EXCEPT !.insql = TRUE] \in Scanners(T, n)
             /\ [z EXCEPT !.select = FALSE] \in Scanners(T, n)
  BY DEF Scanners
<1>1. ASSUME NEW z \in Scanners(T, n) PROVE [z EXCEPT !.here.at = TRUE] \in Scanners(T, n)
  <2>1. z.here \in Globals(n)
    BY HereTyped
  <2>2. [z.here EXCEPT !.at = TRUE] \in Globals(n)
    BY <2>1 DEF Globals
  <2>3. [z EXCEPT !.here = [z.here EXCEPT !.at = TRUE]] \in Scanners(T, n)
    BY <2>2, HereTyped
  <2> QED BY <2>3
<1>2. ASSUME NEW z \in Scanners(T, n), NEW kind \in Strings
      PROVE  Tok(z, kind, w) \in Scanners(T, n)
  BY TokTyped
<1>3. "TOKEN" \in Strings
  BY DEF Strings
<1>4. CASE w.rule = "AT"
  <2>1. EsqlRule(x, w, line_) = IF x.insql \/ x.here.at THEN Tok(x, "TOKEN", w)
                                ELSE Tok([Push(x, "DBNAME") EXCEPT !.here.at = TRUE], "AT", w)
    BY <1>4 DEF EsqlRule
  <2>2. "AT" \in Strings /\ "DBNAME" \in States
    BY DEF Strings, States
  <2>3. Push(x, "DBNAME") \in Scanners(T, n)
    BY <2>2, PushTyped
  <2>4. [Push(x, "DBNAME") EXCEPT !.here.at = TRUE] \in Scanners(T, n)
    BY <1>1, <2>3
  <2> QED BY <1>2, <1>3, <2>1, <2>2, <2>4
<1>5. CASE w.rule = "SELECT"
  <2>1. EsqlRule(x, w, line_) = IF x.insql THEN Tok(x, "TOKEN", w)
                                ELSE Tok([Numbered(x, w) EXCEPT !.insql = TRUE], "SELECT", w)
    BY <1>5 DEF EsqlRule
  <2>2. "SELECT" \in Strings
    BY DEF Strings
  <2>3. Numbered(x, w) \in Scanners(T, n)
    BY NumberedTyped
  <2>4. [Numbered(x, w) EXCEPT !.insql = TRUE] \in Scanners(T, n)
    BY <1>0, <2>3
  <2> QED BY <1>2, <1>3, <2>1, <2>2, <2>4
<1>6. CASE w.rule = "FROM"
  <2>1. EsqlRule(x, w, line_) = IF x.insql /\ x.select THEN Tok([x EXCEPT !.select = FALSE], "SELECTFROM", w)
                                ELSE Tok(x, IF x.insql THEN "TOKEN" ELSE "FROM", w)
    BY <1>6 DEF EsqlRule, Unless
  <2>2. "FROM" \in Strings /\ "SELECTFROM" \in Strings
    BY DEF Strings
  <2> DEFINE k == IF x.insql THEN "TOKEN" ELSE "FROM"
  <2>3. k \in Strings
    BY <1>3, <2>2
  <2> HIDE DEF k
  <2>4. Tok(x, k, w) \in Scanners(T, n)
    BY <1>2, <2>3
  <2>5. Tok([x EXCEPT !.select = FALSE], "SELECTFROM", w) \in Scanners(T, n)
    BY <1>0, <1>2, <2>2
  <2> QED BY <2>1, <2>4, <2>5 DEF k
<1>7. CASE w.rule \in {"CURSOR", "FOR", "IDENTIFIED", "USING"}
  <2> DEFINE k == IF x.insql THEN "TOKEN" ELSE w.rule
  <2>1. EsqlRule(x, w, line_) = Tok(x, k, w)
    BY <1>7 DEF EsqlRule, Unless
  <2>2. k \in Strings
    BY <1>7 DEF Strings
  <2> HIDE DEF k
  <2> QED BY <1>2, <2>1, <2>2
<1>8. CASE w.rule = "INTO"
  <2> DEFINE k == IF x.insql /\ ~x.select THEN "TOKEN" ELSE "INTO"
  <2>1. EsqlRule(x, w, line_) = Tok(x, k, w)
    BY <1>8 DEF EsqlRule
  <2>2. k \in Strings
    BY DEF Strings
  <2> HIDE DEF k
  <2> QED BY <1>2, <2>1, <2>2
<1>9. CASE w.rule = "WHERE CURRENT OF"
  <2>1. EsqlRule(x, w, line_) = Tok(Push(x, "WHERE_CURRENT_OF"), "WHERECURRENTOF", w)
    BY <1>9 DEF EsqlRule
  <2>2. "WHERECURRENTOF" \in Strings /\ "WHERE_CURRENT_OF" \in States
    BY DEF Strings, States
  <2> QED BY <1>2, <2>1, <2>2, PushTyped
<1>10. CASE w.rule = "HOST"
  <2>1. EsqlRule(x, w, line_) = Tok(x, "HOST", w)
    BY <1>10 DEF EsqlRule
  <2>2. "HOST" \in Strings
    BY DEF Strings
  <2> QED BY <1>2, <2>1, <2>2
<1>11. CASE w.rule \in {"END-EXEC", "END-EXEC."}
  <2>1. EsqlRule(x, w, line_) = EndExec(x, w, line_)
    BY <1>11 DEF EsqlRule
  <2> QED BY <2>1, EndExecTyped
<1>12. CASE w.rule \notin {"AT", "SELECT", "FROM", "CURSOR", "FOR", "IDENTIFIED", "USING", "INTO",
                            "WHERE CURRENT OF", "HOST", "END-EXEC", "END-EXEC."}
  <2>1. EsqlRule(x, w, line_) = Tok(x, "TOKEN", w)
    BY <1>12 DEF EsqlRule
  <2> QED BY <1>2, <1>3, <2>1
<1> QED BY <1>4, <1>5, <1>6, <1>7, <1>8, <1>9, <1>10, <1>11, <1>12

LEMMA OthersTyped ==
  ASSUME NEW T, NEW n \in Nat, NEW x \in Scanners(T, n), NEW w \in Words, NEW line_ \in Nat
  PROVE  /\ DbRule(x, w) \in Scanners(T, n)
         /\ WhereRule(x, w) \in Scanners(T, n)
         /\ SwallowedRule(x, w) \in Scanners(T, n)
         /\ IncludeRule(x, w, line_) \in Scanners(T, n)
<1>1. Pop(x) \in Scanners(T, n)
  <2>1. "ESQL" \in States
    BY DEF States
  <2> QED BY <2>1, PushTyped
<1>2. ASSUME NEW z \in Scanners(T, n), NEW kind \in Strings
      PROVE  Tok(z, kind, w) \in Scanners(T, n)
  BY TokTyped
<1>3. /\ "HOST" \in Strings /\ "CURNAME" \in Strings /\ "INCLUDE" \in Strings
      /\ "INCLUDE_SQLCA" \in Strings /\ "INCLUDE_FILE" \in Strings /\ "INCFILE" \in Strings
  BY DEF Strings
<1>4. DbRule(x, w) \in Scanners(T, n) /\ WhereRule(x, w) \in Scanners(T, n)
      /\ SwallowedRule(x, w) \in Scanners(T, n)
  BY <1>1, <1>2, <1>3 DEF DbRule, WhereRule, SwallowedRule
<1>5. ASSUME NEW z \in Scanners(T, n), NEW command \in Strings
      PROVE  [z EXCEPT !.command = command] \in Scanners(T, n)
  BY DEF Scanners
<1>6. CASE w.rule = "SQLCA"
  <2>1. IncludeRule(x, w, line_) = Tok([x EXCEPT !.command = "INCLUDE"], "INCLUDE_SQLCA", w)
    BY <1>6 DEF IncludeRule
  <2> QED BY <1>2, <1>3, <1>4, <1>5, <2>1
<1>7. CASE w.rule \in {"END-EXEC", "END-EXEC."}
  <2> DEFINE y == Pop(x)
             p == y.period \/ w.rule = "END-EXEC."
             z == [y EXCEPT !.end = line_, !.period = p]
  <2>1. IncludeRule(x, w, line_) = Reduce(z)
    BY <1>7 DEF IncludeRule
  <2>2. p \in BOOLEAN
    OBVIOUS
  <2>3. z \in Scanners(T, n)
    <3> HIDE DEF p, y
    <3>1. y \in Scanners(T, n)
      BY <1>1 DEF y
    <3> QED BY <2>2, <3>1 DEF Scanners
  <2> HIDE DEF z
  <2> QED BY <1>4, <2>1, <2>3, ReduceTyped
<1>8. CASE w.rule \notin {"SQLCA", "END-EXEC", "END-EXEC."}
  <2> DEFINE y == [x EXCEPT !.command = "INCFILE"]
             z == [y EXCEPT !.here.inc = w.text]
  <2>1. IncludeRule(x, w, line_) = Tok([x EXCEPT !.command = "INCFILE", !.here.inc = w.text], "INCLUDE_FILE", w)
    BY <1>8 DEF IncludeRule
  <2>2. [x EXCEPT !.command = "INCFILE", !.here.inc = w.text] = z
    OBVIOUS
  <2>3. y \in Scanners(T, n)
    BY <1>3, <1>5
  <2>4. w.text \in Strings
    BY DEF Words, Strings
  <2> HIDE DEF y
  <2>5. z \in Scanners(T, n)
    BY <2>3, <2>4, HostTyped
  <2> HIDE DEF z
  <2> QED BY <1>2, <1>3, <1>4, <2>1, <2>2, <2>5
<1> QED BY <1>6, <1>7, <1>8

-----------------------------------------------------------------------------
(* The tree while it grows                                                 *)

Shaped(x) == {"level", "parent", "sister", "children"} \subseteq DOMAIN x

Plants(f) == WellLinked(f) /\ \A i \in 1..Len(f) : Shaped(f[i])

(* A field is changed, and another put behind the last.                    *)
LEMMA PlantsGrow ==
  ASSUME NEW f, Plants(f), NEW x, Shaped(x), x.parent \in 0..Len(f), x.sister = Null,
         x.children = Null, NEW i \in 0..Len(f), NEW y,
         i # 0 => /\ Shaped(y) /\ y.parent = f[i].parent
                  /\ y.sister \in {Null} \cup (i + 1)..(Len(f) + 1)
                  /\ y.children \in {Null} \cup (i + 1)..(Len(f) + 1)
  PROVE  LET g == Append([f EXCEPT ![i] = y], x)
         IN  Plants(g) /\ Len(g) = Len(f) + 1
<1> DEFINE n == Len(f)
           e == [f EXCEPT ![i] = y]
           g == Append(e, x)
<1>0. IsSeq(f) /\ n \in Nat /\ DOMAIN f = 1..n
  BY SeqIs DEF Plants, WellLinked
<1>1. IsSeq(e) /\ Len(e) = n /\ \A j \in 1..n : e[j] = IF j = i THEN y ELSE f[j]
  <2>1. e = [j \in 1..n |-> e[j]]
    BY <1>0
  <2>2. \A j \in 1..n : e[j] = IF j = i THEN y ELSE f[j]
    BY <1>0
  <2> HIDE DEF e
  <2> QED BY <1>0, <2>1, <2>2, SeqMade
<1> HIDE DEF e
<1>2. IsSeq(g) /\ Len(g) = n + 1 /\ g[n + 1] = x /\ \A j \in 1..n : g[j] = e[j]
  BY <1>1, SeqAppend
<1> HIDE DEF g
<1>3. ASSUME NEW j \in 1..(n + 1)
      PROVE  /\ Shaped(g[j]) /\ g[j].parent \in 0..(j - 1)
             /\ g[j].sister \in {Null} \cup (j + 1)..(n + 1)
             /\ g[j].children \in {Null} \cup (j + 1)..(n + 1)
  <2>1. CASE j = n + 1
    BY <1>0, <1>2, <2>1 DEF Null
  <2>2. CASE j \in 1..n /\ j = i
    <3>1. g[j] = y /\ f[j].parent \in 0..(j - 1)
      BY <1>1, <1>2, <2>2 DEF Plants, WellLinked
    <3> QED BY <1>0, <2>2, <3>1
  <2>3. CASE j \in 1..n /\ j # i
    <3>1. /\ g[j] = f[j] /\ Shaped(f[j]) /\ f[j].parent \in 0..(j - 1)
          /\ f[j].sister \in {Null} \cup (j + 1)..n /\ f[j].children \in {Null} \cup (j + 1)..n
      BY <1>1, <1>2, <2>3 DEF Plants, WellLinked
    <3> QED BY <1>0, <3>1
  <2> QED BY <1>0, <2>1, <2>2, <2>3
<1>4. Plants(g)
  BY <1>2, <1>3 DEF Plants, WellLinked
<1> QED BY <1>2, <1>4 DEF g, e

LEMMA FieldShaped ==
  ASSUME NEW level, NEW name, NEW p
  PROVE  LET x == Field(level, name)
             y == [x EXCEPT !.parent = p]
         IN  /\ Shaped(x) /\ x.parent = Null /\ x.sister = Null /\ x.children = Null
             /\ Shaped(y) /\ y.parent = p /\ y.sister = Null /\ y.children = Null
BY DEF Field, Shaped

LEMMA SisterIs ==
  ASSUME NEW f, Plants(f), NEW i \in 1..Len(f), NEW level, NEW name
  PROVE  LET g == Sister(f, i, Field(level, name))
             h == Child(f, i, Field(level, name))
         IN  Plants(g) /\ Len(g) = Len(f) + 1 /\ Plants(h) /\ Len(h) = Len(f) + 1
<1> DEFINE new == Len(f) + 1
           y == [f[i] EXCEPT !.sister = new]
           z == [f[i] EXCEPT !.children = new]
           x == Field(level, name)
           xs == [x EXCEPT !.parent = f[i].parent]
           xc == [x EXCEPT !.parent = i]
<1>0. IsSeq(f) /\ Len(f) \in Nat /\ DOMAIN f = 1..Len(f)
  BY SeqIs DEF Plants, WellLinked
<1>1. /\ Shaped(f[i]) /\ f[i].parent \in 0..(i - 1)
      /\ f[i].sister \in {Null} \cup (i + 1)..Len(f) /\ f[i].children \in {Null} \cup (i + 1)..Len(f)
  BY DEF Plants, WellLinked
<1>2. /\ Shaped(y) /\ y.parent = f[i].parent /\ y.sister = new /\ y.children = f[i].children
      /\ Shaped(z) /\ z.parent = f[i].parent /\ z.children = new /\ z.sister = f[i].sister
  BY <1>1 DEF Shaped
<1>x. Shaped(x) /\ x.sister = Null /\ x.children = Null
  BY FieldShaped
<1> HIDE DEF x
<1>3. /\ Shaped(xs) /\ xs.parent = f[i].parent /\ xs.sister = Null /\ xs.children = Null
      /\ Shaped(xc) /\ xc.parent = i /\ xc.sister = Null /\ xc.children = Null
  BY <1>x DEF Shaped
<1>4. Sister(f, i, x) = Append([f EXCEPT ![i] = y], xs) /\ Child(f, i, x) = Append([f EXCEPT ![i] = z], xc)
  BY <1>0 DEF Sister, Child
<1> HIDE DEF x, xs, xc, y, z
<1>5. /\ i \in 0..Len(f) /\ f[i].parent \in 0..Len(f)
      /\ y.sister \in {Null} \cup (i + 1)..new /\ y.children \in {Null} \cup (i + 1)..new
      /\ z.sister \in {Null} \cup (i + 1)..new /\ z.children \in {Null} \cup (i + 1)..new
  BY <1>0, <1>1, <1>2
<1>6. LET g == Append([f EXCEPT ![i] = y], xs) IN Plants(g) /\ Len(g) = Len(f) + 1
  BY <1>2, <1>3, <1>5, PlantsGrow
<1>7. LET g == Append([f EXCEPT ![i] = z], xc) IN Plants(g) /\ Len(g) = Len(f) + 1
  BY <1>2, <1>3, <1>5, PlantsGrow
<1> QED BY <1>4, <1>6, <1>7 DEF x

LEMMA LinkedIs ==
  ASSUME NEW f, Plants(f), NEW last \in 0..Len(f), NEW level, NEW name,
         cb_get_level(level) /\ level # 1 => last # Null
  PROVE  LET g == Linked(f, last, level, name)
         IN  Plants(g) /\ (g = f \/ Len(g) = Len(f) + 1)
<1> DEFINE x == Field(level, name)
           elder == SameLevel(f, last, level)
<1>0. WellLinked(f) /\ Len(f) \in Nat /\ DOMAIN f = 1..Len(f)
  BY SeqIs DEF Plants, WellLinked
<1>1. elder \in 0..Len(f)
  BY <1>0, SameLevelIs
<1>2. \A i \in 1..Len(f) : LET g == Sister(f, i, x)
                               h == Child(f, i, x)
                           IN  Plants(g) /\ Len(g) = Len(f) + 1 /\ Plants(h) /\ Len(h) = Len(f) + 1
  BY SisterIs
<1>3. Plants(Append(f, x)) /\ Len(Append(f, x)) = Len(f) + 1
  <2>1. Shaped(x) /\ x.parent \in 0..Len(f) /\ x.sister = Null /\ x.children = Null
    <3>1. Shaped(x) /\ x.parent = Null /\ x.sister = Null /\ x.children = Null
      BY FieldShaped, ZenonT(40)
    <3> HIDE DEF x
    <3> QED BY <1>0, <3>1 DEF Null
  <2>2. [f EXCEPT ![0] = x] = f
    <3>1. f = [i \in 1..Len(f) |-> f[i]]
      BY <1>0, SeqIs DEF WellLinked
    <3> HIDE DEF x
    <3> QED BY <1>0, <3>1
  <2>3. 0 \in 0..Len(f)
    BY <1>0
  <2> HIDE DEF x
  <2>4. LET g == Append([f EXCEPT ![0] = x], x) IN Plants(g) /\ Len(g) = Len(f) + 1
    BY <2>1, <2>3, PlantsGrow
  <2> QED BY <2>2, <2>4
<1>4. Linked(f, last, level, name) =
        IF ~cb_get_level(level) THEN f
        ELSE IF level = 1
             THEN IF last = Null THEN Append(f, x) ELSE Sister(f, cb_field_founder(f, last), x)
        ELSE IF level > f[last].level THEN Child(f, last, x)
        ELSE IF elder # Null THEN Sister(f, elder, x)
        ELSE f
  BY DEF Linked
<1>5. last # Null => last \in 1..Len(f) /\ cb_field_founder(f, last) \in 1..Len(f)
  BY <1>0, FounderIs DEF Null
<1>6. elder # Null => elder \in 1..Len(f)
  BY <1>0, <1>1 DEF Null
<1> HIDE DEF x, elder
<1> QED BY <1>2, <1>3, <1>4, <1>5, <1>6

(* Field e of the first p is in a row that is still open at the level: it  *)
(* has the level, and nothing of a lower level stands behind it.           *)
Open(f, e, p, level) == f[e].level = level /\ \A k \in (e + 1)..p : f[k].level >= level

(* The walk up from a field to its parents finds the row that is open at a *)
(* level, and finds none only when there is none: exactly then cb_build_-  *)
(* field_tree returns NULL and the declaration is lost, as 03 is in        *)
(* 01/05/03 (parser.y, the loop over the parents of last_field).           *)
THEOREM SameLevelFinds ==
  ASSUME NEW f, WellLinked(f), Nested(f), NEW p \in 0..Len(f), NEW level \in 1..49
  PROVE  LET e == SameLevel(f, p, level)
         IN  /\ e # Null => e \in 1..p /\ Open(f, e, p, level)
             /\ e = Null => \A j \in 1..p : ~Open(f, j, p, level)
<1> DEFINE n == Len(f)
           v == [j \in 1..n |-> f[j].level]
           e(k) == SameLevel(f, k, level)
           Row(j, k) == v[j] = level /\ \A i \in (j + 1)..k : v[i] >= level
           Right(k) == /\ e(k) # 0 => e(k) \in 1..k /\ Row(e(k), k)
                       /\ e(k) = 0 => \A j \in 1..k : ~Row(j, k)
           S == {k \in 1..n : Right(k)}
<1>1. n \in Nat /\ Null = 0
  BY Pointers DEF Null
<1>v. v \in [1..n -> Int] /\ \A j \in 1..n : v[j] = f[j].level
  BY DEF Nested
<1>2. e(0) = 0 /\ Right(0)
  <2>1. e(0) = 0
    BY <1>1, SameLevelStep
  <2> HIDE DEF e
  <2> QED BY <2>1
<1>3. ASSUME NEW k \in 1..n
      PROVE  f[k].parent \in 0..(k - 1) /\ \A j \in (f[k].parent + 1)..(k - 1) : v[j] >= v[k]
  <2>1. f[k].parent \in 0..(k - 1) /\ \A j \in (f[k].parent + 1)..(k - 1) : f[j].level >= f[k].level
    BY DEF Nested, WellLinked
  <2>2. \A j \in (f[k].parent + 1)..(k - 1) : j \in 1..n
    BY <1>1, <2>1
  <2> HIDE DEF v
  <2> QED BY <1>v, <2>1, <2>2
<1>4. ASSUME NEW k \in 1..n
      PROVE  e(k) = IF v[k] < level THEN 0 ELSE IF v[k] = level THEN k ELSE e(f[k].parent)
  <2>1. k \in 0..n /\ k # Null
    BY <1>1
  <2>2. e(k) = IF f[k].level < level THEN 0 ELSE IF f[k].level = level THEN k ELSE e(f[k].parent)
    BY <1>1, <2>1, SameLevelStep
  <2> HIDE DEF e, v
  <2> QED BY <1>v, <2>2
<1> HIDE DEF e, v
<1>5. \A k \in 1..n : (\A j \in 1..(k - 1) : j \in S) => k \in S
  <2> SUFFICES ASSUME NEW k \in 1..n, \A j \in 1..(k - 1) : j \in S PROVE Right(k)
    OBVIOUS
  <2> DEFINE q == f[k].parent
  <2>1. q \in 0..(k - 1) /\ \A j \in (q + 1)..(k - 1) : v[j] >= v[k]
    BY <1>3
  <2>v. v[k] \in Int /\ \A j \in 1..k : v[j] \in Int
    BY <1>1, <1>v
  <2>e. e(k) = IF v[k] < level THEN 0 ELSE IF v[k] = level THEN k ELSE e(q)
    BY <1>4
  <2>q. Right(q)
    <3>1. q = 0 \/ q \in 1..(k - 1)
      BY <2>1
    <3> QED BY <1>2, <3>1
  <2> HIDE DEF q, S, Right, Row
  <2>2. CASE v[k] < level
    <3>1. e(k) = 0
      BY <2>2, <2>e
    <3>2. ASSUME NEW j \in 1..k, Row(j, k) PROVE FALSE
      <4>1. j = k \/ k \in (j + 1)..k
        OBVIOUS
      <4>2. v[k] >= level
        BY <2>v, <3>2, <4>1 DEF Row
      <4> QED BY <2>2, <2>v, <4>2
    <3> QED BY <3>1, <3>2 DEF Right
  <2>3. CASE v[k] = level
    <3>1. e(k) = k
      BY <2>3, <2>e
    <3> QED BY <1>1, <2>3, <3>1 DEF Right, Row
  <2>4. CASE v[k] > level
    <3>1. e(k) = e(q)
      BY <2>4, <2>v, <2>e
    <3>2. \A j \in (q + 1)..k : v[j] > level
      <4> SUFFICES ASSUME NEW j \in (q + 1)..k PROVE v[j] > level
        OBVIOUS
      <4>1. j \in 1..k /\ (j = k \/ j \in (q + 1)..(k - 1))
        BY <2>1
      <4> QED BY <2>1, <2>4, <2>v, <4>1
    <3>3. ASSUME e(k) # 0 PROVE e(k) \in 1..k /\ Row(e(k), k)
      <4>1. e(k) \in 1..q /\ Row(e(k), q)
        BY <2>q, <3>1, <3>3 DEF Right
      <4>2. e(k) \in 1..k
        BY <2>1, <4>1
      <4>3. ASSUME NEW j \in (e(k) + 1)..k PROVE v[j] >= level
        <5>1. j \in (e(k) + 1)..q \/ (j \in (q + 1)..k /\ j \in 1..k)
          BY <2>1, <4>1
        <5>2. v[j] \in Int
          BY <2>v, <4>2
        <5> QED BY <3>2, <4>1, <5>1, <5>2 DEF Row
      <4> QED BY <4>1, <4>2, <4>3 DEF Row
    <3>4. ASSUME e(k) = 0, NEW j \in 1..k, Row(j, k) PROVE FALSE
      <4>1. j \notin (q + 1)..k
        <5>1. v[j] = level
          BY <3>4 DEF Row
        <5>2. ~(level > level)
          OBVIOUS
        <5> QED BY <3>2, <5>1, <5>2
      <4>2. j \in 1..q /\ \A i \in (j + 1)..q : i \in (j + 1)..k
        BY <2>1, <4>1
      <4>3. Row(j, q)
        BY <3>4, <4>2 DEF Row
      <4> QED BY <2>q, <3>1, <3>4, <4>2, <4>3 DEF Right
    <3> QED BY <3>3, <3>4 DEF Right
  <2>5. v[k] < level \/ v[k] = level \/ v[k] > level
    BY <2>v
  <2> QED BY <2>2, <2>3, <2>4, <2>5
<1> HIDE DEF S
<1>6. \A k \in 1..n : k \in S
  BY <1>1, <1>5, BackwardInduction
<1>7. p = 0 \/ p \in 1..n
  BY <1>1
<1>8. Right(p)
  BY <1>2, <1>6, <1>7 DEF S
<1>9. \A j \in 1..p : Row(j, p) <=> Open(f, j, p, level)
  <2> SUFFICES ASSUME NEW j \in 1..p PROVE Row(j, p) <=> Open(f, j, p, level)
    OBVIOUS
  <2>1. v[j] = f[j].level /\ \A i \in (j + 1)..p : v[i] = f[i].level
    BY <1>1, <1>v
  <2> QED BY <2>1 DEF Open
<1>10. /\ e(p) # Null => e(p) \in 1..p /\ Open(f, e(p), p, level)
       /\ e(p) = Null => \A j \in 1..p : ~Open(f, j, p, level)
  <2> HIDE DEF Row
  <2> QED BY <1>1, <1>8, <1>9
<1> QED BY <1>10 DEF e

(* Another field behind those there are, which keep level and parent.      *)
LEMMA NestedGrow ==
  ASSUME NEW f, Plants(f), Nested(f), NEW g, Len(g) = Len(f) + 1,
         \A j \in 1..Len(f) : g[j].level = f[j].level /\ g[j].parent = f[j].parent,
         NEW x, g[Len(f) + 1] = x, x.level \in 1..49, x.parent \in 0..Len(f),
         x.parent # 0 => f[x.parent].level < x.level,
         \A k \in (x.parent + 1)..Len(f) : f[k].level >= x.level
  PROVE  Nested(g)
<1> DEFINE n == Len(f)
<1>1. n \in Nat /\ \A i \in 1..n : f[i].parent \in 0..(i - 1)
  BY SeqIs DEF Plants, WellLinked
<1> SUFFICES ASSUME NEW i \in 1..(n + 1)
             PROVE  /\ g[i].level \in 1..49
                    /\ g[i].parent # Null => g[g[i].parent].level < g[i].level
                    /\ \A k \in (g[i].parent + 1)..(i - 1) : g[k].level >= g[i].level
  BY DEF Nested
<1>2. CASE i = n + 1
  <2>1. g[i] = x /\ \A k \in (x.parent + 1)..n : k \in 1..n
    BY <1>1, <1>2
  <2>2. x.parent # 0 => x.parent \in 1..n
    BY <1>1
  <2> QED BY <1>1, <1>2, <2>1, <2>2 DEF Null
<1>3. CASE i \in 1..n
  <2>1. /\ f[i].level \in 1..49
        /\ f[i].parent # Null => f[f[i].parent].level < f[i].level
        /\ \A k \in (f[i].parent + 1)..(i - 1) : f[k].level >= f[i].level
    BY <1>3 DEF Nested
  <2>2. g[i].level = f[i].level /\ g[i].parent = f[i].parent
    BY <1>3
  <2>3. f[i].parent # Null => f[i].parent \in 1..n
    BY <1>1, <1>3 DEF Null
  <2>4. \A k \in (f[i].parent + 1)..(i - 1) : k \in 1..n
    BY <1>1, <1>3
  <2> QED BY <2>1, <2>2, <2>3, <2>4
<1> QED BY <1>1, <1>2, <1>3

LEMMA NestedSame ==
  ASSUME NEW f, Plants(f), Nested(f), NEW g, Len(g) = Len(f),
         \A j \in 1..Len(f) : g[j].level = f[j].level /\ g[j].parent = f[j].parent
  PROVE  Nested(g)
<1> DEFINE n == Len(f)
<1>1. n \in Nat /\ \A i \in 1..n : f[i].parent \in 0..(i - 1)
  BY SeqIs DEF Plants, WellLinked
<1> SUFFICES ASSUME NEW i \in 1..n
             PROVE  /\ g[i].level \in 1..49
                    /\ g[i].parent # Null => g[g[i].parent].level < g[i].level
                    /\ \A k \in (g[i].parent + 1)..(i - 1) : g[k].level >= g[i].level
  BY DEF Nested
<1>2. /\ f[i].level \in 1..49
      /\ f[i].parent # Null => f[f[i].parent].level < f[i].level
      /\ \A k \in (f[i].parent + 1)..(i - 1) : f[k].level >= f[i].level
  BY DEF Nested
<1>3. f[i].parent # Null => f[i].parent \in 1..n
  BY <1>1 DEF Null
<1>4. \A k \in (f[i].parent + 1)..(i - 1) : k \in 1..n
  BY <1>1
<1> QED BY <1>2, <1>3, <1>4

(* What a new field is, as a sister and as a child.                        *)
LEMMA NewFieldIs ==
  ASSUME NEW f, Plants(f), NEW i \in 1..Len(f), NEW level, NEW name
  PROVE  LET g == Sister(f, i, Field(level, name))
             h == Child(f, i, Field(level, name))
             n == Len(f)
         IN  /\ Len(g) = n + 1 /\ g[n + 1].level = level /\ g[n + 1].parent = f[i].parent
             /\ \A j \in 1..n : g[j].level = f[j].level /\ g[j].parent = f[j].parent
             /\ Len(h) = n + 1 /\ h[n + 1].level = level /\ h[n + 1].parent = i
             /\ \A j \in 1..n : h[j].level = f[j].level /\ h[j].parent = f[j].parent
<1> DEFINE n == Len(f)
           x == Field(level, name)
           y == [f[i] EXCEPT !.sister = n + 1]
           z == [f[i] EXCEPT !.children = n + 1]
           xs == [x EXCEPT !.parent = f[i].parent]
           xc == [x EXCEPT !.parent = i]
<1>0. IsSeq(f) /\ n \in Nat /\ DOMAIN f = 1..n /\ f = [j \in 1..n |-> f[j]]
  BY SeqIs DEF Plants, WellLinked
<1>1. Shaped(f[i])
  BY DEF Plants
<1>2. y.parent = f[i].parent /\ y.level = f[i].level /\ z.parent = f[i].parent /\ z.level = f[i].level
  BY <1>1 DEF Shaped
<1>x. Shaped(x) /\ x.level = level
  BY DEF Field, Shaped
<1>4. Sister(f, i, x) = Append([f EXCEPT ![i] = y], xs) /\ Child(f, i, x) = Append([f EXCEPT ![i] = z], xc)
  BY <1>0 DEF Sister, Child
<1> HIDE DEF x
<1>3. xs.parent = f[i].parent /\ xs.level = level /\ xc.parent = i /\ xc.level = level
  BY <1>x DEF Shaped
<1> HIDE DEF xs, xc, y, z
<1>5. ASSUME NEW a, a.parent = f[i].parent, a.level = f[i].level, NEW b
      PROVE  LET g == Append([f EXCEPT ![i] = a], b)
             IN  /\ Len(g) = n + 1 /\ g[n + 1] = b
                 /\ \A j \in 1..n : g[j].level = f[j].level /\ g[j].parent = f[j].parent
  <2> DEFINE e == [f EXCEPT ![i] = a]
  <2>1. e = [j \in 1..n |-> e[j]] /\ \A j \in 1..n : e[j] = IF j = i THEN a ELSE f[j]
    BY <1>0
  <2> HIDE DEF e
  <2>2. IsSeq(e) /\ Len(e) = n
    BY <1>0, <2>1, SeqMade
  <2> DEFINE g == Append(e, b)
  <2>3. Len(g) = n + 1 /\ g[n + 1] = b /\ \A j \in 1..n : g[j] = e[j]
    BY <2>2, SeqAppend
  <2> HIDE DEF g
  <2>4. \A j \in 1..n : g[j].level = f[j].level /\ g[j].parent = f[j].parent
    BY <1>5, <2>1, <2>3
  <2> QED BY <2>3, <2>4 DEF g, e
<1>6. LET g == Append([f EXCEPT ![i] = y], xs)
      IN  /\ Len(g) = n + 1 /\ g[n + 1] = xs
          /\ \A j \in 1..n : g[j].level = f[j].level /\ g[j].parent = f[j].parent
  BY <1>2, <1>5
<1>7. LET h == Append([f EXCEPT ![i] = z], xc)
      IN  /\ Len(h) = n + 1 /\ h[n + 1] = xc
          /\ \A j \in 1..n : h[j].level = f[j].level /\ h[j].parent = f[j].parent
  BY <1>2, <1>5
<1> HIDE DEF n
<1> QED BY <1>3, <1>4, <1>6, <1>7 DEF x, n

(* A declaration leaves the fields nested as their levels are.             *)
LEMMA LinkedNested ==
  ASSUME NEW f, Plants(f), Nested(f), NEW last, last \in {Null, Len(f)}, NEW level, NEW name,
         cb_get_level(level) /\ level # 1 => last # Null
  PROVE  Nested(Linked(f, last, level, name))
<1> DEFINE n == Len(f)
           x == Field(level, name)
           elder == SameLevel(f, last, level)
           founder == cb_field_founder(f, last)
<1>0. WellLinked(f) /\ n \in Nat /\ last \in 0..n /\ Null = 0
  BY SeqIs DEF Plants, WellLinked, Null
<1>v. \A k \in 1..n : /\ f[k].level \in 1..49 /\ f[k].parent \in 0..(k - 1)
                      /\ f[k].parent # 0 => f[f[k].parent].level < f[k].level
                      /\ \A j \in (f[k].parent + 1)..(k - 1) : f[j].level >= f[k].level
  BY <1>0 DEF Nested, Plants, WellLinked
<1>w. \A k \in 1..n : f[k].level \in Int /\ f[k].level >= 1
  <2> SUFFICES ASSUME NEW k \in 1..n PROVE f[k].level \in Int /\ f[k].level >= 1
    OBVIOUS
  <2>1. f[k].level \in 1..49
    BY <1>v
  <2>2. \A m \in 1..49 : m \in Int /\ m >= 1
    OBVIOUS
  <2> QED BY <2>1, <2>2, Zenon
<1>2. CASE ~cb_get_level(level)
  <2>1. Linked(f, last, level, name) = f
    BY <1>2, Zenon DEF Linked
  <2> QED BY <2>1
<1>3. CASE cb_get_level(level)
  <2>l. level \in 1..49 /\ level \in Int /\ level >= level
    BY <1>3 DEF cb_get_level
  <2>g. ASSUME NEW g, Len(g) = n + 1, g[n + 1].level = level, g[n + 1].parent \in 0..n,
               \A j \in 1..n : g[j].level = f[j].level /\ g[j].parent = f[j].parent,
               g[n + 1].parent # 0 => f[g[n + 1].parent].level < level,
               \A k \in (g[n + 1].parent + 1)..n : f[k].level >= level
        PROVE  Nested(g)
    <3> DEFINE w == g[n + 1]
    <3>1. w.level = level /\ w.parent \in 0..n
      BY <2>g
    <3>2. w.parent # 0 => f[w.parent].level < w.level
      BY <2>g
    <3>3. \A k \in (w.parent + 1)..n : f[k].level >= w.level
      BY <2>g
    <3> HIDE DEF w
    <3>4. g[n + 1] = w /\ w.level \in 1..49
      BY <2>l, <3>1 DEF w
    <3> QED BY <2>g, <3>1, <3>2, <3>3, <3>4, NestedGrow
  <2>i. \A i \in 1..n : LET g == Sister(f, i, x)
                            h == Child(f, i, x)
                        IN  /\ Len(g) = n + 1 /\ g[n + 1].level = level /\ g[n + 1].parent = f[i].parent
                            /\ \A j \in 1..n : g[j].level = f[j].level /\ g[j].parent = f[j].parent
                            /\ Len(h) = n + 1 /\ h[n + 1].level = level /\ h[n + 1].parent = i
                            /\ \A j \in 1..n : h[j].level = f[j].level /\ h[j].parent = f[j].parent
    BY NewFieldIs
  <2>1. CASE level = 1 /\ last = Null
    <3>1. Linked(f, last, level, name) = Append(f, x)
      BY <1>3, <2>1, Zenon DEF Linked
    <3>2. x.level = level /\ x.parent = 0
      BY DEF Field, Null
    <3> DEFINE g == Append(f, x)
    <3>3. Len(g) = n + 1 /\ g[n + 1] = x /\ \A j \in 1..n : g[j] = f[j]
      <4> HIDE DEF x
      <4>1. IsSeq(f)
        BY DEF Plants, WellLinked
      <4> QED BY <4>1, SeqAppend
    <3> HIDE DEF g, x
    <3>4. \A k \in 1..n : f[k].level >= level
      BY <1>w, <2>1
    <3>5. Nested(g)
      BY <1>0, <2>g, <3>2, <3>3, <3>4
    <3> QED BY <3>1, <3>5 DEF g
  <2>2. CASE level = 1 /\ last # Null
    <3>1. Linked(f, last, level, name) = Sister(f, founder, x)
      BY <1>3, <2>2, Zenon DEF Linked
    <3>2. founder \in 1..n /\ f[founder].parent = 0
      BY <1>0, <2>2, FounderIs
    <3> DEFINE g == Sister(f, founder, x)
    <3> HIDE DEF founder
    <3>3. /\ Len(g) = n + 1 /\ g[n + 1].level = level /\ g[n + 1].parent = 0
          /\ \A j \in 1..n : g[j].level = f[j].level /\ g[j].parent = f[j].parent
      BY <2>i, <3>2
    <3> HIDE DEF g, x
    <3>4. \A k \in 1..n : f[k].level >= level
      BY <1>w, <2>2
    <3>5. Nested(g)
      BY <1>0, <2>g, <3>3, <3>4
    <3> QED BY <3>1, <3>5 DEF g
  <2>3. CASE level # 1 /\ level > f[last].level
    <3>1. Linked(f, last, level, name) = Child(f, last, x)
      BY <1>3, <2>3, Zenon DEF Linked
    <3>2. last = n /\ last \in 1..n
      BY <1>0, <1>3, <2>3
    <3> DEFINE g == Child(f, last, x)
    <3>3. /\ Len(g) = n + 1 /\ g[n + 1].level = level /\ g[n + 1].parent = last
          /\ \A j \in 1..n : g[j].level = f[j].level /\ g[j].parent = f[j].parent
      BY <2>i, <3>2
    <3> HIDE DEF g, x
    <3>4. f[last].level < level
      BY <1>v, <2>l, <2>3, <3>2
    <3>5. Nested(g)
      BY <1>0, <2>g, <3>2, <3>3, <3>4
    <3> QED BY <3>1, <3>5 DEF g
  <2>4. CASE level # 1 /\ ~(level > f[last].level) /\ elder = Null
    <3>1. Linked(f, last, level, name) = f
      BY <1>3, <2>4, Zenon DEF Linked
    <3> QED BY <3>1
  <2>5. CASE level # 1 /\ ~(level > f[last].level) /\ elder # Null
    <3>1. Linked(f, last, level, name) = Sister(f, elder, x)
      BY <1>3, <2>5, Zenon DEF Linked
    <3>2. last = n
      BY <1>0, <1>3, <2>5
    <3>3. elder \in 1..n /\ Open(f, elder, n, level)
      BY <1>0, <2>l, <2>5, <3>2, SameLevelFinds
    <3> DEFINE g == Sister(f, elder, x)
    <3> HIDE DEF elder
    <3>4. /\ Len(g) = n + 1 /\ g[n + 1].level = level /\ g[n + 1].parent = f[elder].parent
          /\ \A j \in 1..n : g[j].level = f[j].level /\ g[j].parent = f[j].parent
      BY <2>i, <3>3
    <3> HIDE DEF g, x
    <3>5. f[elder].level = level /\ \A k \in (elder + 1)..n : f[k].level >= level
      BY <3>3 DEF Open
    <3>6. /\ f[elder].parent \in 0..n /\ f[elder].parent < elder
          /\ f[elder].parent # 0 => f[f[elder].parent].level < level
          /\ \A k \in (f[elder].parent + 1)..(elder - 1) : f[k].level >= level
      <4>1. f[elder].level = level /\ elder \in 1..n
        BY <3>3, <3>5
      <4>2. f[elder].parent \in 0..(elder - 1) /\ (f[elder].parent # 0 => f[f[elder].parent].level < f[elder].level)
        BY <1>v, <4>1
      <4>3. \A k \in (f[elder].parent + 1)..(elder - 1) : f[k].level >= f[elder].level
        BY <1>v, <4>1
      <4> QED BY <1>0, <4>1, <4>2, <4>3
    <3>7. ASSUME NEW k \in (f[elder].parent + 1)..n PROVE f[k].level >= level
      <4>1. k < elder \/ k = elder \/ k > elder
        BY <3>3, <3>6
      <4>2. k = elder => f[k].level >= level
        BY <2>l, <3>5
      <4>3. k < elder => k \in (f[elder].parent + 1)..(elder - 1)
        BY <3>3, <3>6
      <4>4. k > elder => k \in (elder + 1)..n
        BY <3>3, <3>6
      <4> QED BY <3>5, <3>6, <4>1, <4>2, <4>3, <4>4
    <3>8. Nested(g)
      BY <1>0, <2>g, <3>4, <3>6, <3>7
    <3> QED BY <3>1, <3>8 DEF g
  <2> QED BY <2>1, <2>2, <2>3, <2>4, <2>5
<1> QED BY <1>2, <1>3

LEMMA SplitIs ==
  ASSUME NEW f, Plants(f), NEW i \in 0..Len(f)
  PROVE  Plants(parameter_split(f, i)) /\ Len(parameter_split(f, i)) = Len(f) + 2
<1> DEFINE n == Len(f)
           len == [Field(f[i].level + 1, f[i].sname \o "-LEN") EXCEPT
                      !.parent = i, !.sister = Len(f) + 2, !.pictype = NUMERIC,
                      !.usage = "BINARY_NATIVE", !.have_sign = TRUE, !.picnsize = 10]
           arr == [Field(f[i].level + 1, f[i].sname \o "-ARR") EXCEPT
                      !.parent = i, !.pictype = f[i].pictype, !.picnsize = f[i].picnsize]
           e == [f EXCEPT ![i].children = Len(f) + 1,
                          ![i].pictype = (IF @ = NATIONAL THEN NATIONAL ELSE ALPHANUMERIC) \cup {"VARYING"}]
           q == <<len, arr>>
           g == e \o q
<1>0. IsSeq(f) /\ n \in Nat /\ f = [j \in 1..n |-> f[j]]
  BY SeqIs DEF Plants, WellLinked
<1>1. parameter_split(f, i) = g
  BY DEF parameter_split
<1>2. Shaped(len) /\ len.parent = i /\ len.sister = n + 2 /\ len.children = Null
  <2>1. \A a, b : Shaped(Field(a, b)) /\ Field(a, b).children = Null
    BY DEF Field, Shaped
  <2> DEFINE x == Field(f[i].level + 1, f[i].sname \o "-LEN")
  <2>3. Shaped(x) /\ x.children = Null
    BY <2>1, Zenon
  <2> DEFINE c == NUMERIC
             d == "BINARY_NATIVE"
             y == [x EXCEPT !.parent = i, !.sister = Len(f) + 2, !.pictype = c,
                            !.usage = d, !.have_sign = TRUE, !.picnsize = 10]
  <2>4. len = y
    OBVIOUS
  <2> HIDE DEF x, len, c, d
  <2>5. Shaped(y) /\ y.parent = i /\ y.sister = n + 2 /\ y.children = Null
    BY <2>3 DEF Shaped
  <2> HIDE DEF y
  <2> QED BY <2>4, <2>5
<1>3. Shaped(arr) /\ arr.parent = i /\ arr.sister = Null /\ arr.children = Null
  <2>1. \A a, b : Shaped(Field(a, b)) /\ Field(a, b).children = Null /\ Field(a, b).sister = Null
    BY DEF Field, Shaped
  <2> DEFINE x == Field(f[i].level + 1, f[i].sname \o "-ARR")
  <2>3. Shaped(x) /\ x.children = Null /\ x.sister = Null
    BY <2>1, Zenon
  <2> DEFINE c == f[i].pictype
             d == f[i].picnsize
             y == [x EXCEPT !.parent = i, !.pictype = c, !.picnsize = d]
  <2>4. arr = y
    OBVIOUS
  <2> HIDE DEF x, arr, c, d
  <2>5. Shaped(y) /\ y.parent = i /\ y.sister = Null /\ y.children = Null
    BY <2>3 DEF Shaped
  <2> HIDE DEF y
  <2> QED BY <2>4, <2>5
<1>4. IsSeq(e) /\ Len(e) = n
  <2>1. e = [j \in 1..n |-> e[j]]
    BY <1>0
  <2> HIDE DEF e
  <2> QED BY <1>0, <2>1, SeqMade
<1>5. ASSUME NEW j \in 1..n
      PROVE  /\ Shaped(e[j]) /\ e[j].parent \in 0..(j - 1)
             /\ e[j].sister \in {Null} \cup (j + 1)..n
             /\ e[j].children \in {Null} \cup (j + 1)..(n + 2)
  <2>1. /\ Shaped(f[j]) /\ f[j].parent \in 0..(j - 1)
        /\ f[j].sister \in {Null} \cup (j + 1)..n
        /\ f[j].children \in {Null} \cup (j + 1)..n
    BY DEF Plants, WellLinked
  <2>2. CASE j # i
    <3>1. e[j] = f[j]
      BY <1>0, <2>2
    <3> HIDE DEF e
    <3> QED BY <1>0, <2>1, <3>1
  <2>3. CASE j = i
    <3> DEFINE p == (IF f[i].pictype = NATIONAL THEN NATIONAL ELSE ALPHANUMERIC) \cup {"VARYING"}
    <3>1. e[j] = [f[i] EXCEPT !.children = n + 1, !.pictype = p]
      BY <1>0, <2>3
    <3> HIDE DEF e, p
    <3>2. Shaped(e[j]) /\ e[j].parent = f[i].parent /\ e[j].sister = f[i].sister /\ e[j].children = n + 1
      BY <2>1, <2>3, <3>1 DEF Shaped
    <3> QED BY <1>0, <2>1, <2>3, <3>2
  <2> QED BY <2>2, <2>3
<1> HIDE DEF len, arr, e
<1>6. IsSeq(q) /\ Len(q) = 2 /\ q[1] = len /\ q[2] = arr
  <2>1. q \in Seq({len, arr}) /\ Len(q) = 2 /\ q[1] = len /\ q[2] = arr
    OBVIOUS
  <2> QED BY <2>1 DEF IsSeq
<1> HIDE DEF q
<1>7. /\ IsSeq(g) /\ Len(g) = n + 2
      /\ \A j \in 1..n : g[j] = e[j]
      /\ g[n + 1] = len /\ g[n + 2] = arr
  <2>1. /\ IsSeq(e \o q) /\ Len(e \o q) = Len(e) + Len(q)
        /\ \A j \in 1..Len(e) : (e \o q)[j] = e[j]
        /\ \A j \in 1..Len(q) : (e \o q)[Len(e) + j] = q[j]
    <3>1. IsSeq(e) /\ IsSeq(q)
      BY <1>4, <1>6
    <3> HIDE DEF g
    <3> QED BY <3>1, SeqConcat
  <2>g. g = e \o q
    OBVIOUS
  <2> HIDE DEF g
  <2>2. /\ IsSeq(g) /\ Len(g) = Len(e) + Len(q)
        /\ \A j \in 1..Len(e) : g[j] = e[j]
        /\ \A j \in 1..Len(q) : g[Len(e) + j] = q[j]
    BY <2>1, <2>g, Zenon
  <2> QED BY <1>0, <1>4, <1>6, <2>2
<1> HIDE DEF g
<1>8. ASSUME NEW j \in 1..(n + 2)
      PROVE  /\ Shaped(g[j]) /\ g[j].parent \in 0..(j - 1)
             /\ g[j].sister \in {Null} \cup (j + 1)..(n + 2)
             /\ g[j].children \in {Null} \cup (j + 1)..(n + 2)
  <2>1. CASE j \in 1..n
    <3>1. g[j] = e[j]
      BY <1>7, <2>1
    <3> QED BY <1>0, <1>5, <2>1, <3>1
  <2>2. CASE j = n + 1
    <3>1. g[j] = len
      BY <1>7, <2>2
    <3> QED BY <1>0, <1>2, <2>2, <3>1
  <2>3. CASE j = n + 2
    <3>1. g[j] = arr
      BY <1>7, <2>3
    <3> QED BY <1>0, <1>3, <2>3, <3>1
  <2> QED BY <1>0, <2>1, <2>2, <2>3
<1>9. Plants(g)
  BY <1>7, <1>8 DEF Plants, WellLinked
<1> QED BY <1>1, <1>7, <1>9

(* The clauses of a description touch no pointer, nor the level.           *)
Alike(x, y) ==
  /\ Shaped(y) /\ y.level = x.level
  /\ y.parent = x.parent /\ y.sister = x.sister /\ y.children = x.children

LEMMA ClauseIs ==
  ASSUME NEW x, NEW y, Alike(x, y), NEW w
  PROVE  Alike(x, Clause(y, w))
<1>1. CASE w.kind = "PICTURE"
  <2>1. \A a, b, c, d : Alike(x, [y EXCEPT !.picnsize = a, !.scale = b, !.have_sign = c, !.pictype = d])
    BY DEF Alike, Shaped
  <2>2. Alike(x, build_picture(y, w.text))
    BY <2>1, Zenon DEF build_picture
  <2>3. Clause(y, w) = build_picture(y, w.text)
    BY <1>1 DEF Clause
  <2> QED BY <2>2, <2>3
<1>2. CASE w.kind # "PICTURE"
  <2>1. \A a : /\ Alike(x, [y EXCEPT !.usage = a]) /\ Alike(x, [y EXCEPT !.occurs = a])
               /\ Alike(x, [y EXCEPT !.sign_leading = a]) /\ Alike(x, [y EXCEPT !.separate = a])
    BY DEF Alike, Shaped
  <2>2. CASE w.kind \in {"FLOAT", "DOUBLE", "PACKED"}
    BY <2>1, <2>2 DEF Clause
  <2>3. CASE w.kind = "WORD"
    BY <2>1, <2>3 DEF Clause
  <2>4. CASE w.kind = "OCCURS"
    BY <2>1, <2>4 DEF Clause
  <2>5. CASE w.kind = "LEADING"
    BY <2>1, <2>5 DEF Clause
  <2>6. CASE w.kind = "SEPARATE"
    BY <2>1, <2>6 DEF Clause
  <2>7. CASE w.kind \notin {"FLOAT", "DOUBLE", "PACKED", "WORD", "OCCURS", "LEADING", "SEPARATE"}
    <3>1. Clause(y, w) = y
      BY <1>2, <2>7 DEF Clause
    <3> QED BY <3>1
  <2> QED BY <2>2, <2>3, <2>4, <2>5, <2>6, <2>7
<1> QED BY <1>1, <1>2

LEMMA ClausesIs ==
  ASSUME NEW x, Shaped(x), NEW t, Len(t) \in Nat
  PROVE  Alike(x, Clauses(x, t))
<1> DEFINE m == Len(t)
           Is(k, u) == u = [i \in 0..k |-> IF i = 0 THEN x ELSE Clause(u[i - 1], t[i])]
           S == {k \in Nat : \E u : Is(k, u)}
<1>1. 0 \in S
  <2> DEFINE u == [i \in 0..0 |-> x]
  <2>1. u = [i \in 0..0 |-> IF i = 0 THEN x ELSE Clause(u[i - 1], t[i])]
    <3>1. \A i \in 0..0 : i = 0
      OBVIOUS
    <3> HIDE DEF u
    <3>2. \A i \in 0..0 : x = IF i = 0 THEN x ELSE Clause(u[i - 1], t[i])
      BY <3>1
    <3>3. [i \in 0..0 |-> x] = [i \in 0..0 |-> IF i = 0 THEN x ELSE Clause(u[i - 1], t[i])]
      BY <3>2, Zenon
    <3> QED BY <3>3 DEF u
  <2> QED BY <2>1
<1>2. \A k \in Nat : k \in S => k + 1 \in S
  <2> SUFFICES ASSUME NEW k \in Nat, NEW u, Is(k, u) PROVE \E g : Is(k + 1, g)
    OBVIOUS
  <2> DEFINE g == [i \in 0..(k + 1) |-> IF i = k + 1 THEN Clause(u[k], t[k + 1]) ELSE u[i]]
  <2>1. \A i \in 0..k : u[i] = IF i = 0 THEN x ELSE Clause(u[i - 1], t[i])
    BY Zenon
  <2>2. \A i \in 0..k : g[i] = u[i]
    OBVIOUS
  <2>3. g[k + 1] = Clause(u[k], t[k + 1])
    OBVIOUS
  <2>4. g = [i \in 0..(k + 1) |-> g[i]]
    OBVIOUS
  <2> HIDE DEF g
  <2>5. ASSUME NEW i \in 0..(k + 1) PROVE g[i] = IF i = 0 THEN x ELSE Clause(g[i - 1], t[i])
    <3>1. CASE i = k + 1
      <4>1. i - 1 = k /\ k \in 0..k /\ i # 0
        BY <3>1
      <4>2. g[i - 1] = u[k]
        BY <2>2, <4>1
      <4> QED BY <2>3, <3>1, <4>1, <4>2
    <3>2. CASE i = 0
      <4>1. 0 \in 0..k
        OBVIOUS
      <4> QED BY <2>1, <2>2, <3>2, <4>1
    <3>3. CASE i \in 1..k
      <4>1. i \in 0..k /\ i - 1 \in 0..k /\ i # 0
        BY <3>3
      <4>2. g[i - 1] = u[i - 1] /\ g[i] = u[i]
        BY <2>2, <4>1
      <4> QED BY <2>1, <4>1, <4>2
    <3> QED BY <3>1, <3>2, <3>3
  <2>6. Is(k + 1, g)
    BY <2>4, <2>5, Zenon
  <2> QED BY <2>6
<1> HIDE DEF S
<1>3. m \in S
  BY <1>1, <1>2, InductSet
<1> DEFINE u == CHOOSE u : Is(m, u)
<1>4. Is(m, u)
  <2>1. \E v : Is(m, v)
    BY <1>3 DEF S
  <2> HIDE DEF Is
  <2> QED BY <2>1, Zenon
<1>5. Clauses(x, t) = u[m]
  BY DEF Clauses
<1> HIDE DEF u, m
<1>6. \A i \in 0..m : u[i] = IF i = 0 THEN x ELSE Clause(u[i - 1], t[i])
  BY <1>4, Zenon
<1> DEFINE R == {i \in 0..m : Alike(x, u[i])}
<1>m. m \in Nat
  BY DEF m
<1>7. 0 \in R
  <2>1. u[0] = x
    BY <1>6, <1>m
  <2> QED BY <1>m, <2>1 DEF Alike
<1>8. \A i \in 1..m : i - 1 \in R => i \in R
  <2> SUFFICES ASSUME NEW i \in 1..m, Alike(x, u[i - 1]) PROVE Alike(x, u[i])
    BY <1>m
  <2>1. u[i] = Clause(u[i - 1], t[i])
    <3>1. i \in 0..m /\ i # 0
      BY <1>m
    <3> QED BY <1>6, <3>1, Zenon
  <2> QED BY <2>1, ClauseIs
<1> HIDE DEF R
<1>9. \A i \in 0..m : i \in R
  BY <1>7, <1>8, <1>m, InductInterval
<1> QED BY <1>5, <1>9, <1>m DEF R

(* The tree with its two pointers, as the scanner holds it.                *)
Grown(tree) ==
  /\ tree = [f |-> tree.f, current |-> tree.current, first |-> tree.first]
  /\ Plants(tree.f)
  /\ tree.current \in 0..Len(tree.f) /\ tree.first \in 0..Len(tree.f)

LEMMA GrownIs ==
  ASSUME NEW tree, Grown(tree)
  PROVE  TreeOK(tree) /\ Walkable(tree) /\ Len(tree.f) \in Nat
<1>1. IsSeq(tree.f) /\ WellLinked(tree.f)
  BY DEF Grown, Plants, WellLinked
<1>2. Len(tree.f) \in Nat
  BY <1>1, SeqIs
<1>3. TreeOK(tree)
  <2> DEFINE n == Len(tree.f)
  <2>1. \A i \in 1..n : /\ tree.f[i].parent \in 0..(i - 1)
                        /\ tree.f[i].sister \in {Null} \cup (i + 1)..n
                        /\ tree.f[i].children \in {Null} \cup (i + 1)..n
    BY <1>1 DEF WellLinked
  <2>2. tree.current \in 0..n /\ tree.first \in 0..n
    BY DEF Grown
  <2> QED BY <2>1, <2>2 DEF TreeOK
<1> QED BY <1>1, <1>2, <1>3 DEF Walkable, Grown

LEMMA PlantsKept ==
  ASSUME NEW f, Plants(f), NEW i \in 1..Len(f), NEW y, Alike(f[i], y)
  PROVE  Plants([f EXCEPT ![i] = y]) /\ Len([f EXCEPT ![i] = y]) = Len(f)
<1> DEFINE n == Len(f)
           e == [f EXCEPT ![i] = y]
<1>0. IsSeq(f) /\ n \in Nat /\ DOMAIN f = 1..n
  BY SeqIs DEF Plants, WellLinked
<1>1. e = [j \in 1..n |-> e[j]] /\ \A j \in 1..n : e[j] = IF j = i THEN y ELSE f[j]
  BY <1>0
<1> HIDE DEF e
<1>2. IsSeq(e) /\ Len(e) = n
  BY <1>0, <1>1, SeqMade
<1>3. ASSUME NEW j \in 1..n
      PROVE  /\ Shaped(e[j]) /\ e[j].parent \in 0..(j - 1)
             /\ e[j].sister \in {Null} \cup (j + 1)..n
             /\ e[j].children \in {Null} \cup (j + 1)..n
  <2>1. /\ Shaped(f[j]) /\ f[j].parent \in 0..(j - 1)
        /\ f[j].sister \in {Null} \cup (j + 1)..n
        /\ f[j].children \in {Null} \cup (j + 1)..n
    BY DEF Plants, WellLinked
  <2>2. CASE j = i
    <3>1. /\ Shaped(y) /\ y.parent = f[j].parent /\ y.sister = f[j].sister
          /\ y.children = f[j].children /\ e[j] = y
      BY <1>1, <2>2 DEF Alike
    <3> QED BY <2>1, <3>1
  <2>3. CASE j # i
    <3>1. e[j] = f[j]
      BY <1>1, <2>3
    <3> QED BY <2>1, <3>1
  <2> QED BY <2>2, <2>3
<1>4. Plants(e)
  <2>1. WellLinked(e)
    BY <1>2, <1>3 DEF WellLinked
  <2>2. \A j \in 1..n : Shaped(e[j])
    BY <1>3
  <2> QED BY <1>2, <2>1, <2>2 DEF Plants
<1> QED BY <1>2, <1>4 DEF e

(* A larger tree has the fields that the entries named before.             *)
LEMMA Widened ==
  ASSUME NEW T, NEW n \in Nat, NEW m \in Nat, n <= m, NEW x \in Scanners(T, n), NEW tree
  PROVE  [x EXCEPT !.tree = tree] \in Scanners({tree}, m)
<1>1. 0..n \subseteq 0..m
  OBVIOUS
<1>2. ASSUME NEW h \in Globals(n) PROVE h \in Globals(m)
  BY <1>1 DEF Globals
<1>3. ASSUME NEW e \in Entries(n) PROVE e \in Entries(m)
  BY <1>1 DEF Entries
<1>4. ASSUME NEW q \in Seq(Entries(n)) PROVE q \in Seq(Entries(m))
  <2>1. q \in [1..Len(q) -> Entries(n)] /\ Len(q) \in Nat
    OBVIOUS
  <2>2. q \in [1..Len(q) -> Entries(m)]
    BY <1>3, <2>1
  <2> QED BY <2>1, <2>2
<1>5. x.list \in Seq(Entries(m)) /\ x.here \in Globals(m)
  BY <1>2, <1>4 DEF Scanners
<1> QED BY <1>5 DEF Scanners

(* A state of the scanner, the entries of its list naming fields of its    *)
(* own tree.                                                               *)
Fine(x) == Grown(x.tree) /\ x \in Scanners({x.tree}, Len(x.tree.f))

(* The tree as it grows: the current field is the last, or there is none.  *)
Rooted(tree) == tree.current \in {Null, Len(tree.f)} /\ Nested(tree.f)

(* What a rule makes of the state x.                                       *)
Follows(x, y) == Fine(y) /\ (Rooted(x.tree) => Rooted(y.tree))

(* A rule that leaves the tree alone.                                      *)
LEMMA FineKept ==
  ASSUME NEW x, Fine(x), NEW y \in Scanners({x.tree}, Len(x.tree.f))
  PROVE  Follows(x, y)
<1>1. y.tree = x.tree
  BY DEF Scanners
<1> QED BY <1>1 DEF Fine, Follows

LEMMA DeclaredFine ==
  ASSUME NEW x, Fine(x), x.toks # <<>>
  PROVE  Follows(x, Declared(x))
<1> DEFINE t     == x.toks
           named == Len(t) > 1 /\ t[2].kind = "WORD"
           name  == IF named THEN t[2].text ELSE ""
           tree  == cb_build_field_tree(x.tree, t[1].n, name)
           f     == Linked(x.tree.f, x.tree.current, t[1].n, name)
           c     == tree.current
           rest  == From(t, IF named THEN 3 ELSE 2)
           new   == [tree EXCEPT
                       !.f[c] = Clauses(@, From(t, IF named THEN 3 ELSE 2)),
                       !.first = IF @ = Null THEN c ELSE @]
           y     == [x EXCEPT !.tree = new, !.toks = <<>>]
           bad   == [x EXCEPT !.error = TRUE]
           n     == Len(x.tree.f)
           Wrong == \/ t[1].kind # "NUMBER" \/ Orphan(x.tree, t[1].n) \/ c = Null
                    \/ \E i \in 2..Len(t) : t[i].kind = "NUMBER" /\ t[i - 1].kind # "VALUE"
<1>1. /\ Declared(x) \in {bad, y, put_exec_list([y EXCEPT !.here.varying = c])}
      /\ Wrong => Declared(x) = bad
  <2>1. Wrong => Declared(x) = bad
    BY Zenon DEF Declared
  <2>2. ~Wrong => Declared(x) \in {bad, y, put_exec_list([y EXCEPT !.here.varying = c])}
    BY Zenon DEF Declared
  <2> QED BY <2>1, <2>2, Zenon
<1>2. Grown(x.tree) /\ x \in Scanners({x.tree}, n) /\ n \in Nat
  BY GrownIs DEF Fine
<1>3. Follows(x, bad)
  <2>1. bad \in Scanners({x.tree}, n)
    BY <1>2 DEF Scanners
  <2> QED BY <2>1, FineKept
<1>4. ASSUME ~Wrong
      PROVE  Follows(x, y) /\ Follows(x, put_exec_list([y EXCEPT !.here.varying = c]))
  <2>1. t \in Seq(Tokens) /\ Len(t) \in Nat /\ Len(t) >= 1
    <3>1. t \in Seq(Tokens) /\ t # <<>>
      BY <1>2 DEF Scanners
    <3> HIDE DEF t
    <3> QED BY <3>1
  <2>2. ~Orphan(x.tree, t[1].n) /\ c # Null
    BY <1>4, Zenon
  <2>3. Plants(f) /\ Len(f) \in Nat /\ n <= Len(f) /\ (f = x.tree.f \/ Len(f) = n + 1)
    <3>1. /\ Plants(x.tree.f) /\ x.tree.current \in 0..Len(x.tree.f)
          /\ cb_get_level(t[1].n) /\ t[1].n # 1 => x.tree.current # Null
      BY <1>2, <2>2 DEF Grown, Orphan
    <3>2. Plants(f) /\ (f = x.tree.f \/ Len(f) = n + 1)
      BY <3>1, LinkedIs
    <3> HIDE DEF f
    <3>3. Len(f) \in Nat
      BY <3>2, SeqIs DEF Plants, WellLinked
    <3> QED BY <1>2, <3>2, <3>3
  <2>4. tree = [f |-> f, current |-> c, first |-> x.tree.first]
    <3>1. tree = [x.tree EXCEPT !.f = f, !.current = IF Len(f) > Len(x.tree.f) THEN Len(f) ELSE @]
      BY DEF cb_build_field_tree
    <3>2. x.tree = [f |-> x.tree.f, current |-> x.tree.current, first |-> x.tree.first]
      BY <1>2 DEF Grown
    <3> HIDE DEF f, tree
    <3> QED BY <3>1, <3>2
  <2>5. c \in 1..Len(f) /\ (x.tree.current \in {Null, n} => c = Len(f))
    <3>1. tree = [x.tree EXCEPT !.f = f, !.current = IF Len(f) > Len(x.tree.f) THEN Len(f) ELSE @]
      BY DEF cb_build_field_tree
    <3>2. x.tree = [f |-> x.tree.f, current |-> x.tree.current, first |-> x.tree.first]
          /\ x.tree.current \in 0..n
      BY <1>2 DEF Grown
    <3>3. c = IF Len(f) > n THEN Len(f) ELSE x.tree.current
      <4> HIDE DEF f
      <4> QED BY <3>1, <3>2
    <3> HIDE DEF c, f, n
    <3> QED BY <1>2, <2>2, <2>3, <3>2, <3>3 DEF Null
  <2> DEFINE z == Clauses(f[c], rest)
             g == [f EXCEPT ![c] = z]
             d == IF x.tree.first = Null THEN c ELSE x.tree.first
  <2>6. Alike(f[c], z)
    <3>1. Shaped(f[c])
      <4> HIDE DEF c, f
      <4> QED BY <2>3, <2>5 DEF Plants
    <3>2. Len(rest) \in Nat
      <4> DEFINE a == IF named THEN 3 ELSE 2
      <4>2. rest \in Seq(Tokens)
        <5>1. a \in Nat \ {0}
          OBVIOUS
        <5>2. rest = SubSeq(t, a, Len(t)) /\ Len(t) \in 0..Len(t)
          BY <2>1 DEF From
        <5> HIDE DEF a, t, rest
        <5>3. SubSeq(t, a, Len(t)) \in Seq(Tokens)
          BY <2>1, <5>1, <5>2, SubTyped
        <5> QED BY <5>2, <5>3
      <4> HIDE DEF rest
      <4> QED BY <4>2
    <3> HIDE DEF c, f, rest
    <3> QED BY <3>1, <3>2, ClausesIs
  <2>7. Plants(g) /\ Len(g) = Len(f)
    <3> HIDE DEF c, f, z
    <3> QED BY <2>3, <2>5, <2>6, PlantsKept
  <2>8. new = [f |-> g, current |-> c, first |-> d]
    <3>1. DOMAIN f = 1..Len(f)
      <4> HIDE DEF f
      <4> QED BY <2>3, SeqIs DEF Plants, WellLinked
    <3>2. new = [tree EXCEPT !.f[c] = Clauses(@, rest), !.first = IF @ = Null THEN c ELSE @]
      BY Zenon
    <3> HIDE DEF f, c, tree, rest, new
    <3> QED BY <2>4, <2>5, <3>1, <3>2
  <2>9. Grown(new) /\ Len(new.f) = Len(f)
    <3>1. x.tree.first \in 0..n
      BY <1>2 DEF Grown
    <3> HIDE DEF f, c, g, new, n
    <3>2. d \in 0..Len(f)
      BY <1>2, <2>3, <2>5, <3>1
    <3> HIDE DEF d
    <3> QED BY <2>3, <2>5, <2>7, <2>8, <3>2 DEF Grown
  <2>r. ASSUME Rooted(x.tree) PROVE Rooted(new)
    <3>1. /\ Plants(x.tree.f) /\ Nested(x.tree.f) /\ x.tree.current \in {Null, n}
          /\ cb_get_level(t[1].n) /\ t[1].n # 1 => x.tree.current # Null
      BY <1>2, <2>2, <2>r DEF Grown, Orphan, Rooted
    <3>2. Nested(f)
      BY <3>1, LinkedNested
    <3>3. \A j \in 1..Len(f) : g[j].level = f[j].level /\ g[j].parent = f[j].parent
      <4>1. DOMAIN f = 1..Len(f)
        <5> HIDE DEF f
        <5> QED BY <2>3, SeqIs DEF Plants, WellLinked
      <4>2. z.level = f[c].level /\ z.parent = f[c].parent
        <5> HIDE DEF f, c, z
        <5> QED BY <2>6 DEF Alike
      <4> HIDE DEF f, c, z
      <4> QED BY <4>1, <4>2
    <3> HIDE DEF f, g, c, d, z
    <3>4. Nested(g)
      BY <2>3, <2>7, <3>2, <3>3, NestedSame
    <3> HIDE DEF new, n
    <3> QED BY <2>5, <2>7, <2>8, <3>1, <3>4 DEF Rooted
  <2> DEFINE m == Len(new.f)
             x1 == [x EXCEPT !.tree = new]
  <2>10. m \in Nat /\ n <= m
    <3> HIDE DEF f, new, n
    <3> QED BY <2>3, <2>9
  <2>11. x1 \in Scanners({new}, m)
    <3> HIDE DEF new, m, n
    <3> QED BY <1>2, <2>10, Widened
  <2>12. y \in Scanners({new}, m)
    <3>1. y = [x1 EXCEPT !.toks = <<>>]
      BY Zenon
    <3>2. <<>> \in Seq(Tokens)
      OBVIOUS
    <3> HIDE DEF x1, new, m, y
    <3>3. [x1 EXCEPT !.toks = <<>>] \in Scanners({new}, m)
      BY <2>11, <3>2 DEF Scanners
    <3> QED BY <3>1, <3>3
  <2>13. ASSUME NEW v \in Scanners({new}, m)
         PROVE  Follows(x, v)
    <3> HIDE DEF new, m
    <3>1. v.tree = new
      BY DEF Scanners
    <3> QED BY <2>9, <2>r, <3>1 DEF Fine, Follows, m
  <2>14. put_exec_list([y EXCEPT !.here.varying = c]) \in Scanners({new}, m)
    <3> DEFINE h == [y.here EXCEPT !.varying = c]
    <3>0. [y EXCEPT !.here.varying = c] = [y EXCEPT !.here = h]
      OBVIOUS
    <3>1. c \in 0..m
      <4> HIDE DEF c, f, new
      <4> QED BY <2>5, <2>9
    <3> HIDE DEF y, c, m, new
    <3>2. y.here \in Globals(m)
      BY <2>10, <2>12, HereTyped
    <3>3. h \in Globals(m)
      BY <3>1, <3>2 DEF Globals
    <3>4. [y EXCEPT !.here = h] \in Scanners({new}, m)
      <4> HIDE DEF h
      <4> QED BY <2>10, <2>12, <3>3, HereTyped
    <3>5. [y EXCEPT !.here.varying = c] \in Scanners({new}, m)
      BY <3>0, <3>4
    <3> QED BY <2>10, <3>5, PutTyped
  <2> HIDE DEF y, new, m, c
  <2> QED BY <2>12, <2>13, <2>14, Zenon
<1> HIDE DEF Wrong, bad, y, c
<1> QED BY <1>1, <1>3, <1>4, Zenon

Opens(w) == w.rule \in {"EXEC SQL", "INCLUDE", "WORKING-STORAGE"}

LEMMA Restarted ==
  ASSUME NEW u, NEW p, NEW q, NEW r, u = [f |-> p, current |-> q, first |-> r]
  PROVE  [u EXCEPT !.current = Null, !.first = Null] = [f |-> p, current |-> Null, first |-> Null]
<1>1. [u EXCEPT !.current = Null] = [f |-> p, current |-> Null, first |-> r]
  OBVIOUS
<1>2. [[f |-> p, current |-> Null, first |-> r] EXCEPT !.first = Null] =
        [f |-> p, current |-> Null, first |-> Null]
  OBVIOUS
<1>3. [u EXCEPT !.current = Null, !.first = Null] = [[u EXCEPT !.current = Null] EXCEPT !.first = Null]
  OBVIOUS
<1> QED BY <1>1, <1>2, <1>3, Zenon

LEMMA OpeningFine ==
  ASSUME NEW x, Fine(x), NEW w \in Words, NEW line_ \in Nat, Opens(w)
  PROVE  Follows(x, Opening(x, w, line_))
<1> DEFINE n == Len(x.tree.f)
           T == {x.tree}
           bad == \/ x.toks # <<>>
                  \/ x.state = "WORKING" /\ w.rule # "INCLUDE"
           y == [Cleared(x) EXCEPT !.start = line_, !.error = bad]
<1>1. Grown(x.tree) /\ x \in Scanners(T, n) /\ n \in Nat
  BY GrownIs DEF Fine
<1>2. y \in Scanners(T, n)
  <2> DEFINE z == Cleared(x)
  <2>1. z \in Scanners(T, n)
    BY <1>1, ClearedTyped
  <2>2. bad \in BOOLEAN
    OBVIOUS
  <2>3. y = [z EXCEPT !.start = line_, !.error = bad]
    BY Zenon
  <2> HIDE DEF z, bad, T, n, y
  <2> QED BY <2>1, <2>2, <2>3 DEF Scanners
<1>3. CASE w.rule = "EXEC SQL"
  <2>1. Opening(x, w, line_) = [y EXCEPT !.state = "FUNC", !.command = "", !.period = FALSE]
    BY <1>3 DEF Opening
  <2> HIDE DEF y, T, n
  <2>2. "" \in Strings /\ "FUNC" \in States
    BY DEF Strings, States
  <2>3. [y EXCEPT !.state = "FUNC", !.command = "", !.period = FALSE] \in Scanners(T, n)
    BY <1>2, <2>2 DEF Scanners
  <2> QED BY <2>1, <2>3, FineKept DEF T, n
<1>4. CASE w.rule = "INCLUDE"
  <2>1. Opening(x, w, line_) = Push([y EXCEPT !.period = FALSE], "INCLUDE")
    BY <1>4 DEF Opening
  <2> HIDE DEF y, T, n
  <2>2. "INCLUDE" \in States
    BY DEF States
  <2>3. [y EXCEPT !.period = FALSE] \in Scanners(T, n)
    BY <1>2 DEF Scanners
  <2>4. Push([y EXCEPT !.period = FALSE], "INCLUDE") \in Scanners(T, n)
    BY <1>1, <2>2, <2>3, PushTyped
  <2> QED BY <2>1, <2>4, FineKept DEF T, n
<1>5. CASE w.rule = "WORKING-STORAGE"
  <2> DEFINE z == Entry(y, "WORKING_BEGIN", line_)
             tree == [x.tree EXCEPT !.current = Null, !.first = Null]
             v == [z EXCEPT !.tree = tree]
             a == [v EXCEPT !.state = "WORKING", !.error = y.error]
  <2>1. z \in Scanners(T, n)
    <3>1. "WORKING_BEGIN" \in Strings
      BY DEF Strings
    <3> HIDE DEF y, T, n
    <3> QED BY <1>1, <1>2, <3>1, EntryTyped
  <2>2. Grown(tree) /\ tree.f = x.tree.f /\ tree.current = Null
    <3>1. x.tree = [f |-> x.tree.f, current |-> x.tree.current, first |-> x.tree.first]
      BY <1>1 DEF Grown
    <3>2. \A u, p, q, r : u = [f |-> p, current |-> q, first |-> r] =>
            [u EXCEPT !.current = Null, !.first = Null] = [f |-> p, current |-> Null, first |-> Null]
      BY Restarted
    <3>3. tree = [f |-> x.tree.f, current |-> Null, first |-> Null]
      BY <3>1, <3>2, Zenon
    <3>4. Plants(x.tree.f) /\ Null \in 0..Len(x.tree.f)
      BY <1>1 DEF Grown, Null
    <3> HIDE DEF tree
    <3>5. tree.f = x.tree.f /\ tree.current = Null /\ tree.first = Null
      BY <3>3
    <3> QED BY <3>3, <3>4, <3>5 DEF Grown
  <2>3. v \in Scanners({tree}, n)
    <3>0. n \in Nat
      BY <1>1
    <3> HIDE DEF z, tree, n, T
    <3>1. n <= n
      BY <3>0
    <3> QED BY <1>1, <2>1, <3>1, Widened
  <2>4. a \in Scanners({tree}, n)
    <3>1. y.error \in BOOLEAN
      <4> HIDE DEF y, T, n
      <4> QED BY <1>2 DEF Scanners
    <3>2. "WORKING" \in States
      BY DEF States
    <3> HIDE DEF v, y, tree, n
    <3> QED BY <2>3, <3>1, <3>2 DEF Scanners
  <2>5. Opening(x, w, line_) =
          put_exec_list([z EXCEPT !.state = "WORKING", !.tree.current = Null, !.tree.first = Null,
                                  !.error = y.error])
    BY <1>5 DEF Opening
  <2>6. [z EXCEPT !.state = "WORKING", !.tree.current = Null, !.tree.first = Null,
                  !.error = y.error] = a
    <3>1. z.tree = x.tree
      <4> HIDE DEF z
      <4> QED BY <2>1 DEF Scanners
    <3>2. z = [z EXCEPT !.tree = x.tree]
      <4> HIDE DEF z
      <4> QED BY <2>1 DEF Scanners
    <3> HIDE DEF z, y
    <3> QED BY <3>1, <2>1 DEF Scanners
  <2> HIDE DEF a
  <2>7. put_exec_list(a) \in Scanners({tree}, n)
    <3> HIDE DEF tree, n
    <3> QED BY <1>1, <2>4, PutTyped
  <2>8. put_exec_list(a).tree = tree
    <3> HIDE DEF tree, n
    <3> QED BY <2>7 DEF Scanners
  <2>9. Follows(x, put_exec_list(a))
    <3>1. n = Len(tree.f)
      BY <2>2
    <3>2. Rooted(x.tree) => Rooted(tree)
      <4> HIDE DEF tree
      <4> QED BY <2>2 DEF Rooted
    <3> DEFINE p == put_exec_list(a)
    <3> HIDE DEF tree, n, p
    <3> QED BY <2>2, <2>7, <2>8, <3>1, <3>2 DEF Fine, Follows, p
  <2> QED BY <2>5, <2>6, <2>9, Zenon
<1> QED BY <1>3, <1>4, <1>5 DEF Opens

LEMMA WorkingFine ==
  ASSUME NEW x, Fine(x), NEW w \in Words, NEW line_ \in Nat
  PROVE  Follows(x, WorkingRule(x, w, line_))
<1> DEFINE n == Len(x.tree.f)
           T == {x.tree}
           y == WorkingRule(x, w, line_)
           O == {"HOST_BEGIN", "HOST_END", "COPY", "LINKAGE SECTION", "PROCEDURE DIVISION", "VARYING", "."}
<1>1. x \in Scanners(T, n) /\ n \in Nat
  BY GrownIs DEF Fine
<1>r. w.rule \in Strings
  BY DEF Words, Strings
<1>2. CASE Swallows(w)
  <2>1. y = Push(x, "SWALLOWED")
    BY <1>2 DEF WorkingRule, Swallows
  <2>2. "SWALLOWED" \in States
    BY DEF States
  <2>3. Push(x, "SWALLOWED") \in Scanners(T, n)
    BY <1>1, <2>2, PushTyped
  <2> QED BY <2>1, <2>3, FineKept
<1>3. CASE ~Swallows(w) /\ w.rule \in {"HOST_BEGIN", "HOST_END"}
  <2>1. y = put_exec_list(Entry(x, w.rule, line_))
    BY <1>3 DEF WorkingRule
  <2>3. put_exec_list(Entry(x, w.rule, line_)) \in Scanners(T, n)
    BY <1>1, <1>r, EntryTyped, PutTyped
  <2> QED BY <2>1, <2>3, FineKept
<1>4. CASE ~Swallows(w) /\ w.rule = "COPY"
  BY <1>4 DEF WorkingRule, Follows
<1>5. CASE ~Swallows(w) /\ w.rule \in {"LINKAGE SECTION", "PROCEDURE DIVISION"}
  <2> DEFINE e == Entry(x, "WORKING_END", line_)
  <2>1. y = put_exec_list([e EXCEPT !.state = "INITIAL"])
    BY <1>5 DEF WorkingRule
  <2>2. "WORKING_END" \in Strings /\ "INITIAL" \in States
    BY DEF Strings, States
  <2>3. e \in Scanners(T, n)
    BY <1>1, <2>2, EntryTyped
  <2> HIDE DEF e, T, n
  <2>4. [e EXCEPT !.state = "INITIAL"] \in Scanners(T, n)
    BY <2>2, <2>3 DEF Scanners
  <2>5. put_exec_list([e EXCEPT !.state = "INITIAL"]) \in Scanners(T, n)
    BY <1>1, <2>4, PutTyped
  <2> QED BY <2>1, <2>5, FineKept DEF T, n
<1>6. CASE ~Swallows(w) /\ w.rule = "VARYING"
  <2> DEFINE e == Entry(x, "VARYING_PARAM", line_)
  <2>1. y = Tok([e EXCEPT !.error = FALSE], "VARYING", w)
    BY <1>6 DEF WorkingRule
  <2>2. "VARYING_PARAM" \in Strings /\ "VARYING" \in Strings
    BY DEF Strings
  <2>3. e \in Scanners(T, n)
    BY <1>1, <2>2, EntryTyped
  <2> HIDE DEF e, T, n
  <2>4. [e EXCEPT !.error = FALSE] \in Scanners(T, n)
    BY <2>2, <2>3 DEF Scanners
  <2>5. Tok([e EXCEPT !.error = FALSE], "VARYING", w) \in Scanners(T, n)
    BY <1>1, <2>2, <2>4, TokTyped
  <2> QED BY <2>1, <2>5, FineKept DEF T, n
<1>7. CASE ~Swallows(w) /\ w.rule = "."
  <2>1. y = IF x.toks = <<>> THEN [x EXCEPT !.error = TRUE] ELSE Declared(x)
    BY <1>7 DEF WorkingRule
  <2>2. [x EXCEPT !.error = TRUE] \in Scanners(T, n)
    BY <1>1 DEF Scanners
  <2> QED BY <2>1, <2>2, FineKept, DeclaredFine
<1>8. CASE ~Swallows(w) /\ w.rule \notin O
  <2>1. y = Tok(x, w.rule, w)
    BY <1>8 DEF WorkingRule
  <2>2. Tok(x, w.rule, w) \in Scanners(T, n)
    BY <1>1, <1>r, TokTyped
  <2> QED BY <2>1, <2>2, FineKept
<1> QED BY <1>2, <1>3, <1>4, <1>5, <1>6, <1>7, <1>8

LEMMA RuleFine ==
  ASSUME NEW x, Fine(x), NEW w \in Words, NEW line_ \in Nat
  PROVE  Follows(x, Rule(x, w, line_))
<1> DEFINE n == Len(x.tree.f)
           T == {x.tree}
           y == Rule(x, w, line_)
<1>1. x \in Scanners(T, n) /\ n \in Nat
  BY GrownIs DEF Fine
<1>2. x.state \in States /\ x.error \in BOOLEAN
  <2> HIDE DEF T, n
  <2> QED BY <1>1 DEF Scanners
<1>3. CASE x.error
  <2>1. y = x
    BY <1>3 DEF Rule
  <2> QED BY <2>1 DEF Follows
<1>4. CASE ~x.error /\ x.state \in {"INITIAL", "WORKING"} /\ Opens(w)
  <2>1. y = Opening(x, w, line_)
    BY <1>4 DEF Rule, Opens
  <2> QED BY <1>4, <2>1, OpeningFine
<1>5. CASE ~x.error /\ x.state = "INITIAL" /\ ~Opens(w)
  <2>1. y = x
    BY <1>5 DEF Rule, Opens
  <2> QED BY <2>1 DEF Follows
<1>6. CASE ~x.error /\ x.state = "WORKING" /\ ~Opens(w)
  <2>1. y = WorkingRule(x, w, line_)
    BY <1>6 DEF Rule, Opens
  <2> QED BY <2>1, WorkingFine
<1>7. CASE ~x.error /\ x.state = "SWALLOWED"
  <2>1. y = SwallowedRule(x, w)
    BY <1>7 DEF Rule
  <2>2. SwallowedRule(x, w) \in Scanners(T, n)
    BY <1>1, OthersTyped
  <2> QED BY <2>1, <2>2, FineKept
<1>8. CASE ~x.error /\ x.state = "FUNC"
  <2>1. y = FuncRule(x, w)
    BY <1>8 DEF Rule
  <2>2. FuncRule(x, w) \in Scanners(T, n)
    BY <1>1, FuncTyped
  <2> QED BY <2>1, <2>2, FineKept
<1>9. CASE ~x.error /\ x.state = "DBNAME"
  <2>1. y = DbRule(x, w)
    BY <1>9 DEF Rule
  <2>2. DbRule(x, w) \in Scanners(T, n)
    BY <1>1, OthersTyped
  <2> QED BY <2>1, <2>2, FineKept
<1>10. CASE ~x.error /\ x.state = "ESQL"
  <2>1. y = EsqlRule(x, w, line_)
    BY <1>10 DEF Rule
  <2>2. EsqlRule(x, w, line_) \in Scanners(T, n)
    BY <1>1, EsqlTyped
  <2> QED BY <2>1, <2>2, FineKept
<1>11. CASE ~x.error /\ x.state = "WHERE_CURRENT_OF"
  <2>1. y = WhereRule(x, w)
    BY <1>11 DEF Rule
  <2>2. WhereRule(x, w) \in Scanners(T, n)
    BY <1>1, OthersTyped
  <2> QED BY <2>1, <2>2, FineKept
<1>12. CASE ~x.error /\ x.state = "INCLUDE"
  <2>1. y = IncludeRule(x, w, line_)
    BY <1>12 DEF Rule
  <2>2. IncludeRule(x, w, line_) \in Scanners(T, n)
    BY <1>1, OthersTyped
  <2> QED BY <2>1, <2>2, FineKept
<1> QED BY <1>2, <1>3, <1>4, <1>5, <1>6, <1>7, <1>8, <1>9, <1>10, <1>11, <1>12 DEF States

(* A line of any words through the rules, from any state of the scanner:   *)
(* the globals keep their types, the entries name fields that there are,   *)
(* and the tree stays one, nested as its levels are when it was so before  *)
(* (scanner.l, parser.y, cb_build_field_tree).                             *)
THEOREM ScanFine ==
  ASSUME NEW x, Fine(x), NEW t \in Seq(Words), NEW line_ \in Nat
  PROVE  Follows(x, ScanLine(x, t, line_))
<1> DEFINE m == Len(t)
           Is(k, u) == u = [i \in 0..k |-> IF i = 0 THEN x ELSE Rule(u[i - 1], t[i], line_)]
           S == {k \in Nat : \E u : Is(k, u)}
<1>a. Len(t) \in Nat
  OBVIOUS
<1>1. 0 \in S
  <2> DEFINE u == [i \in 0..0 |-> x]
  <2>1. u = [i \in 0..0 |-> IF i = 0 THEN x ELSE Rule(u[i - 1], t[i], line_)]
    <3>1. \A i \in 0..0 : i = 0
      OBVIOUS
    <3> HIDE DEF u
    <3>2. \A i \in 0..0 : x = IF i = 0 THEN x ELSE Rule(u[i - 1], t[i], line_)
      BY <3>1
    <3>3. [i \in 0..0 |-> x] = [i \in 0..0 |-> IF i = 0 THEN x ELSE Rule(u[i - 1], t[i], line_)]
      BY <3>2, Zenon
    <3> QED BY <3>3 DEF u
  <2> QED BY <2>1
<1>2. \A k \in Nat : k \in S => k + 1 \in S
  <2> HIDE DEF Is
  <2> SUFFICES ASSUME NEW k \in Nat, NEW u, Is(k, u) PROVE \E g : Is(k + 1, g)
    OBVIOUS
  <2> USE DEF Is
  <2> DEFINE g == [i \in 0..(k + 1) |-> IF i = k + 1 THEN Rule(u[k], t[k + 1], line_) ELSE u[i]]
  <2>1. \A i \in 0..k : u[i] = IF i = 0 THEN x ELSE Rule(u[i - 1], t[i], line_)
    BY Zenon
  <2>2. \A i \in 0..k : g[i] = u[i]
    OBVIOUS
  <2>3. g[k + 1] = Rule(u[k], t[k + 1], line_)
    OBVIOUS
  <2>4. g = [i \in 0..(k + 1) |-> g[i]]
    OBVIOUS
  <2> HIDE DEF g
  <2>5. ASSUME NEW i \in 0..(k + 1) PROVE g[i] = IF i = 0 THEN x ELSE Rule(g[i - 1], t[i], line_)
    <3>1. CASE i = k + 1
      <4>1. i - 1 = k /\ k \in 0..k /\ i # 0
        BY <3>1
      <4>2. g[i - 1] = u[k]
        BY <2>2, <4>1
      <4> QED BY <2>3, <3>1, <4>1, <4>2
    <3>2. CASE i = 0
      <4>1. 0 \in 0..k
        OBVIOUS
      <4> QED BY <2>1, <2>2, <3>2, <4>1
    <3>3. CASE i \in 1..k
      <4>1. i \in 0..k /\ i - 1 \in 0..k /\ i # 0
        BY <3>3
      <4>2. g[i - 1] = u[i - 1] /\ g[i] = u[i]
        BY <2>2, <4>1
      <4> QED BY <2>1, <4>1, <4>2
    <3> QED BY <3>1, <3>2, <3>3
  <2>6. Is(k + 1, g)
    BY <2>4, <2>5, Zenon
  <2> QED BY <2>6
<1> HIDE DEF S
<1>3. m \in S
  BY <1>a, <1>1, <1>2, InductSet
<1> DEFINE u == CHOOSE u : Is(m, u)
<1>4. Is(m, u)
  <2>1. \E v : Is(m, v)
    BY <1>3 DEF S
  <2> HIDE DEF Is
  <2> QED BY <2>1, Zenon
<1>5. ScanLine(x, t, line_) = u[m]
  BY DEF ScanLine
<1> HIDE DEF u, m
<1>6. \A i \in 0..m : u[i] = IF i = 0 THEN x ELSE Rule(u[i - 1], t[i], line_)
  BY <1>4, Zenon
<1> DEFINE R == {i \in 0..m : Follows(x, u[i])}
<1>m. m \in Nat
  BY <1>a DEF m
<1>7. 0 \in R
  <2>1. u[0] = x
    BY <1>6, <1>m
  <2> QED BY <1>m, <2>1 DEF Follows
<1>8. \A i \in 1..m : i - 1 \in R => i \in R
  <2> SUFFICES ASSUME NEW i \in 1..m, Follows(x, u[i - 1]) PROVE Follows(x, u[i])
    BY <1>m
  <2>1. u[i] = Rule(u[i - 1], t[i], line_)
    <3>1. i \in 0..m /\ i # 0
      BY <1>m
    <3> QED BY <1>6, <3>1, Zenon
  <2>2. t[i] \in Words
    BY DEF m
  <2> QED BY <2>1, <2>2, RuleFine DEF Follows
<1> HIDE DEF R
<1>9. \A i \in 0..m : i \in R
  BY <1>7, <1>8, <1>m, InductInterval
<1> QED BY <1>5, <1>9, <1>m DEF R

LEMMA StartedFine == Fine(Started) /\ Rooted(Started.tree)
<1>1. Plants(<<>>) /\ Len(<<>>) = 0
  <2>1. IsSeq(<<>>) /\ Len(<<>>) = 0
    BY SeqParts
  <2> QED BY <2>1 DEF Plants, WellLinked
<1>2. NoTree = [f |-> <<>>, current |-> 0, first |-> 0]
  BY DEF NoTree, Null
<1>3. Grown(NoTree)
  BY <1>1, <1>2 DEF Grown
<1>4. Blank \in Globals(0)
  BY BlankTyped
<1>5. Started \in Scanners({NoTree}, 0)
  <2>1. <<>> \in Seq(Tokens) /\ <<>> \in Seq(Entries(0))
    OBVIOUS
  <2>2. "" \in Strings /\ "INITIAL" \in States
    BY DEF Strings, States
  <2> DEFINE e == <<>>
  <2>3. Started = [state |-> "INITIAL", below |-> "INITIAL", insql |-> FALSE, select |-> FALSE,
                   sqlnum |-> 0, period |-> FALSE, command |-> "", start |-> 0, end |-> 0,
                   toks |-> e, list |-> e, tree |-> NoTree, error |-> FALSE, here |-> Blank]
    BY DEF Started
  <2>4. e \in Seq(Tokens) /\ e \in Seq(Entries(0))
    BY <2>1
  <2> HIDE DEF e
  <2> QED BY <1>4, <2>2, <2>3, <2>4 DEF Scanners
<1>6. Started.tree = NoTree
  BY DEF Started
<1>7. Rooted(NoTree)
  BY <1>1, <1>2 DEF Rooted, Nested, Null
<1> QED BY <1>1, <1>2, <1>3, <1>5, <1>6, <1>7 DEF Fine

-----------------------------------------------------------------------------
(* The copies                                                              *)

(* The marks around an included file are no lines of the program.          *)
Lines_ ==
  {x \in [kind : {"line"}, line : Nat, words : Seq(Words), mark : BOOLEAN, comment : BOOLEAN] :
     x.mark => x.line = 0}

LEMMA LineTyped ==
  ASSUME NEW k \in Nat, NEW words \in Seq(Words)
  PROVE  Line(k, words) \in Lines_ /\ Line(k, words).line = k
BY DEF Line, Lines_

LEMMA MarkTyped == Mark \in Lines_ /\ Mark.line = 0
<1>1. <<>> \in Seq(Words)
  OBVIOUS
<1> DEFINE x == Line(0, <<>>)
<1>2. x \in Lines_ /\ x.line = 0
  BY <1>1, LineTyped
<1>3. Mark = [x EXCEPT !.mark = TRUE]
  BY DEF Mark
<1> HIDE DEF x
<1> QED BY <1>2, <1>3 DEF Lines_

LEMMA CommentTyped ==
  ASSUME NEW x \in Lines_
  PROVE  /\ Comment(x) \in Lines_ /\ Comment(x).line = x.line /\ Comment(x).mark = x.mark
<1>1. <<>> \in Seq(Words)
  OBVIOUS
<1> DEFINE e == <<>>
<1> HIDE DEF e
<1>2. e \in Seq(Words) /\ Comment(x) = [x EXCEPT !.comment = TRUE, !.words = e]
  BY <1>1 DEF Comment, e
<1> QED BY <1>2 DEF Lines_

(* What a step of a copy leaves: q, the items b of an entry, a line x.     *)
Joined(q, b, x, r) == r = (q \o b) \o <<x>>

LEMMA Extended ==
  ASSUME NEW q, IsSeq(q), NEW b, IsSeq(b), NEW x, NEW r, Joined(q, b, x, r)
  PROVE  /\ IsSeq(r) /\ Len(r) = Len(q) + Len(b) + 1 /\ r[Len(r)] = x
         /\ \A i \in 1..Len(q) : r[i] = q[i]
         /\ \A i \in 1..Len(b) : r[Len(q) + i] = b[i]
<1> DEFINE a == q \o b
           z == <<x>>
<1>r. r = a \o z
  BY DEF Joined
<1>1. IsSeq(a) /\ Len(a) = Len(q) + Len(b)
      /\ (\A i \in 1..Len(q) : a[i] = q[i]) /\ \A i \in 1..Len(b) : a[Len(q) + i] = b[i]
  <2>1. IsSeq(q) /\ IsSeq(b)
    OBVIOUS
  <2> QED BY <2>1, SeqConcat
<1>2. IsSeq(z) /\ Len(z) = 1 /\ z[1] = x
  BY SeqParts
<1>3. Len(q) \in Nat /\ Len(b) \in Nat
  BY SeqIs
<1> HIDE DEF a, z
<1>4. /\ IsSeq(a \o z) /\ Len(a \o z) = Len(a) + Len(z)
      /\ \A i \in 1..Len(a) : (a \o z)[i] = a[i]
      /\ \A i \in 1..Len(z) : (a \o z)[Len(a) + i] = z[i]
  <2>1. IsSeq(a) /\ IsSeq(z)
    BY <1>1, <1>2
  <2> QED BY <2>1, SeqConcat
<1>5. /\ IsSeq(r) /\ Len(r) = Len(a) + Len(z)
      /\ \A i \in 1..Len(a) : r[i] = a[i]
      /\ \A i \in 1..Len(z) : r[Len(a) + i] = z[i]
  BY <1>4, <1>r, Zenon
<1>6. Len(r) = Len(q) + Len(b) + 1 /\ r[Len(r)] = x
  BY <1>1, <1>2, <1>3, <1>5
<1>7. \A i \in 1..Len(q) : r[i] = q[i]
  BY <1>1, <1>3, <1>5
<1>8. \A i \in 1..Len(b) : r[Len(q) + i] = b[i]
  <2> SUFFICES ASSUME NEW i \in 1..Len(b) PROVE r[Len(q) + i] = b[i]
    OBVIOUS
  <2>1. Len(q) + i \in 1..Len(a)
    BY <1>1, <1>3
  <2> QED BY <1>1, <1>5, <2>1
<1> QED BY <1>5, <1>6, <1>7, <1>8

(* Sequences of lines only, as the first copy writes them.                 *)
LEMMA ExtendedLines ==
  ASSUME NEW S, NEW q \in Seq(S), NEW b \in Seq(S), NEW x \in S
  PROVE  (q \o b) \o <<x>> \in Seq(S)
<1>1. q \o b \in Seq(S) /\ <<x>> \in Seq(S)
  OBVIOUS
<1> DEFINE a == q \o b
           z == <<x>>
<1> HIDE DEF a, z
<1>2. a \in Seq(S) /\ z \in Seq(S)
  BY <1>1 DEF a, z
<1>3. a \o z \in Seq(S)
  BY <1>2
<1> QED BY <1>3 DEF a, z

-----------------------------------------------------------------------------
(* The invariant                                                           *)

(* Every text among these is whole.                                        *)
TextsIn(q) ==
  \A p \in 1..Len(q) : q[p].kind = "filler" =>
     Whole(TextBytes(q[p].item.text), q[p].item.fillers)

AtEntry == l \in 1..(IF s.list = <<>> THEN 1 ELSE Len(s.list))

(* The invariant: types, the place of the copy in the list, that the texts *)
(* written so far are whole, and the tree as it grows.  It is inductive by *)
(* itself.                                                                 *)
Typed ==
  /\ phase \in {"scan1", "copy1", "scan2", "copy2", "done", "failed"}
  /\ source \in Programs
  /\ file \in Seq(Lines_) /\ line \in 0..Len(file)
  /\ inbuff \in Lines_
  /\ IsSeq(out) /\ TextsIn(out)
  /\ phase = "copy1" => out \in Seq(Lines_)
  /\ Fine(s) /\ (phase \in {"scan1", "copy1", "scan2"} => Rooted(s.tree))
  /\ phase \in {"copy1", "copy2"} => AtEntry

LEMMA ReadTyped ==
  ASSUME Typed
  PROVE  Read \in Lines_ /\ Comment(Read) \in Lines_
<1>1. Read \in Lines_
  <2>1. Len(file) \in Nat /\ \A i \in 1..Len(file) : file[i] \in Lines_
    BY DEF Typed
  <2>2. line < Len(file) => line + 1 \in 1..Len(file)
    BY <2>1 DEF Typed
  <2> QED BY <2>1, <2>2 DEF Typed, Read
<1> QED BY <1>1, CommentTyped

(* A step of the first copy, and of the second.                            *)
LEMMA Copying1 ==
  ASSUME CopyLine(IsInclude, Nothing, ppbuff_incfile)
  PROVE  /\ l' = IF Passed THEN NextEntry(l) ELSE l
         /\ inbuff' \in {Read, Comment(Read)}
         /\ out' = (out \o (IF Inside THEN <<>> ELSE IF Passed THEN ppbuff_incfile(s.list[l]) ELSE <<>>))
                   \o <<inbuff'>>
BY Zenon DEF CopyLine, Nothing

LEMMA Copying2 ==
  ASSUME CopyLine(NotWorking, Fillers, Statement)
  PROVE  /\ l' = IF Passed THEN NextEntry(l) ELSE l
         /\ inbuff' \in {Read, Comment(Read)}
         /\ out' = (out \o (IF Inside THEN Fillers(s.list[l]) ELSE IF Passed THEN Statement(s.list[l]) ELSE <<>>))
                   \o <<inbuff'>>
BY Zenon DEF CopyLine

(* The list and its entry l.                                               *)
LEMMA EntryIs ==
  ASSUME Typed, AtEntry, s.list # <<>>
  PROVE  /\ s.list \in Seq(Entries(Len(s.tree.f))) /\ l \in 1..Len(s.list)
         /\ s.list[l] \in Entries(Len(s.tree.f)) /\ Emittable(s.list[l])
         /\ Later(SubSeq(s.list, l, Len(s.list)))
         /\ NextEntry(l) \in 1..Len(s.list)
<1> DEFINE n == Len(s.tree.f)
           q == s.list
<1>1. q \in Seq(Entries(n)) /\ Len(q) \in Nat
  <2>1. s \in Scanners({s.tree}, n)
    BY DEF Typed, Fine
  <2> HIDE DEF n
  <2> QED BY <2>1 DEF Scanners
<1>2. l \in 1..Len(q)
  BY DEF AtEntry
<1> HIDE DEF n
<1>3. q[l] \in Entries(n)
  BY <1>1, <1>2
<1>4. ASSUME NEW e \in Entries(n)
      PROVE  Emittable(e) /\ IsSeq(e.text)
  <2>1. e.hosts \in Seq(Strings) /\ e.res \in Seq(Strings) /\ e.text \in Seq(Tokens) /\ e.period \in BOOLEAN
    BY DEF Entries
  <2> QED BY <2>1 DEF Emittable, IsSeq
<1>5. Later(SubSeq(q, l, Len(q)))
  <2> DEFINE r == SubSeq(q, l, Len(q))
  <2>1. r \in Seq(Entries(n))
    <3>1. l \in Nat /\ l > 0 /\ Len(q) \in 0..Len(q)
      BY <1>1, <1>2
    <3> HIDE DEF q
    <3> QED BY <1>1, <3>1, SubTyped
  <2> HIDE DEF r
  <2>2. \A i \in 1..Len(r) : r[i] \in Entries(n)
    BY <2>1
  <2>3. Later(r)
    BY <1>4, <2>1, <2>2 DEF Later, IsSeq
  <2> QED BY <2>3 DEF r
<1>6. NextEntry(l) \in 1..Len(q)
  BY <1>1, <1>2 DEF NextEntry
<1> QED BY <1>1, <1>2, <1>3, <1>4, <1>5, <1>6 DEF n

LEMMA IncludedLines ==
  ASSUME NEW e, IsInclude(e) => e.inc \in DOMAIN Included
  PROVE  /\ ppbuff_incfile(e) \in Seq(Lines_)
         /\ \A k \in 1..Len(ppbuff_incfile(e)) : ppbuff_incfile(e)[k].line = 0
<1>1. CASE ~IsInclude(e)
  <2>1. ppbuff_incfile(e) = <<>>
    BY <1>1 DEF ppbuff_incfile
  <2>2. <<>> \in Seq(Lines_) /\ \A k \in 1..Len(<<>>) : <<>>[k].line = 0
    OBVIOUS
  <2> QED BY <2>1, <2>2, Zenon
<1>2. CASE IsInclude(e)
  <2> DEFINE w == Included[e.inc]
             b == [k \in DOMAIN w |-> Line(0, w[k])]
             z == <<Mark>>
  <2>1. w \in Seq(Seq(Words))
    BY <1>2, ProgramsAssumption
  <2>2. b \in Seq(Lines_)
    <3> HIDE DEF w
    <3>1. DOMAIN w = 1..Len(w) /\ Len(w) \in Nat /\ \A k \in 1..Len(w) : w[k] \in Seq(Words)
      BY <2>1
    <3>2. \A k \in 1..Len(w) : Line(0, w[k]) \in Lines_
      BY <3>1, LineTyped
    <3>3. b \in [1..Len(w) -> Lines_]
      BY <3>1, <3>2
    <3> QED BY <3>1, <3>3
  <2>3. z \in Seq(Lines_) /\ Mark \in Lines_
    BY MarkTyped
  <2>4. ppbuff_incfile(e) = (z \o b) \o <<Mark>>
    BY <1>2 DEF ppbuff_incfile
  <2>5. \A k \in 1..Len(w) : b[k].line = 0
    <3> HIDE DEF w
    <3>1. DOMAIN w = 1..Len(w) /\ Len(w) \in Nat /\ \A k \in 1..Len(w) : w[k] \in Seq(Words)
      BY <2>1
    <3>2. \A k \in 1..Len(w) : b[k] = Line(0, w[k])
      BY <3>1
    <3> QED BY <3>1, <3>2, LineTyped
  <2>6. Len(b) = Len(w)
    <3> HIDE DEF w
    <3>1. DOMAIN w = 1..Len(w) /\ Len(w) \in Nat
      BY <2>1
    <3> QED BY <2>2, <3>1
  <2>7. Len(z) = 1 /\ z[1] = Mark /\ IsSeq(z) /\ Mark.line = 0 /\ IsSeq(b)
    BY <2>2, SeqParts, MarkTyped DEF IsSeq
  <2> DEFINE r == (z \o b) \o <<Mark>>
  <2>8. r \in Seq(Lines_)
    <3> HIDE DEF b, z
    <3> QED BY <2>2, <2>3, ExtendedLines
  <2>9. Joined(z, b, Mark, r)
    BY Zenon DEF Joined
  <2> HIDE DEF b, z, r, w
  <2>10. /\ Len(r) = Len(z) + Len(b) + 1 /\ r[Len(r)] = Mark
         /\ \A i \in 1..Len(z) : r[i] = z[i]
         /\ \A i \in 1..Len(b) : r[Len(z) + i] = b[i]
    <3>1. IsSeq(z) /\ IsSeq(b) /\ Joined(z, b, Mark, r)
      BY <2>7, <2>9
    <3> QED BY <3>1, Extended
  <2>11. Len(b) \in Nat
    BY <2>7, SeqIs
  <2>12. ASSUME NEW k \in 1..Len(r) PROVE r[k].line = 0
    <3>1. CASE k = 1
      BY <2>7, <2>10, <3>1
    <3>2. CASE k \in 2..(Len(b) + 1)
      <4>1. k - 1 \in 1..Len(b) /\ k = Len(z) + (k - 1)
        BY <2>7, <2>11, <3>2
      <4>2. r[k] = b[k - 1]
        BY <2>10, <4>1
      <4> QED BY <2>5, <2>6, <4>1, <4>2
    <3>3. CASE k = Len(r)
      BY <2>7, <2>10, <3>3
    <3> QED BY <2>7, <2>10, <2>11, <3>1, <3>2, <3>3
  <2>13. ppbuff_incfile(e) = r
    BY <2>4 DEF r
  <2> QED BY <2>8, <2>12, <2>13, Zenon
<1> QED BY <1>1, <1>2

LEMMA TaggedIs ==
  ASSUME NEW f, IsSeq(f), Texts(f)
  PROVE  LET g == Tagged(f)
         IN  /\ IsSeq(g) /\ Len(g) = Len(f) /\ TextsIn(g)
             /\ \A k \in 1..Len(f) : g[k].item = f[k] /\ g[k].kind = f[k].kind
<1> DEFINE g == Tagged(f)
<1>0. Len(f) \in Nat
  BY SeqIs
<1>1. g = [k \in 1..Len(f) |-> g[k]]
      /\ \A k \in 1..Len(f) : g[k].item = f[k] /\ g[k].kind = f[k].kind
  BY DEF Tagged
<1> HIDE DEF g
<1>2. IsSeq(g) /\ Len(g) = Len(f)
  BY <1>0, <1>1, SeqMade
<1>3. TextsIn(g)
  BY <1>1, <1>2 DEF TextsIn, Texts
<1> QED BY <1>1, <1>2, <1>3 DEF g

LEMMA ExtendedTexts ==
  ASSUME NEW q, IsSeq(q), TextsIn(q), NEW b, IsSeq(b), TextsIn(b), NEW x \in Lines_
  PROVE  IsSeq((q \o b) \o <<x>>) /\ TextsIn((q \o b) \o <<x>>)
<1> DEFINE r == (q \o b) \o <<x>>
<1>1. /\ IsSeq(r) /\ Len(r) = Len(q) + Len(b) + 1 /\ r[Len(r)] = x
      /\ \A i \in 1..Len(q) : r[i] = q[i]
      /\ \A i \in 1..Len(b) : r[Len(q) + i] = b[i]
  <2>1. IsSeq(q) /\ IsSeq(b) /\ Joined(q, b, x, r)
    BY DEF Joined
  <2> HIDE DEF r
  <2> QED BY <2>1, Extended
<1>2. Len(q) \in Nat /\ Len(b) \in Nat
  BY SeqIs
<1>3. x.kind = "line"
  BY DEF Lines_
<1> HIDE DEF r
<1>4. ASSUME NEW p \in 1..Len(r), r[p].kind = "filler"
      PROVE  Whole(TextBytes(r[p].item.text), r[p].item.fillers)
  <2>1. CASE p \in 1..Len(q)
    <3>1. r[p] = q[p]
      BY <1>1, <2>1
    <3> QED BY <1>4, <2>1, <3>1 DEF TextsIn
  <2>2. CASE p \in (Len(q) + 1)..(Len(q) + Len(b))
    <3> DEFINE i == p - Len(q)
    <3>1. i \in 1..Len(b) /\ p = Len(q) + i
      BY <1>2, <2>2
    <3> HIDE DEF i
    <3>2. r[p] = b[i]
      BY <1>1, <3>1
    <3> QED BY <1>4, <3>1, <3>2 DEF TextsIn
  <2>3. CASE p = Len(r)
    BY <1>1, <1>3, <1>4, <2>3
  <2> QED BY <1>1, <1>2, <2>1, <2>2, <2>3
<1> QED BY <1>1, <1>4 DEF TextsIn, r

(* A sequence of lines has no text.                                        *)
LEMMA LinesTexts ==
  ASSUME NEW q \in Seq(Lines_)
  PROVE  IsSeq(q) /\ TextsIn(q)
<1>1. \A p \in 1..Len(q) : q[p] \in Lines_
  OBVIOUS
<1>2. \A p \in 1..Len(q) : q[p].kind = "line"
  BY <1>1 DEF Lines_
<1> QED BY <1>2 DEF IsSeq, TextsIn

(* VARYING splits its field, and the tree stays one.                       *)
LEMMA AfterFine ==
  ASSUME NEW x, Fine(x), NEW e \in Entries(Len(x.tree.f))
  PROVE  Fine([x EXCEPT !.tree = TreeAfter(x.tree, e)])
<1> DEFINE n == Len(x.tree.f)
           i == e.varying
           g == parameter_split(x.tree.f, i)
           tree == [x.tree EXCEPT !.f = g]
           y == [x EXCEPT !.tree = tree]
<1>1. Grown(x.tree) /\ x \in Scanners({x.tree}, n) /\ n \in Nat
  BY GrownIs DEF Fine
<1>2. CASE TreeAfter(x.tree, e) = x.tree
  <2>1. [x EXCEPT !.tree = x.tree] \in Scanners({x.tree}, n)
    <3> HIDE DEF n
    <3>1. n <= n
      BY <1>1
    <3> QED BY <1>1, <3>1, Widened
  <2>2. Fine([x EXCEPT !.tree = x.tree])
    BY <2>1, FineKept DEF Follows
  <2> QED BY <1>2, <2>2, Zenon
<1>3. CASE TreeAfter(x.tree, e) = tree
  <2>1. i \in 0..n
    <3>1. e \in Entries(n)
      OBVIOUS
    <3> HIDE DEF n
    <3> QED BY <3>1 DEF Entries
  <2>2. Plants(g) /\ Len(g) = n + 2
    <3>1. Plants(x.tree.f)
      BY <1>1 DEF Grown
    <3> HIDE DEF i
    <3> QED BY <2>1, <3>1, SplitIs
  <2>3. tree = [f |-> g, current |-> x.tree.current, first |-> x.tree.first]
    <3>1. x.tree = [f |-> x.tree.f, current |-> x.tree.current, first |-> x.tree.first]
      BY <1>1 DEF Grown
    <3> HIDE DEF g
    <3> QED BY <3>1
  <2>4. Grown(tree) /\ Len(tree.f) = n + 2
    <3>1. x.tree.current \in 0..n /\ x.tree.first \in 0..n
      BY <1>1 DEF Grown
    <3>2. x.tree.current \in 0..(n + 2) /\ x.tree.first \in 0..(n + 2)
      BY <1>1, <3>1
    <3> HIDE DEF g, tree, n
    <3> QED BY <2>2, <2>3, <3>2 DEF Grown
  <2>5. y \in Scanners({tree}, n + 2)
    <3> HIDE DEF tree, n
    <3>1. n <= n + 2 /\ n + 2 \in Nat
      BY <1>1
    <3> QED BY <1>1, <3>1, Widened
  <2>6. y.tree = tree
    <3> HIDE DEF tree, y, n
    <3> QED BY <2>5 DEF Scanners
  <2>7. Fine(y)
    <3> HIDE DEF tree, y, n
    <3> QED BY <2>4, <2>5, <2>6 DEF Fine
  <2> QED BY <1>3, <2>7, Zenon
<1>4. TreeAfter(x.tree, e) \in {x.tree, tree}
  BY Zenon DEF TreeAfter
<1> QED BY <1>2, <1>3, <1>4, Zenon

LEMMA InitTyped == Init => Typed
<1> SUFFICES ASSUME Init PROVE Typed
  OBVIOUS
<1>1. source \in Seq(Seq(Words)) /\ source \in Programs
  BY ProgramsAssumption DEF Init
<1>2. file \in Seq(Lines_)
  <2> DEFINE q == [k \in 1..Len(source) |-> Line(k, source[k])]
  <2>1. Len(source) \in Nat /\ \A k \in 1..Len(source) : source[k] \in Seq(Words)
    BY <1>1
  <2>2. \A k \in 1..Len(source) : Line(k, source[k]) \in Lines_
    BY <2>1, LineTyped
  <2>3. q \in [1..Len(source) -> Lines_]
    BY <2>2
  <2> HIDE DEF q
  <2>4. q \in Seq(Lines_)
    BY <2>1, <2>3
  <2> QED BY <2>4 DEF q, Init
<1>3. out = <<>> /\ IsSeq(out) /\ TextsIn(out)
  <2>1. out = <<>>
    BY DEF Init
  <2> QED BY <2>1, SeqParts DEF TextsIn
<1>4. inbuff \in Lines_
  BY MarkTyped DEF Init
<1>5. Fine(s) /\ Rooted(s.tree)
  BY StartedFine DEF Init
<1>6. phase = "scan1" /\ line \in 0..Len(file)
  BY <1>2 DEF Init
<1> QED BY <1>1, <1>2, <1>3, <1>4, <1>5, <1>6 DEF Typed

LEMMA ScanTyped ==
  ASSUME Typed, Scan
  PROVE  Typed'
<1>1. Len(file) \in Nat /\ line + 1 \in 1..Len(file) /\ line + 1 \in Nat
  BY DEF Typed, Scan
<1>2. file[line + 1] \in Lines_
  BY <1>1 DEF Typed
<1>3. file[line + 1].words \in Seq(Words)
  BY <1>2 DEF Lines_
<1>4. Fine(s') /\ Rooted(s'.tree)
  <2>1. s' = ScanLine(s, file[line + 1].words, line + 1) /\ Fine(s) /\ Rooted(s.tree)
    BY DEF Scan, Typed
  <2>2. Follows(s, s')
    BY <1>1, <1>3, <2>1, ScanFine
  <2> QED BY <2>1, <2>2 DEF Follows
<1>5. phase \in {"scan1", "scan2"} /\ line' = line + 1 /\ line' \in 0..Len(file)
  BY <1>1 DEF Scan
<1>6. UNCHANGED <<source, phase, file, inbuff, out>>
  BY DEF Scan
<1>7. TextsIn(out)'
  BY <1>6 DEF Typed, TextsIn
<1> QED BY <1>4, <1>5, <1>6, <1>7 DEF Typed

(* A step that ends a phase and leaves the lines and the scanner alone.    *)
LEMMA EndsTyped ==
  ASSUME Typed, SyntaxError \/ NoFile \/ Killed
  PROVE  Typed'
<1>1. phase' = "failed" /\ UNCHANGED <<source, file, line, s, inbuff, out>>
  BY DEF SyntaxError, NoFile, Killed
<1>2. TextsIn(out)'
  BY <1>1 DEF Typed, TextsIn
<1> QED BY <1>1, <1>2 DEF Typed

LEMMA ParsedTyped ==
  ASSUME Typed, Parsed
  PROVE  Typed'
<1>1. /\ phase' \in {"copy1", "copy2"} /\ line' = 0 /\ l' = 1 /\ out' = <<>>
      /\ UNCHANGED <<source, file, s, inbuff>>
      /\ phase \in {"scan1", "scan2"}
  BY DEF Parsed
<1>2. IsSeq(out') /\ TextsIn(out)' /\ out' \in Seq(Lines_)
  <2>1. IsSeq(out') /\ Len(out') = 0
    BY <1>1, SeqParts
  <2>2. out' \in Seq(Lines_)
    BY <1>1
  <2> QED BY <2>1, <2>2 DEF TextsIn
<1>3. Len(file) \in Nat
  BY DEF Typed
<1>4. AtEntry'
  <2>1. s.list # <<>> => Len(s.list) \in Nat /\ Len(s.list) >= 1
    <3>1. s \in Scanners({s.tree}, Len(s.tree.f))
      BY DEF Typed, Fine
    <3> DEFINE n == Len(s.tree.f)
    <3>2. s.list \in Seq(Entries(n))
      <4> HIDE DEF n
      <4>1. s \in Scanners({s.tree}, n)
        BY <3>1 DEF n
      <4> QED BY <4>1 DEF Scanners
    <3> HIDE DEF n
    <3> QED BY <3>2
  <2> QED BY <1>1, <2>1 DEF AtEntry
<1> QED BY <1>1, <1>2, <1>3, <1>4 DEF Typed

LEMMA IncfileTyped ==
  ASSUME Typed, ppoutput_incfile
  PROVE  Typed'
<1> DEFINE b == IF Inside THEN <<>> ELSE IF Passed THEN ppbuff_incfile(s.list[l]) ELSE <<>>
<1>1. /\ phase = "copy1" /\ ~Missing /\ source' = source
      /\ l' = IF Passed THEN NextEntry(l) ELSE l
      /\ inbuff' \in {Read, Comment(Read)}
      /\ out' = (out \o b) \o <<inbuff'>>
  <2>1. CopyLine(IsInclude, Nothing, ppbuff_incfile)
    BY DEF ppoutput_incfile
  <2>2. phase = "copy1" /\ ~Missing /\ source' = source
    BY DEF ppoutput_incfile
  <2> QED BY <2>1, <2>2, Copying1, Zenon
<1>2. inbuff' \in Lines_
  BY <1>1, ReadTyped
<1>3. b \in Seq(Lines_)
  <2>1. Passed => (IsInclude(s.list[l]) => s.list[l].inc \in DOMAIN Included)
    BY <1>1 DEF Missing
  <2>2. Passed => ppbuff_incfile(s.list[l]) \in Seq(Lines_)
    BY <2>1, IncludedLines
  <2>3. <<>> \in Seq(Lines_)
    OBVIOUS
  <2> QED BY <2>2, <2>3
<1> HIDE DEF b
<1>4. out' \in Seq(Lines_)
  <2>1. out \in Seq(Lines_)
    BY <1>1 DEF Typed
  <2>2. (out \o b) \o <<inbuff'>> \in Seq(Lines_)
    BY <1>2, <1>3, <2>1, ExtendedLines
  <2> QED BY <1>1, <2>2, Zenon
<1>5. IsSeq(out') /\ TextsIn(out)'
  BY <1>4, LinesTexts DEF TextsIn
<1>6. CASE EOFflg
  <2>1. /\ phase' = "scan2" /\ file' = out' /\ line' = 0 /\ s' = Reset(s)
    BY <1>6 DEF ppoutput_incfile
  <2>2. Fine(s') /\ Rooted(s'.tree)
    <3> DEFINE n == Len(s.tree.f)
               T == {s.tree}
    <3>1. s \in Scanners(T, n)
      BY DEF Typed, Fine
    <3>2. s' = [s EXCEPT !.list = <<>>, !.sqlnum = 0]
      BY <2>1 DEF Reset
    <3> HIDE DEF n, T
    <3>3. <<>> \in Seq(Entries(n))
      OBVIOUS
    <3>4. s' \in Scanners(T, n)
      BY <3>1, <3>2, <3>3 DEF Scanners
    <3>5. Fine(s) /\ Rooted(s.tree)
      BY <1>1 DEF Typed
    <3>6. Follows(s, s')
      BY <3>4, <3>5, FineKept DEF T, n
    <3> QED BY <3>5, <3>6 DEF Follows
  <2>3. Len(file') \in Nat
    BY <1>4, <2>1
  <2> QED BY <1>1, <1>2, <1>4, <1>5, <2>1, <2>2, <2>3 DEF Typed
<1>7. CASE ~EOFflg
  <2>1. line' = line + 1 /\ UNCHANGED <<phase, file, s>>
    BY <1>7 DEF ppoutput_incfile
  <2>2. line + 1 \in 0..Len(file)
    <3>1. line \in 0..Len(file) /\ Len(file) \in Nat
      BY DEF Typed
    <3> QED BY <1>7, <3>1 DEF EOFflg
  <2>3. AtEntry'
    <3>0. AtEntry
      BY <1>1 DEF Typed
    <3>1. s.list # <<>> => NextEntry(l) \in 1..Len(s.list)
      BY <3>0, EntryIs
    <3>2. Passed => s.list # <<>>
      BY DEF Passed
    <3> QED BY <1>1, <2>1, <3>0, <3>1, <3>2 DEF AtEntry
  <2> QED BY <1>1, <1>2, <1>4, <1>5, <2>1, <2>2, <2>3 DEF Typed
<1> QED BY <1>6, <1>7

(* What a step of the second copy writes before its line: the items of one *)
(* entry, tagged, or nothing.                                              *)
LEMMA Written2 ==
  ASSUME Typed, phase = "copy2", CopyLine(NotWorking, Fillers, Statement)
  PROVE  \E b : /\ IsSeq(b) /\ TextsIn(b) /\ Joined(out, b, inbuff', out')
                /\ \A k \in 1..Len(b) : b[k].kind # "line"
                /\ \/ b = <<>>
                   \/ \E f : /\ Writable(f, s.list[l], s.tree) /\ Len(b) = Len(f)
                             /\ \A k \in 1..Len(f) : b[k].item = f[k]
<1> DEFINE e == s.list[l]
           f == ppbuff(s.tree, e, SubSeq(s.list, l, Len(s.list)))
           b == IF Inside THEN Fillers(e) ELSE IF Passed THEN Statement(e) ELSE <<>>
<1>1. Joined(out, b, inbuff', out')
  <2>1. out' = (out \o b) \o <<inbuff'>>
    BY Copying2, Zenon
  <2> QED BY <2>1, Zenon DEF Joined
<1>2. b = <<>> \/ (b = Tagged(f) /\ (Inside \/ Passed))
  BY DEF Fillers, Statement, Calls
<1>3. CASE b = <<>>
  <2>1. IsSeq(b) /\ TextsIn(b) /\ \A k \in 1..Len(b) : b[k].kind # "line"
    <3>1. IsSeq(b) /\ Len(b) = 0
      BY <1>3, SeqParts
    <3> HIDE DEF b
    <3> QED BY <3>1 DEF TextsIn
  <2> HIDE DEF b
  <2> QED BY <1>1, <1>3, <2>1
<1>4. CASE b = Tagged(f) /\ (Inside \/ Passed)
  <2>1. s.list # <<>> /\ AtEntry
    BY <1>4 DEF Inside, Passed, Typed
  <2>2. Emittable(e) /\ Later(SubSeq(s.list, l, Len(s.list)))
    BY <2>1, EntryIs
  <2>3. Walkable(s.tree)
    BY GrownIs DEF Typed, Fine
  <2>4. Writable(f, e, s.tree) /\ Texts(f)
    BY <2>2, <2>3, PpbuffWritable
  <2> HIDE DEF f
  <2>5. IsSeq(f) /\ Texts(f)
    BY <2>4 DEF Writable
  <2>6. IsSeq(Tagged(f)) /\ Len(Tagged(f)) = Len(f) /\ TextsIn(Tagged(f))
        /\ \A k \in 1..Len(f) : Tagged(f)[k].item = f[k] /\ Tagged(f)[k].kind = f[k].kind
    BY <2>5, TaggedIs
  <2>7. /\ IsSeq(b) /\ TextsIn(b) /\ Len(b) = Len(f)
        /\ \A k \in 1..Len(f) : b[k].item = f[k] /\ b[k].kind = f[k].kind
    BY <1>4, <2>6, Zenon
  <2> HIDE DEF b, e
  <2>8. \E g : /\ Writable(g, e, s.tree) /\ Len(b) = Len(g)
               /\ \A k \in 1..Len(g) : b[k].item = g[k]
    BY <2>4, <2>7
  <2>9. \A k \in 1..Len(b) : b[k].kind # "line"
    BY <2>4, <2>7 DEF Writable
  <2> QED BY <1>1, <2>7, <2>8, <2>9 DEF e
<1> QED BY <1>2, <1>3, <1>4

LEMMA OutputTyped ==
  ASSUME Typed, ppoutput
  PROVE  Typed'
<1>1. phase = "copy2" /\ UNCHANGED <<source, file>>
  BY DEF ppoutput
<1>2. AtEntry /\ Fine(s) /\ IsSeq(out) /\ TextsIn(out)
  BY <1>1 DEF Typed
<1>3. phase' \in {"done", "copy2"} /\ line' \in 0..Len(file)
  <2>1. line \in 0..Len(file) /\ Len(file) \in Nat
    BY DEF Typed
  <2>2. CASE EOFflg
    BY <2>1, <2>2 DEF ppoutput
  <2>3. CASE ~EOFflg
    <3>1. line' = line + 1 /\ phase' = phase
      BY <2>3 DEF ppoutput
    <3>2. line + 1 \in 0..Len(file)
      BY <2>1, <2>3 DEF EOFflg
    <3> QED BY <1>1, <3>1, <3>2
  <2> QED BY <2>2, <2>3
<1>4. CASE Read.mark
  <2>1. inbuff' = Read /\ UNCHANGED <<l, out, s>>
    BY <1>4 DEF ppoutput
  <2>2. inbuff' \in Lines_ /\ AtEntry' /\ TextsIn(out)'
    BY <1>2, <2>1, ReadTyped DEF AtEntry, TextsIn
  <2> QED BY <1>1, <1>2, <1>3, <2>1, <2>2 DEF Typed
<1>5. CASE ~Read.mark
  <2>1. /\ CopyLine(NotWorking, Fillers, Statement)
        /\ s' = IF Passed THEN [s EXCEPT !.tree = TreeAfter(s.tree, s.list[l])] ELSE s
    BY <1>5 DEF ppoutput
  <2>2. l' = (IF Passed THEN NextEntry(l) ELSE l) /\ inbuff' \in Lines_
    BY <2>1, Copying2, ReadTyped
  <2>3. PICK b : IsSeq(b) /\ TextsIn(b) /\ Joined(out, b, inbuff', out')
    BY <1>1, <2>1, Written2
  <2>4. IsSeq(out') /\ TextsIn(out)'
    <3>1. IsSeq((out \o b) \o <<inbuff'>>) /\ TextsIn((out \o b) \o <<inbuff'>>)
      BY <1>2, <2>2, <2>3, ExtendedTexts
    <3>2. IsSeq(out') /\ TextsIn(out')
      BY <2>3, <3>1, Zenon DEF Joined
    <3> QED BY <3>2 DEF TextsIn
  <2>5. Fine(s') /\ s'.list = s.list
    <3>1. CASE Passed
      <4>1. s.list # <<>>
        BY <3>1 DEF Passed
      <4>2. s.list[l] \in Entries(Len(s.tree.f))
        BY <1>2, <4>1, EntryIs
      <4>3. s' = [s EXCEPT !.tree = TreeAfter(s.tree, s.list[l])]
        BY <2>1, <3>1
      <4>4. Fine([s EXCEPT !.tree = TreeAfter(s.tree, s.list[l])])
        BY <1>2, <4>2, AfterFine
      <4>5. [s EXCEPT !.tree = TreeAfter(s.tree, s.list[l])].list = s.list
        <5> DEFINE n == Len(s.tree.f)
                   T == {s.tree}
        <5>1. s \in Scanners(T, n)
          BY <1>2 DEF Fine
        <5> HIDE DEF T, n
        <5> QED BY <5>1 DEF Scanners
      <4> QED BY <4>3, <4>4, <4>5, Zenon
    <3>2. CASE ~Passed
      BY <1>2, <2>1, <3>2
    <3> QED BY <3>1, <3>2
  <2>6. AtEntry'
    <3>1. s.list # <<>> => NextEntry(l) \in 1..Len(s.list)
      BY <1>2, EntryIs
    <3>2. Passed => s.list # <<>>
      BY DEF Passed
    <3> QED BY <1>2, <2>2, <2>5, <3>1, <3>2 DEF AtEntry
  <2> QED BY <1>1, <1>3, <2>2, <2>4, <2>5, <2>6 DEF Typed
<1> QED BY <1>4, <1>5

LEMMA StutterTyped ==
  ASSUME Typed, UNCHANGED vars
  PROVE  Typed'
<1>1. UNCHANGED <<source, phase, file, line, s, l, inbuff, out>>
  BY DEF vars
<1>2. TextsIn(out)' /\ (AtEntry => AtEntry')
  BY <1>1 DEF Typed, TextsIn, AtEntry
<1> QED BY <1>1, <1>2 DEF Typed

LEMMA TypedKept == Typed /\ [Next]_vars => Typed'
BY ScanTyped, EndsTyped, ParsedTyped, IncfileTyped, OutputTyped, StutterTyped DEF Next

LEMMA AlwaysTyped == Spec => []Typed
BY InitTyped, TypedKept, PTL DEF Spec

(* The copies keep their place in the list and in the file, and the tree   *)
(* of the host variables stays one: no walk over it goes on for ever, for  *)
(* every program, every file it includes and every picture.                *)
THEOREM TypeCorrect == Spec => []TypeOK
<1>1. Typed => TypeOK
  <2> SUFFICES ASSUME Typed PROVE TypeOK
    OBVIOUS
  <2> DEFINE n == Len(s.tree.f)
             T == {s.tree}
  <2>1. TreeOK(s.tree) /\ s \in Scanners(T, n)
    BY GrownIs DEF Typed, Fine
  <2>2. s.state \in States /\ s.sqlnum \in Nat /\ \A i \in 1..Len(s.list) : s.list[i].varying \in 0..n
    <3> HIDE DEF T, n
    <3>1. s.state \in States /\ s.sqlnum \in Nat /\ s.list \in Seq(Entries(n))
      BY <2>1 DEF Scanners
    <3>2. \A i \in 1..Len(s.list) : s.list[i] \in Entries(n)
      BY <3>1
    <3> QED BY <3>1, <3>2 DEF Entries
  <2>3. /\ phase \in {"scan1", "copy1", "scan2", "copy2", "done", "failed"}
        /\ line \in 0..Len(file)
        /\ phase \in {"copy1", "copy2"} => l \in 1..(IF s.list = <<>> THEN 1 ELSE Len(s.list))
    BY DEF Typed, AtEntry
  <2> QED BY <2>1, <2>2, <2>3 DEF TypeOK, States
<1> QED BY <1>1, AlwaysTyped, PTL

(* In any program the parent of a field is the nearest before it with a    *)
(* lower level, however often the levels go up and come back to a row of   *)
(* the middle, or restart in a second section (cb_build_field_tree).       *)
THEOREM TreeAlwaysNested == Spec => []LevelsNested
<1>1. Typed => LevelsNested
  BY DEF Typed, Rooted, LevelsNested
<1> QED BY <1>1, AlwaysTyped, PTL

(* Every text in the output is whole: no byte of it is lost or doubled     *)
(* where sql_string cuts it into lines and outsqlfiller into FILLERs, no   *)
(* line ends inside a national character, and every PICTURE has the length *)
(* of its literal, for texts of every length.                              *)
THEOREM TextsAlwaysWhole == Spec => []TextsWhole
<1>1. Typed => TextsWhole
  <2> SUFFICES ASSUME TextsIn(out) PROVE TextsWhole
    BY DEF Typed
  <2> QED BY DEF TextsIn, TextsWhole, Items
<1> QED BY <1>1, AlwaysTyped, PTL

(* What a step writes for a statement is a complete frame, or it has an    *)
(* error in it.                                                            *)
THEOREM FramesAlwaysComplete == Spec => FramesComplete
<1> DEFINE Goal == (phase = "copy2" /\ Clean(Emitted)) =>
                     LET e == s.list[l]
                     IN  /\ Complete(Emitted, e, s.tree)
                         /\ e.command \notin {"COMMIT_RELEASE", "ROLLBACK_RELEASE"} => Stopped(Emitted, e)
<1>1. ASSUME Typed, Next PROVE Goal
  <2> SUFFICES ASSUME phase = "copy2", Clean(Emitted)
               PROVE  LET e == s.list[l]
                      IN  /\ Complete(Emitted, e, s.tree)
                          /\ e.command \notin {"COMMIT_RELEASE", "ROLLBACK_RELEASE"} => Stopped(Emitted, e)
    OBVIOUS
  <2>1. ppoutput \/ Killed
    BY <1>1 DEF Next, Scan, SyntaxError, Parsed, ppoutput_incfile, NoFile
  <2>2. IsSeq(out) /\ Len(out) \in Nat
    BY <1>1, SeqIs DEF Typed
  <2>3. ~Clean(<<>>)
    BY DEF Clean
  <2>4. CASE Killed \/ Read.mark
    <3>1. out' = out
      BY <2>1, <2>4 DEF ppoutput, Killed
    <3>2. Emitted = <<>>
      <4>1. Emitted = [k \in 1..(Len(out) - Len(out) - 1) |-> out[Len(out) + k].item]
        BY <3>1 DEF Emitted
      <4>2. 1..(Len(out) - Len(out) - 1) = 1..0
        BY <2>2
      <4>3. Emitted = [k \in 1..0 |-> out[Len(out) + k].item]
        BY <4>1, <4>2, Zenon
      <4> QED BY <4>3
    <3> QED BY <2>3, <3>2
  <2>5. CASE ~Killed /\ ~Read.mark
    <3>1. CopyLine(NotWorking, Fillers, Statement)
      BY <2>1, <2>5 DEF ppoutput
    <3>2. PICK b : /\ IsSeq(b) /\ Joined(out, b, inbuff', out')
                   /\ \/ b = <<>>
                      \/ \E f : /\ Writable(f, s.list[l], s.tree) /\ Len(b) = Len(f)
                                /\ \A k \in 1..Len(f) : b[k].item = f[k]
      BY <1>1, <3>1, Written2
    <3>3. Len(out') = Len(out) + Len(b) + 1 /\ Len(b) \in Nat
          /\ \A i \in 1..Len(b) : out'[Len(out) + i] = b[i]
      BY <2>2, <3>2, Extended, SeqIs
    <3>4. Emitted = [k \in 1..Len(b) |-> b[k].item]
      <4>1. 1..(Len(out') - Len(out) - 1) = 1..Len(b)
        BY <2>2, <3>3
      <4>2. Emitted = [k \in 1..Len(b) |-> out'[Len(out) + k].item]
        BY <4>1, Zenon DEF Emitted
      <4>3. \A k \in 1..Len(b) : out'[Len(out) + k].item = b[k].item
        BY <3>3
      <4> QED BY <4>2, <4>3
    <3>5. CASE b = <<>>
      <4>1. Len(b) = 0
        BY <3>5
      <4>2. Emitted = <<>>
        BY <3>4, <4>1
      <4> QED BY <2>3, <4>2
    <3>6. ASSUME NEW f, Writable(f, s.list[l], s.tree), Len(b) = Len(f),
                 \A k \in 1..Len(f) : b[k].item = f[k]
          PROVE  Emitted = f
      <4>1. IsSeq(f)
        BY <3>6 DEF Writable
      <4>2. f = [k \in 1..Len(f) |-> f[k]]
        BY <4>1, SeqIs
      <4>3. Emitted = [k \in 1..Len(f) |-> f[k]]
        BY <3>4, <3>6
      <4> QED BY <4>2, <4>3, Zenon
    <3>7. CASE \E f : /\ Writable(f, s.list[l], s.tree) /\ Len(b) = Len(f)
                      /\ \A k \in 1..Len(f) : b[k].item = f[k]
      <4>1. Writable(Emitted, s.list[l], s.tree)
        BY <3>6, <3>7
      <4> QED BY <4>1 DEF Writable
    <3> QED BY <3>2, <3>5, <3>7
  <2> QED BY <2>4, <2>5
<1>2. Typed /\ [Next]_vars => [Goal]_vars
  BY <1>1
<1> QED BY <1>2, AlwaysTyped, PTL DEF Spec, FramesComplete

-----------------------------------------------------------------------------
(* The lines of the program                                                *)

IsOwn(x) == x.kind = "line" /\ x.line # 0

Least(n, m) == IF n > m THEN m ELSE n

LEMMA OwnCounted ==
  ASSUME NEW q, NEW k \in Nat
  PROVE  /\ IsFiniteSet(OwnTo(q, k)) /\ Cardinality(OwnTo(q, k)) \in Nat
         /\ OwnTo(q, 0) = {} /\ Cardinality(OwnTo(q, 0)) = 0
         /\ Cardinality(OwnTo(q, k + 1)) =
              IF IsOwn(q[k + 1]) THEN Cardinality(OwnTo(q, k)) + 1 ELSE Cardinality(OwnTo(q, k))
<1> DEFINE S == OwnTo(q, k)
           T == OwnTo(q, k + 1)
<1>1. IsFiniteSet(S) /\ Cardinality(S) \in Nat
  <2>1. IsFiniteSet(1..k)
    BY FS_Interval
  <2>2. S \in SUBSET (1..k)
    BY DEF OwnTo
  <2> HIDE DEF S
  <2> QED BY <2>1, <2>2, FS_Subset, FS_CardinalityType
<1>2. OwnTo(q, 0) = {}
  BY DEF OwnTo
<1>3. CASE IsOwn(q[k + 1])
  <2>1. T = S \cup {k + 1} /\ k + 1 \notin S
    BY <1>3 DEF OwnTo, IsOwn
  <2> HIDE DEF S, T
  <2>2. Cardinality(S \cup {k + 1}) = Cardinality(S) + 1
    BY <1>1, <2>1, FS_AddElement
  <2>3. Cardinality(T) = Cardinality(S) + 1
    BY <2>1, <2>2
  <2> QED BY <1>1, <1>2, <1>3, <2>3, FS_EmptySet DEF S, T
<1>4. CASE ~IsOwn(q[k + 1])
  <2>1. T = S
    BY <1>4 DEF OwnTo, IsOwn
  <2> HIDE DEF S, T
  <2>2. Cardinality(T) = Cardinality(S)
    BY <2>1
  <2> QED BY <1>1, <1>2, <1>4, <2>2, FS_EmptySet DEF S, T
<1> QED BY <1>3, <1>4

LEMMA OwnSame ==
  ASSUME NEW q, NEW r, NEW k \in Nat, \A i \in 1..k : r[i] = q[i]
  PROVE  OwnTo(r, k) = OwnTo(q, k)
BY DEF OwnTo

(* The n-th line of the program in q is its n-th, and the last of all from *)
(* the n-th on; there are m of them.                                       *)
Numbered_(q, m, n) ==
  /\ IsSeq(q)
  /\ Cardinality(OwnTo(q, Len(q))) = m
  /\ \A p \in OwnTo(q, Len(q)) : q[p].line = Least(Cardinality(OwnTo(q, p)), n)

(* Places that are not lines of the program leave it so.                   *)
LEMMA OwnOther ==
  ASSUME NEW q, IsSeq(q), NEW k \in Nat, NEW j \in Nat,
         \A i \in 1..j : ~IsOwn(q[k + i])
  PROVE  OwnTo(q, k + j) = OwnTo(q, k)
<1>1. \A p \in 1..(k + j) : p \in 1..k \/ (p - k \in 1..j /\ p = k + (p - k))
  OBVIOUS
<1>2. \A p \in 1..(k + j) : IsOwn(q[p]) => p \in 1..k
  BY <1>1
<1> QED BY <1>2 DEF OwnTo, IsOwn

LEMMA NumberedNext ==
  ASSUME NEW q, NEW m \in Nat, NEW n \in Nat, Numbered_(q, m, n), NEW b, IsSeq(b),
         \A i \in 1..Len(b) : ~IsOwn(b[i]), NEW x, NEW r, Joined(q, b, x, r)
  PROVE  /\ ~IsOwn(x) => Numbered_(r, m, n)
         /\ IsOwn(x) /\ x.line = Least(m + 1, n) => Numbered_(r, m + 1, n) /\ Len(r) \in OwnTo(r, Len(r))
<1> DEFINE k == Len(q) + Len(b)
<1>1. IsSeq(q) /\ Len(q) \in Nat /\ Len(b) \in Nat /\ k \in Nat
  BY SeqIs DEF Numbered_
<1>2. /\ IsSeq(r) /\ Len(r) = k + 1 /\ r[k + 1] = x
      /\ \A i \in 1..Len(q) : r[i] = q[i]
      /\ \A i \in 1..Len(b) : r[Len(q) + i] = b[i]
  <2>1. IsSeq(q) /\ IsSeq(b)
    BY <1>1
  <2>2. /\ IsSeq(r) /\ Len(r) = Len(q) + Len(b) + 1 /\ r[Len(r)] = x
        /\ \A i \in 1..Len(q) : r[i] = q[i]
        /\ \A i \in 1..Len(b) : r[Len(q) + i] = b[i]
    BY <2>1, Extended
  <2> QED BY <1>1, <2>2
<1>3. OwnTo(r, k) = OwnTo(q, Len(q))
  <2>1. OwnTo(r, Len(q)) = OwnTo(q, Len(q))
    BY <1>1, <1>2, OwnSame
  <2>2. \A i \in 1..Len(b) : ~IsOwn(r[Len(q) + i])
    BY <1>2
  <2>3. OwnTo(r, Len(q) + Len(b)) = OwnTo(r, Len(q))
    BY <1>1, <1>2, <2>2, OwnOther
  <2> QED BY <2>1, <2>3
<1>4. ASSUME NEW p \in OwnTo(q, Len(q))
      PROVE  r[p].line = Least(Cardinality(OwnTo(r, p)), n)
  <2>1. p \in 1..Len(q)
    BY DEF OwnTo
  <2>2. \A i \in 1..p : r[i] = q[i]
    BY <1>1, <1>2, <2>1
  <2>3. OwnTo(r, p) = OwnTo(q, p) /\ r[p] = q[p]
    BY <1>1, <2>1, <2>2, OwnSame
  <2> QED BY <2>3 DEF Numbered_
<1>5. Cardinality(OwnTo(r, k + 1)) = IF IsOwn(x) THEN m + 1 ELSE m
  <2>1. Cardinality(OwnTo(r, k)) = m
    BY <1>3 DEF Numbered_
  <2> HIDE DEF k
  <2> QED BY <1>1, <1>2, <2>1, OwnCounted
<1> HIDE DEF k
<1>6. \A p \in OwnTo(r, k + 1) : p \in OwnTo(r, k) \/ (p = k + 1 /\ IsOwn(x))
  <2>1. \A p \in 1..(k + 1) : p \in 1..k \/ p = k + 1
    BY <1>1
  <2> QED BY <1>2, <2>1 DEF OwnTo, IsOwn
<1>7. CASE ~IsOwn(x)
  <2>1. \A p \in OwnTo(r, Len(r)) : r[p].line = Least(Cardinality(OwnTo(r, p)), n)
    BY <1>2, <1>3, <1>4, <1>6, <1>7
  <2>2. Cardinality(OwnTo(r, Len(r))) = m
    BY <1>2, <1>5, <1>7
  <2> QED BY <1>2, <1>7, <2>1, <2>2 DEF Numbered_
<1>8. CASE IsOwn(x) /\ x.line = Least(m + 1, n)
  <2>1. r[k + 1].line = Least(Cardinality(OwnTo(r, k + 1)), n)
    BY <1>2, <1>5, <1>8
  <2>2. \A p \in OwnTo(r, Len(r)) : r[p].line = Least(Cardinality(OwnTo(r, p)), n)
    BY <1>2, <1>3, <1>4, <1>6, <2>1
  <2>3. Cardinality(OwnTo(r, Len(r))) = m + 1
    BY <1>2, <1>5, <1>8
  <2>4. Len(r) \in OwnTo(r, Len(r))
    BY <1>1, <1>2, <1>8 DEF OwnTo, IsOwn
  <2> QED BY <1>2, <1>8, <2>2, <2>3, <2>4 DEF Numbered_
<1> QED BY <1>7, <1>8

LEMMA NumberedEmpty ==
  ASSUME NEW n
  PROVE  Numbered_(<<>>, 0, n)
<1> DEFINE e == <<>>
<1>1. IsSeq(e) /\ Len(e) = 0
  BY SeqParts
<1> HIDE DEF e
<1>2. OwnTo(e, 0) = {} /\ Cardinality(OwnTo(e, 0)) = 0
  BY OwnCounted
<1> QED BY <1>1, <1>2 DEF Numbered_, e

(* Where the lines of the program are in every phase.                      *)
Kept ==
  LET n == Len(source)
  IN  /\ phase \in {"scan1", "copy1"} =>
           Len(file) = n /\ \A k \in 1..n : file[k].line = k
      /\ phase = "copy1" => /\ Numbered_(out, line, n)
                            /\ line # 0 => inbuff.line = line
      /\ phase \in {"scan2", "copy2"} =>
           Numbered_(file, n + 1, n) /\ Len(file) \in OwnTo(file, Len(file))
      /\ phase = "copy2" =>
           /\ Numbered_(out, Cardinality(OwnTo(file, line)), n)
           /\ line # 0 => inbuff.line = file[line].line
      /\ phase = "done" => Numbered_(out, n + 2, n)

LEMMA SourceIs ==
  ASSUME Typed
  PROVE  Len(source) \in Nat /\ Len(source) > 0
<1>1. source \in Seq(Seq(Words)) /\ source # <<>>
  BY ProgramsAssumption DEF Typed
<1> QED BY <1>1

(* The lines that are copied, and what of them stays.                      *)
LEMMA LineIs ==
  ASSUME NEW x \in Lines_
  PROVE  /\ x.line \in Nat /\ (IsOwn(x) <=> x.line # 0) /\ (x.line # 0 => ~x.mark)
         /\ \A y \in {x, Comment(x)} : y \in Lines_ /\ y.line = x.line /\ (IsOwn(y) <=> IsOwn(x))
<1>1. \A y \in Lines_ : y.line \in Nat /\ (IsOwn(y) <=> y.line # 0) /\ (y.line # 0 => ~y.mark)
  BY DEF Lines_, IsOwn
<1>2. Comment(x) \in Lines_ /\ Comment(x).line = x.line
  BY CommentTyped
<1> QED BY <1>1, <1>2

LEMMA InitKept == Init => Kept
<1> SUFFICES ASSUME Init PROVE Kept
  OBVIOUS
<1>1. Typed
  BY InitTyped
<1>2. Len(source) \in Nat
  BY <1>1, SourceIs
<1>3. Len(file) = Len(source) /\ \A k \in 1..Len(source) : file[k].line = k
  <2> DEFINE q == [k \in 1..Len(source) |-> Line(k, source[k])]
  <2>1. \A k \in 1..Len(source) : q[k].line = k
    BY DEF Line
  <2>2. q = [k \in 1..Len(source) |-> q[k]]
    OBVIOUS
  <2> HIDE DEF q
  <2>3. Len(q) = Len(source)
    BY <1>2, <2>2, SeqMade
  <2>4. file = q
    BY DEF Init, q
  <2> QED BY <2>1, <2>3, <2>4
<1>4. phase = "scan1"
  BY DEF Init
<1> QED BY <1>3, <1>4 DEF Kept

LEMMA ParsedKept ==
  ASSUME Typed, Kept, Parsed
  PROVE  Kept'
<1>1. /\ phase' = (IF phase = "scan1" THEN "copy1" ELSE "copy2") /\ phase \in {"scan1", "scan2"}
      /\ line' = 0 /\ out' = <<>> /\ UNCHANGED <<source, file>>
  BY DEF Parsed
<1>2. Numbered_(out', 0, Len(source))
  BY <1>1, NumberedEmpty
<1>3. Cardinality(OwnTo(file, 0)) = 0
  <2>1. 0 \in Nat
    OBVIOUS
  <2> QED BY <2>1, OwnCounted
<1>4. CASE phase = "scan1"
  <2>1. phase' = "copy1" /\ Len(file) = Len(source) /\ \A k \in 1..Len(source) : file[k].line = k
    BY <1>1, <1>4 DEF Kept
  <2> QED BY <1>1, <1>2, <2>1 DEF Kept
<1>5. CASE phase = "scan2"
  <2>1. /\ phase' = "copy2" /\ Numbered_(file, Len(source) + 1, Len(source))
        /\ Len(file) \in OwnTo(file, Len(file))
    BY <1>1, <1>5 DEF Kept
  <2> QED BY <1>1, <1>2, <1>3, <2>1 DEF Kept
<1> QED BY <1>1, <1>4, <1>5

LEMMA IncfileKept ==
  ASSUME Typed, Kept, ppoutput_incfile
  PROVE  Kept'
<1> DEFINE b == IF Inside THEN <<>> ELSE IF Passed THEN ppbuff_incfile(s.list[l]) ELSE <<>>
           n == Len(source)
           x == inbuff'
<1>1. /\ phase = "copy1" /\ ~Missing /\ source' = source
      /\ x \in {Read, Comment(Read)} /\ Joined(out, b, x, out')
  <2>1. CopyLine(IsInclude, Nothing, ppbuff_incfile)
    BY DEF ppoutput_incfile
  <2>2. phase = "copy1" /\ ~Missing /\ source' = source
    BY DEF ppoutput_incfile
  <2>3. inbuff' \in {Read, Comment(Read)} /\ out' = (out \o b) \o <<inbuff'>>
    BY <2>1, Copying1, Zenon
  <2> QED BY <2>2, <2>3, Zenon DEF Joined
<1>2. n \in Nat /\ n > 0
  BY SourceIs
<1>3. Len(file) = n /\ (\A k \in 1..n : file[k].line = k) /\ Numbered_(out, line, n)
      /\ (line # 0 => inbuff.line = line) /\ line \in 0..n
  BY <1>1 DEF Kept, Typed
<1>4. IsSeq(b) /\ \A i \in 1..Len(b) : ~IsOwn(b[i])
  <2>1. CASE b = <<>>
    BY <2>1, SeqParts
  <2>2. CASE b = ppbuff_incfile(s.list[l]) /\ Passed
    <3> DEFINE r == ppbuff_incfile(s.list[l])
    <3>1. IsInclude(s.list[l]) => s.list[l].inc \in DOMAIN Included
      BY <1>1, <2>2 DEF Missing
    <3>2. r \in Seq(Lines_) /\ \A i \in 1..Len(r) : r[i].line = 0
      BY <3>1, IncludedLines
    <3> HIDE DEF r
    <3>3. IsSeq(r) /\ \A i \in 1..Len(r) : ~IsOwn(r[i])
      BY <3>2 DEF IsSeq, IsOwn
    <3> QED BY <2>2, <3>3, Zenon DEF r
  <2> QED BY <2>1, <2>2
<1>5. Read \in Lines_
  BY ReadTyped
<1>6. x.line = Read.line /\ (IsOwn(x) <=> Read.line # 0)
  BY <1>1, <1>5, LineIs
<1> HIDE DEF b
<1>7. CASE EOFflg
  <2>1. line = n /\ phase' = "scan2" /\ file' = out'
    BY <1>3, <1>7 DEF ppoutput_incfile, EOFflg
  <2>2. Read = inbuff
    BY <1>2, <1>3, <2>1 DEF Read
  <2>3. x.line = Least(n + 1, n) /\ IsOwn(x)
    BY <1>2, <1>3, <1>6, <2>1, <2>2 DEF Least
  <2>4. Numbered_(out', n + 1, n) /\ Len(out') \in OwnTo(out', Len(out'))
    <3>1. Numbered_(out, n, n)
      BY <1>3, <2>1
    <3> HIDE DEF x, n
    <3> QED BY <1>1, <1>2, <1>4, <2>3, <3>1, NumberedNext
  <2> QED BY <1>1, <2>1, <2>4 DEF Kept
<1>8. CASE ~EOFflg
  <2>1. line' = line + 1 /\ UNCHANGED <<phase, file>> /\ line + 1 \in 1..n
    BY <1>2, <1>3, <1>8 DEF ppoutput_incfile, EOFflg
  <2>2. Read = file[line + 1]
    BY <1>2, <1>3, <2>1 DEF Read
  <2>3. x.line = Least(line + 1, n) /\ IsOwn(x) /\ x.line = line + 1
    BY <1>2, <1>3, <1>6, <2>1, <2>2 DEF Least
  <2>4. Numbered_(out', line + 1, n)
    <3>1. line \in Nat
      BY <1>3
    <3> HIDE DEF x, n
    <3> QED BY <1>1, <1>2, <1>3, <1>4, <2>3, <3>1, NumberedNext
  <2> QED BY <1>1, <1>3, <2>1, <2>3, <2>4 DEF Kept
<1> QED BY <1>7, <1>8

LEMMA OutputKept ==
  ASSUME Typed, Kept, ppoutput
  PROVE  Kept'
<1> DEFINE n == Len(source)
           m == Len(file)
           x == inbuff'
           c == Cardinality(OwnTo(file, line))
<1>1. phase = "copy2" /\ UNCHANGED <<source, file>>
  BY DEF ppoutput
<1>2. n \in Nat /\ n > 0
  BY SourceIs
<1>3. /\ Numbered_(file, n + 1, n) /\ m \in OwnTo(file, m) /\ Numbered_(out, c, n)
      /\ line # 0 => inbuff.line = file[line].line
  BY <1>1 DEF Kept
<1>4. line \in 0..m /\ m \in Nat /\ m > 0 /\ line \in Nat /\ \A k \in 1..m : file[k] \in Lines_
  <2>1. line \in 0..m /\ m \in Nat /\ \A k \in 1..m : file[k] \in Lines_
    BY DEF Typed
  <2>2. m \in 1..m
    BY <1>3 DEF OwnTo
  <2> QED BY <2>1, <2>2
<1>5. Read \in Lines_
  BY ReadTyped
<1>c. c \in Nat
  BY <1>4, OwnCounted
<1>6. CASE EOFflg
  <2>1. line = m /\ phase' = "done" /\ c = n + 1
    BY <1>3, <1>6 DEF ppoutput, EOFflg, Numbered_
  <2>2. Read = inbuff
    BY <1>4, <2>1 DEF Read
  <2>3. Read.line = n
    <3>1. file[m].line = Least(n + 1, n)
      BY <1>3, <2>1 DEF Numbered_
    <3> QED BY <1>2, <1>3, <1>4, <2>1, <2>2, <3>1 DEF Least
  <2>4. ~Read.mark
    BY <1>2, <1>5, <2>3, LineIs
  <2>5. CopyLine(NotWorking, Fillers, Statement)
    BY <2>4 DEF ppoutput
  <2>6. PICK b : IsSeq(b) /\ Joined(out, b, x, out') /\ \A k \in 1..Len(b) : b[k].kind # "line"
    BY <1>1, <2>5, Written2
  <2>7. \A k \in 1..Len(b) : ~IsOwn(b[k])
    BY <2>6 DEF IsOwn
  <2>8. x \in {Read, Comment(Read)}
    BY <2>5, Copying2
  <2>9. IsOwn(x) /\ x.line = Least((n + 1) + 1, n)
    <3>1. x.line = n /\ IsOwn(x)
      BY <1>2, <1>5, <2>3, <2>8, LineIs
    <3> QED BY <1>2, <3>1 DEF Least
  <2>10. Numbered_(out', (n + 1) + 1, n)
    <3>1. Numbered_(out, n + 1, n) /\ n + 1 \in Nat
      BY <1>2, <1>3, <2>1
    <3> HIDE DEF x, n
    <3> QED BY <1>2, <2>6, <2>7, <2>9, <3>1, NumberedNext
  <2>11. (n + 1) + 1 = n + 2
    BY <1>2
  <2> QED BY <1>1, <2>1, <2>10, <2>11 DEF Kept
<1>7. CASE ~EOFflg
  <2> DEFINE k == line + 1
             d == Cardinality(OwnTo(file, k))
  <2>1. line' = k /\ UNCHANGED phase
    BY <1>7 DEF ppoutput
  <2>2. k \in 1..m /\ Read = file[k]
    BY <1>4, <1>7 DEF EOFflg, Read
  <2>3. d = IF IsOwn(file[k]) THEN c + 1 ELSE c
    BY <1>4, OwnCounted
  <2>4. IsOwn(file[k]) => file[k].line = Least(c + 1, n)
    <3>1. IsOwn(file[k]) => k \in OwnTo(file, m)
      BY <2>2 DEF IsOwn, OwnTo
    <3>2. IsOwn(file[k]) => file[k].line = Least(d, n)
      BY <1>3, <3>1 DEF Numbered_
    <3> QED BY <2>3, <3>2
  <2>5. CASE Read.mark
    <3>1. x = Read /\ out' = out
      BY <2>5 DEF ppoutput
    <3>2. ~IsOwn(file[k])
      BY <1>5, <2>2, <2>5, LineIs
    <3>3. Numbered_(out', d, n) /\ x.line = file[k].line
      BY <1>3, <2>2, <2>3, <3>1, <3>2
    <3> QED BY <1>1, <1>3, <2>1, <3>3 DEF Kept
  <2>6. CASE ~Read.mark
    <3>1. CopyLine(NotWorking, Fillers, Statement)
      BY <2>6 DEF ppoutput
    <3>2. PICK b : IsSeq(b) /\ Joined(out, b, x, out') /\ \A i \in 1..Len(b) : b[i].kind # "line"
      BY <1>1, <3>1, Written2
    <3>3. \A i \in 1..Len(b) : ~IsOwn(b[i])
      BY <3>2 DEF IsOwn
    <3>4. x \in {Read, Comment(Read)}
      BY <3>1, Copying2
    <3>5. x.line = file[k].line /\ (IsOwn(x) <=> IsOwn(file[k]))
      BY <1>5, <2>2, <3>4, LineIs
    <3>6. Numbered_(out', d, n)
      <4> HIDE DEF x, n, c, d
      <4>1. CASE ~IsOwn(x)
        <5>1. Numbered_(out', c, n)
          BY <1>2, <1>3, <1>c, <3>2, <3>3, <4>1, NumberedNext
        <5> QED BY <2>3, <3>5, <4>1, <5>1
      <4>2. CASE IsOwn(x)
        <5>1. x.line = Least(c + 1, n)
          BY <2>4, <3>5, <4>2
        <5>2. Numbered_(out', c + 1, n)
          BY <1>2, <1>3, <1>c, <3>2, <3>3, <4>2, <5>1, NumberedNext
        <5> QED BY <2>3, <3>5, <4>2, <5>2
      <4> QED BY <4>1, <4>2
    <3> QED BY <1>1, <1>3, <2>1, <3>5, <3>6 DEF Kept
  <2> QED BY <2>5, <2>6
<1> QED BY <1>6, <1>7

LEMMA KeptKept == Typed /\ Kept /\ [Next]_vars => Kept'
<1> SUFFICES ASSUME Typed, Kept, [Next]_vars PROVE Kept'
  OBVIOUS
<1>1. CASE Scan
  <2>1. UNCHANGED <<source, phase, file, out, inbuff>> /\ phase \in {"scan1", "scan2"}
    BY <1>1 DEF Scan
  <2> QED BY <2>1 DEF Kept
<1>2. CASE SyntaxError \/ NoFile \/ Killed
  <2>1. phase' = "failed"
    BY <1>2 DEF SyntaxError, NoFile, Killed
  <2> QED BY <2>1 DEF Kept
<1>3. CASE UNCHANGED vars
  <2>1. UNCHANGED <<source, phase, file, line, out, inbuff>>
    BY <1>3 DEF vars
  <2> QED BY <2>1 DEF Kept
<1> QED BY <1>1, <1>2, <1>3, ParsedKept, IncfileKept, OutputKept DEF Next

(* Every line of the program reaches the output once and in order, and     *)
(* only its last comes again at the end of each copy, for every program    *)
(* and whatever the files are that it includes.                            *)
THEOREM SourceAlwaysKept == Spec => []SourceKept
<1>1. Typed /\ Kept => SourceKept
  <2> SUFFICES ASSUME Kept, Done PROVE SourceKept
    BY DEF SourceKept
  <2>1. Numbered_(out, Len(source) + 2, Len(source))
    BY DEF Kept, Done
  <2> QED BY <2>1 DEF Numbered_, Least, SourceKept
<1>2. Typed /\ Kept /\ [Next]_vars => Kept'
  BY KeptKept
<1>3. Init => Kept
  BY InitKept
<1> QED BY <1>1, <1>2, <1>3, AlwaysTyped, PTL DEF Spec
=============================================================================
