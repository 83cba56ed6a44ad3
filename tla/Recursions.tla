----------------------------- MODULE Recursions ------------------------------
(***************************************************************************)
(* Induction over a set, and the existence of recursive functions: on the  *)
(* naturals, on an interval, and over pointers that lead forward.          *)
(***************************************************************************)
EXTENDS NaturalsInduction, WellFoundedInduction, TLAPS

(* A set of naturals that is not empty has a least member.                 *)
LEMMA LeastNat ==
  ASSUME NEW T, T \subseteq Nat, T # {}
  PROVE  \E x \in T : \A y \in T : x <= y
<1>1. IsWellFoundedOn(OpToRel(<, Nat), Nat)
  BY NatLessThanWellFounded, Zenon
<1>2. PICK x \in T : \A y \in T : ~(<<y, x>> \in OpToRel(<, Nat))
  BY <1>1, WFMin, Zenon
<1>3. ASSUME NEW y \in T PROVE x <= y
  <2>1. x \in Nat /\ y \in Nat
    OBVIOUS
  <2>2. y < x => <<y, x>> \in OpToRel(<, Nat)
    BY <2>1, Zenon DEF OpToRel
  <2>3. ~(y < x)
    BY <1>2, <2>2, Zenon
  <2> QED BY <2>1, <2>3
<1> QED BY <1>3

(* Induction, over a set instead of a predicate.                           *)
LEMMA InductSet ==
  ASSUME NEW S, 0 \in S, \A n \in Nat : n \in S => n + 1 \in S
  PROVE  \A n \in Nat : n \in S
<1> SUFFICES ASSUME NEW m \in Nat, m \notin S PROVE FALSE
  OBVIOUS
<1> DEFINE T == {n \in Nat : n \notin S}
<1>1. PICK x \in T : \A y \in T : x <= y
  BY LeastNat
<1>2. x # 0 /\ x - 1 \in Nat
  BY <1>1
<1>3. x - 1 \in S => x \in S
  BY <1>2
<1> QED BY <1>1, <1>2, <1>3

(* g is a function of the naturals to V, given by its value at 0 and a step. *)
Recursive(V, b, step, g) ==
  g \in [Nat -> V] /\ g[0] = b /\ \A n \in Nat : g[n + 1] = step[<<n + 1, g[n]>>]

(* A function of the naturals is determined by its value at 0 and a step. *)
LEMMA Recursion ==
  ASSUME NEW V, NEW b \in V, NEW step \in [Nat \X V -> V]
  PROVE  \E g : Recursive(V, b, step, g)
<1> DEFINE Partial(n, g) == /\ g \in [0..n -> V] /\ g[0] = b
                            /\ \A i \in 1..n : g[i] = step[<<i, g[i - 1]>>]
           S == {n \in Nat : \E g : Partial(n, g)}
<1>1. \A n \in Nat : n \in S
  <2>1. 0 \in S
    <3>1. Partial(0, [i \in 0..0 |-> b])
      OBVIOUS
    <3> QED BY <3>1
  <2>2. ASSUME NEW n \in Nat, n \in S PROVE n + 1 \in S
    <3>1. PICK g : Partial(n, g)
      BY <2>2
    <3> DEFINE h == [i \in 0..(n + 1) |-> IF i <= n THEN g[i] ELSE step[<<n + 1, g[n]>>]]
    <3>2. g[n] \in V /\ step[<<n + 1, g[n]>>] \in V
      BY <3>1
    <3>3. h \in [0..(n + 1) -> V]
      BY <3>1, <3>2
    <3>4. h[0] = b
      BY <3>1
    <3>5. ASSUME NEW i \in 1..(n + 1) PROVE h[i] = step[<<i, h[i - 1]>>]
      <4>1. CASE i <= n
        <5>1. i \in 1..n /\ i - 1 \in 0..n
          BY <4>1
        <5> QED BY <3>1, <5>1
      <4>2. CASE ~(i <= n)
        <5>1. i = n + 1 /\ i - 1 = n
          BY <4>2
        <5> QED BY <3>1, <5>1
      <4> QED BY <4>1, <4>2
    <3> HIDE DEF h
    <3>6. Partial(n + 1, h)
      BY <3>3, <3>4, <3>5
    <3> QED BY <3>6
  <2> HIDE DEF S
  <2> QED BY <2>1, <2>2, InductSet
<1>2. ASSUME NEW n \in Nat, NEW g, Partial(n, g), NEW m \in Nat, NEW h, Partial(m, h)
      PROVE  \A i \in Nat : i <= n /\ i <= m => g[i] = h[i]
  <2> DEFINE E == {i \in Nat : i <= n /\ i <= m => g[i] = h[i]}
  <2>1. 0 \in E
    BY <1>2
  <2>2. ASSUME NEW i \in Nat, i \in E PROVE i + 1 \in E
    <3> SUFFICES ASSUME i + 1 <= n, i + 1 <= m PROVE g[i + 1] = h[i + 1]
      OBVIOUS
    <3>1. g[i] = h[i]
      BY <2>2
    <3>2. i + 1 \in 1..n /\ i + 1 \in 1..m /\ (i + 1) - 1 = i
      OBVIOUS
    <3> QED BY <1>2, <3>1, <3>2
  <2> HIDE DEF E
  <2>3. \A i \in Nat : i \in E
    BY <2>1, <2>2, InductSet
  <2> QED BY <2>3 DEF E
<1> DEFINE part[n \in Nat] == CHOOSE g : Partial(n, g)
           G == [n \in Nat |-> part[n][n]]
<1>3. \A n \in Nat : Partial(n, part[n])
  BY <1>1
<1> HIDE DEF part
<1>4. G \in [Nat -> V]
  <2> SUFFICES ASSUME NEW n \in Nat PROVE part[n][n] \in V
    OBVIOUS
  <2>1. part[n] \in [0..n -> V] /\ n \in 0..n
    BY <1>3
  <2> QED BY <2>1
<1>5. ASSUME NEW n \in Nat PROVE G[n] = IF n = 0 THEN b ELSE step[<<n, G[n - 1]>>]
  <2>1. CASE n = 0
    BY <1>3, <2>1
  <2>2. CASE n # 0
    <3>1. n - 1 \in Nat /\ n \in 1..n /\ n - 1 <= n /\ n - 1 <= n - 1
      BY <2>2
    <3>2. part[n][n] = step[<<n, part[n][n - 1]>>]
      BY <1>3, <3>1
    <3>3. part[n][n - 1] = part[n - 1][n - 1]
      <4> HIDE DEF Partial
      <4> QED BY <1>2, <1>3, <3>1
    <3> QED BY <2>2, <3>1, <3>2, <3>3
  <2> QED BY <2>1, <2>2
<1> HIDE DEF G
<1>6. \A n \in Nat : n + 1 # 0 /\ (n + 1) - 1 = n /\ n + 1 \in Nat
  OBVIOUS
<1>7. ASSUME NEW n \in Nat PROVE G[n + 1] = step[<<n + 1, G[n]>>]
  BY <1>5, <1>6
<1>8. G[0] = b
  BY <1>5
<1> QED BY <1>4, <1>7, <1>8 DEF Recursive

(* The same up to n.                                                       *)
Upward(V, b, n, step, g) ==
  g \in [0..n -> V] /\ g[0] = b /\ \A i \in 1..n : g[i] = step[<<i, g[i - 1]>>]

LEMMA IntervalRecursion ==
  ASSUME NEW V, NEW b \in V, NEW n \in Nat, NEW step \in [(1..n) \X V -> V]
  PROVE  \E g : Upward(V, b, n, step, g)
<1> DEFINE all == [p \in Nat \X V |-> IF p[1] \in 1..n THEN step[p] ELSE b]
<1>1. all \in [Nat \X V -> V]
  <2> SUFFICES ASSUME NEW p \in Nat \X V PROVE all[p] \in V
    OBVIOUS
  <2>1. p[1] \in 1..n => p \in (1..n) \X V
    OBVIOUS
  <2> QED BY <2>1
<1>2. ASSUME NEW i \in 1..n, NEW v \in V PROVE all[<<i, v>>] = step[<<i, v>>]
  OBVIOUS
<1> HIDE DEF all
<1>3. PICK g : Recursive(V, b, all, g)
  BY <1>1, Recursion
<1> DEFINE h == [i \in 0..n |-> g[i]]
<1>4. h \in [0..n -> V] /\ h[0] = b
  BY <1>3 DEF Recursive
<1>5. ASSUME NEW i \in 1..n PROVE h[i] = step[<<i, h[i - 1]>>]
  <2>1. i - 1 \in Nat /\ (i - 1) + 1 = i /\ i - 1 \in 0..n /\ i \in 0..n
    OBVIOUS
  <2>2. g[(i - 1) + 1] = all[<<(i - 1) + 1, g[i - 1]>>]
    BY <1>3, <2>1 DEF Recursive
  <2>3. g[i - 1] \in V
    BY <1>3, <2>1 DEF Recursive
  <2>4. g[i] = step[<<i, g[i - 1]>>]
    BY <1>2, <2>1, <2>2, <2>3
  <2> QED BY <2>1, <2>4
<1> HIDE DEF h
<1> QED BY <1>4, <1>5 DEF Upward

(* Induction on an interval.                                               *)
LEMMA InductInterval ==
  ASSUME NEW n \in Nat, NEW S, 0 \in S, \A i \in 1..n : i - 1 \in S => i \in S
  PROVE  \A i \in 0..n : i \in S
<1> DEFINE T == {i \in Nat : i <= n => i \in S}
<1>1. 0 \in T
  OBVIOUS
<1>2. ASSUME NEW i \in Nat, i \in T PROVE i + 1 \in T
  <2> SUFFICES ASSUME i + 1 <= n PROVE i + 1 \in S
    OBVIOUS
  <2>1. i + 1 \in 1..n /\ (i + 1) - 1 \in S
    BY <1>2
  <2> QED BY <2>1
<1>3. \A i \in Nat : i \in T
  <2> HIDE DEF T
  <2> QED BY <1>1, <1>2, InductSet
<1> QED BY <1>3

(* Pointers a and b on D, 0 for none: each leads to a lower rank. A        *)
(* function of what both lead to exists.                                   *)
Descending(D, rank, a) ==
  /\ a \in [D -> D \cup {0}]
  /\ \A k \in D : a[k] # 0 => rank[a[k]] < rank[k]

Stepping(D, V, step) == step \in [D \X V \X V -> V]

Followed(D, a, b, V, v, step, g) ==
  /\ g \in [D \cup {0} -> V] /\ g[0] = v
  /\ \A k \in D : g[k] = step[<<k, g[a[k]], g[b[k]]>>]

LEMMA PointerRecursion ==
  ASSUME NEW n \in Nat, NEW D, 0 \notin D, NEW rank \in [D -> 0..n],
         NEW a, Descending(D, rank, a), NEW b, Descending(D, rank, b),
         NEW V, NEW v \in V, NEW step, Stepping(D, V, step)
  PROVE  \E g : Followed(D, a, b, V, v, step, g)
<1> DEFINE Low(m) == {0} \cup {k \in D : rank[k] < m}
           Partial(m, g) == /\ g \in [Low(m) -> V] /\ g[0] = v
                            /\ \A k \in D : rank[k] < m => g[k] = step[<<k, g[a[k]], g[b[k]]>>]
           S == {m \in Nat : \E g : Partial(m, g)}
<1> USE DEF Stepping
<1>0. ASSUME NEW k \in D
      PROVE  /\ rank[k] \in Nat /\ rank[k] <= n /\ k # 0
             /\ a[k] \in D \cup {0} /\ (a[k] # 0 => rank[a[k]] < rank[k])
             /\ b[k] \in D \cup {0} /\ (b[k] # 0 => rank[b[k]] < rank[k])
  BY DEF Descending
<1>1. 0 \in S
  <2> DEFINE g == [k \in Low(0) |-> v]
  <2>1. Partial(0, g)
    <3>1. g \in [Low(0) -> V] /\ g[0] = v
      OBVIOUS
    <3>2. \A k \in D : ~(rank[k] < 0)
      BY <1>0
    <3> QED BY <3>1, <3>2
  <2> QED BY <2>1
<1>2. ASSUME NEW m \in Nat, m \in S PROVE m + 1 \in S
  <2>1. PICK g : Partial(m, g)
    BY <1>2
  <2> DEFINE h == [k \in Low(m + 1) |-> IF k \in Low(m) THEN g[k]
                                        ELSE step[<<k, g[a[k]], g[b[k]]>>]]
  <2>2. ASSUME NEW k \in D, rank[k] < m + 1 PROVE a[k] \in Low(m) /\ b[k] \in Low(m)
    <3>1. \A j \in D : rank[j] < rank[k] => rank[j] < m
      BY <1>0, <2>2
    <3> QED BY <1>0, <3>1
  <2>3. Low(m) \subseteq Low(m + 1)
    BY <1>0
  <2>4. ASSUME NEW k \in Low(m) PROVE h[k] = g[k] /\ g[k] \in V
    BY <2>1, <2>3
  <2>5. ASSUME NEW k \in D, rank[k] < m + 1 PROVE step[<<k, g[a[k]], g[b[k]]>>] \in V
    <3>1. g[a[k]] \in V /\ g[b[k]] \in V
      BY <2>2, <2>4, <2>5
    <3> QED BY <3>1
  <2>6. h \in [Low(m + 1) -> V]
    <3> SUFFICES ASSUME NEW k \in Low(m + 1) PROVE h[k] \in V
      OBVIOUS
    <3>1. CASE k \in Low(m)
      BY <2>4, <3>1
    <3>2. CASE k \notin Low(m)
      BY <2>5, <3>2
    <3> QED BY <3>1, <3>2
  <2>7. h[0] = v
    BY <2>1, <2>4
  <2>8. ASSUME NEW k \in D, rank[k] < m + 1 PROVE h[k] = step[<<k, h[a[k]], h[b[k]]>>]
    <3>1. h[a[k]] = g[a[k]] /\ h[b[k]] = g[b[k]]
      BY <2>2, <2>4, <2>8
    <3>2. CASE rank[k] < m
      <4>1. h[k] = g[k] /\ g[k] = step[<<k, g[a[k]], g[b[k]]>>]
        BY <2>1, <2>4, <3>2
      <4> QED BY <3>1, <4>1
    <3>3. CASE ~(rank[k] < m)
      <4>1. k \in Low(m + 1) /\ k \notin Low(m)
        BY <1>0, <2>8, <3>3
      <4>2. h[k] = step[<<k, g[a[k]], g[b[k]]>>]
        BY <4>1
      <4> QED BY <3>1, <4>2
    <3> QED BY <3>2, <3>3
  <2> HIDE DEF h, Low
  <2>9. Partial(m + 1, h)
    BY <2>6, <2>7, <2>8
  <2> QED BY <2>9
<1> HIDE DEF S
<1>3. n + 1 \in S
  BY <1>1, <1>2, InductSet
<1>4. PICK g : Partial(n + 1, g)
  BY <1>3 DEF S
<1>5. Low(n + 1) = D \cup {0} /\ \A k \in D : rank[k] < n + 1
  BY <1>0
<1> HIDE DEF Low
<1> QED BY <1>4, <1>5 DEF Followed

(* Pointers among 1..n: every one leads on, or every one leads back.       *)
Onward(n, a) == a \in [1..n -> 0..n] /\ \A k \in 1..n : a[k] # 0 => a[k] > k

Backward(n, a) == a \in [1..n -> 0..n] /\ \A k \in 1..n : a[k] < k

LEMMA OnwardRecursion ==
  ASSUME NEW n \in Nat, NEW a, Onward(n, a), NEW b, Onward(n, b),
         NEW V, NEW v \in V, NEW step, Stepping(1..n, V, step)
  PROVE  \E g : Followed(1..n, a, b, V, v, step, g)
<1> DEFINE D == 1..n
           rank == [k \in D |-> n - k]
<1>1. rank \in [D -> 0..n] /\ 0 \notin D
  OBVIOUS
<1>2. ASSUME NEW c, Onward(n, c) PROVE Descending(D, rank, c)
  <2>1. D \cup {0} = 0..n
    OBVIOUS
  <2>2. c \in [D -> D \cup {0}]
    BY <1>2, <2>1 DEF Onward
  <2>3. ASSUME NEW k \in D, c[k] # 0 PROVE rank[c[k]] < rank[k]
    <3>1. c[k] \in D /\ c[k] > k
      BY <1>2, <2>3 DEF Onward
    <3> QED BY <3>1
  <2> QED BY <2>2, <2>3 DEF Descending
<1>3. Descending(D, rank, a) /\ Descending(D, rank, b) /\ Stepping(D, V, step)
  BY <1>2
<1> HIDE DEF rank, D
<1>4. \E g : Followed(D, a, b, V, v, step, g)
  BY <1>1, <1>3, PointerRecursion
<1> QED BY <1>4 DEF D

LEMMA BackwardRecursion ==
  ASSUME NEW n \in Nat, NEW a, Backward(n, a),
         NEW V, NEW v \in V, NEW step, Stepping(1..n, V, step)
  PROVE  \E g : Followed(1..n, a, a, V, v, step, g)
<1> DEFINE D == 1..n
           rank == [k \in D |-> k]
<1>1. rank \in [D -> 0..n] /\ 0 \notin D
  OBVIOUS
<1>2. Descending(D, rank, a)
  <2>1. D \cup {0} = 0..n
    OBVIOUS
  <2>2. a \in [D -> D \cup {0}]
    BY <2>1 DEF Backward
  <2>3. ASSUME NEW k \in D, a[k] # 0 PROVE rank[a[k]] < rank[k]
    <3>1. a[k] \in D /\ a[k] < k
      BY <2>3 DEF Backward
    <3> QED BY <3>1
  <2> QED BY <2>2, <2>3 DEF Descending
<1>3. Stepping(D, V, step)
  OBVIOUS
<1> HIDE DEF rank, D
<1>4. \E g : Followed(D, a, a, V, v, step, g)
  BY <1>1, <1>2, <1>3, PointerRecursion
<1> QED BY <1>4 DEF D

(* Induction from the end: a place has the property when all behind it do. *)
LEMMA OnwardInduction ==
  ASSUME NEW n \in Nat, NEW S, \A k \in 1..n : (\A j \in (k + 1)..n : j \in S) => k \in S
  PROVE  \A k \in 1..n : k \in S
<1> DEFINE T == {m \in 0..n : \A j \in (n - m + 1)..n : j \in S}
<1>1. 0 \in T
  OBVIOUS
<1>2. ASSUME NEW m \in 1..n, m - 1 \in T PROVE m \in T
  <2> DEFINE k == n - m + 1
  <2>1. k \in 1..n /\ n - (m - 1) + 1 = k + 1
    OBVIOUS
  <2>2. \A j \in (k + 1)..n : j \in S
    BY <1>2, <2>1
  <2>3. k \in S
    BY <2>1, <2>2
  <2>4. \A j \in k..n : j = k \/ j \in (k + 1)..n
    BY <2>1
  <2>5. \A j \in k..n : j \in S
    BY <2>2, <2>3, <2>4
  <2> QED BY <2>5
<1> HIDE DEF T
<1>3. \A m \in 0..n : m \in T
  BY <1>1, <1>2, InductInterval
<1>4. n \in T /\ \A k \in 1..n : k \in (n - n + 1)..n
  BY <1>3
<1> QED BY <1>4 DEF T

(* Induction from the beginning: when all before it do.                    *)
LEMMA BackwardInduction ==
  ASSUME NEW n \in Nat, NEW S, \A k \in 1..n : (\A j \in 1..(k - 1) : j \in S) => k \in S
  PROVE  \A k \in 1..n : k \in S
<1> DEFINE T == {m \in 0..n : \A j \in 1..m : j \in S}
<1>1. 0 \in T
  OBVIOUS
<1>2. ASSUME NEW m \in 1..n, m - 1 \in T PROVE m \in T
  <2>1. \A j \in 1..(m - 1) : j \in S
    BY <1>2
  <2>2. m \in S
    BY <2>1
  <2>3. \A j \in 1..m : j = m \/ j \in 1..(m - 1)
    OBVIOUS
  <2> QED BY <2>1, <2>2, <2>3
<1> HIDE DEF T
<1>3. \A m \in 0..n : m \in T
  BY <1>1, <1>2, InductInterval
<1>4. n \in T
  BY <1>3
<1> QED BY <1>4 DEF T
=============================================================================
