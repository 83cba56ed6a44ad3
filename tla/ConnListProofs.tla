--------------------------- MODULE ConnListProofs ---------------------------
(***************************************************************************)
(* Proofs about ConnList for every set of names and handles and every      *)
(* bound: the list's invariants, and that it implements ConnRegistry.      *)
(***************************************************************************)
EXTENDS ConnList, TLAPS

IInv == TypeOK /\ HandlesOwned /\ NodesUnique

(* A search that meets a list without duplicates finds the one node there  *)
(* is, so "the first that fits" is "the one that fits".                    *)
LEMMA FirstOfSingle ==
  ASSUME NEW at, NEW k \in Nat \ {0}, at = {k}
  PROVE  First(at) = k
  BY DEF First

LEMMA ListFacts ==
  ASSUME TypeOK
  PROVE  /\ list \in Seq(Node)
         /\ Len(list) \in Nat
         /\ DOMAIN list = 1..Len(list)
         /\ \A i \in DOMAIN list : /\ list[i] \in Node
                                  /\ list[i].id \in Nat \ {0}
<1>1. list \in Seq(Node) /\ Len(list) \in Nat /\ DOMAIN list = 1..Len(list)
  BY DEF TypeOK
<1>2. \A i \in DOMAIN list : list[i] \in Node
  BY <1>1
<1>3. \A x \in Node : x.id \in Nat \ {0}
  BY MaxIdAssumption DEF Node
<1> QED
  BY <1>1, <1>2, <1>3

(* What a search by id returns: 0, or the one node that has the id. *)
LEMMA LookUp ==
  ASSUME IInv, NEW id
  PROVE  LET at == look_up_conn_lists(id) IN
           \/ at = 0 /\ \A i \in DOMAIN list : list[i].id # id
           \/ at \in DOMAIN list /\ list[at].id = id
<1> DEFINE S == {i \in DOMAIN list : list[i].id = id}
<1>1. CASE S = {}
  BY <1>1 DEF look_up_conn_lists, First
<1>2. CASE S # {}
  <2>1. PICK k \in S : TRUE
    BY <1>2
  <2>2. k \in 1..Len(list) /\ list \in Seq(Node)
    BY <2>1 DEF IInv, TypeOK
  <2>3. \A j \in S : j = k
    <3>1. \A i, j \in 1..Len(list) : list[i].id = list[j].id => i = j
      BY ListFacts DEF IInv, NodesUnique
    <3> QED
      BY <2>1, <2>2, <3>1, ListFacts DEF IInv
  <2>4. S = {k}
    BY <2>1, <2>3
  <2>5. First(S) = k
    BY <2>2, <2>4, FirstOfSingle
  <2> QED
    BY <2>1, <2>5 DEF look_up_conn_lists
<1> QED
  BY <1>1, <1>2

LEMMA InitIInv == Init => IInv
  BY MaxIdAssumption DEF Init, IInv, TypeOK, HandlesOwned, NodesUnique, NULL

(* Appending a node with a fresh name and a fresh handle. *)
LEMMA CreateIInv ==
  ASSUME IInv, NEW cid \in Names, NEW h \in Handles \ open,
         WithCid(cid) = {}, create_conn(cid, h)
  PROVE  IInv'
<1> USE DEF IInv
<1>1. CASE nextId <= MaxId /\ ret' = nextId
  <2> DEFINE new == [id |-> nextId, cid |-> cid, connaddr |-> h]
  <2>1. CASE /\ list' = Append(list, new)
             /\ nextId' = nextId + 1
             /\ open' = open \cup {h}
    <3>1. new \in Node /\ list \in Seq(Node)
      BY <1>1, MaxIdAssumption DEF TypeOK, Node
    <3>2. /\ DOMAIN list' = 1..(Len(list) + 1)
          /\ DOMAIN list = 1..Len(list)
          /\ Len(list) \in Nat
          /\ list'[Len(list) + 1] = new
          /\ \A i \in DOMAIN list : list'[i] = list[i]
      BY <2>1, <3>1
    <3>3. TypeOK'
      BY <1>1, <2>1, <3>1, MaxIdAssumption DEF TypeOK
    <3>4. HandlesOwned'
      <4>1. open' = {list'[i].connaddr : i \in DOMAIN list'}
        BY <2>1, <3>2 DEF HandlesOwned
      <4>2. \A i, j \in DOMAIN list' : list'[i].connaddr = list'[j].connaddr => i = j
        BY <3>2 DEF HandlesOwned
      <4> QED
        BY <4>1, <4>2 DEF HandlesOwned
    <3>5. NodesUnique'
      <4>1. \A i, j \in DOMAIN list' : list'[i].cid = list'[j].cid => i = j
        BY <3>2 DEF NodesUnique, WithCid
      <4>2. \A i, j \in DOMAIN list' : i < j => list'[i].id < list'[j].id
        BY <3>2 DEF NodesUnique
      <4>3. \A i \in DOMAIN list' : list'[i].id < nextId'
        <5>1. \A i \in DOMAIN list : list'[i].id < nextId + 1
          BY <3>1, <3>2, ListFacts DEF NodesUnique, TypeOK
        <5>2. list'[Len(list) + 1].id = nextId
          BY <3>2
        <5> QED
          BY <2>1, <3>2, <5>1, <5>2 DEF TypeOK
      <4> QED
        BY <4>1, <4>2, <4>3 DEF NodesUnique
    <3> QED
      BY <3>3, <3>4, <3>5
  <2>2. CASE UNCHANGED <<list, nextId, open>>
    BY <1>1, <2>2 DEF TypeOK, HandlesOwned, NodesUnique
  <2> QED
    BY <1>1, <2>1, <2>2 DEF create_conn
<1>2. CASE ret' = INVALID_CONN_ID /\ UNCHANGED <<list, nextId, open>>
  BY <1>2 DEF TypeOK, HandlesOwned, NodesUnique, INVALID_CONN_ID
<1> QED
  BY <1>1, <1>2 DEF create_conn

LEMMA ConnectIInv ==
  ASSUME IInv, NEW cid \in Names, OCDBConnect(cid)
  PROVE  IInv'
<1>1. CASE ret' = FAIL_CONNECT /\ UNCHANGED <<list, nextId, open>>
  BY <1>1 DEF IInv, TypeOK, HandlesOwned, NodesUnique, FAIL_CONNECT
<1>2. CASE \E h \in Handles \ open : add_conn_lists(cid, h)
  <2>1. PICK h \in Handles \ open : add_conn_lists(cid, h)
    BY <1>2
  <2>2. CASE WithCid(cid) = {}
    <3>1. create_conn(cid, h)
      BY <2>1, <2>2 DEF add_conn_lists
    <3> QED
      BY <2>2, <3>1, CreateIInv
  <2>3. CASE WithCid(cid) # {}
    BY <2>1, <2>3 DEF add_conn_lists, IInv, TypeOK, HandlesOwned, NodesUnique,
                      INVALID_CONN_ID
  <2> QED
    BY <2>2, <2>3
<1> QED
  BY <1>1, <1>2 DEF OCDBConnect

(* Taking node "at" out of the list: the nodes after it move up by one. *)
LEMMA FinishIInv ==
  ASSUME IInv, NEW id \in 1..MaxId, OCDBFinish(id)
  PROVE  IInv'
<1> DEFINE at == look_up_conn_lists(id)
<1>1. CASE at = 0
  BY <1>1 DEF OCDBFinish, IInv, TypeOK, HandlesOwned, NodesUnique, NULL
<1>2. CASE at # 0
  <2>1. at \in DOMAIN list
    BY <1>2, LookUp
  <2>2. /\ list \in Seq(Node)
        /\ DOMAIN list = 1..Len(list)
        /\ Len(list) \in Nat
        /\ at \in 1..Len(list)
    BY <2>1 DEF IInv, TypeOK
  <2>3. /\ open' = open \ {list[at].connaddr}
        /\ list' = [i \in 1..(Len(list) - 1) |->
                      IF i < at THEN list[i] ELSE list[i + 1]]
        /\ ret' = NULL
        /\ nextId' = nextId
    BY <1>2 DEF OCDBFinish, free_conn_lists
  <2> DEFINE old(i) == IF i < at THEN i ELSE i + 1
  <2>4. /\ DOMAIN list' = 1..(Len(list) - 1)
        /\ \A i \in DOMAIN list' : /\ list'[i] = list[old(i)]
                                   /\ old(i) \in DOMAIN list
                                   /\ old(i) # at
    BY <2>2, <2>3
  <2>5. \A i, j \in DOMAIN list' : i < j => old(i) < old(j)
    BY <2>2, <2>4
  <2>6. \A i, j \in DOMAIN list' : old(i) = old(j) => i = j
    BY <2>2, <2>4
  <2>7. \A k \in DOMAIN list \ {at} : \E i \in DOMAIN list' : k = old(i)
    <3>1. TAKE k \in DOMAIN list \ {at}
    <3>2. CASE k < at
      BY <2>2, <2>4, <3>2
    <3>3. CASE k > at
      <4>1. k - 1 \in DOMAIN list' /\ old(k - 1) = k
        BY <2>2, <2>4, <3>3
      <4> QED
        BY <4>1
    <3> QED
      BY <2>2, <3>2, <3>3
  <2>8. TypeOK'
    <3>1. list' \in Seq(Node)
      <4>1. Len(list) - 1 \in Nat
        BY <2>2
      <4>2. \A i \in 1..(Len(list) - 1) : list'[i] \in Node
        BY <2>2, <2>4
      <4> QED
        BY <2>3, <4>1, <4>2
    <3> QED
      BY <2>3, <3>1 DEF IInv, TypeOK, NULL
  <2>9. HandlesOwned'
    <3>1. \A i, j \in DOMAIN list' : list'[i].connaddr = list'[j].connaddr => i = j
      BY <2>4, <2>6 DEF IInv, HandlesOwned
    <3>2. \A i \in DOMAIN list' : list'[i].connaddr \in open'
      BY <2>1, <2>3, <2>4 DEF IInv, HandlesOwned
    <3>3. \A h \in open' : \E i \in DOMAIN list' : h = list'[i].connaddr
      <4>1. TAKE h \in open'
      <4>2. PICK k \in DOMAIN list : h = list[k].connaddr
        BY <2>3, <4>1 DEF IInv, HandlesOwned
      <4>3. k # at
        BY <2>3, <4>1, <4>2
      <4>4. PICK i \in DOMAIN list' : k = old(i)
        BY <2>7, <4>2, <4>3
      <4>5. h = list'[i].connaddr
        BY <2>4, <4>2, <4>4
      <4> QED
        BY <4>5
    <3> QED
      BY <3>1, <3>2, <3>3 DEF HandlesOwned
  <2>10. NodesUnique'
    <3>1. \A i, j \in DOMAIN list' : list'[i].cid = list'[j].cid => i = j
      BY <2>4, <2>6 DEF IInv, NodesUnique
    <3>2. \A i, j \in DOMAIN list' : i < j => list'[i].id < list'[j].id
      BY <2>4, <2>5 DEF IInv, NodesUnique
    <3>3. \A i \in DOMAIN list' : list'[i].id < nextId'
      BY <2>3, <2>4 DEF IInv, NodesUnique
    <3> QED
      BY <3>1, <3>2, <3>3 DEF NodesUnique
  <2> QED
    BY <2>8, <2>9, <2>10 DEF IInv
<1> QED
  BY <1>1, <1>2

LEMMA NextIInv == IInv /\ [Next]_vars => IInv'
<1> SUFFICES ASSUME IInv, [Next]_vars PROVE IInv'
  OBVIOUS
<1>1. CASE \E cid \in Names : OCDBConnect(cid)
  BY <1>1, ConnectIInv
<1>2. CASE \E id \in 1..MaxId : OCDBFinish(id)
  BY <1>2, FinishIInv
<1>3. CASE UNCHANGED vars
  BY <1>3 DEF vars, IInv, TypeOK, HandlesOwned, NodesUnique
<1> QED
  BY <1>1, <1>2, <1>3 DEF Next

LEMMA AlwaysIInv == Spec => []IInv
BY InitIInv, NextIInv, PTL DEF Spec

(* Every PGconn that libpq opened is held by exactly one node, and no node *)
(* holds one that was finished, on the error paths of OCDBConnect too.     *)
THEOREM ConnListSafe == Spec => []HandlesOwned
<1>1. IInv => HandlesOwned
  BY DEF IInv
<1> QED BY <1>1, AlwaysIInv, PTL

(* Every node of the list, whatever was added and freed, is one that       *)
(* create_conn made, and the counter is never given beyond its bound.      *)
THEOREM ConnListTyped == Spec => []TypeOK
<1>1. IInv => TypeOK
  BY DEF IInv
<1> QED BY <1>1, AlwaysIInv, PTL

(* The list never has a name twice, and its ids grow along it: the first   *)
(* match of the searches is the only one.                                  *)
THEOREM ConnListOrdered == Spec => []NodesUnique
<1>1. IInv => NodesUnique
  BY DEF IInv
<1> QED BY <1>1, AlwaysIInv, PTL

-----------------------------------------------------------------------------
(***************************************************************************)
(* Refinement.                                                             *)
(***************************************************************************)

(* Under the invariant a search by name is the map of ConnRegistry. *)
RegisteredIs ==
  \A n \in Names :
    /\ WithCid(n) = {} => registered[n] = 0
    /\ \A i \in WithCid(n) : registered[n] = list[i].id

LEMMA Registered == IInv => RegisteredIs
<1> SUFFICES ASSUME IInv, NEW n \in Names
             PROVE  /\ WithCid(n) = {} => registered[n] = 0
                    /\ \A i \in WithCid(n) : registered[n] = list[i].id
  BY DEF RegisteredIs
<1>1. WithCid(n) = {} => registered[n] = 0
  BY DEF registered
<1>2. ASSUME NEW i \in WithCid(n)
      PROVE  registered[n] = list[i].id
  <2>1. WithCid(n) = {i} /\ i \in Nat \ {0}
    BY <1>2, ListFacts DEF WithCid, IInv, NodesUnique
  <2>2. First(WithCid(n)) = i
    BY <2>1, FirstOfSingle
  <2>3. OCDBResolveCONNID(n) = list[i].id
    BY <2>1, <2>2 DEF OCDBResolveCONNID
  <2> QED
    BY <1>2, <2>3 DEF registered
<1> QED
  BY <1>1, <1>2

LEMMA RegisteredNext == IInv' => RegisteredIs'
  BY Registered, PTL

LEMMA InitImplements == Init => Registry!Init
<1> SUFFICES ASSUME Init PROVE Registry!Init
  OBVIOUS
<1>1. \A n \in Names : WithCid(n) = {}
  BY DEF Init, WithCid
<1> QED
  BY <1>1 DEF Init, Registry!Init, registered, Registry!NoId

LEMMA ConnectImplements ==
  ASSUME IInv, IInv', NEW cid \in Names, OCDBConnect(cid)
  PROVE  Registry!Register(cid) \/ UNCHANGED <<registered, nextId>>
<1>1. CASE UNCHANGED <<list, nextId, open>>
  BY <1>1 DEF registered, WithCid, OCDBResolveCONNID
<1>2. CASE \E h \in Handles : /\ WithCid(cid) = {}
                              /\ nextId <= MaxId
                              /\ list' = Append(list, [id |-> nextId, cid |-> cid,
                                                       connaddr |-> h])
                              /\ nextId' = nextId + 1
  <2>1. PICK h \in Handles :
               /\ list' = Append(list, [id |-> nextId, cid |-> cid, connaddr |-> h])
               /\ nextId' = nextId + 1
    BY <1>2
  <2>2. /\ DOMAIN list' = 1..(Len(list) + 1)
        /\ DOMAIN list = 1..Len(list)
        /\ Len(list) \in Nat
        /\ list'[Len(list) + 1] = [id |-> nextId, cid |-> cid, connaddr |-> h]
        /\ \A i \in DOMAIN list : list'[i] = list[i]
    BY <2>1, ListFacts DEF IInv
  <2>3. registered[cid] = 0
    BY <1>2, Registered DEF RegisteredIs
  <2>4. registered'[cid] = nextId
    <3>1. Len(list) + 1 \in WithCid(cid)'
      BY <2>2 DEF WithCid
    <3> QED
      BY <3>1, <2>2, RegisteredNext DEF RegisteredIs
  <2>5. \A n \in Names \ {cid} : registered'[n] = registered[n]
    <3>1. TAKE n \in Names \ {cid}
    <3>2. WithCid(n)' = WithCid(n)
      BY <2>2, <3>1 DEF WithCid
    <3>3. CASE WithCid(n) = {}
      BY <3>1, <3>2, <3>3 DEF registered
    <3>4. CASE WithCid(n) # {}
      <4>1. PICK i \in WithCid(n) : TRUE
        BY <3>4
      <4>2. i \in DOMAIN list
        BY <4>1 DEF WithCid
      <4>3. registered[n] = list[i].id
        BY <3>1, <4>1, Registered DEF RegisteredIs
      <4>4. registered'[n] = list'[i].id
        BY <3>1, <3>2, <4>1, RegisteredNext DEF RegisteredIs
      <4> QED
        BY <2>2, <4>2, <4>3, <4>4
    <3> QED
      BY <3>3, <3>4
  <2>6. registered' = [registered EXCEPT ![cid] = nextId]
    BY <2>4, <2>5 DEF registered
  <2> QED
    BY <1>2, <2>1, <2>3, <2>6 DEF Registry!Register, Registry!NoId
<1> QED
  BY <1>1, <1>2 DEF OCDBConnect, add_conn_lists, create_conn

LEMMA FinishImplements ==
  ASSUME IInv, IInv', NEW id \in 1..MaxId, OCDBFinish(id)
  PROVE  \/ \E n \in Names : Registry!Unregister(n)
         \/ UNCHANGED <<registered, nextId>>
<1> DEFINE at == look_up_conn_lists(id)
           old(i) == IF i < at THEN i ELSE i + 1
<1>1. CASE at = 0
  BY <1>1 DEF OCDBFinish, registered, WithCid, OCDBResolveCONNID
<1>2. CASE at # 0
  <2>1. at \in DOMAIN list /\ list[at].id = id
    BY <1>2, LookUp
  <2>2. /\ DOMAIN list = 1..Len(list)
        /\ Len(list) \in Nat
        /\ list[at] \in Node
        /\ list[at].id \in Nat \ {0}
    BY <2>1, ListFacts DEF IInv
  <2>3. PICK gone \in Names : gone = list[at].cid
    BY <2>2 DEF Node
  <2>4. list' = [i \in 1..(Len(list) - 1) |->
                   IF i < at THEN list[i] ELSE list[i + 1]]
    BY <1>2 DEF OCDBFinish, free_conn_lists
  <2>5. /\ DOMAIN list' = 1..(Len(list) - 1)
        /\ \A i \in DOMAIN list' : /\ list'[i] = list[old(i)]
                                   /\ old(i) \in DOMAIN list
                                   /\ old(i) # at
    BY <2>1, <2>2, <2>4
  <2>6. \A k \in DOMAIN list \ {at} : \E i \in DOMAIN list' : k = old(i)
    <3>1. TAKE k \in DOMAIN list \ {at}
    <3>2. CASE k < at
      BY <2>1, <2>2, <2>5, <3>2
    <3>3. CASE k > at
      <4>1. k - 1 \in DOMAIN list' /\ old(k - 1) = k
        BY <2>1, <2>2, <2>5, <3>3
      <4> QED
        BY <4>1
    <3> QED
      BY <2>1, <2>2, <3>2, <3>3
  <2>7. registered[gone] = id
    BY <2>1, <2>3, Registered DEF RegisteredIs, WithCid
  <2>8. registered'[gone] = 0
    <3>1. WithCid(gone)' = {}
      BY <2>1, <2>3, <2>5 DEF WithCid, IInv, NodesUnique
    <3> QED
      BY <2>3, <3>1, RegisteredNext DEF RegisteredIs
  <2>9. \A n \in Names \ {gone} : registered'[n] = registered[n]
    <3>1. TAKE n \in Names \ {gone}
    <3>2. CASE WithCid(n) = {}
      <4>1. WithCid(n)' = {}
        BY <2>5, <3>2 DEF WithCid
      <4> QED
        BY <3>1, <3>2, <4>1 DEF registered
    <3>3. CASE WithCid(n) # {}
      <4>1. PICK k \in WithCid(n) : TRUE
        BY <3>3
      <4>2. k \in DOMAIN list \ {at}
        BY <2>3, <3>1, <4>1 DEF WithCid
      <4>3. PICK i \in DOMAIN list' : k = old(i)
        BY <2>6, <4>2
      <4>4. i \in WithCid(n)' /\ list'[i] = list[k]
        BY <2>5, <4>1, <4>3 DEF WithCid
      <4>5. registered[n] = list[k].id
        BY <3>1, <4>1, Registered DEF RegisteredIs
      <4>6. registered'[n] = list'[i].id
        BY <3>1, <4>4, RegisteredNext DEF RegisteredIs
      <4> QED
        BY <4>4, <4>5, <4>6
    <3> QED
      BY <3>2, <3>3
  <2>10. registered' = [registered EXCEPT ![gone] = 0]
    BY <2>8, <2>9 DEF registered
  <2>11. UNCHANGED nextId
    BY DEF OCDBFinish
  <2>12. registered[gone] # 0
    BY <2>1, <2>2, <2>7
  <2> QED
    BY <2>3, <2>10, <2>11, <2>12 DEF Registry!Unregister, Registry!NoId
<1> QED
  BY <1>1, <1>2

LEMMA NextImplements ==
  IInv /\ IInv' /\ [Next]_vars => [Registry!Next]_(Registry!vars)
<1> SUFFICES ASSUME IInv, IInv', [Next]_vars
             PROVE  [Registry!Next]_(Registry!vars)
  OBVIOUS
<1>1. ASSUME NEW cid \in Names, OCDBConnect(cid)
      PROVE  [Registry!Next]_(Registry!vars)
  BY <1>1, ConnectImplements DEF Registry!Next, Registry!vars
<1>2. ASSUME NEW id \in 1..MaxId, OCDBFinish(id)
      PROVE  [Registry!Next]_(Registry!vars)
  BY <1>2, FinishImplements DEF Registry!Next, Registry!vars
<1>3. CASE UNCHANGED vars
  BY <1>3 DEF vars, registered, WithCid, OCDBResolveCONNID, Registry!vars
<1> QED
  BY <1>1, <1>2, <1>3 DEF Next

(* The linked list with its searches implements the map from names to      *)
(* never-reused ids that the layer above relies on.                        *)
THEOREM ConnListImplements == Spec => ImplementsRegistry
<1>1. Spec => []IInv
  BY InitIInv, NextIInv, PTL DEF Spec
<1> QED
  BY <1>1, InitImplements, NextImplements, PTL
     DEF Spec, ImplementsRegistry, Registry!Spec
=============================================================================
