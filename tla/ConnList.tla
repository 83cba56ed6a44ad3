------------------------------ MODULE ConnList ------------------------------
(***************************************************************************)
(* The connection list of dblib/ocdb.c: a singly linked list of struct     *)
(* s_conn nodes searched from its head, the counter _next_conn_id, and the *)
(* PGconn handles that libpq has handed to the library.                    *)
(*                                                                         *)
(* An action is one call of OCDBConnect or OCDBFinish.                     *)
(***************************************************************************)
EXTENDS Integers, Sequences, FiniteSets

CONSTANTS Names,        \* connection identifiers (cid)
          Handles,      \* addresses libpq may return for a PGconn
          MaxId         \* bound: values of _next_conn_id

ASSUME MaxIdAssumption == MaxId \in Nat

VARIABLES list,         \* _conn_lists: sequence of [id, cid, connaddr]
          nextId,       \* _next_conn_id
          open,         \* PGconn handles open in libpq (external)
          ret           \* what the last call returned

vars == <<list, nextId, open, ret>>

INVALID_CONN_ID == -1
FAIL_CONNECT    == -1
RESULT_FAILED   == -1
NULL            == 0

Node == [id : 1..MaxId, cid : Names, connaddr : Handles]

(* The searches walk from the head and stop at the first node that fits. *)
First(at) == IF at = {} THEN 0 ELSE CHOOSE i \in at : \A j \in at : i <= j

WithCid(cid) == {i \in DOMAIN list : list[i].cid = cid}

OCDBResolveCONNID(cid) ==
  LET at == First(WithCid(cid))
  IN  IF at = 0 THEN RESULT_FAILED ELSE list[at].id

look_up_conn_lists(id) == First({i \in DOMAIN list : list[i].id = id})

-----------------------------------------------------------------------------

Init ==
  /\ list = <<>>
  /\ nextId = 1
  /\ open = {}
  /\ ret = NULL

(* Faulty variants: what a plausible slip in the code would do. The        *)
(* properties below tell each of them from the code.                       *)
CreateFromZero(cid, connaddr) ==      \* ids handed out from 0
  /\ nextId <= MaxId
  /\ list' = Append(list, [id |-> nextId - 1, cid |-> cid, connaddr |-> connaddr])
  /\ nextId' = nextId + 1
  /\ open' = open \cup {connaddr}
  /\ ret' = nextId - 1

CreateById(cid, connaddr) ==          \* the id is the position in the list
  /\ Len(list) < MaxId
  /\ list' = Append(list, [id |-> Len(list) + 1, cid |-> cid, connaddr |-> connaddr])
  /\ nextId' = Len(list) + 2
  /\ open' = open \cup {connaddr}
  /\ ret' = Len(list) + 1

(* create_conn: malloc may fail, and then no id is consumed. *)
create_conn(cid, connaddr) ==
  \/ /\ nextId <= MaxId
     /\ list' = Append(list, [id |-> nextId, cid |-> cid, connaddr |-> connaddr])
     /\ nextId' = nextId + 1
     /\ open' = open \cup {connaddr}
     /\ ret' = nextId
  \/ /\ ret' = INVALID_CONN_ID
     /\ UNCHANGED <<list, nextId, open>>

AddLeaks(cid, connaddr) ==            \* a refused PGconn stays open
  IF WithCid(cid) # {}
  THEN /\ ret' = INVALID_CONN_ID
       /\ open' = open \cup {connaddr}
       /\ UNCHANGED <<list, nextId>>
  ELSE create_conn(cid, connaddr)

AddUnchecked(cid, connaddr) ==        \* no search for the name
  create_conn(cid, connaddr)

(* add_conn_lists: a second node with the same name is refused, and        *)
(* OCDBConnect then closes the PGconn it had just opened.                  *)
add_conn_lists(cid, connaddr) ==
  IF WithCid(cid) # {}
  THEN /\ ret' = INVALID_CONN_ID
       /\ UNCHANGED <<list, nextId, open>>
  ELSE create_conn(cid, connaddr)

(* OCDBConnect: the server may refuse; otherwise libpq hands out a handle  *)
(* that is not in use.                                                     *)
OCDBConnect(cid) ==
  \/ /\ ret' = FAIL_CONNECT
     /\ UNCHANGED <<list, nextId, open>>
  \/ \E h \in Handles \ open : add_conn_lists(cid, h)

free_conn_lists(at) ==
  [i \in 1..(Len(list) - 1) |-> IF i < at THEN list[i] ELSE list[i + 1]]

(* OCDBFinish: an unknown id is ignored. *)
OCDBFinish(id) ==
  LET at == look_up_conn_lists(id) IN
  /\ IF at = 0
     THEN UNCHANGED <<list, open>>
     ELSE /\ open' = open \ {list[at].connaddr}
          /\ list' = free_conn_lists(at)
  /\ ret' = NULL
  /\ UNCHANGED nextId

Next ==
  \/ \E cid \in Names : OCDBConnect(cid)
  \/ \E id \in 1..MaxId : OCDBFinish(id)

Spec == Init /\ [][Next]_vars

-----------------------------------------------------------------------------

TypeOK ==
  /\ list \in Seq(Node)
  /\ nextId \in 1..(MaxId + 1)
  /\ open \subseteq Handles
  /\ ret \in Int

(* Every PGconn that libpq opened is held by exactly one node, and no node *)
(* holds one that was finished: OCDBConnect and OCDBFinish leak none and   *)
(* leave none dangling, on the error paths too.                            *)
HandlesOwned ==
  /\ open = {list[i].connaddr : i \in DOMAIN list}
  /\ \A i, j \in DOMAIN list : list[i].connaddr = list[j].connaddr => i = j

(* Names are unique, and ids grow along the list and stay below the        *)
(* counter: the first match of a search is the only one.                   *)
NodesUnique ==
  /\ \A i, j \in DOMAIN list : list[i].cid = list[j].cid => i = j
  /\ \A i, j \in DOMAIN list : i < j => list[i].id < list[j].id
  /\ \A i \in DOMAIN list : list[i].id < nextId

(* The list implements the map of ConnRegistry: what a search by name      *)
(* returns is the id registered under that name.                           *)
registered ==
  [n \in Names |-> IF WithCid(n) = {} THEN 0 ELSE OCDBResolveCONNID(n)]

Registry == INSTANCE ConnRegistry WITH reg <- registered, next <- nextId

ImplementsRegistry == Registry!Spec
=============================================================================
