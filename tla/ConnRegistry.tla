---------------------------- MODULE ConnRegistry ----------------------------
(***************************************************************************)
(* What the connection list of the runtime (dblib/ocdb.c) promises to the  *)
(* layer above it: a map from connection identifiers (the AT name of an    *)
(* EXEC SQL statement, or the default name) to connection ids, where an id *)
(* is handed out once and never again.                                     *)
(***************************************************************************)
EXTENDS Naturals

CONSTANTS Names,      \* connection identifiers
          MaxId       \* bound: connections ever created

VARIABLES reg,        \* reg[n]: the id registered under n, NoId if none
          next        \* the next id to hand out

vars == <<reg, next>>

NoId == 0

Init ==
  /\ reg = [n \in Names |-> NoId]
  /\ next = 1

Register(n) ==
  /\ reg[n] = NoId
  /\ next <= MaxId
  /\ reg' = [reg EXCEPT ![n] = next]
  /\ next' = next + 1

Unregister(n) ==
  /\ reg[n] # NoId
  /\ reg' = [reg EXCEPT ![n] = NoId]
  /\ UNCHANGED next

(* A name whose connection died is given a new connection. *)
Replace(n) ==
  /\ reg[n] # NoId
  /\ next <= MaxId
  /\ reg' = [reg EXCEPT ![n] = next]
  /\ next' = next + 1

Next == \E n \in Names : Register(n) \/ Unregister(n) \/ Replace(n)

Spec == Init /\ [][Next]_vars

TypeOK ==
  /\ reg \in [Names -> 0..MaxId]
  /\ next \in 1..(MaxId + 1)

(* No id is registered under two names, and every registered id was handed *)
(* out: the layer above may use an id as the identity of a connection.     *)
IdsUnique ==
  /\ \A n \in Names : reg[n] < next
  /\ \A m, n \in Names : reg[m] = reg[n] /\ reg[m] # NoId => m = n
=============================================================================
