--------------------------- MODULE RuntimeProofs ----------------------------
(***************************************************************************)
(* The inductive invariant of Runtime, and what follows from it. First the *)
(* session of PgSession before and after a statement; then Runtime: every  *)
(* action is one of four kinds of change to the sessions and the cursor    *)
(* list (SessionsStep, CursorStep, RestartStep, DeclareStep).  Then, call  *)
(* by call, what SQLCODE tells of losses and of blocks that end.           *)
(***************************************************************************)
EXTENDS Runtime, TLAPS

(* Portals live in a transaction block, on a link that is up. *)
PortalsInBlock(s) ==
  s.link # "up" \/ s.txn = "idle" => s.portal = NoPortals

SessionOK(s) == s \in Session /\ PortalsInBlock(s)

Live(s) == s.link = "up" /\ s.txn # "idle"

(* From s to t no portal appears but that of the cursors in C; and if t is *)
(* inside a block, so was s, and the portals of other cursors are the same.*)
Keeps(s, t, C) ==
  /\ \A d \in Cursors \ C : t.portal[d] # NoQuery => s.portal[d] # NoQuery
  /\ Live(t) => /\ Live(s)
                /\ \A d \in Cursors \ C : t.portal[d] = s.portal[d]

Fine(s, o, C) == SessionOK(o.s) /\ o.r \in Results /\ Keeps(s, o.s, C)

-----------------------------------------------------------------------------

(* The sessions before and after the life of a connection. *)
LEMMA NewSessions == SessionOK(NoSession) /\ SessionOK(Fresh)
BY TextsAssumption DEF SessionOK, PortalsInBlock, Session, Links, NoSession, Fresh, NoPortals

(* A link that dies takes the block and its portals with it. *)
LEMMA CutFine ==
  ASSUME NEW s, SessionOK(s)
  PROVE  /\ SessionOK(Cut(s)) /\ Keeps(s, Cut(s), {})
         /\ Cut(s).link = "bad" /\ Cut(s).portal = NoPortals
BY DEF SessionOK, PortalsInBlock, Session, Links, Cut, Ended, NoPortals, Keeps, Live

LEMMA EndedFine ==
  ASSUME NEW s, SessionOK(s)
  PROVE  /\ SessionOK(Ended(s)) /\ Keeps(s, Ended(s), {})
         /\ Ended(s).txn = "idle" /\ Ended(s).link = s.link
BY DEF SessionOK, PortalsInBlock, Session, Links, Ended, NoPortals, Keeps, Live

(* An error keeps the portals, and never ends a block. *)
LEMMA RefuseFine ==
  ASSUME NEW s, SessionOK(s), NEW r \in Results
  PROVE  /\ Fine(s, Refuse(s, r), {}) /\ Refuse(s, r).r = r
         /\ Refuse(s, r).s.portal = s.portal /\ Refuse(s, r).s.link = s.link
BY DEF SessionOK, PortalsInBlock, Session, Links, Refuse, Reply, Fine, Keeps, Live

LEMMA ReplyFine ==
  ASSUME NEW s, SessionOK(s), NEW r \in Results
  PROVE  Fine(s, Reply(s, r), {}) /\ Reply(s, r).r = r /\ Reply(s, r).s = s
BY DEF Reply, Fine, Keeps, Live, SessionOK

-----------------------------------------------------------------------------

(* No statement of a program but DECLARE opens a portal, and none but the  *)
(* BEGIN of the library enters a block.                                    *)
LEMMA TextFine ==
  ASSUME NEW s, SessionOK(s), NEW t \in Texts, NEW n, NEW o \in Text(s, t, n)
  PROVE  Fine(s, o, {})
<1>1. CASE t = "ROLLBACK"
  <2>1. Text(s, t, n) = Rollback(s)
    BY <1>1, TextsAssumption DEF Text
  <2>2. o.s = Ended(s) /\ o.r = "COMMAND_OK"
    BY <2>1 DEF Rollback, Reply
  <2> QED BY <2>2, EndedFine DEF Fine, Results
<1>2. CASE t \in Aliases \cup {"COMMIT"}
  <2>1. Text(s, t, n) = Commit(s)
    BY <1>2, TextsAssumption DEF Text
  <2>2. o.s = Ended(s) /\ o.r \in {"COMMAND_OK", "ERROR"}
    BY <2>1 DEF Commit, Reply
  <2> QED BY <2>2, EndedFine DEF Fine, Results
<1>3. CASE t # "ROLLBACK" /\ t \notin Aliases \cup {"COMMIT"}
  <2>1. Text(s, t, n) = Statement(s, t, n)
    BY <1>3, TextsAssumption DEF Text
  <2>2. o = Refuse(s, "ERROR") \/ \E r \in Results : o = Reply(s, r)
    BY <2>1 DEF Statement, Results
  <2> QED BY <2>2, RefuseFine, ReplyFine DEF Results
<1> QED BY <1>1, <1>2, <1>3

(* BEGIN outside a block enters one, without portals. *)
LEMMA BeginFine ==
  ASSUME NEW s, SessionOK(s), NEW o \in Text(s, "BEGIN", 0)
  PROVE  /\ SessionOK(o.s) /\ o.r \in Results
         /\ o.s.portal = s.portal /\ o.s.link = s.link
<1>1. Text(s, "BEGIN", 0) = Begin(s)
  BY TextsAssumption DEF Text, Texts
<1>2. CASE s.txn = "aborted"
  <2>1. o = Refuse(s, "ERROR") /\ "ERROR" \in Results
    BY <1>1, <1>2 DEF Begin, Results
  <2> QED BY <2>1, RefuseFine DEF Fine
<1>3. CASE s.txn # "aborted"
  <2>1. o.s = [s EXCEPT !.txn = "block"] /\ o.r = "COMMAND_OK"
    BY <1>1, <1>3 DEF Begin, Reply
  <2> QED BY <2>1 DEF SessionOK, PortalsInBlock, Session, Links, Results
<1> QED BY <1>2, <1>3

(* DECLARE opens the portal of its cursor, or nothing. *)
LEMMA DeclareFine ==
  ASSUME NEW s, SessionOK(s), NEW c \in Cursors, NEW q, NEW n,
         s.link = "up", NEW o \in Declare(s, c, q, n)
  PROVE  /\ Fine(s, o, {c})
         /\ Success(o.r)  => o.s.portal[c] # NoQuery
         /\ ~Success(o.r) => Keeps(s, o.s, {})
<1>1. CASE \E r \in Results : o = Refuse(s, r) /\ ~Success(r)
  BY <1>1, RefuseFine DEF Fine, Keeps
<1>2. CASE /\ s.txn = "block" /\ q \in Selects
           /\ o = Reply([s EXCEPT !.portal[c] = q], "COMMAND_OK")
  <2>1. o.s = [s EXCEPT !.portal[c] = q] /\ o.r = "COMMAND_OK"
    BY <1>2 DEF Reply
  <2>2. o.s \in Session /\ o.s.link = "up" /\ o.s.txn = "block"
    BY <1>2, <2>1 DEF SessionOK, Session
  <2>3. /\ \A d \in Cursors \ {c} : o.s.portal[d] = s.portal[d]
        /\ o.s.portal[c] = q
    BY <2>1 DEF SessionOK, Session
  <2>4. q # NoQuery
    BY <1>2, TextsAssumption DEF Texts
  <2> QED
    BY <1>2, <2>1, <2>2, <2>3, <2>4
    DEF Fine, SessionOK, PortalsInBlock, Keeps, Live, Success, Results
<1> QED BY <1>1, <1>2 DEF Declare, Success, Results, Session, SessionOK

(* CLOSE drops the portal of its cursor, or nothing. *)
LEMMA CloseFine ==
  ASSUME NEW s, SessionOK(s), NEW c \in Cursors, NEW o \in Close(s, c)
  PROVE  /\ Fine(s, o, {c})
         /\ Success(o.r)  => o.s.portal[c] = NoQuery
         /\ ~Success(o.r) => Keeps(s, o.s, {})
<1>1. CASE \E r \in Results : o = Refuse(s, r) /\ ~Success(r)
  BY <1>1, RefuseFine DEF Fine, Keeps
<1>2. CASE o = Reply([s EXCEPT !.portal[c] = NoQuery], "COMMAND_OK")
  <2>1. o.s = [s EXCEPT !.portal[c] = NoQuery] /\ o.r = "COMMAND_OK"
    BY <1>2 DEF Reply
  <2>2. o.s \in Session /\ o.s.link = s.link /\ o.s.txn = s.txn
    BY <2>1 DEF SessionOK, Session
  <2>3. /\ \A d \in Cursors \ {c} : o.s.portal[d] = s.portal[d]
        /\ o.s.portal[c] = NoQuery
    BY <2>1 DEF SessionOK, Session
  <2>4. o.s.portal \in [Cursors -> Selects \cup {NoQuery}]
    BY <2>2 DEF Session
  <2>5. s.portal = NoPortals => o.s.portal = NoPortals
    BY <2>3, <2>4 DEF NoPortals
  <2> QED
    BY <2>1, <2>2, <2>3, <2>5
    DEF Fine, SessionOK, PortalsInBlock, Keeps, Live, Success, Results
<1> QED BY <1>1, <1>2 DEF Close, Success, Results

(* FETCH neither opens nor drops a portal. *)
LEMMA FetchFine ==
  ASSUME NEW s, SessionOK(s), NEW c \in Cursors, NEW o \in Fetch(s, c)
  PROVE  Fine(s, o, {})
<1>1. \E r \in Results : o = Refuse(s, r) \/ o = Reply(s, r)
  BY DEF Fetch, Results
<1> QED BY <1>1, RefuseFine, ReplyFine

-----------------------------------------------------------------------------

(* What PQexec returns: an answer, a lost link, or nothing. *)
LEMMA ExecCases ==
  ASSUME NEW s, NEW A, NEW o \in PQexec(s, A)
  PROVE  \/ s.link = "up" /\ o \in A
         \/ o.s = Cut(s) /\ o.r = "FATAL"
         \/ o.s = s /\ o.r = "NULL" /\ s.link # "up"
BY DEF PQexec, Reply

LEMMA RestoredFine ==
  ASSUME NEW s, NEW t, SessionOK(s), SessionOK(t)
  PROVE  /\ SessionOK(Restored(s, t)) /\ Restored(s, t).portal = t.portal
         /\ Restored(s, t).link = t.link
         /\ Live(Restored(s, t)) <=> Live(t)
BY DEF Restored, SessionOK, PortalsInBlock, Session, Links, Live

(* What OCDB_PGExecParams returns: an answer whose session the savepoint   *)
(* restored or the link lost, a lost link, or nothing.                     *)
LEMMA ExecParamsCases ==
  ASSUME NEW s, NEW A, NEW o \in OCDB_PGExecParams(s, A)
  PROVE  \/ /\ s.link = "up"
            /\ \E a \in A : /\ o.r = a.r
                            /\ o.s \in {a.s, Restored(s, a.s), Cut(a.s)}
         \/ o.s = Cut(s) /\ o.r \in {"NULL", "FATAL"}
         \/ o.s = s /\ o.r = "NULL" /\ s.link # "up"
<1>1. CASE ~IgnoreError
  BY <1>1, ExecCases DEF OCDB_PGExecParams
<1>2. CASE IgnoreError
  BY <1>2 DEF OCDB_PGExecParams, Reply
<1> QED BY <1>1, <1>2

(* Fine, and the facts on a portal, carry over from the answers.           *)
LEMMA ExecFine ==
  ASSUME NEW s, SessionOK(s), NEW A, NEW C,
         s.link = "up" => \A a \in A : Fine(s, a, C),
         NEW o, o \in PQexec(s, A) \/ o \in OCDB_PGExecParams(s, A)
  PROVE  Fine(s, o, C)
<1>1. CASE o.s = Cut(s) /\ o.r \in {"NULL", "FATAL"}
  BY <1>1, CutFine DEF Fine, Keeps, Results
<1>2. CASE o.s = s /\ o.r = "NULL"
  BY <1>2 DEF Fine, Keeps, Live, Results
<1>3. CASE s.link = "up" /\ \E a \in A :
             o.r = a.r /\ o.s \in {a.s, Restored(s, a.s), Cut(a.s)}
  <2>1. PICK a \in A : o.r = a.r /\ o.s \in {a.s, Restored(s, a.s), Cut(a.s)}
    BY <1>3
  <2>2. Fine(s, a, C)
    BY <1>3
  <2>3. CASE o.s = a.s
    BY <2>1, <2>2, <2>3 DEF Fine
  <2>4. CASE o.s = Restored(s, a.s)
    BY <2>1, <2>2, <2>4, RestoredFine DEF Fine, Keeps
  <2>5. CASE o.s = Cut(a.s)
    BY <2>1, <2>2, <2>5, CutFine DEF Fine, Keeps, Live, NoPortals
  <2> QED BY <2>1, <2>3, <2>4, <2>5
<1>4. o \in PQexec(s, A) =>
        \/ s.link = "up" /\ o \in A
        \/ o.s = Cut(s) /\ o.r = "FATAL"
        \/ o.s = s /\ o.r = "NULL"
  BY ExecCases
<1> QED BY <1>1, <1>2, <1>3, <1>4, ExecParamsCases

-----------------------------------------------------------------------------
(* The invariant.                                                          *)

(* The two halves of TypeOK: what the invariant is about, and the rest. *)
TypeCore ==
  /\ reg \in [Names -> 0..MaxId]
  /\ next \in 1..(MaxId + 1)
  /\ ses \in [1..MaxId -> Session]
  /\ cur \in [Cursors -> Entry]

TypeRest ==
  /\ prep \in [Prepares -> Dynamics \cup {NoQuery}]
  /\ sqlcode \in Codes
  /\ last \in [op : Ops, id : 0..MaxId]
  /\ decl \in [Cursors -> Prepares \cup {"none", "static"}]
  /\ alive \in BOOLEAN

(* Ids in use were handed out; an open cursor has a connection. *)
IdsOld ==
  /\ \A n \in Names : reg[n] < next
  /\ \A c \in Cursors : cur[c].conn < next
  /\ \A c \in Cursors : cur[c].isOpened => cur[c].conn # NoId

SessionsOK == \A id \in 1..MaxId : PortalsInBlock(ses[id])

Core == TypeCore /\ IdsOld /\ SessionsOK /\ PortalOwned /\ FlagAccurate

IInv == Core /\ TypeRest

-----------------------------------------------------------------------------

LEMMA Sessions ==
  ASSUME Core, NEW id \in 1..MaxId
  PROVE  SessionOK(ses[id])
BY DEF Core, TypeCore, SessionsOK, SessionOK

(* The sessions change, each within Keeps, or one is new.                  *)
LEMMA SessionsStep ==
  ASSUME Core, cur' = cur,
         reg' \in [Names -> 0..MaxId], next' \in next..(MaxId + 1),
         \A n \in Names : reg'[n] < next',
         DOMAIN ses' = 1..MaxId, ses' = [id \in 1..MaxId |-> ses'[id]],
         \A id \in 1..MaxId :
           /\ SessionOK(ses'[id])
           /\ \/ Keeps(ses[id], ses'[id], {})
              \/ id >= next /\ ses'[id].portal = NoPortals
  PROVE  Core'
<1>1. TypeCore'
  BY RuntimeAssumption DEF Core, TypeCore, SessionOK
<1>2. IdsOld'
  <2>1. \A c \in Cursors : cur[c].conn \in Int
    BY DEF Core, TypeCore, Entry
  <2> QED BY <2>1, RuntimeAssumption DEF Core, TypeCore, IdsOld
<1>3. SessionsOK'
  BY DEF SessionsOK, SessionOK
<1>4. PortalOwned'
  <2> SUFFICES ASSUME NEW id \in 1..MaxId, NEW c \in Cursors,
                      ses'[id].portal[c] # NoQuery
               PROVE  cur[c].isOpened /\ cur[c].conn = id
    BY DEF PortalOwned
  <2>1. ses'[id].portal # NoPortals
    BY DEF NoPortals
  <2>2. ses[id].portal[c] # NoQuery
    BY <2>1 DEF Keeps
  <2> QED BY <2>2 DEF Core, PortalOwned
<1>5. FlagAccurate'
  <2> SUFFICES ASSUME NEW c \in Cursors, cur[c].isOpened, Live(ses'[cur[c].conn])
               PROVE  ses'[cur[c].conn].portal[c] # NoQuery
    BY DEF FlagAccurate, Live
  <2>1. cur[c].conn \in 1..MaxId /\ cur[c].conn < next
    BY DEF Core, TypeCore, Entry, IdsOld, NoId
  <2>2. Keeps(ses[cur[c].conn], ses'[cur[c].conn], {})
    BY <2>1, RuntimeAssumption DEF Core, TypeCore
  <2> QED BY <2>2 DEF Keeps, Live, Core, FlagAccurate
<1> QED BY <1>1, <1>2, <1>3, <1>4, <1>5 DEF Core

(* The common case: one session.                                           *)
LEMMA SentStep ==
  ASSUME Core, NEW id \in 1..MaxId, NEW t, SessionOK(t), Keeps(ses[id], t, {}),
         ses' = [ses EXCEPT ![id] = t], UNCHANGED <<reg, next, cur>>
  PROVE  Core'
<1>1. \A i \in 1..MaxId : ses'[i] = IF i = id THEN t ELSE ses[i]
  BY DEF Core, TypeCore
<1>2. \A i \in 1..MaxId : SessionOK(ses'[i]) /\ Keeps(ses[i], ses'[i], {})
  BY <1>1, Sessions DEF Keeps
<1>3. /\ reg' \in [Names -> 0..MaxId] /\ next' \in next..(MaxId + 1)
      /\ \A n \in Names : reg'[n] < next'
  BY RuntimeAssumption DEF Core, TypeCore, IdsOld
<1>4. DOMAIN ses' = 1..MaxId /\ ses' = [i \in 1..MaxId |-> ses'[i]]
  BY DEF Core, TypeCore
<1> QED BY <1>2, <1>3, <1>4, SessionsStep

(* A call on the session of cursor c, and its flag.                        *)
LEMMA CursorStep ==
  ASSUME Core, NEW c \in Cursors, Known(c), NEW t, NEW b \in BOOLEAN,
         SessionOK(t), Keeps(ses[cur[c].conn], t, {c}),
         t.portal[c] # NoQuery => b,
         b /\ Live(t) => t.portal[c] # NoQuery,
         ses' = [ses EXCEPT ![cur[c].conn] = t],
         cur' = [cur EXCEPT ![c].isOpened = b], UNCHANGED <<reg, next>>
  PROVE  Core'
<1> DEFINE id == cur[c].conn
<1>1. id \in 1..MaxId
  BY DEF Core, TypeCore, Entry, Known, NoId
<1>2. \A i \in 1..MaxId : ses'[i] = IF i = id THEN t ELSE ses[i]
  BY <1>1 DEF Core, TypeCore
<1>3. \A d \in Cursors : /\ cur'[d] \in Entry
                         /\ cur'[d].conn = cur[d].conn
                         /\ cur'[d].isOpened = IF d = c THEN b ELSE cur[d].isOpened
  BY DEF Core, TypeCore, Entry
<1>4. TypeCore'
  <2>1. cur' \in [Cursors -> Entry]
    BY <1>3 DEF Core, TypeCore
  <2>2. ses' \in [1..MaxId -> Session]
    BY <1>1 DEF Core, TypeCore, SessionOK
  <2> QED BY <2>1, <2>2 DEF Core, TypeCore
<1>5. IdsOld'
  BY <1>1, <1>3 DEF Core, IdsOld, NoId
<1>6. SessionsOK'
  BY <1>2 DEF Core, SessionsOK, SessionOK
<1>7. PortalOwned'
  <2> SUFFICES ASSUME NEW i \in 1..MaxId, NEW d \in Cursors,
                      ses'[i].portal[d] # NoQuery
               PROVE  cur'[d].isOpened /\ cur'[d].conn = i
    BY DEF PortalOwned
  <2>1. CASE i # id
    <3>1. cur[d].isOpened /\ cur[d].conn = i
      BY <1>2, <2>1 DEF Core, PortalOwned
    <3> QED BY <1>3, <2>1, <3>1
  <2>2. CASE i = id /\ d = c
    BY <1>2, <1>3, <2>2
  <2>3. CASE i = id /\ d # c
    <3>1. ses[id].portal[d] # NoQuery
      BY <1>2, <2>3 DEF Keeps
    <3> QED BY <1>1, <1>3, <2>3, <3>1 DEF Core, PortalOwned
  <2> QED BY <2>1, <2>2, <2>3
<1>8. FlagAccurate'
  <2> SUFFICES ASSUME NEW d \in Cursors, cur'[d].isOpened, Live(ses'[cur'[d].conn])
               PROVE  ses'[cur'[d].conn].portal[d] # NoQuery
    BY DEF FlagAccurate, Live
  <2>1. CASE d = c
    BY <1>1, <1>2, <1>3, <2>1
  <2>2. CASE d # c
    <3>1. cur[d].isOpened /\ cur[d].conn \in 1..MaxId /\ cur'[d].conn = cur[d].conn
      BY <1>3, <2>2 DEF Core, TypeCore, Entry, IdsOld, NoId
    <3>2. CASE cur[d].conn = id
      <4>1. Live(ses[id]) /\ t.portal[d] = ses[id].portal[d]
        BY <1>1, <1>2, <2>2, <3>1, <3>2 DEF Keeps
      <4>2. ses[id].portal[d] # NoQuery
        BY <3>1, <3>2, <4>1 DEF Core, FlagAccurate, Live
      <4> QED BY <1>1, <1>2, <3>1, <3>2, <4>1, <4>2
    <3>3. CASE cur[d].conn # id
      BY <1>2, <3>1, <3>3 DEF Core, FlagAccurate, Live
    <3> QED BY <3>2, <3>3
  <2> QED BY <2>1, <2>2
<1> QED BY <1>4, <1>5, <1>6, <1>7, <1>8 DEF Core

(* A session without portals, and no cursor of it marked open.             *)
LEMMA RestartStep ==
  ASSUME Core, NEW id \in 1..MaxId, NEW t, SessionOK(t), t.portal = NoPortals,
         ses' = [ses EXCEPT ![id] = t], cur' = clear_cursor_list(id),
         UNCHANGED <<reg, next>>
  PROVE  Core'
<1>1. \A i \in 1..MaxId : ses'[i] = IF i = id THEN t ELSE ses[i]
  BY DEF Core, TypeCore
<1>2. \A d \in Cursors :
        /\ cur'[d] \in Entry
        /\ cur'[d].conn = cur[d].conn
        /\ cur'[d].isOpened <=> (cur[d].isOpened /\ cur[d].conn # id)
  BY DEF Core, TypeCore, Entry, clear_cursor_list
<1>3. TypeCore'
  <2>1. cur' \in [Cursors -> Entry]
    BY <1>2 DEF clear_cursor_list
  <2>2. ses' \in [1..MaxId -> Session]
    BY DEF Core, TypeCore, SessionOK
  <2> QED BY <2>1, <2>2 DEF Core, TypeCore
<1>4. IdsOld'
  BY <1>2 DEF Core, IdsOld
<1>5. SessionsOK'
  BY <1>1 DEF Core, SessionsOK, SessionOK
<1>6. PortalOwned'
  <2> SUFFICES ASSUME NEW i \in 1..MaxId, NEW d \in Cursors,
                      ses'[i].portal[d] # NoQuery
               PROVE  cur'[d].isOpened /\ cur'[d].conn = i
    BY DEF PortalOwned
  <2>1. i # id /\ ses[i].portal[d] # NoQuery
    BY <1>1 DEF NoPortals
  <2> QED BY <1>2, <2>1 DEF Core, PortalOwned
<1>7. FlagAccurate'
  <2> SUFFICES ASSUME NEW d \in Cursors, cur'[d].isOpened, Live(ses'[cur'[d].conn])
               PROVE  ses'[cur'[d].conn].portal[d] # NoQuery
    BY DEF FlagAccurate, Live
  <2>1. cur[d].isOpened /\ cur[d].conn # id /\ cur'[d].conn = cur[d].conn
    BY <1>2
  <2>2. cur[d].conn \in 1..MaxId
    BY <2>1 DEF Core, TypeCore, Entry, IdsOld, NoId
  <2> QED BY <1>1, <2>1, <2>2 DEF Core, FlagAccurate, Live
<1> QED BY <1>3, <1>4, <1>5, <1>6, <1>7 DEF Core

(* A cursor that is not open is declared anew.                             *)
LEMMA DeclareStep ==
  ASSUME Core, NEW c \in Cursors, ~cur[c].isOpened,
         NEW e \in Entry, ~e.isOpened, e.conn < next,
         cur' = [cur EXCEPT ![c] = e], UNCHANGED <<reg, next, ses>>
  PROVE  Core'
<1>1. \A d \in Cursors : cur'[d] = IF d = c THEN e ELSE cur[d]
  BY DEF Core, TypeCore
<1>2. TypeCore'
  BY DEF Core, TypeCore
<1>3. IdsOld' /\ SessionsOK'
  BY <1>1 DEF Core, IdsOld, SessionsOK
<1>4. PortalOwned'
  <2> SUFFICES ASSUME NEW i \in 1..MaxId, NEW d \in Cursors,
                      ses[i].portal[d] # NoQuery
               PROVE  cur'[d].isOpened /\ cur'[d].conn = i
    BY DEF PortalOwned
  <2>1. cur[d].isOpened /\ cur[d].conn = i
    BY DEF Core, PortalOwned
  <2> QED BY <1>1, <2>1
<1>5. FlagAccurate'
  BY <1>1 DEF Core, FlagAccurate
<1> QED BY <1>2, <1>3, <1>4, <1>5 DEF Core

LEMMA SameStep ==
  ASSUME Core, UNCHANGED <<reg, next, ses, cur>>
  PROVE  Core'
BY DEF Core, TypeCore, IdsOld, SessionsOK, PortalOwned, FlagAccurate

-----------------------------------------------------------------------------
(* What the calls send.                                                    *)

(* A data statement, COMMIT or ROLLBACK. *)
LEMMA RunFine ==
  ASSUME NEW s, SessionOK(s), NEW t \in Texts, NEW n, NEW o \in Run(s, t, n)
  PROVE  Fine(s, o, {})
<1>1. \A m : \A a \in Text(s, t, m) : Fine(s, a, {})
  BY TextFine
<1>2. o \in OCDB_PGExecParams(s, Text(s, t, n)) \/ o \in PQexec(s, Text(s, t, 0))
  BY DEF Run
<1> QED BY <1>1, <1>2, ExecFine

(* COMMIT and ROLLBACK that succeed leave no portal.                       *)
LEMMA EndRun ==
  ASSUME NEW s, SessionOK(s), NEW t \in Texts, Ends(t),
         NEW o \in Run(s, t, NPar[t]), Success(o.r)
  PROVE  o.s.portal = NoPortals
<1>1. NPar[t] = 0
  BY NParAssumption DEF Ends
<1>2. o \in PQexec(s, Text(s, t, 0))
  BY <1>1 DEF Run
<1>3. o \in Text(s, t, 0)
  BY <1>2, ExecCases DEF Success
<1>4. Text(s, t, 0) \in {Commit(s), Rollback(s)}
  BY TextsAssumption DEF Ends, Text, Texts
<1>5. o.s = Ended(s)
  BY <1>3, <1>4 DEF Commit, Rollback, Reply
<1> QED BY <1>5 DEF Ended, SessionOK, Session

(* BEGIN, from a session without portals. *)
LEMMA BeginRun ==
  ASSUME NEW s, SessionOK(s), s.portal = NoPortals, NEW b \in Run(s, "BEGIN", 0)
  PROVE  SessionOK(b.s) /\ b.r \in Results /\ b.s.portal = NoPortals
<1>1. b \in PQexec(s, Text(s, "BEGIN", 0))
  BY DEF Run
<1>2. CASE b \in Text(s, "BEGIN", 0)
  BY <1>2, BeginFine
<1>3. CASE b.s = Cut(s) /\ b.r = "FATAL"
  BY <1>3, CutFine DEF Results
<1>4. CASE b.s = s /\ b.r = "NULL"
  BY <1>4 DEF Results
<1> QED BY <1>1, <1>2, <1>3, <1>4, ExecCases

(* The SQLCODE after a result is one of the codes.                         *)
LEMMA CodeTyped ==
  ASSUME NEW r \in Results
  PROVE  CodeOf(r, 0) \in Codes
<1>1. CASE r \in {"COMMAND_OK", "TUPLES"}
  BY <1>1 DEF CodeOf, Codes
<1>2. CASE r = "NO_TUPLES"
  BY <1>2 DEF CodeOf, Codes, NOT_FOUND
<1>3. CASE r = "ERROR"
  BY <1>3 DEF CodeOf, Codes
<1>4. CASE r \in {"E25P01", "E34000", "E42P03"}
  BY <1>4 DEF CodeOf, Codes, WARNING_UNKNOWN_PORTAL, WARNING_PORTAL_EXISTS
<1>5. CASE r \in {"FATAL", "NULL"}
  BY <1>5 DEF CodeOf, Codes
<1> QED BY <1>1, <1>2, <1>3, <1>4, <1>5 DEF Results

LEMMA LastTyped ==
  ASSUME NEW op \in Ops, NEW id \in 0..MaxId, NEW code \in Codes,
         Returns(op, id, code)
  PROVE  sqlcode' \in Codes /\ last' \in [op : Ops, id : 0..MaxId]
BY DEF Returns

-----------------------------------------------------------------------------
(* The actions.                                                            *)

LEMMA Ids ==
  ASSUME IInv
  PROVE  /\ \A n \in Names : reg[n] \in 0..MaxId
         /\ \A n \in Names : reg[n] # NoId => reg[n] \in 1..MaxId
         /\ \A c \in Cursors : cur[c].conn \in 0..MaxId
         /\ \A c \in Cursors : Known(c) => cur[c].conn \in 1..MaxId
         /\ NoId \in 0..MaxId
BY RuntimeAssumption DEF IInv, Core, TypeCore, Entry, NoId, Known

LEMMA LibCodes ==
  {0, NOT_FOUND, OUT_OF_MEMORY, EMPTY, NO_CONN, INVALID_STMT, CONNECT,
   WARNING_UNKNOWN_PORTAL, WARNING_PORTAL_EXISTS} \subseteq Codes
BY DEF Codes

LEMMA RefusedCall ==
  ASSUME IInv, NEW op \in Ops, NEW id \in 0..MaxId, NEW code \in Codes,
         Refused(op, id, code)
  PROVE  IInv'
<1>1. Core'
  BY SameStep DEF IInv, Refused
<1>2. sqlcode' \in Codes /\ last' \in [op : Ops, id : 0..MaxId]
  BY LastTyped DEF Refused
<1>3. TypeRest'
  BY <1>2 DEF IInv, TypeRest, Refused
<1> QED BY <1>1, <1>3 DEF IInv

LEMMA NotConnectedCall ==
  ASSUME IInv, NEW op \in Ops, NEW n \in Names, NotConnected(op, n)
  PROVE  IInv'
BY RefusedCall, Ids, LibCodes DEF NotConnected

LEMMA SentCall ==
  ASSUME IInv, NEW op \in Ops, NEW id \in 1..MaxId, NEW code \in Codes,
         NEW o, Fine(ses[id], o, {}), ses' = [ses EXCEPT ![id] = o.s],
         Returns(op, id, code), UNCHANGED <<reg, next, cur, prep, decl, alive>>
  PROVE  IInv'
<1>1. Core'
  BY SentStep DEF IInv, Fine
<1>2. sqlcode' \in Codes /\ last' \in [op : Ops, id : 0..MaxId]
  BY LastTyped
<1>3. TypeRest'
  BY <1>2 DEF IInv, TypeRest
<1> QED BY <1>1, <1>3 DEF IInv

LEMMA SentResult ==
  ASSUME IInv, NEW op \in Ops, NEW id \in 1..MaxId,
         NEW o, Fine(ses[id], o, {}), Sent(op, id, o)
  PROVE  IInv'
<1>1. CodeOf(o.r, 0) \in Codes
  BY CodeTyped DEF Fine
<1> QED BY <1>1, SentCall DEF Sent

LEMMA CursorCall ==
  ASSUME IInv, NEW op \in Ops, NEW c \in Cursors, Known(c),
         NEW code \in Codes, NEW o, Fine(ses[cur[c].conn], o, {c}),
         NEW b \in BOOLEAN, o.s.portal[c] # NoQuery => b,
         b /\ Live(o.s) => o.s.portal[c] # NoQuery,
         ses' = [ses EXCEPT ![cur[c].conn] = o.s],
         cur' = [cur EXCEPT ![c].isOpened = b],
         Returns(op, cur[c].conn, code), UNCHANGED <<reg, next, prep, decl, alive>>
  PROVE  IInv'
<1>1. Core'
  BY CursorStep DEF IInv, Fine
<1>2. sqlcode' \in Codes /\ last' \in [op : Ops, id : 0..MaxId]
  BY LastTyped, Ids
<1>3. TypeRest'
  BY <1>2 DEF IInv, TypeRest
<1> QED BY <1>1, <1>3 DEF IInv

LEMMA RestartedCall ==
  ASSUME IInv, NEW op \in Ops, NEW id \in 1..MaxId, NEW s, SessionOK(s),
         s.portal = NoPortals, NEW looked \in BOOLEAN,
         Restarted(op, id, s, looked)
  PROVE  IInv'
<1>1. PICK b \in Run(s, "BEGIN", 0) :
        /\ ses' = [ses EXCEPT ![id] = b.s]
        /\ cur' = clear_cursor_list(id)
        /\ Returns(op, id, IF looked THEN CodeOf(b.r, 0) ELSE 0)
        /\ UNCHANGED <<reg, next, prep, decl, alive>>
  BY DEF Restarted
<1>2. SessionOK(b.s) /\ b.r \in Results /\ b.s.portal = NoPortals
  BY BeginRun
<1>3. Core'
  BY <1>1, <1>2, RestartStep DEF IInv
<1>4. (IF looked THEN CodeOf(b.r, 0) ELSE 0) \in Codes
  BY <1>2, CodeTyped, LibCodes
<1>5. sqlcode' \in Codes /\ last' \in [op : Ops, id : 0..MaxId]
  BY <1>1, <1>4, LastTyped
<1>6. TypeRest'
  BY <1>1, <1>5 DEF IInv, TypeRest
<1> QED BY <1>3, <1>6 DEF IInv

-----------------------------------------------------------------------------

LEMMA ConnectStep ==
  ASSUME IInv, NEW n \in Names, _ocesqlConnect(n)
  PROVE  IInv'
<1>1. CASE Kept(n) /\ Refused("Connect", reg[n], 0)
  BY <1>1, RefusedCall, Ids, LibCodes DEF Ops
<1> DEFINE Ended1(i) == IF i = reg[n] THEN NoSession ELSE ses[i]
<1>2. Finished(n) = [i \in 1..MaxId |-> Ended1(i)]
  <2>1. ses = [i \in 1..MaxId |-> ses[i]]
    BY DEF IInv, Core, TypeCore
  <2>2. CASE reg[n] = NoId
    <3>1. \A i \in 1..MaxId : Ended1(i) = ses[i]
      BY <2>2, RuntimeAssumption DEF NoId
    <3> QED BY <2>1, <2>2, <3>1 DEF Finished
  <2>3. CASE reg[n] # NoId
    BY <2>1, <2>3 DEF Finished
  <2> QED BY <2>2, <2>3
<1>3. \A i \in 1..MaxId : SessionOK(Ended1(i)) /\ Keeps(ses[i], Ended1(i), {})
  BY Sessions, NewSessions DEF IInv, Keeps, Live, NoSession, NoPortals
<1> HIDE DEF Ended1
<1>4. ASSUME UNCHANGED <<cur, prep, decl, alive>>,
             NEW code \in {CONNECT, OUT_OF_MEMORY},
             reg' = [reg EXCEPT ![n] = NoId], ses' = Finished(n),
             UNCHANGED next, Returns("Connect", NoId, code)
      PROVE  IInv'
  <2>1. /\ reg' \in [Names -> 0..MaxId] /\ next' \in next..(MaxId + 1)
        /\ \A m \in Names : reg'[m] < next'
    BY <1>4, RuntimeAssumption DEF IInv, Core, TypeCore, IdsOld, NoId
  <2>2. /\ DOMAIN ses' = 1..MaxId /\ ses' = [i \in 1..MaxId |-> ses'[i]]
        /\ \A i \in 1..MaxId : SessionOK(ses'[i]) /\ Keeps(ses[i], ses'[i], {})
    BY <1>2, <1>3, <1>4
  <2>3. Core'
    BY <1>4, <2>1, <2>2, SessionsStep DEF IInv
  <2>4. code \in Codes
    BY LibCodes
  <2>5. TypeRest'
    BY <1>4, <2>4, LastTyped, Ids DEF IInv, TypeRest, Ops
  <2> QED BY <2>3, <2>5 DEF IInv
<1>5. ASSUME UNCHANGED <<cur, prep, decl, alive>>, next <= MaxId,
             reg' = [reg EXCEPT ![n] = next], next' = next + 1,
             NEW s \in {Fresh, Cut(Fresh)}, NEW o \in Run(s, "BEGIN", 0),
             ses' = [Finished(n) EXCEPT ![next] = o.s],
             Returns("Connect", next, CodeOf(o.r, 0))
      PROVE  IInv'
  <2>1. /\ next \in 1..MaxId
        /\ reg' \in [Names -> 0..MaxId] /\ next' \in next..(MaxId + 1)
        /\ \A m \in Names : reg'[m] < next'
    BY <1>5, RuntimeAssumption DEF IInv, Core, TypeCore, IdsOld
  <2>2. SessionOK(s) /\ s.portal = NoPortals
    BY NewSessions, CutFine DEF Fresh
  <2>3. SessionOK(o.s) /\ o.r \in Results /\ o.s.portal = NoPortals
    BY <2>2, BeginRun
  <2>4. \A i \in 1..MaxId : ses'[i] = IF i = next THEN o.s ELSE Ended1(i)
    BY <1>2, <1>5, <2>1
  <2>9. DOMAIN ses' = 1..MaxId /\ ses' = [i \in 1..MaxId |-> ses'[i]]
    BY <1>2, <1>5
  <2>5. \A i \in 1..MaxId :
          /\ SessionOK(ses'[i])
          /\ \/ Keeps(ses[i], ses'[i], {})
             \/ i >= next /\ ses'[i].portal = NoPortals
    <3> SUFFICES ASSUME NEW i \in 1..MaxId
                 PROVE  /\ SessionOK(ses'[i])
                        /\ \/ Keeps(ses[i], ses'[i], {})
                           \/ i >= next /\ ses'[i].portal = NoPortals
      OBVIOUS
    <3>1. CASE i = next
      BY <2>1, <2>3, <2>4, <3>1
    <3>2. CASE i # next
      BY <1>3, <2>4, <3>2
    <3> QED BY <3>1, <3>2
  <2>6. Core'
    BY <1>5, <2>1, <2>9, <2>5, SessionsStep DEF IInv
  <2>7. CodeOf(o.r, 0) \in Codes /\ next \in 0..MaxId
    BY <2>1, <2>3, CodeTyped
  <2>8. TypeRest'
    BY <1>5, <2>7, LastTyped DEF IInv, TypeRest, Ops
  <2> QED BY <2>6, <2>8 DEF IInv
<1> QED BY <1>1, <1>4, <1>5 DEF _ocesqlConnect

LEMMA DisconnectStep ==
  ASSUME IInv, NEW n \in Names, OCESQLDisconnect(n)
  PROVE  IInv'
<1>1. CASE NotConnected("Disconnect", n)
  BY <1>1, NotConnectedCall DEF Ops
<1>2. CASE /\ reg[n] # NoId
           /\ ses' = [ses EXCEPT ![reg[n]] = NoSession]
           /\ reg' = [reg EXCEPT ![n] = NoId]
           /\ alive
           /\ last' = [op |-> "Disconnect", id |-> reg[n]]
           /\ UNCHANGED <<next, cur, prep, sqlcode, decl, alive>>
  <2>1. /\ reg' \in [Names -> 0..MaxId] /\ next' \in next..(MaxId + 1)
        /\ \A m \in Names : reg'[m] < next'
    BY <1>2, RuntimeAssumption DEF IInv, Core, TypeCore, IdsOld, NoId
  <2>2. \A i \in 1..MaxId : ses'[i] = IF i = reg[n] THEN NoSession ELSE ses[i]
    BY <1>2 DEF IInv, Core, TypeCore
  <2>3. DOMAIN ses' = 1..MaxId /\ ses' = [i \in 1..MaxId |-> ses'[i]]
    BY <1>2 DEF IInv, Core, TypeCore
  <2>4. \A i \in 1..MaxId : SessionOK(ses'[i]) /\ Keeps(ses[i], ses'[i], {})
    BY <2>2, Sessions, NewSessions DEF IInv, Keeps, Live, NoSession, NoPortals
  <2>5. Core'
    BY <1>2, <2>1, <2>3, <2>4, SessionsStep DEF IInv
  <2>6. TypeRest'
    BY <1>2, Ids DEF IInv, TypeRest, Ops
  <2> QED BY <2>5, <2>6 DEF IInv
<1> QED BY <1>1, <1>2 DEF OCESQLDisconnect

LEMMA ExecStep ==
  ASSUME IInv, NEW n \in Names, NEW t \in Texts, _ocesqlExec(n, t)
  PROVE  IInv'
<1> DEFINE op == IF t \in {"COMMIT", "ROLLBACK"} THEN t ELSE "Exec"
<1>1. op \in Ops
  BY DEF Ops
<1> HIDE DEF op
<1>2. CASE NotConnected(op, n)
  BY <1>1, <1>2, NotConnectedCall
<1>3. ASSUME reg[n] # NoId, NEW o \in Run(ses[reg[n]], t, NPar[t]),
             IF Success(o.r) /\ Ends(t) THEN Restarted(op, reg[n], o.s, TRUE)
                                        ELSE Sent(op, reg[n], o)
      PROVE  IInv'
  <2>1. reg[n] \in 1..MaxId
    BY <1>3, Ids
  <2>2. SessionOK(ses[reg[n]])
    BY <2>1, Sessions DEF IInv
  <2>3. Fine(ses[reg[n]], o, {})
    BY <1>3, <2>2, RunFine
  <2>4. CASE Success(o.r) /\ Ends(t)
    <3>1. o.s.portal = NoPortals
      BY <1>3, <2>2, <2>4, EndRun
    <3> QED BY <1>1, <1>3, <2>1, <2>3, <2>4, <3>1, RestartedCall DEF Fine
  <2>5. CASE ~(Success(o.r) /\ Ends(t))
    BY <1>1, <1>3, <2>1, <2>3, <2>5, SentResult
  <2> QED BY <2>4, <2>5
<1> QED BY <1>2, <1>3 DEF _ocesqlExec, op

LEMMA SelectStep ==
  ASSUME IInv, NEW n \in Names, NEW q \in Statics, NEW fits \in BOOLEAN,
         _ocesqlExecSelectIntoOne(n, q, fits)
  PROVE  IInv'
<1>1. CASE NotConnected("SelectInto", n)
  BY <1>1, NotConnectedCall DEF Ops
<1>2. ASSUME reg[n] # NoId, NEW o \in Run(ses[reg[n]], q, NPar[q]),
             ses' = [ses EXCEPT ![reg[n]] = o.s],
             Returns("SelectInto", reg[n],
                     IF Success(o.r) /\ ~fits THEN EMPTY ELSE CodeOf(o.r, 0)),
             UNCHANGED <<reg, next, cur, prep, decl, alive>>
      PROVE  IInv'
  <2>1. reg[n] \in 1..MaxId
    BY <1>2, Ids
  <2>2. Fine(ses[reg[n]], o, {})
    BY <1>2, <2>1, Sessions, RunFine, RuntimeAssumption DEF IInv, Texts
  <2>3. (IF Success(o.r) /\ ~fits THEN EMPTY ELSE CodeOf(o.r, 0)) \in Codes
    BY <2>2, CodeTyped, LibCodes DEF Fine
  <2> QED BY <1>2, <2>1, <2>2, <2>3, SentCall DEF Ops
<1> QED BY <1>1, <1>2 DEF _ocesqlExecSelectIntoOne

LEMMA PrepareStep ==
  ASSUME IInv, NEW p \in Prepares, NEW t \in Dynamics, OCESQLPrepare(p, t)
  PROVE  IInv'
<1>1. Core'
  BY SameStep DEF IInv, OCESQLPrepare
<1>2. TypeRest'
  BY Ids DEF IInv, TypeRest, OCESQLPrepare, Ops
<1> QED BY <1>1, <1>2 DEF IInv

LEMMA ExecPrepareStep ==
  ASSUME IInv, NEW n \in Names, NEW p \in Prepares, NEW args,
         _ocesqlExecPrepare(n, p, args)
  PROVE  IInv'
<1>1. CASE NotConnected("ExecPrepare", n)
  BY <1>1, NotConnectedCall DEF Ops
<1>2. CASE \E code \in {INVALID_STMT, EMPTY} : Refused("ExecPrepare", reg[n], code)
  BY <1>2, RefusedCall, Ids, LibCodes DEF Ops
<1>3. ASSUME reg[n] # NoId, prep[p] # NoQuery, args = NPar[prep[p]],
             NEW o \in Run(ses[reg[n]], prep[p], args),
             IF Success(o.r) /\ Ends(prep[p])
             THEN Restarted("ExecPrepare", reg[n], o.s, FALSE)
             ELSE Sent("ExecPrepare", reg[n], o)
      PROVE  IInv'
  <2>1. reg[n] \in 1..MaxId
    BY <1>3, Ids
  <2>2. SessionOK(ses[reg[n]]) /\ prep[p] \in Texts
    BY <1>3, <2>1, Sessions, RuntimeAssumption DEF IInv, TypeRest
  <2>3. Fine(ses[reg[n]], o, {})
    BY <1>3, <2>2, RunFine
  <2>4. CASE Success(o.r) /\ Ends(prep[p])
    <3>1. o.s.portal = NoPortals
      BY <1>3, <2>2, <2>4, EndRun
    <3> QED BY <1>3, <2>1, <2>3, <2>4, <3>1, RestartedCall DEF Fine, Ops
  <2>5. CASE ~(Success(o.r) /\ Ends(prep[p]))
    BY <1>3, <2>1, <2>3, <2>5, SentResult DEF Ops
  <2> QED BY <2>4, <2>5
<1> QED BY <1>1, <1>2, <1>3 DEF _ocesqlExecPrepare

(* Both kinds of DECLARE end in DeclareStep. *)
LEMMA Declared ==
  ASSUME IInv, NEW op \in Ops, NEW n \in Names, NEW c \in Cursors,
         reg[n] # NoId, ~cur[c].isOpened, NEW e \in Entry,
         e.conn = reg[n], ~e.isOpened, cur' = [cur EXCEPT ![c] = e],
         NEW d \in Prepares \cup {"none", "static"}, decl' = [decl EXCEPT ![c] = d],
         Returns(op, reg[n], 0), UNCHANGED <<reg, next, ses, prep, alive>>
  PROVE  IInv'
<1>1. e.conn < next
  BY DEF IInv, Core, IdsOld
<1>2. Core'
  BY <1>1, DeclareStep DEF IInv
<1>3. sqlcode' \in Codes /\ last' \in [op : Ops, id : 0..MaxId]
  BY LastTyped, LibCodes, Ids
<1>4. TypeRest'
  BY <1>3 DEF IInv, TypeRest
<1> QED BY <1>2, <1>4 DEF IInv

LEMMA CrashStep ==
  ASSUME IInv, NEW op \in Ops, NEW id \in 0..MaxId, Crash(op, id)
  PROVE  IInv'
<1>1. \A i \in 1..MaxId : SessionOK(ses'[i]) /\ Keeps(ses[i], ses'[i], {})
  BY NewSessions DEF Crash, Keeps, Live, NoSession, NoPortals
<1>2. /\ reg' \in [Names -> 0..MaxId] /\ next' \in next..(MaxId + 1)
      /\ \A m \in Names : reg'[m] < next'
  BY RuntimeAssumption DEF IInv, Core, TypeCore, IdsOld, Crash
<1>3. DOMAIN ses' = 1..MaxId /\ ses' = [i \in 1..MaxId |-> ses'[i]]
  BY DEF Crash
<1>4. Core'
  BY <1>1, <1>2, <1>3, SessionsStep DEF IInv, Crash
<1>5. TypeRest'
  BY DEF IInv, TypeRest, Crash
<1> QED BY <1>4, <1>5 DEF IInv

LEMMA StaticDeclareStep ==
  ASSUME IInv, NEW n \in Names, NEW c \in Cursors, NEW q \in Statics,
         _ocesqlCursorDeclare(n, c, q)
  PROVE  IInv'
<1> DEFINE e == [cur[c] EXCEPT !.conn = reg[n], !.query = q]
<1>1. CASE NotConnected("Declare", n)
  BY <1>1, NotConnectedCall DEF Ops
<1>2. CASE Refused("Declare", reg[n], WARNING_PORTAL_EXISTS)
  BY <1>2, RefusedCall, Ids, LibCodes DEF Ops
<1>3. CASE /\ reg[n] # NoId /\ ~cur[c].isOpened
           /\ cur' = [cur EXCEPT ![c].conn = reg[n], ![c].query = q]
           /\ decl' = [decl EXCEPT ![c] = "static"]
           /\ Returns("Declare", reg[n], 0)
           /\ UNCHANGED <<reg, next, ses, prep, alive>>
  <2>1. cur[c] \in Entry
    BY DEF IInv, Core, TypeCore
  <2>2. e \in Entry /\ e.conn = reg[n] /\ e.isOpened = cur[c].isOpened
    BY <2>1, Ids DEF Entry
  <2>3. cur' = [cur EXCEPT ![c] = e]
    BY <1>3 DEF IInv, Core, TypeCore
  <2> HIDE DEF e
  <2> QED BY <1>3, <2>2, <2>3, Declared DEF Ops
<1>4. CASE Crash("Declare", reg[n])
  BY <1>4, CrashStep, Ids DEF Ops
<1> QED BY <1>1, <1>2, <1>3, <1>4 DEF _ocesqlCursorDeclare

LEMMA PreparedDeclareStep ==
  ASSUME IInv, NEW n \in Names, NEW c \in Cursors, NEW p \in Prepares,
         _ocesqlPreparedCursorDeclare(n, c, p)
  PROVE  IInv'
<1> DEFINE e == [cur[c] EXCEPT !.conn = reg[n], !.sp = p]
<1>1. CASE NotConnected("DeclarePrepared", n)
  BY <1>1, NotConnectedCall DEF Ops
<1>2. CASE \E code \in {INVALID_STMT, WARNING_PORTAL_EXISTS} :
             Refused("DeclarePrepared", reg[n], code)
  BY <1>2, RefusedCall, Ids, LibCodes DEF Ops
<1>3. CASE /\ reg[n] # NoId /\ ~cur[c].isOpened
           /\ cur' = [cur EXCEPT ![c].conn = reg[n], ![c].sp = p]
           /\ decl' = [decl EXCEPT ![c] = p]
           /\ Returns("DeclarePrepared", reg[n], 0)
           /\ UNCHANGED <<reg, next, ses, prep, alive>>
  <2>1. cur[c] \in Entry
    BY DEF IInv, Core, TypeCore
  <2>2. e \in Entry /\ e.conn = reg[n] /\ e.isOpened = cur[c].isOpened
    BY <2>1, Ids DEF Entry
  <2>3. cur' = [cur EXCEPT ![c] = e]
    BY <1>3 DEF IInv, Core, TypeCore
  <2> HIDE DEF e
  <2> QED BY <1>3, <2>2, <2>3, Declared DEF Ops
<1> QED BY <1>1, <1>2, <1>3 DEF _ocesqlPreparedCursorDeclare

(* CLOSE, by itself or at the head of OPEN. *)
LEMMA CloseRun ==
  ASSUME IInv, NEW c \in Cursors, Known(c),
         NEW o \in PQexec(ses[cur[c].conn], Close(ses[cur[c].conn], c))
  PROVE  /\ Fine(ses[cur[c].conn], o, {c})
         /\ Success(o.r)  => o.s.portal[c] = NoQuery
         /\ ~Success(o.r) => Keeps(ses[cur[c].conn], o.s, {})
<1> DEFINE s == ses[cur[c].conn]
<1>1. SessionOK(s)
  BY Ids, Sessions DEF IInv
<1> HIDE DEF s
<1>2. o \in PQexec(s, Close(s, c))
  BY DEF s
<1>3. \A a \in Close(s, c) : Fine(s, a, {c})
  BY <1>1, CloseFine
<1>4. Fine(s, o, {c})
  BY <1>1, <1>2, <1>3, ExecFine
<1>5. CASE o \in Close(s, c)
  BY <1>1, <1>4, <1>5, CloseFine DEF s
<1>6. CASE o.s = Cut(s) /\ o.r = "FATAL"
  BY <1>1, <1>4, <1>6, CutFine DEF s, Success
<1>7. CASE o.s = s /\ o.r = "NULL"
  BY <1>4, <1>7 DEF s, Success, Keeps
<1> QED BY <1>2, <1>5, <1>6, <1>7, ExecCases

LEMMA CloseStep ==
  ASSUME IInv, NEW c \in Cursors, OCESQLCursorClose(c)
  PROVE  IInv'
<1>1. CASE Refused("Close", NoId, WARNING_UNKNOWN_PORTAL) \/ Refused("Close", cur[c].conn, 0)
  BY <1>1, RefusedCall, Ids, LibCodes DEF Ops
<1>2. ASSUME Known(c), cur[c].isOpened,
             NEW o \in PQexec(ses[cur[c].conn], Close(ses[cur[c].conn], c)),
             ses' = [ses EXCEPT ![cur[c].conn] = o.s],
             cur' = [cur EXCEPT ![c].isOpened = ~Success(o.r)],
             Returns("Close", cur[c].conn, CodeOf(o.r, 0)),
             UNCHANGED <<reg, next, prep, decl, alive>>
      PROVE  IInv'
  <2>1. /\ Fine(ses[cur[c].conn], o, {c})
        /\ Success(o.r)  => o.s.portal[c] = NoQuery
        /\ ~Success(o.r) => Keeps(ses[cur[c].conn], o.s, {})
    BY <1>2, CloseRun
  <2>2. ~Success(o.r) /\ Live(o.s) => o.s.portal[c] # NoQuery
    BY <1>2, <2>1 DEF IInv, Core, FlagAccurate, Keeps, Live
  <2>3. CodeOf(o.r, 0) \in Codes
    BY <2>1, CodeTyped DEF Fine
  <2>4. (~Success(o.r)) \in BOOLEAN
    BY DEF Success
  <2> QED BY <1>2, <2>1, <2>2, <2>3, <2>4, CursorCall DEF Ops
<1> QED BY <1>1, <1>2 DEF OCESQLCursorClose

(* The CLOSE that OPEN starts with. *)
LEMMA ClosingRun ==
  ASSUME IInv, NEW c \in Cursors, Known(c), NEW o \in Closing(c)
  PROVE  /\ Fine(ses[cur[c].conn], o, {c})
         /\ Success(o.r)  => o.s.portal[c] = NoQuery
         /\ ~Success(o.r) => Keeps(ses[cur[c].conn], o.s, {})
<1>1. CASE cur[c].isOpened
  BY <1>1, CloseRun DEF Closing
<1>2. CASE ~cur[c].isOpened
  <2> DEFINE s == ses[cur[c].conn]
  <2>1. cur[c].conn \in 1..MaxId /\ SessionOK(s)
    BY Ids, Sessions DEF IInv
  <2>2. o = Reply(s, "COMMAND_OK")
    BY <1>2 DEF Closing
  <2>3. s.portal[c] = NoQuery
    BY <1>2, <2>1 DEF IInv, Core, PortalOwned
  <2> HIDE DEF s
  <2>4. Fine(s, o, {}) /\ o.s = s /\ o.r = "COMMAND_OK"
    BY <2>1, <2>2, ReplyFine DEF Results
  <2> QED BY <2>3, <2>4 DEF s, Fine, Keeps, Success
<1> QED BY <1>1, <1>2

(* The DECLARE that it goes on with, on a session where the name is free. *)
LEMMA DeclareRun ==
  ASSUME NEW s, SessionOK(s), NEW c \in Cursors, s.portal[c] = NoQuery,
         NEW q, NEW n, NEW d,
         \/ d \in PQexec(s, Declare(s, c, q, n))
         \/ d \in OCDB_PGExecParams(s, Declare(s, c, q, n))
  PROVE  /\ Fine(s, d, {c})
         /\ d.s.portal[c] # NoQuery => Success(d.r)
         /\ Success(d.r) /\ Live(d.s) => d.s.portal[c] # NoQuery
<1> DEFINE A == Declare(s, c, q, n)
<1>1. s.link = "up" => \A a \in A : Fine(s, a, {c})
  BY DeclareFine
<1>2. Fine(s, d, {c})
  BY <1>1, ExecFine
<1>3. ASSUME s.link = "up", NEW a \in A, d.r = a.r,
             d.s \in {a.s, Restored(s, a.s), Cut(a.s)}
      PROVE  /\ d.s.portal[c] # NoQuery => Success(d.r)
             /\ Success(d.r) /\ Live(d.s) => d.s.portal[c] # NoQuery
  <2>1. /\ SessionOK(a.s)
        /\ Success(a.r)  => a.s.portal[c] # NoQuery
        /\ ~Success(a.r) => Keeps(s, a.s, {})
    BY <1>3, DeclareFine DEF Fine
  <2>2. ~Success(a.r) => a.s.portal[c] = NoQuery
    BY <2>1 DEF Keeps
  <2>3. CASE d.s = Cut(a.s)
    BY <2>1, <2>3, CutFine DEF Live, NoPortals
  <2>4. CASE d.s \in {a.s, Restored(s, a.s)}
    <3>1. d.s.portal = a.s.portal
      BY <2>1, <2>4, RestoredFine
    <3> QED BY <1>3, <2>1, <2>2, <3>1
  <2> QED BY <1>3, <2>3, <2>4
<1>4. CASE d.s = Cut(s) /\ d.r \in {"NULL", "FATAL"}
  BY <1>2, <1>4, CutFine DEF Success, NoPortals
<1>5. CASE d.s = s /\ d.r = "NULL"
  BY <1>2, <1>5 DEF Success
<1> HIDE DEF A
<1>6. CASE d \in PQexec(s, A)
  BY <1>2, <1>3, <1>4, <1>5, <1>6, ExecCases
<1>7. CASE d \in OCDB_PGExecParams(s, A)
  BY <1>2, <1>3, <1>4, <1>5, <1>7, ExecParamsCases
<1> QED BY <1>6, <1>7 DEF A

LEMMA OpeningStep ==
  ASSUME IInv, NEW op \in Ops, NEW c \in Cursors, Known(c), NEW n,
         Opening(op, c, n)
  PROVE  IInv'
<1> DEFINE id == cur[c].conn
<1>1. id \in 1..MaxId
  BY Ids
<1> HIDE DEF id
<1>2. ASSUME NEW o \in Closing(c), ~Success(o.r), Sent(op, id, o)
      PROVE  IInv'
  <2>1. Fine(ses[id], o, {})
    BY <1>2, ClosingRun DEF Fine, id
  <2> QED BY <1>1, <1>2, <2>1, SentResult
<1>3. ASSUME NEW o \in Closing(c), Success(o.r), NEW d \in Declaring(o.s, c, n),
             ses' = [ses EXCEPT ![id] = d.s],
             cur' = [cur EXCEPT ![c].isOpened = Success(d.r)],
             Returns(op, id, CodeOf(d.r, 0)),
             UNCHANGED <<reg, next, prep, decl, alive>>
      PROVE  IInv'
  <2>1. Fine(ses[id], o, {c}) /\ o.s.portal[c] = NoQuery
    BY <1>3, ClosingRun DEF id
  <2>2. \E q, m : \/ d \in PQexec(o.s, Declare(o.s, c, q, m))
                  \/ d \in OCDB_PGExecParams(o.s, Declare(o.s, c, q, m))
    BY <1>3 DEF Declaring
  <2>3. /\ Fine(o.s, d, {c})
        /\ d.s.portal[c] # NoQuery => Success(d.r)
        /\ Success(d.r) /\ Live(d.s) => d.s.portal[c] # NoQuery
    BY <2>1, <2>2, DeclareRun DEF Fine
  <2>4. Fine(ses[id], d, {c})
    BY <2>1, <2>3 DEF Fine, Keeps
  <2>5. CodeOf(d.r, 0) \in Codes /\ Success(d.r) \in BOOLEAN
    BY <2>4, CodeTyped DEF Fine, Success
  <2> QED BY <1>3, <2>3, <2>4, <2>5, CursorCall DEF id
<1> QED BY <1>2, <1>3 DEF Opening, id

LEMMA OpenStep ==
  ASSUME IInv, NEW c \in Cursors, OCESQLCursorOpen(c)
  PROVE  IInv'
<1>1. CASE Refused("Open", NoId, WARNING_UNKNOWN_PORTAL)
  BY <1>1, RefusedCall, Ids, LibCodes DEF Ops
<1>2. CASE Known(c) /\ Opening("Open", c, 0)
  BY <1>2, OpeningStep DEF Ops
<1> QED BY <1>1, <1>2 DEF OCESQLCursorOpen

LEMMA OpenParamsStep ==
  ASSUME IInv, NEW c \in Cursors, NEW n, OCESQLCursorOpenParams(c, n)
  PROVE  IInv'
<1>1. CASE Refused("OpenParams", NoId, WARNING_UNKNOWN_PORTAL)
  BY <1>1, RefusedCall, Ids, LibCodes DEF Ops
<1>2. CASE \E code \in {INVALID_STMT, EMPTY} :
             Refused("OpenParams", cur[c].conn, code)
  BY <1>2, RefusedCall, Ids, LibCodes DEF Ops
<1>3. CASE Known(c) /\ Opening("OpenParams", c, n)
  BY <1>3, OpeningStep DEF Ops
<1> QED BY <1>1, <1>2, <1>3 DEF OCESQLCursorOpenParams

(* FETCH, whose result becomes one of the codes. *)
LEMMA FetchStep ==
  ASSUME IInv, NEW op \in Ops, NEW c \in Cursors, Known(c), NEW code \in Codes,
         NEW o \in PQexec(ses[cur[c].conn], Fetch(ses[cur[c].conn], c)),
         ses' = [ses EXCEPT ![cur[c].conn] = o.s],
         Returns(op, cur[c].conn, code), UNCHANGED <<reg, next, cur, prep, decl, alive>>
  PROVE  IInv'
<1> DEFINE id == cur[c].conn
<1>1. id \in 1..MaxId /\ SessionOK(ses[id])
  BY Ids, Sessions DEF IInv
<1> HIDE DEF id
<1>2. \A a \in Fetch(ses[id], c) : Fine(ses[id], a, {})
  BY <1>1, FetchFine
<1>3. Fine(ses[id], o, {})
  BY <1>1, <1>2, ExecFine DEF id
<1> QED BY <1>1, <1>3, SentCall DEF id

LEMMA FetchRun ==
  ASSUME IInv, NEW c \in Cursors, Known(c),
         NEW o \in PQexec(ses[cur[c].conn], Fetch(ses[cur[c].conn], c))
  PROVE  CodeOf(o.r, 0) \in Codes
<1>1. SessionOK(ses[cur[c].conn])
  BY Ids, Sessions DEF IInv
<1>2. \A a \in Fetch(ses[cur[c].conn], c) : Fine(ses[cur[c].conn], a, {})
  BY <1>1, FetchFine
<1>3. o.r \in Results
  BY <1>1, <1>2, ExecFine DEF Fine
<1> QED BY <1>3, CodeTyped

LEMMA FetchOneStep ==
  ASSUME IInv, NEW c \in Cursors, NEW fits, OCESQLCursorFetchOne(c, fits)
  PROVE  IInv'
<1>1. CASE Refused("FetchOne", NoId, WARNING_UNKNOWN_PORTAL)
  BY <1>1, RefusedCall, Ids, LibCodes DEF Ops
<1>2. ASSUME Known(c),
             NEW o \in PQexec(ses[cur[c].conn], Fetch(ses[cur[c].conn], c)),
             ses' = [ses EXCEPT ![cur[c].conn] = o.s],
             Returns("FetchOne", cur[c].conn,
                     IF Success(o.r) /\ ~fits THEN EMPTY ELSE CodeOf(o.r, 0)),
             UNCHANGED <<reg, next, cur, prep, decl, alive>>
      PROVE  IInv'
  <2>1. (IF Success(o.r) /\ ~fits THEN EMPTY ELSE CodeOf(o.r, 0)) \in Codes
    BY <1>2, FetchRun, LibCodes
  <2> QED BY <1>2, <2>1, FetchStep DEF Ops
<1> QED BY <1>1, <1>2 DEF OCESQLCursorFetchOne

LEMMA FetchOccursStep ==
  ASSUME IInv, NEW c \in Cursors, NEW fits, NEW over500,
         OCESQLCursorFetchOccurs(c, fits, over500)
  PROVE  IInv'
<1>1. CASE \E code \in {EMPTY, WARNING_UNKNOWN_PORTAL} :
             Refused("FetchOccurs", NoId, code)
  BY <1>1, RefusedCall, Ids, LibCodes DEF Ops
<1>2. ASSUME Known(c),
             NEW o \in PQexec(ses[cur[c].conn], Fetch(ses[cur[c].conn], c)),
             ses' = [ses EXCEPT ![cur[c].conn] = o.s],
             Returns("FetchOccurs", cur[c].conn,
                     IF Success(o.r) /\ fits THEN CodeOf(o.r, 0) ELSE EMPTY),
             UNCHANGED <<reg, next, cur, prep, decl, alive>>
      PROVE  IInv'
  <2>1. (IF Success(o.r) /\ fits THEN CodeOf(o.r, 0) ELSE EMPTY) \in Codes
    BY <1>2, FetchRun, LibCodes
  <2> QED BY <1>2, <2>1, FetchStep DEF Ops
<1> QED BY <1>1, <1>2 DEF OCESQLCursorFetchOccurs

LEMMA LoseStep ==
  ASSUME IInv, NEW id \in 1..MaxId, LoseLink(id)
  PROVE  IInv'
<1> DEFINE t == [Ended(ses[id]) EXCEPT !.link = "lost"]
<1>1. SessionOK(ses[id])
  BY Sessions DEF IInv
<1>2. SessionOK(t) /\ Keeps(ses[id], t, {})
  BY <1>1 DEF SessionOK, PortalsInBlock, Session, Links, Ended, NoPortals, Keeps, Live
<1>3. ses' = [ses EXCEPT ![id] = t]
  BY DEF LoseLink, IInv, Core, TypeCore
<1> HIDE DEF t
<1>4. Core'
  BY <1>2, <1>3, SentStep DEF IInv, LoseLink
<1>5. TypeRest'
  BY DEF IInv, TypeRest, LoseLink, Ops
<1> QED BY <1>4, <1>5 DEF IInv

-----------------------------------------------------------------------------

LEMMA InitIInv == Init => IInv
<1> SUFFICES ASSUME Init PROVE IInv
  OBVIOUS
<1>1. TypeCore
  BY RuntimeAssumption, NewSessions
  DEF Init, TypeCore, NoId, NoEntry, Entry, SessionOK
<1>2. IdsOld
  BY DEF Init, IdsOld, NoId, NoEntry
<1>3. SessionsOK
  BY NewSessions DEF Init, SessionsOK, SessionOK
<1>4. PortalOwned /\ FlagAccurate
  BY DEF Init, PortalOwned, FlagAccurate, NoSession, NoPortals, NoEntry
<1>5. TypeRest
  BY RuntimeAssumption DEF Init, TypeRest, Codes, Ops, NoId
<1> QED BY <1>1, <1>2, <1>3, <1>4, <1>5 DEF IInv, Core

LEMMA NextIInv == IInv /\ [Next]_vars => IInv'
<1> SUFFICES ASSUME IInv, [Next]_vars PROVE IInv'
  OBVIOUS
<1>1. CASE ConnNext
  BY <1>1, ConnectStep, DisconnectStep DEF ConnNext
<1>2. CASE ExecNext
  BY <1>2, ExecStep, SelectStep DEF ExecNext, Texts
<1>3. CASE PrepNext
  BY <1>3, PrepareStep, ExecPrepareStep DEF PrepNext
<1>4. CASE DeclareNext
  BY <1>4, StaticDeclareStep, PreparedDeclareStep DEF DeclareNext
<1>5. CASE CursorNext
  BY <1>5, OpenStep, OpenParamsStep, CloseStep, FetchOneStep, FetchOccursStep
  DEF CursorNext
<1>6. CASE \E id \in 1..MaxId : LoseLink(id)
  BY <1>6, LoseStep
<1>7. CASE UNCHANGED vars
  <2>1. Core'
    BY <1>7, SameStep DEF IInv, vars
  <2>2. TypeRest'
    BY <1>7 DEF IInv, TypeRest, vars
  <2> QED BY <2>1, <2>2 DEF IInv
<1> QED BY <1>1, <1>2, <1>3, <1>4, <1>5, <1>6, <1>7 DEF Next

THEOREM RuntimeInvariant == Spec => []IInv
BY InitIInv, NextIInv, PTL DEF Spec

(* The library's lists and the sessions keep their types: no entry of the  *)
(* cursor list names a connection that was never made or a statement that  *)
(* is no prepared statement, and every SQLCODE is one of the codes.        *)
THEOREM RuntimeTyped == Spec => []TypeOK
<1>1. IInv => TypeOK
  BY DEF IInv, Core, TypeCore, TypeRest, TypeOK
<1> QED BY <1>1, RuntimeInvariant, PTL

(* Every portal on a server is one the cursor list has as open on that     *)
(* connection: for any number of connections, cursors and statements.      *)
THEOREM RuntimeSafe == Spec => []PortalOwned
<1>1. IInv => PortalOwned
  BY DEF IInv, Core
<1> QED BY <1>1, RuntimeInvariant, PTL

(* On a live block every cursor marked open has its portal: isOpened is    *)
(* never stale where OPEN and CLOSE would send a wrong statement for it.   *)
THEOREM RuntimeFlags == Spec => []FlagAccurate
<1>1. IInv => FlagAccurate
  BY DEF IInv, Core
<1> QED BY <1>1, RuntimeInvariant, PTL

-----------------------------------------------------------------------------
(* The connections.                                                        *)

LEMMA ConnectRegisters ==
  ASSUME NEW n \in Names, _ocesqlConnect(n) \/ OCESQLDisconnect(n), reg \in [Names -> Int]
  PROVE  Registry!Next \/ UNCHANGED Registry!vars
<1>1. CASE /\ reg' = [reg EXCEPT ![n] = NoId]
           /\ UNCHANGED next
  <2>1. CASE reg[n] = NoId
    <3>1. reg' = reg
      BY <1>1, <2>1
    <3> QED BY <1>1, <3>1 DEF Registry!vars
  <2>2. CASE reg[n] # NoId
    BY <1>1, <2>2 DEF Registry!Next, Registry!Unregister, Registry!NoId, NoId
  <2> QED BY <2>1, <2>2
<1>2. CASE /\ next <= MaxId
           /\ reg' = [reg EXCEPT ![n] = next]
           /\ next' = next + 1
  BY <1>2 DEF Registry!Next, Registry!Register, Registry!Replace
<1>3. CASE UNCHANGED <<reg, next>>
  BY <1>3 DEF Registry!vars
<1> QED
  BY <1>1, <1>2, <1>3 DEF _ocesqlConnect, OCESQLDisconnect, NotConnected, Refused

(* Any mix of CONNECT, DISCONNECT and reconnection after a loss is a       *)
(* behaviour of the map of names to fresh ids, the one that the connection *)
(* list implements; no statement and no cursor call touches it.            *)
THEOREM RuntimeImplements == Spec => ImplementsRegistry
<1>1. Init => Registry!Init
  BY DEF Init, Registry!Init, NoId, Registry!NoId
<1>2. IInv /\ [Next]_vars => [Registry!Next]_(Registry!vars)
  <2> SUFFICES ASSUME IInv, [Next]_vars PROVE [Registry!Next]_(Registry!vars)
    OBVIOUS
  <2>1. CASE ConnNext
    <3>1. reg \in [Names -> Int]
      BY DEF IInv, Core, TypeCore
    <3> QED BY <2>1, <3>1, ConnectRegisters DEF ConnNext
  <2>2. CASE UNCHANGED <<reg, next>>
    BY <2>2 DEF Registry!vars
  <2>3. CASE ExecNext
    <3>1. UNCHANGED <<reg, next>>
      BY <2>3
      DEF ExecNext, _ocesqlExec, _ocesqlExecSelectIntoOne, NotConnected, Refused,
          Restarted, Sent
    <3> QED BY <2>2, <3>1
  <2>4. CASE PrepNext
    <3>1. UNCHANGED <<reg, next>>
      BY <2>4
      DEF PrepNext, OCESQLPrepare, _ocesqlExecPrepare, NotConnected, Refused,
          Restarted, Sent
    <3> QED BY <2>2, <3>1
  <2>5. CASE DeclareNext
    <3>1. UNCHANGED <<reg, next>>
      BY <2>5
      DEF DeclareNext, _ocesqlCursorDeclare, _ocesqlPreparedCursorDeclare,
          NotConnected, Refused, Crash
    <3> QED BY <2>2, <3>1
  <2>6. CASE CursorNext
    <3>1. UNCHANGED <<reg, next>>
      BY <2>6
      DEF CursorNext, OCESQLCursorOpen, OCESQLCursorOpenParams, Opening,
          OCESQLCursorClose, OCESQLCursorFetchOne, OCESQLCursorFetchOccurs,
          Refused, Sent
    <3> QED BY <2>2, <3>1
  <2>7. CASE \E id \in 1..MaxId : LoseLink(id)
    BY <2>2, <2>7 DEF LoseLink
  <2>8. CASE UNCHANGED vars
    BY <2>2, <2>8 DEF vars
  <2> QED BY <2>1, <2>3, <2>4, <2>5, <2>6, <2>7, <2>8 DEF Next
<1> QED
  BY <1>1, <1>2, RuntimeInvariant, PTL DEF Spec, ImplementsRegistry, Registry!Spec

-----------------------------------------------------------------------------
(* Cursors of dead connections.                                            *)

LEMMA DeadExec ==
  ASSUME NEW s, s.link \in {"bad", "closed"}, NEW A, NEW o,
         o \in PQexec(s, A) \/ o \in OCDB_PGExecParams(s, A)
  PROVE  ~Success(o.r)
<1>1. CASE o \in PQexec(s, A)
  BY <1>1, ExecCases DEF Success
<1>2. CASE o \in OCDB_PGExecParams(s, A)
  BY <1>2, ExecParamsCases DEF Success
<1> QED BY <1>1, <1>2

LEMMA DeadRun ==
  ASSUME NEW s, s.link \in {"bad", "closed"}, NEW t, NEW n, NEW o \in Run(s, t, n)
  PROVE  ~Success(o.r)
BY DeadExec DEF Run

(* A cursor marked open on a connection that is bad or closed. *)
Dead(c) == cur[c].isOpened /\ ses[cur[c].conn].link \in {"bad", "closed"}

LEMMA ExecDead ==
  ASSUME NEW c \in Cursors, Dead(c), NEW op, NEW id, NEW t, NEW n, NEW looked,
         NEW o \in Run(ses[id], t, n), Success(o.r), Restarted(op, id, o.s, looked)
  PROVE  cur'[c] = cur[c]
<1>1. cur[c].conn # id
  BY DeadRun DEF Dead
<1> QED BY <1>1 DEF Restarted, clear_cursor_list

LEMMA CursorDead ==
  ASSUME IInv, NEW c \in Cursors, Dead(c), NEW d \in Cursors, NEW s, NEW A,
         NEW o \in PQexec(ses[cur[d].conn], A),
         cur' = [cur EXCEPT ![d].isOpened = ~Success(o.r)]
  PROVE  cur'[c] = cur[c]
<1>1. cur \in [Cursors -> Entry]
  BY DEF IInv, Core, TypeCore
<1>2. CASE d = c
  <2>1. ~Success(o.r)
    BY <1>2, DeadExec DEF Dead
  <2>2. cur[c] = [cur[c] EXCEPT !.isOpened = TRUE]
    BY <1>1 DEF Dead, Entry
  <2> QED BY <1>1, <1>2, <2>1, <2>2
<1>3. CASE d # c
  BY <1>1, <1>3
<1> QED BY <1>2, <1>3

LEMMA OpenDead ==
  ASSUME IInv, NEW c \in Cursors, Dead(c), NEW d \in Cursors, NEW op, NEW n,
         Opening(op, d, n)
  PROVE  cur'[c] = cur[c]
<1>1. cur \in [Cursors -> Entry]
  BY DEF IInv, Core, TypeCore
<1>2. CASE d = c
  <2>1. \A o \in Closing(c) : ~Success(o.r)
    BY DeadExec DEF Dead, Closing
  <2> QED BY <1>2, <2>1 DEF Opening, Sent
<1>3. CASE d # c
  BY <1>1, <1>3 DEF Opening, Sent
<1> QED BY <1>2, <1>3

(* A cursor that was open when its connection was found dead is out of     *)
(* reach of every later call: its name stays taken, whatever the program   *)
(* tries.                                                                  *)
THEOREM DeadStays == Spec => DeadCursorStays
<1>1. ASSUME IInv, Next, NEW c \in Cursors, Dead(c)
      PROVE  cur'[c] = cur[c]
  <2>0. cur \in [Cursors -> Entry]
    BY <1>1 DEF IInv, Core, TypeCore
  <2>1. CASE ConnNext
    BY <2>1 DEF ConnNext, _ocesqlConnect, OCESQLDisconnect, NotConnected, Refused
  <2>2. CASE ExecNext
    BY <1>1, <2>2, ExecDead
    DEF ExecNext, _ocesqlExec, _ocesqlExecSelectIntoOne, NotConnected, Refused, Sent
  <2>3. CASE PrepNext
    BY <1>1, <2>3, ExecDead
    DEF PrepNext, OCESQLPrepare, _ocesqlExecPrepare, NotConnected, Refused, Sent
  <2>4. CASE DeclareNext
    BY <1>1, <2>0, <2>4
    DEF DeclareNext, _ocesqlCursorDeclare, _ocesqlPreparedCursorDeclare,
        NotConnected, Refused, Crash, Dead
  <2>5. CASE CursorNext
    <3>1. PICK d \in Cursors :
            \/ OCESQLCursorOpen(d)
            \/ OCESQLCursorOpenParams(d, 1)
            \/ OCESQLCursorClose(d)
            \/ \E fits \in BOOLEAN :
                 \/ OCESQLCursorFetchOne(d, fits)
                 \/ \E over500 \in BOOLEAN : OCESQLCursorFetchOccurs(d, fits, over500)
      BY <2>5 DEF CursorNext
    <3>2. CASE OCESQLCursorOpen(d) \/ OCESQLCursorOpenParams(d, 1)
      BY <1>1, <3>2, OpenDead DEF OCESQLCursorOpen, OCESQLCursorOpenParams, Refused
    <3>3. CASE OCESQLCursorClose(d)
      BY <1>1, <3>3, CursorDead DEF OCESQLCursorClose, Refused
    <3>4. CASE \E fits \in BOOLEAN :
                 \/ OCESQLCursorFetchOne(d, fits)
                 \/ \E over500 \in BOOLEAN : OCESQLCursorFetchOccurs(d, fits, over500)
      BY <3>4 DEF OCESQLCursorFetchOne, OCESQLCursorFetchOccurs, Refused
    <3> QED BY <3>1, <3>2, <3>3, <3>4
  <2>6. CASE \E id \in 1..MaxId : LoseLink(id)
    BY <2>6 DEF LoseLink
  <2> QED BY <1>1, <2>1, <2>2, <2>3, <2>4, <2>5, <2>6 DEF Next
<1>2. IInv /\ [Next]_vars =>
        [\A c \in Cursors :
           cur[c].isOpened /\ ses[cur[c].conn].link \in {"bad", "closed"}
           => cur'[c] = cur[c]]_vars
  BY <1>1 DEF Dead
<1> QED BY <1>2, RuntimeInvariant, PTL DEF Spec, DeadCursorStays

-----------------------------------------------------------------------------
(* What the calls report: for every session, what its call may do to its   *)
(* link and its block without an error in SQLCODE.                         *)

(* From session s to t, with this SQLCODE: an error if the link is found   *)
(* dead, and an error if a live session is out of its block.               *)
LossSaid(s, t, code) ==
  s.link \in {"up", "lost"} /\ t.link = "bad" /\ ~IgnoreError => code < 0

LeftSaid(s, t, code) ==
  s.txn = "block" /\ t.txn # "block" /\ t.link = "up" => code < 0

TellsLoss == \A id \in 1..MaxId : LossSaid(ses[id], ses'[id], sqlcode')
TellsLeft == \A id \in 1..MaxId : LeftSaid(ses[id], ses'[id], sqlcode')

(* Ids that were not handed out have no session. *)
Unborn == \A id \in 1..MaxId : id >= next => ses[id] = NoSession

Untouched == next' = next /\ \A id \in 1..MaxId : id >= next => ses'[id] = ses[id]

-----------------------------------------------------------------------------
(* Answers.                                                                *)

LEMMA Errors ==
  \A r : CodeOf(r, 0) < 0 <=> r \in {"ERROR", "E25P01", "E34000", "E42P03", "FATAL"}
BY DEF CodeOf

LEMMA RefuseSaid ==
  ASSUME NEW s, SessionOK(s), NEW r \in {"ERROR", "E25P01", "E34000", "E42P03"}
  PROVE  /\ Refuse(s, r).s.link = s.link
         /\ LeftSaid(s, Refuse(s, r).s, CodeOf(Refuse(s, r).r, 0))
<1>1. r \in Results
  BY DEF Results
<1> QED BY <1>1, RefuseFine, Errors DEF LeftSaid

LEMMA TextSaid ==
  ASSUME NEW s, SessionOK(s), NEW t \in Texts, NEW n, NEW o \in Text(s, t, n)
  PROVE  /\ o.s.link = s.link
         /\ t \notin Aliases /\ ~(Success(o.r) /\ Ends(t))
              => LeftSaid(s, o.s, CodeOf(o.r, 0))
         /\ Success(o.r) /\ Ends(t) => o.s = Ended(s)
<1>0. Ended(s).link = s.link
  BY EndedFine
<1>1. CASE t = "ROLLBACK"
  <2>1. Text(s, t, n) = Rollback(s)
    BY <1>1, TextsAssumption DEF Text
  <2> QED BY <1>0, <1>1, <2>1 DEF Rollback, Reply, Success, Ends
<1>2. CASE t \in Aliases \cup {"COMMIT"}
  <2>1. Text(s, t, n) = Commit(s)
    BY <1>2, TextsAssumption DEF Text
  <2>2. o.s = Ended(s) /\ o.r \in {"COMMAND_OK", "ERROR"}
    BY <2>1 DEF Commit, Reply
  <2> QED BY <1>0, <1>2, <2>2, Errors DEF Success, Ends, LeftSaid
<1>3. CASE t # "ROLLBACK" /\ t \notin Aliases \cup {"COMMIT"}
  <2>1. Text(s, t, n) = Statement(s, t, n)
    BY <1>3, TextsAssumption DEF Text
  <2>2. o = Refuse(s, "ERROR") \/ o.s = s
    BY <2>1 DEF Statement, Reply
  <2> QED BY <1>3, <2>2, RefuseSaid DEF Ends, LeftSaid
<1> QED BY <1>1, <1>2, <1>3

LEMMA DeclareSaid ==
  ASSUME NEW s, SessionOK(s), NEW c \in Cursors, NEW q, NEW n, NEW o \in Declare(s, c, q, n)
  PROVE  o.s.link = s.link /\ LeftSaid(s, o.s, CodeOf(o.r, 0))
<1>1. CASE \E r \in {"ERROR", "E25P01", "E34000", "E42P03"} : o = Refuse(s, r)
  BY <1>1, RefuseSaid
<1>2. CASE o = Reply([s EXCEPT !.portal[c] = q], "COMMAND_OK")
  BY <1>2 DEF Reply, LeftSaid, SessionOK, Session
<1> QED BY <1>1, <1>2 DEF Declare, SessionOK, Session

LEMMA CloseSaid ==
  ASSUME NEW s, SessionOK(s), NEW c \in Cursors, NEW o \in Close(s, c)
  PROVE  /\ o.s.link = s.link /\ LeftSaid(s, o.s, CodeOf(o.r, 0))
         /\ Success(o.r) => o.s.txn = s.txn
<1>1. CASE \E r \in {"ERROR", "E25P01", "E34000", "E42P03"} :
             o = Refuse(s, r) /\ ~Success(o.r)
  BY <1>1, RefuseSaid
<1>2. CASE o = Reply([s EXCEPT !.portal[c] = NoQuery], "COMMAND_OK")
  BY <1>2 DEF Reply, LeftSaid, SessionOK, Session
<1>3. \A r \in {"ERROR", "E34000"} : ~Success(Refuse(s, r).r)
  BY DEF Refuse, Reply, Success
<1> QED BY <1>1, <1>2, <1>3 DEF Close

LEMMA FetchSaid ==
  ASSUME NEW s, SessionOK(s), NEW c \in Cursors, NEW o \in Fetch(s, c)
  PROVE  o.s.link = s.link /\ LeftSaid(s, o.s, CodeOf(o.r, 0))
<1>1. (\E r \in {"ERROR", "E34000"} : o = Refuse(s, r)) \/ o.s = s
  BY DEF Fetch, Reply
<1> QED BY <1>1, RefuseSaid DEF LeftSaid

-----------------------------------------------------------------------------
(* What libpq makes of them.                                               *)

(* A link that dies on the way leaves an error, unless a savepoint hides   *)
(* it.                                                                     *)
LEMMA ExecLoss ==
  ASSUME NEW s, SessionOK(s), NEW A, s.link = "up" => \A a \in A : a.s.link = s.link,
         NEW o, o \in PQexec(s, A) \/ o \in OCDB_PGExecParams(s, A)
  PROVE  LossSaid(s, o.s, CodeOf(o.r, 0))
<1>1. CASE IgnoreError
  BY <1>1 DEF LossSaid
<1>2. CASE ~IgnoreError
  <2>1. o \in PQexec(s, A)
    BY <1>2 DEF OCDB_PGExecParams
  <2> QED BY <2>1, ExecCases, Errors DEF LossSaid
<1> QED BY <1>1, <1>2

LEMMA ExecLeft ==
  ASSUME NEW s, SessionOK(s), NEW A, NEW R,
         s.link = "up" => \A a \in A : /\ SessionOK(a.s)
                                       /\ a.r \in R \/ LeftSaid(s, a.s, CodeOf(a.r, 0)),
         NEW o, o \in PQexec(s, A) \/ o \in OCDB_PGExecParams(s, A), o.r \notin R
  PROVE  LeftSaid(s, o.s, CodeOf(o.r, 0))
<1>1. CASE o.s = Cut(s) \/ o.s = s
  BY <1>1, CutFine DEF LeftSaid
<1>2. CASE s.link = "up" /\ \E a \in A :
             o.r = a.r /\ o.s \in {a.s, Restored(s, a.s), Cut(a.s)}
  <2>1. PICK a \in A : o.r = a.r /\ o.s \in {a.s, Restored(s, a.s), Cut(a.s)}
    BY <1>2
  <2>2. SessionOK(a.s) /\ LeftSaid(s, a.s, CodeOf(a.r, 0))
    BY <1>2, <2>1
  <2>3. Cut(a.s).link = "bad"
    BY <2>2, CutFine
  <2>4. Restored(s, a.s).link = a.s.link
        /\ (Restored(s, a.s).txn = a.s.txn \/ Restored(s, a.s).txn = "block")
    BY <2>2 DEF Restored, SessionOK, Session
  <2> QED BY <2>1, <2>2, <2>3, <2>4 DEF LeftSaid
<1> QED BY <1>1, <1>2, ExecCases, ExecParamsCases

LEMMA RunSaid ==
  ASSUME NEW s, SessionOK(s), NEW t \in Texts, NEW n, NEW o \in Run(s, t, n)
  PROVE  /\ LossSaid(s, o.s, CodeOf(o.r, 0))
         /\ t \notin Aliases /\ ~(Success(o.r) /\ Ends(t))
              => LeftSaid(s, o.s, CodeOf(o.r, 0))
<1> DEFINE R == {r \in Results : Success(r) /\ Ends(t)}
<1>1. PICK m : o \in OCDB_PGExecParams(s, Text(s, t, m)) \/ o \in PQexec(s, Text(s, t, m))
  BY DEF Run
<1>2. \A a \in Text(s, t, m) :
        /\ SessionOK(a.s) /\ a.r \in Results /\ a.s.link = s.link
        /\ t \notin Aliases => a.r \in R \/ LeftSaid(s, a.s, CodeOf(a.r, 0))
  BY TextFine, TextSaid DEF Fine
<1>3. LossSaid(s, o.s, CodeOf(o.r, 0))
  BY <1>1, <1>2, ExecLoss
<1>4. ASSUME t \notin Aliases, ~(Success(o.r) /\ Ends(t))
      PROVE  LeftSaid(s, o.s, CodeOf(o.r, 0))
  <2>1. o.r \notin R
    BY <1>4
  <2> HIDE DEF R
  <2> QED BY <1>1, <1>2, <1>4, <2>1, ExecLeft
<1> QED BY <1>3, <1>4

(* A COMMIT or ROLLBACK that succeeded, and the BEGIN after it.            *)
LEMMA EndedRun ==
  ASSUME NEW s, SessionOK(s), NEW t \in Texts, Ends(t),
         NEW o \in Run(s, t, NPar[t]), Success(o.r)
  PROVE  s.link = "up" /\ o.s = Ended(s)
<1>1. o \in PQexec(s, Text(s, t, 0))
  BY NParAssumption DEF Run, Ends
<1>2. s.link = "up" /\ o \in Text(s, t, 0)
  BY <1>1, ExecCases DEF Success
<1> QED BY <1>2, TextSaid

LEMMA BegunRun ==
  ASSUME NEW s, SessionOK(s), s.link = "up", NEW b \in Run(Ended(s), "BEGIN", 0)
  PROVE  \/ b.s.link = "up" /\ b.s.txn = "block" /\ b.s.portal = NoPortals
         \/ b.s.link = "bad" /\ b.r = "FATAL"
<1> DEFINE e == Ended(s)
<1>1. SessionOK(e) /\ e.txn = "idle" /\ e.link = "up" /\ e.portal = NoPortals
  BY EndedFine DEF SessionOK, PortalsInBlock
<1> HIDE DEF e
<1>2. b \in PQexec(e, Text(e, "BEGIN", 0))
  BY DEF Run, e
<1>3. Text(e, "BEGIN", 0) = Begin(e)
  BY TextsAssumption DEF Text, Texts
<1>4. CASE b \in Begin(e)
  <2>1. b.s = [e EXCEPT !.txn = "block"]
    BY <1>1, <1>4 DEF Begin, Reply
  <2> QED BY <1>1, <2>1 DEF SessionOK, Session
<1>5. CASE b.s = Cut(e) /\ b.r = "FATAL"
  BY <1>1, <1>5, CutFine
<1> QED BY <1>1, <1>2, <1>3, <1>4, <1>5, ExecCases

-----------------------------------------------------------------------------
(* The calls.                                                              *)

LEMMA Known2 ==
  ASSUME IInv
  PROVE  /\ \A n \in Names : reg[n] # NoId
                => reg[n] \in 1..MaxId /\ reg[n] < next /\ SessionOK(ses[reg[n]])
         /\ \A c \in Cursors : Known(c)
                => /\ cur[c].conn \in 1..MaxId /\ cur[c].conn < next
                   /\ SessionOK(ses[cur[c].conn])
BY Ids, Sessions DEF IInv, Core, IdsOld

LEMMA SameSessions ==
  ASSUME UNCHANGED <<ses, next>>
  PROVE  Untouched /\ TellsLoss /\ TellsLeft
BY DEF Untouched, TellsLoss, TellsLeft, LossSaid, LeftSaid

LEMMA OneSession ==
  ASSUME IInv, NEW id \in 1..MaxId, id < next, NEW t,
         ses' = [ses EXCEPT ![id] = t], next' = next
  PROVE  /\ Untouched
         /\ LossSaid(ses[id], t, sqlcode') => TellsLoss
         /\ LeftSaid(ses[id], t, sqlcode') => TellsLeft
<1>1. \A i \in 1..MaxId : ses'[i] = IF i = id THEN t ELSE ses[i]
  BY DEF IInv, Core, TypeCore
<1>2. Untouched
  <2>1. next \in Int /\ MaxId \in Int
    BY RuntimeAssumption DEF IInv, Core, TypeCore
  <2> QED BY <1>1, <2>1 DEF Untouched
<1>3. \A i \in 1..MaxId : i # id => /\ LossSaid(ses[i], ses'[i], sqlcode')
                                   /\ LeftSaid(ses[i], ses'[i], sqlcode')
  BY <1>1 DEF LossSaid, LeftSaid
<1>4. ses'[id] = t
  BY <1>1
<1>5. LossSaid(ses[id], t, sqlcode') => TellsLoss
  BY <1>3, <1>4 DEF TellsLoss
<1>6. LeftSaid(ses[id], t, sqlcode') => TellsLeft
  BY <1>3, <1>4 DEF TellsLeft
<1> QED BY <1>2, <1>5, <1>6

(* An error code of its own, where the call has looked at more than the    *)
(* result, is an error too.                                                *)
LEMMA SaidToo ==
  ASSUME NEW s, NEW t, NEW code, NEW more, code < 0 => more < 0
  PROVE  /\ LossSaid(s, t, code) => LossSaid(s, t, more)
         /\ LeftSaid(s, t, code) => LeftSaid(s, t, more)
BY DEF LossSaid, LeftSaid

LEMMA RestartedTells ==
  ASSUME IInv, NEW op, NEW id \in 1..MaxId, id < next, SessionOK(ses[id]),
         NEW t \in Texts, Ends(t), NEW o \in Run(ses[id], t, NPar[t]), Success(o.r),
         NEW looked, Restarted(op, id, o.s, looked)
  PROVE  Untouched /\ TellsLeft /\ (looked => TellsLoss)
<1>1. ses[id].link = "up" /\ o.s = Ended(ses[id])
  BY EndedRun
<1>2. PICK b \in Run(Ended(ses[id]), "BEGIN", 0) :
        /\ ses' = [ses EXCEPT ![id] = b.s] /\ next' = next
        /\ looked => sqlcode' = CodeOf(b.r, 0)
  BY <1>1 DEF Restarted, Returns
<1>3. LeftSaid(ses[id], b.s, sqlcode') /\ (looked => LossSaid(ses[id], b.s, sqlcode'))
  BY <1>1, <1>2, BegunRun, Errors DEF LeftSaid, LossSaid
<1> QED BY <1>2, <1>3, OneSession

LEMMA SentTells ==
  ASSUME IInv, NEW op, NEW id \in 1..MaxId, id < next, SessionOK(ses[id]),
         NEW t \in Texts, NEW n, NEW o \in Run(ses[id], t, n),
         ~(Success(o.r) /\ Ends(t)), Sent(op, id, o)
  PROVE  Untouched /\ TellsLoss /\ (t \notin Aliases => TellsLeft)
<1>1. ses' = [ses EXCEPT ![id] = o.s] /\ next' = next /\ sqlcode' = CodeOf(o.r, 0)
  BY DEF Sent, Returns
<1> QED BY <1>1, RunSaid, OneSession

LEMMA ExecTells ==
  ASSUME IInv, NEW n \in Names, NEW t \in Updates \cup {"COMMIT", "ROLLBACK"},
         _ocesqlExec(n, t)
  PROVE  Untouched /\ TellsLoss /\ TellsLeft
<1>1. t \in Texts /\ t \notin Aliases
  BY TextsAssumption DEF Texts
<1>2. CASE \E op : NotConnected(op, n)
  BY <1>2, SameSessions DEF NotConnected, Refused
<1>3. ASSUME reg[n] # NoId, NEW op, NEW o \in Run(ses[reg[n]], t, NPar[t]),
             IF Success(o.r) /\ Ends(t) THEN Restarted(op, reg[n], o.s, TRUE)
                                       ELSE Sent(op, reg[n], o)
      PROVE  Untouched /\ TellsLoss /\ TellsLeft
  BY <1>1, <1>3, Known2, RestartedTells, SentTells
<1> QED BY <1>2, <1>3 DEF _ocesqlExec

LEMMA SelectTells ==
  ASSUME IInv, NEW n \in Names, NEW q \in Statics, NEW fits \in BOOLEAN,
         _ocesqlExecSelectIntoOne(n, q, fits)
  PROVE  Untouched /\ TellsLoss /\ TellsLeft
<1>1. q \in Texts /\ q \notin Aliases /\ ~Ends(q)
  BY RuntimeAssumption, TextsAssumption DEF Texts, Ends
<1>2. CASE NotConnected("SelectInto", n)
  BY <1>2, SameSessions DEF NotConnected, Refused
<1>3. ASSUME reg[n] # NoId, NEW o \in Run(ses[reg[n]], q, NPar[q]),
             ses' = [ses EXCEPT ![reg[n]] = o.s], next' = next,
             sqlcode' = IF Success(o.r) /\ ~fits THEN EMPTY ELSE CodeOf(o.r, 0)
      PROVE  Untouched /\ TellsLoss /\ TellsLeft
  <2>1. CodeOf(o.r, 0) < 0 => sqlcode' < 0
    BY <1>3 DEF EMPTY
  <2>2. /\ LossSaid(ses[reg[n]], o.s, CodeOf(o.r, 0))
        /\ LeftSaid(ses[reg[n]], o.s, CodeOf(o.r, 0))
    BY <1>1, <1>3, Known2, RunSaid
  <2>3. /\ LossSaid(ses[reg[n]], o.s, sqlcode')
        /\ LeftSaid(ses[reg[n]], o.s, sqlcode')
    BY <2>1, <2>2, SaidToo
  <2> QED BY <1>3, <2>3, Known2, OneSession
<1> QED BY <1>2, <1>3 DEF _ocesqlExecSelectIntoOne, Returns

LEMMA ExecPrepareTells ==
  ASSUME IInv, NEW n \in Names, NEW p \in Prepares, NEW args,
         _ocesqlExecPrepare(n, p, args)
  PROVE  /\ Untouched
         /\ Executes({"COMMIT", "ROLLBACK"}) \/ TellsLoss
         /\ Executes(Aliases) \/ TellsLeft
<1>1. CASE \E code : Refused("ExecPrepare", NoId, code) \/ Refused("ExecPrepare", reg[n], code)
  BY <1>1, SameSessions DEF Refused
<1>2. ASSUME reg[n] # NoId, prep[p] # NoQuery,
             NEW o \in Run(ses[reg[n]], prep[p], NPar[prep[p]]),
             IF Success(o.r) /\ Ends(prep[p])
             THEN Restarted("ExecPrepare", reg[n], o.s, FALSE)
             ELSE Sent("ExecPrepare", reg[n], o)
      PROVE  /\ Untouched
             /\ Executes({"COMMIT", "ROLLBACK"}) \/ TellsLoss
             /\ Executes(Aliases) \/ TellsLeft
  <2>1. prep[p] \in Texts
    BY <1>2, RuntimeAssumption DEF IInv, TypeRest
  <2>2. last'.op = "ExecPrepare"
    BY <1>2 DEF Restarted, Sent, Returns
  <2>3. CASE Success(o.r) /\ Ends(prep[p])
    <3>1. Executes({"COMMIT", "ROLLBACK"})
      BY <2>2, <2>3 DEF Executes, Ends
    <3>2. Untouched /\ TellsLeft
      BY <1>2, <2>1, <2>3, Known2, RestartedTells
    <3> QED BY <3>1, <3>2
  <2>4. CASE ~(Success(o.r) /\ Ends(prep[p]))
    <3>1. Sent("ExecPrepare", reg[n], o)
      BY <1>2, <2>4
    <3>2. Untouched /\ TellsLoss /\ (prep[p] \notin Aliases => TellsLeft)
      BY <1>2, <2>1, <2>4, <3>1, Known2, SentTells
    <3>3. prep[p] \in Aliases => Executes(Aliases)
      BY <2>2 DEF Executes
    <3> QED BY <3>2, <3>3
  <2> QED BY <2>3, <2>4
<1> QED BY <1>1, <1>2 DEF _ocesqlExecPrepare, NotConnected

LEMMA CloseTells ==
  ASSUME IInv, NEW c \in Cursors, OCESQLCursorClose(c)
  PROVE  Untouched /\ TellsLoss /\ TellsLeft
<1> DEFINE s == ses[cur[c].conn]
<1>1. CASE \E id, code : Refused("Close", id, code)
  BY <1>1, SameSessions DEF Refused
<1>2. ASSUME Known(c), NEW o \in PQexec(s, Close(s, c)),
             ses' = [ses EXCEPT ![cur[c].conn] = o.s], next' = next,
             sqlcode' = CodeOf(o.r, 0)
      PROVE  Untouched /\ TellsLoss /\ TellsLeft
  <2>1. SessionOK(s)
    BY <1>2, Known2
  <2>2. \A a \in Close(s, c) : /\ SessionOK(a.s) /\ a.s.link = s.link
                               /\ LeftSaid(s, a.s, CodeOf(a.r, 0))
    BY <2>1, CloseSaid, CloseFine DEF Fine
  <2>3. LossSaid(s, o.s, CodeOf(o.r, 0))
    BY <1>2, <2>1, <2>2, ExecLoss
  <2>4. LeftSaid(s, o.s, CodeOf(o.r, 0))
    BY <1>2, <2>1, <2>2, o.r \notin {}, ExecLeft
  <2> QED BY <1>2, <2>3, <2>4, Known2, OneSession
<1> QED BY <1>1, <1>2 DEF OCESQLCursorClose, Returns

LEMMA FetchTells ==
  ASSUME IInv, NEW c \in Cursors, Known(c),
         NEW o \in PQexec(ses[cur[c].conn], Fetch(ses[cur[c].conn], c)),
         ses' = [ses EXCEPT ![cur[c].conn] = o.s], next' = next,
         CodeOf(o.r, 0) < 0 => sqlcode' < 0
  PROVE  Untouched /\ TellsLoss /\ TellsLeft
<1> DEFINE s == ses[cur[c].conn]
<1>1. SessionOK(s)
  BY Known2
<1>2. \A a \in Fetch(s, c) : /\ SessionOK(a.s) /\ a.s.link = s.link
                             /\ LeftSaid(s, a.s, CodeOf(a.r, 0))
  BY <1>1, FetchSaid, FetchFine DEF Fine
<1>3. LossSaid(s, o.s, CodeOf(o.r, 0))
  BY <1>1, <1>2, ExecLoss
<1>4. LeftSaid(s, o.s, CodeOf(o.r, 0))
  BY <1>1, <1>2, o.r \notin {}, ExecLeft
<1>5. LossSaid(s, o.s, sqlcode') /\ LeftSaid(s, o.s, sqlcode')
  BY <1>3, <1>4, SaidToo
<1> QED BY <1>5, Known2, OneSession

LEMMA FetchCallsTell ==
  ASSUME IInv, NEW c \in Cursors, NEW fits, NEW over500,
         OCESQLCursorFetchOne(c, fits) \/ OCESQLCursorFetchOccurs(c, fits, over500)
  PROVE  Untouched /\ TellsLoss /\ TellsLeft
<1>1. CASE \E op, code : Refused(op, NoId, code)
  BY <1>1, SameSessions DEF Refused
<1>2. ASSUME Known(c), NEW o \in PQexec(ses[cur[c].conn], Fetch(ses[cur[c].conn], c)),
             ses' = [ses EXCEPT ![cur[c].conn] = o.s], next' = next,
             sqlcode' \in {EMPTY, CodeOf(o.r, 0)}
      PROVE  Untouched /\ TellsLoss /\ TellsLeft
  <2>1. CodeOf(o.r, 0) < 0 => sqlcode' < 0
    BY <1>2 DEF EMPTY
  <2> QED BY <1>2, <2>1, FetchTells
<1> QED BY <1>1, <1>2 DEF OCESQLCursorFetchOne, OCESQLCursorFetchOccurs, Returns

LEMMA OpeningTells ==
  ASSUME IInv, NEW c \in Cursors, Known(c), NEW op, NEW n, Opening(op, c, n)
  PROVE  Untouched /\ TellsLoss /\ TellsLeft
<1> DEFINE s == ses[cur[c].conn]
<1>1. SessionOK(s) /\ cur[c].conn \in 1..MaxId /\ cur[c].conn < next
  BY Known2
<1>2. \A a \in Close(s, c) : /\ SessionOK(a.s) /\ a.s.link = s.link
                             /\ LeftSaid(s, a.s, CodeOf(a.r, 0))
                             /\ Success(a.r) => a.s.txn = s.txn
  BY <1>1, CloseSaid, CloseFine DEF Fine
<1>3. PICK o \in Closing(c) :
        IF ~Success(o.r) THEN Sent(op, cur[c].conn, o)
        ELSE \E d \in Declaring(o.s, c, n) :
               /\ ses' = [ses EXCEPT ![cur[c].conn] = d.s] /\ next' = next
               /\ sqlcode' = CodeOf(d.r, 0)
  BY DEF Opening, Returns
<1>4. o \in PQexec(s, Close(s, c)) \/ o = Reply(s, "COMMAND_OK")
  BY <1>3 DEF Closing
<1>5. CASE ~Success(o.r)
  <2>1. o \in PQexec(s, Close(s, c))
    BY <1>4, <1>5 DEF Reply, Success
  <2>2. LossSaid(s, o.s, CodeOf(o.r, 0)) /\ LeftSaid(s, o.s, CodeOf(o.r, 0))
    <3>1. LossSaid(s, o.s, CodeOf(o.r, 0))
      BY <1>1, <1>2, <2>1, ExecLoss
    <3>2. LeftSaid(s, o.s, CodeOf(o.r, 0))
      BY <1>1, <1>2, <2>1, o.r \notin {}, ExecLeft
    <3> QED BY <3>1, <3>2
  <2>3. ses' = [ses EXCEPT ![cur[c].conn] = o.s] /\ next' = next /\ sqlcode' = CodeOf(o.r, 0)
    BY <1>3, <1>5 DEF Sent, Returns
  <2> QED BY <1>1, <2>2, <2>3, OneSession
<1>6. CASE Success(o.r)
  <2>1. PICK d \in Declaring(o.s, c, n) :
          /\ ses' = [ses EXCEPT ![cur[c].conn] = d.s] /\ next' = next
          /\ sqlcode' = CodeOf(d.r, 0)
    BY <1>3, <1>6
  <2>2. SessionOK(o.s) /\ o.s.link = s.link /\ o.s.txn = s.txn
    <3>1. CASE o \in PQexec(s, Close(s, c))
      <4>1. o \in Close(s, c)
        BY <1>6, <3>1, ExecCases DEF Success
      <4> QED BY <1>2, <1>6, <4>1
    <3>2. CASE o = Reply(s, "COMMAND_OK")
      BY <1>1, <3>2 DEF Reply
    <3> QED BY <1>4, <3>1, <3>2
  <2>3. PICK q, m : \/ d \in PQexec(o.s, Declare(o.s, c, q, m))
                    \/ d \in OCDB_PGExecParams(o.s, Declare(o.s, c, q, m))
    BY <2>1 DEF Declaring
  <2>4. \A a \in Declare(o.s, c, q, m) :
          /\ a.s.link = o.s.link /\ LeftSaid(o.s, a.s, CodeOf(a.r, 0))
          /\ o.s.link = "up" => SessionOK(a.s)
    <3> TAKE a \in Declare(o.s, c, q, m)
    <3>1. a.s.link = o.s.link /\ LeftSaid(o.s, a.s, CodeOf(a.r, 0))
      BY <2>2, DeclareSaid
    <3>2. o.s.link = "up" => SessionOK(a.s)
      BY <2>2, DeclareFine DEF Fine
    <3> QED BY <3>1, <3>2
  <2>5. LossSaid(o.s, d.s, CodeOf(d.r, 0))
    BY <2>2, <2>3, <2>4, ExecLoss
  <2>6. LeftSaid(o.s, d.s, CodeOf(d.r, 0))
    BY <2>2, <2>3, <2>4, d.r \notin {}, ExecLeft
  <2>7. LossSaid(s, d.s, sqlcode') /\ LeftSaid(s, d.s, sqlcode')
    BY <2>1, <2>2, <2>5, <2>6 DEF LossSaid, LeftSaid
  <2> QED BY <1>1, <2>1, <2>7, OneSession
<1> QED BY <1>5, <1>6

LEMMA OpenTells ==
  ASSUME IInv, NEW c \in Cursors, NEW n,
         OCESQLCursorOpen(c) \/ OCESQLCursorOpenParams(c, n)
  PROVE  Untouched /\ TellsLoss /\ TellsLeft
<1>1. CASE \E op, id, code : Refused(op, id, code)
  BY <1>1, SameSessions DEF Refused
<1>2. ASSUME Known(c), NEW op, NEW m, Opening(op, c, m)
      PROVE  Untouched /\ TellsLoss /\ TellsLeft
  BY <1>2, OpeningTells
<1> QED BY <1>1, <1>2 DEF OCESQLCursorOpen, OCESQLCursorOpenParams

(* A session that ends, or that was not there, is no loss.                 *)
LEMMA NothingLost ==
  ASSUME \A i \in 1..MaxId : ses'[i] = ses[i] \/ ses'[i] = NoSession \/ ses[i] = NoSession
  PROVE  TellsLoss /\ TellsLeft
BY DEF TellsLoss, TellsLeft, LossSaid, LeftSaid, NoSession

LEMMA UntouchedUnborn == Unborn /\ Untouched => Unborn'
BY DEF Unborn, Untouched

LEMMA ConnTells ==
  ASSUME IInv, Unborn, NEW n \in Names, _ocesqlConnect(n) \/ OCESQLDisconnect(n)
  PROVE  Unborn' /\ TellsLoss /\ TellsLeft
<1>1. CASE UNCHANGED <<ses, next>>
  BY <1>1, SameSessions, UntouchedUnborn
<1>2. /\ next \in Int /\ MaxId \in Int /\ DOMAIN ses = 1..MaxId
      /\ reg[n] # NoId => reg[n] \in 1..MaxId /\ reg[n] < next
  BY RuntimeAssumption, Known2 DEF IInv, Core, TypeCore
<1>3. /\ \A i \in 1..MaxId : /\ Finished(n)[i] = ses[i] \/ Finished(n)[i] = NoSession
                             /\ i >= next => Finished(n)[i] = ses[i]
      /\ DOMAIN Finished(n) = 1..MaxId
  BY <1>2 DEF Finished
<1>4. CASE ses' = Finished(n) /\ next' = next
  <2>1. \A i \in 1..MaxId : ses'[i] = ses[i] \/ ses'[i] = NoSession
    BY <1>3, <1>4
  <2>2. TellsLoss /\ TellsLeft
    BY <2>1, NothingLost
  <2>3. Unborn'
    BY <1>3, <1>4 DEF Unborn
  <2> QED BY <2>2, <2>3
<1>5. ASSUME next <= MaxId, next' = next + 1,
             NEW s, ses' = [Finished(n) EXCEPT ![next] = s]
      PROVE  Unborn' /\ TellsLoss /\ TellsLeft
  <2>1. next \in 1..MaxId
    BY <1>2, <1>5 DEF IInv, Core, TypeCore
  <2>2. ses[next] = NoSession
    BY <1>2, <2>1 DEF Unborn
  <2>3. \A i \in 1..MaxId : i # next => ses'[i] = Finished(n)[i]
    BY <1>3, <1>5
  <2>4. TellsLoss /\ TellsLeft
    <3>1. \A i \in 1..MaxId : ses'[i] = ses[i] \/ ses'[i] = NoSession \/ ses[i] = NoSession
      BY <1>3, <2>2, <2>3
    <3> QED BY <3>1, NothingLost
  <2>5. Unborn'
    <3> SUFFICES ASSUME NEW i \in 1..MaxId, i >= next' PROVE ses'[i] = NoSession
      BY DEF Unborn
    <3>1. i # next /\ i >= next
      BY <1>2, <1>5
    <3>2. ses'[i] = ses[i]
      BY <1>3, <2>3, <3>1
    <3> QED BY <3>1, <3>2 DEF Unborn
  <2> QED BY <2>4, <2>5
<1>6. CASE _ocesqlConnect(n)
  BY <1>1, <1>4, <1>5, <1>6 DEF _ocesqlConnect, Refused
<1>7. CASE OCESQLDisconnect(n)
  <2>1. CASE reg[n] # NoId
    BY <1>4, <1>7, <2>1 DEF OCESQLDisconnect, Finished, NotConnected
  <2>2. CASE reg[n] = NoId
    BY <1>1, <1>7, <2>2 DEF OCESQLDisconnect, NotConnected, Refused
  <2> QED BY <2>1, <2>2
<1> QED BY <1>6, <1>7

LEMMA DeclareTells ==
  ASSUME IInv, Unborn, DeclareNext
  PROVE  Unborn' /\ TellsLoss /\ TellsLeft
<1>1. CASE UNCHANGED <<ses, next>>
  BY <1>1, SameSessions, UntouchedUnborn
<1>2. CASE \E op, id : Crash(op, id)
  BY <1>2, NothingLost DEF Crash, Unborn
<1> QED
  BY <1>1, <1>2
  DEF DeclareNext, _ocesqlCursorDeclare, _ocesqlPreparedCursorDeclare, NotConnected, Refused

LEMMA LoseTells ==
  ASSUME IInv, Unborn, NEW id \in 1..MaxId, LoseLink(id)
  PROVE  Unborn' /\ TellsLoss /\ TellsLeft
<1> DEFINE t == [Ended(ses[id]) EXCEPT !.link = "lost"]
<1>1. next \in Int /\ MaxId \in Int /\ SessionOK(ses[id])
  BY RuntimeAssumption, Sessions DEF IInv, Core, TypeCore
<1>2. id < next
  BY <1>1 DEF LoseLink, Unborn, NoSession
<1>3. t.link = "lost"
  BY <1>1, EndedFine DEF SessionOK, Session
<1>4. ses' = [ses EXCEPT ![id] = t] /\ next' = next
  BY DEF LoseLink
<1> HIDE DEF t
<1>5. LossSaid(ses[id], t, sqlcode') /\ LeftSaid(ses[id], t, sqlcode')
  BY <1>3 DEF LossSaid, LeftSaid
<1> QED BY <1>2, <1>4, <1>5, OneSession, UntouchedUnborn

(* Every step of the runtime. *)
LEMMA NextTells ==
  ASSUME IInv, Unborn, [Next]_vars
  PROVE  /\ Unborn'
         /\ Executes({"COMMIT", "ROLLBACK"}) \/ TellsLoss
         /\ Executes(Aliases) \/ TellsLeft
<1>1. CASE ConnNext
  BY <1>1, ConnTells DEF ConnNext
<1>2. CASE ExecNext
  BY <1>2, ExecTells, SelectTells, UntouchedUnborn DEF ExecNext
<1>3. CASE PrepNext
  <2>1. CASE \E p \in Prepares, t \in Dynamics : OCESQLPrepare(p, t)
    BY <2>1, SameSessions, UntouchedUnborn DEF OCESQLPrepare
  <2> QED BY <1>3, <2>1, ExecPrepareTells, UntouchedUnborn DEF PrepNext
<1>4. CASE DeclareNext
  BY <1>4, DeclareTells
<1>5. CASE CursorNext
  BY <1>5, OpenTells, CloseTells, FetchCallsTell, UntouchedUnborn DEF CursorNext
<1>6. CASE \E id \in 1..MaxId : LoseLink(id)
  BY <1>6, LoseTells
<1>7. CASE UNCHANGED vars
  BY <1>7, SameSessions, UntouchedUnborn DEF vars
<1> QED BY <1>1, <1>2, <1>3, <1>4, <1>5, <1>6, <1>7 DEF Next

LEMMA AlwaysUnborn == Spec => [](IInv /\ Unborn)
<1>1. Init => Unborn
  BY DEF Init, Unborn
<1>2. IInv /\ Unborn /\ [Next]_vars => Unborn'
  BY NextTells
<1> QED BY <1>1, <1>2, InitIInv, NextIInv, PTL DEF Spec

(* The call that notices a dead link, be it a statement, a FETCH into a    *)
(* table or the closing of a cursor by OPEN, leaves an error in SQLCODE:   *)
(* for any number of connections and cursors, where no savepoint hides it. *)
THEOREM LossesTold == Spec => LossTold
<1>1. IInv /\ Unborn /\ [Next]_vars =>
        [\A id \in 1..MaxId :
           /\ ses[id].link \in {"up", "lost"} /\ ses'[id].link = "bad"
           /\ ~IgnoreError /\ ~Executes({"COMMIT", "ROLLBACK"})
           => sqlcode' < 0]_vars
  BY NextTells DEF TellsLoss, LossSaid
<1> QED BY <1>1, AlwaysUnborn, PTL DEF Spec, LossTold

(* A session on a live link leaves its block, aborted or in autocommit,    *)
(* only in a call that reports an error, whatever the calls before it;     *)
(* with OCDB_PG_IGNORE_ERROR too. EXECUTE of another spelling of COMMIT    *)
(* excepted.                                                               *)
THEOREM BlocksTold == Spec => TxnLeftTold
<1>1. IInv /\ Unborn /\ [Next]_vars =>
        [\A id \in 1..MaxId :
           /\ ses[id].txn = "block" /\ ses'[id].txn # "block"
           /\ ses'[id].link = "up" /\ ~Executes(Aliases)
           => sqlcode' < 0]_vars
  BY NextTells DEF TellsLeft, LeftSaid
<1> QED BY <1>1, AlwaysUnborn, PTL DEF Spec, TxnLeftTold

-----------------------------------------------------------------------------
(* Statements of their own: ROLLBACK, and one that changes data.           *)

LEMMA OnlyExec ==
  ASSUME Next, last'.op \in {"ROLLBACK", "Exec"}
  PROVE  \E n \in Names, t \in Updates \cup {"ROLLBACK"} :
           _ocesqlExec(n, t) /\ (last'.op = "Exec" <=> t # "ROLLBACK")
<1>1. ~ConnNext
  BY DEF ConnNext, _ocesqlConnect, OCESQLDisconnect, NotConnected, Refused, Returns
<1>2. \A n \in Names, q \in Statics, fits \in BOOLEAN : ~_ocesqlExecSelectIntoOne(n, q, fits)
  BY DEF _ocesqlExecSelectIntoOne, NotConnected, Refused, Returns
<1>3. \A n \in Names, t \in Updates \cup {"COMMIT", "ROLLBACK"} :
        _ocesqlExec(n, t) => last'.op = IF t \in {"COMMIT", "ROLLBACK"} THEN t ELSE "Exec"
  <2>1. \A op, id, code : Returns(op, id, code) => last'.op = op
    BY DEF Returns
  <2> QED BY <2>1 DEF _ocesqlExec, NotConnected, Refused, Restarted, Sent
<1>4. ~PrepNext
  BY DEF PrepNext, OCESQLPrepare, _ocesqlExecPrepare, NotConnected, Refused, Returns,
         Restarted, Sent
<1>5. ~DeclareNext
  <2>1. \A op, id : Crash(op, id) => last'.op = op
    BY DEF Crash
  <2>2. \A op, id, code : Returns(op, id, code) => last'.op = op
    BY DEF Returns
  <2> QED
    BY <2>1, <2>2
    DEF DeclareNext, _ocesqlCursorDeclare, _ocesqlPreparedCursorDeclare, NotConnected, Refused
<1>6. ~CursorNext
  BY DEF CursorNext, OCESQLCursorOpen, OCESQLCursorOpenParams, Opening, OCESQLCursorClose,
         OCESQLCursorFetchOne, OCESQLCursorFetchOccurs, Refused, Returns, Sent
<1>7. \A id \in 1..MaxId : ~LoseLink(id)
  BY DEF LoseLink
<1>8. PICK n \in Names, t \in Updates \cup {"COMMIT", "ROLLBACK"} : _ocesqlExec(n, t)
  BY <1>1, <1>2, <1>4, <1>5, <1>6, <1>7 DEF Next, ExecNext
<1>9. t # "COMMIT" /\ (last'.op = "Exec" <=> t # "ROLLBACK")
  BY <1>3, <1>8
<1> QED BY <1>8, <1>9

LEMMA RolledBack ==
  ASSUME IInv, NEW n \in Names, _ocesqlExec(n, "ROLLBACK"),
         last'.id # NoId, ses'[last'.id].link = "up"
  PROVE  /\ ses'[last'.id].txn = "block"
         /\ ses'[last'.id].portal = NoPortals
         /\ \A c \in Cursors : cur'[c].conn = last'.id => ~cur'[c].isOpened
<1> DEFINE id == reg[n]
           s  == ses[id]
<1>1. PICK o \in Run(s, "ROLLBACK", NPar["ROLLBACK"]) :
        /\ id # NoId
        /\ IF Success(o.r) THEN Restarted("ROLLBACK", id, o.s, TRUE)
                           ELSE Sent("ROLLBACK", id, o)
  <2>1. ~NotConnected("ROLLBACK", n)
    BY DEF NotConnected, Refused, Returns
  <2> QED BY <2>1 DEF _ocesqlExec, Ends
<1>2. id \in 1..MaxId /\ SessionOK(s) /\ last'.id = id /\ "ROLLBACK" \in Texts
  BY <1>1, Known2 DEF Restarted, Sent, Returns, Texts
<1>3. \A t : ses' = [ses EXCEPT ![id] = t] => ses'[id] = t
  BY <1>2 DEF IInv, Core, TypeCore
<1>4. CASE Success(o.r)
  <2>1. s.link = "up" /\ o.s = Ended(s)
    BY <1>1, <1>2, <1>4, EndedRun DEF Ends
  <2>2. PICK b \in Run(Ended(s), "BEGIN", 0) :
          ses' = [ses EXCEPT ![id] = b.s] /\ cur' = clear_cursor_list(id)
    BY <1>1, <1>4, <2>1 DEF Restarted
  <2>3. ses'[id] = b.s
    BY <1>3, <2>2
  <2>4. b.s.txn = "block" /\ b.s.portal = NoPortals
    BY <1>2, <2>1, <2>3, BegunRun
  <2>5. \A c \in Cursors : cur'[c].conn = id => ~cur'[c].isOpened
    BY <2>2 DEF clear_cursor_list, IInv, Core, TypeCore, Entry
  <2> QED BY <1>2, <2>3, <2>4, <2>5
<1>5. CASE ~Success(o.r)
  <2>1. ses'[id] = o.s
    BY <1>1, <1>3, <1>5 DEF Sent
  <2>2. o \in PQexec(s, Rollback(s))
    BY NParAssumption, TextsAssumption DEF Run, Text
  <2>3. o.s = Cut(s) \/ o.s.link # "up"
    BY <1>5, <2>2, ExecCases DEF Rollback, Reply, Success
  <2> QED BY <1>2, <2>1, <2>3, CutFine
<1> QED BY <1>4, <1>5

(* ROLLBACK on a connection that is up when it returns has begun a new     *)
(* block without portals and has closed every cursor of the connection,    *)
(* whatever was open before.                                               *)
THEOREM RollbacksRestart == Spec => RollbackRestarts
<1>1. IInv /\ [Next]_vars => [Restarts("ROLLBACK")]_vars
  BY OnlyExec, RolledBack DEF Restarts
<1> QED BY <1>1, RuntimeInvariant, PTL DEF Spec, RollbackRestarts

(* OCDB_PG_IGNORE_ERROR keeps its promise to every program whose INSERT,   *)
(* UPDATE and DELETE all take host variables: none that fails aborts the   *)
(* block. (Of one that takes none it does not hold: no savepoint is set.)  *)
THEOREM FailuresContained ==
  ASSUME \A t \in Updates : NPar[t] > 0
  PROVE  Spec => SingleStatementRollback
<1>1. ASSUME IInv, Next, IgnoreError, last'.op = "Exec", last'.id # NoId,
             ses[last'.id].txn = "block"
      PROVE  ses'[last'.id].txn # "aborted"
  <2>1. PICK n \in Names, t \in Updates : _ocesqlExec(n, t)
    BY <1>1, OnlyExec
  <2> DEFINE id == reg[n]
             s  == ses[id]
  <2>2. t \in Texts /\ ~Ends(t)
    BY TextsAssumption DEF Texts, Ends
  <2>3. \A op : ~NotConnected(op, n)
    BY <1>1 DEF NotConnected, Refused, Returns
  <2>4. PICK o \in Run(s, t, NPar[t]) : id # NoId /\ \E op : Sent(op, id, o)
    BY <2>1, <2>2, <2>3 DEF _ocesqlExec
  <2>5. id \in 1..MaxId /\ SessionOK(s) /\ last'.id = id
    BY <1>1, <2>4, Known2 DEF Sent, Returns
  <2>6. ses'[id] = o.s
    BY <1>1, <2>4, <2>5 DEF Sent, IInv, Core, TypeCore
  <2>7. o \in OCDB_PGExecParams(s, Text(s, t, NPar[t])) /\ s.txn = "block"
    BY <1>1, <2>4, <2>5 DEF Run
  <2> HIDE DEF s, id
  <2>8. \A a \in Text(s, t, NPar[t]) : Restored(s, a.s).txn # "aborted"
    <3> TAKE a \in Text(s, t, NPar[t])
    <3>1. a.s \in Session
      BY <2>2, <2>5, TextFine DEF Fine, SessionOK
    <3> QED BY <2>7, <3>1 DEF Restored, Session
  <2>9. /\ Cut(s).txn # "aborted"
        /\ \A a \in Text(s, t, NPar[t]) : Cut(a.s).txn # "aborted"
    <3>1. \A u : SessionOK(u) => Cut(u).txn = "idle"
      BY DEF SessionOK, Session, Cut, Ended
    <3> QED BY <2>2, <2>5, <3>1, TextFine DEF Fine
  <2>10. o.s.txn # "aborted"
    <3>1. \/ o.s = s \/ o.s = Cut(s)
          \/ \E a \in Text(s, t, NPar[t]) : o.s = Restored(s, a.s) \/ o.s = Cut(a.s)
      BY <1>1, <2>7 DEF OCDB_PGExecParams, Reply
    <3> QED BY <2>7, <2>8, <2>9, <3>1
  <2> QED BY <2>5, <2>6, <2>10
<1>2. IInv /\ [Next]_vars =>
        [IgnoreError /\ last'.op = "Exec" /\ last'.id # NoId
         => ~(/\ ses[last'.id].txn = "block"
              /\ ses'[last'.id].txn = "aborted")]_vars
  BY <1>1
<1> QED BY <1>2, RuntimeInvariant, PTL DEF Spec, SingleStatementRollback

-----------------------------------------------------------------------------
(* What OPEN opens.                                                        *)

(* The entry of a cursor has what its last DECLARE put there.              *)
DeclaredSo ==
  \A c \in Cursors :
    /\ decl[c] = "static" => cur[c].query # NoQuery
    /\ decl[c] \in Prepares => cur[c].sp = decl[c]
    /\ Known(c) => decl[c] # "none"

(* A step that declares nothing. *)
LEMMA NoneDeclared ==
  ASSUME DeclaredSo, decl' = decl,
         \A c \in Cursors : /\ cur'[c].query = cur[c].query /\ cur'[c].sp = cur[c].sp
                            /\ cur'[c].conn = cur[c].conn
  PROVE  DeclaredSo'
BY DEF DeclaredSo, Known

LEMMA DeclareDeclares ==
  ASSUME IInv, DeclaredSo, DeclareNext
  PROVE  DeclaredSo'
<1>0. /\ cur \in [Cursors -> Entry]
      /\ decl \in [Cursors -> Prepares \cup {"none", "static"}]
  BY DEF IInv, Core, TypeCore, TypeRest
<1>1. CASE UNCHANGED <<cur, decl>>
  BY <1>1 DEF DeclaredSo, Known
<1>2. ASSUME NEW c \in Cursors, NEW q \in Statics, NEW id,
             cur' = [cur EXCEPT ![c].conn = id, ![c].query = q],
             decl' = [decl EXCEPT ![c] = "static"]
      PROVE  DeclaredSo'
  <2>1. cur'[c].query = q /\ q # NoQuery /\ decl'[c] = "static" /\ "static" \notin Prepares
    BY <1>0, <1>2, RuntimeAssumption, TextsAssumption, NamesAssumption DEF Entry, Texts
  <2>2. \A d \in Cursors : d # c => cur'[d] = cur[d] /\ decl'[d] = decl[d]
    BY <1>0, <1>2
  <2> QED BY <2>1, <2>2 DEF DeclaredSo, Known
<1>3. ASSUME NEW c \in Cursors, NEW p \in Prepares, NEW id,
             cur' = [cur EXCEPT ![c].conn = id, ![c].sp = p],
             decl' = [decl EXCEPT ![c] = p]
      PROVE  DeclaredSo'
  <2>1. cur'[c].sp = p /\ decl'[c] = p /\ p \notin {"none", "static"}
    BY <1>0, <1>3, NamesAssumption DEF Entry
  <2>2. \A d \in Cursors : d # c => cur'[d] = cur[d] /\ decl'[d] = decl[d]
    BY <1>0, <1>3
  <2> QED BY <2>1, <2>2 DEF DeclaredSo, Known
<1> QED
  BY <1>1, <1>2, <1>3
  DEF DeclareNext, _ocesqlCursorDeclare, _ocesqlPreparedCursorDeclare,
      NotConnected, Refused, Crash

LEMMA NextDeclares ==
  ASSUME IInv, DeclaredSo, [Next]_vars
  PROVE  DeclaredSo'
<1>0. cur \in [Cursors -> Entry]
  BY DEF IInv, Core, TypeCore
<1>1. CASE UNCHANGED <<cur, decl>>
  BY <1>1, NoneDeclared
<1>2. ASSUME NEW id, cur' = clear_cursor_list(id), decl' = decl
      PROVE  DeclaredSo'
  <2>1. \A c \in Cursors : /\ cur'[c].query = cur[c].query /\ cur'[c].sp = cur[c].sp
                           /\ cur'[c].conn = cur[c].conn
    BY <1>0, <1>2 DEF clear_cursor_list, Entry
  <2> QED BY <1>2, <2>1, NoneDeclared
<1>3. ASSUME NEW d \in Cursors, NEW b, cur' = [cur EXCEPT ![d].isOpened = b], decl' = decl
      PROVE  DeclaredSo'
  <2>1. \A c \in Cursors : /\ cur'[c].query = cur[c].query /\ cur'[c].sp = cur[c].sp
                           /\ cur'[c].conn = cur[c].conn
    BY <1>0, <1>3 DEF Entry
  <2> QED BY <1>3, <2>1, NoneDeclared
<1>4. CASE DeclareNext
  BY <1>4, DeclareDeclares
<1>5. CASE ConnNext
  BY <1>1, <1>5 DEF ConnNext, _ocesqlConnect, OCESQLDisconnect, NotConnected, Refused
<1>6. CASE ExecNext \/ PrepNext
  BY <1>1, <1>2, <1>6
  DEF ExecNext, PrepNext, _ocesqlExec, _ocesqlExecSelectIntoOne, OCESQLPrepare,
      _ocesqlExecPrepare, NotConnected, Refused, Restarted, Sent
<1>7. CASE CursorNext
  BY <1>1, <1>3, <1>7
  DEF CursorNext, OCESQLCursorOpen, OCESQLCursorOpenParams, Opening, OCESQLCursorClose,
      OCESQLCursorFetchOne, OCESQLCursorFetchOccurs, Refused, Sent
<1>8. CASE (\E id \in 1..MaxId : LoseLink(id)) \/ UNCHANGED vars
  BY <1>1, <1>8 DEF LoseLink, vars
<1> QED BY <1>4, <1>5, <1>6, <1>7, <1>8 DEF Next

(* The server opens the text it is sent, or nothing. *)
LEMMA PortalOpened ==
  ASSUME NEW s, SessionOK(s), NEW c \in Cursors, s.portal[c] = NoQuery,
         NEW q, NEW n, NEW d,
         \/ d \in PQexec(s, Declare(s, c, q, n))
         \/ d \in OCDB_PGExecParams(s, Declare(s, c, q, n))
  PROVE  d.s.portal[c] \in {q, NoQuery}
<1> DEFINE A == Declare(s, c, q, n)
<1>1. ASSUME s.link = "up", NEW a \in A
      PROVE  SessionOK(a.s) /\ a.s.portal[c] \in {q, NoQuery}
  <2>1. SessionOK(a.s)
    BY <1>1, DeclareFine DEF Fine
  <2>2. CASE \E r \in Results : a = Refuse(s, r)
    BY <2>1, <2>2, RefuseFine
  <2>3. CASE a = Reply([s EXCEPT !.portal[c] = q], "COMMAND_OK")
    BY <2>1, <2>3 DEF Reply, SessionOK, Session
  <2> QED BY <2>1, <2>2, <2>3 DEF Declare, Results, SessionOK, Session
<1>2. ASSUME s.link = "up", NEW a \in A, d.s \in {a.s, Restored(s, a.s), Cut(a.s)}
      PROVE  d.s.portal[c] \in {q, NoQuery}
  BY <1>1, <1>2, CutFine, RestoredFine DEF NoPortals
<1>3. CASE d.s = Cut(s) \/ d.s = s
  BY <1>3, CutFine DEF NoPortals
<1> HIDE DEF A
<1>4. CASE d \in PQexec(s, A)
  BY <1>2, <1>3, <1>4, ExecCases
<1>5. CASE d \in OCDB_PGExecParams(s, A)
  BY <1>2, <1>3, <1>5, ExecParamsCases
<1> QED BY <1>4, <1>5 DEF A

(* The text that OPEN declares the cursor for. *)
LEMMA DeclaringWanted ==
  ASSUME IInv, DeclaredSo, NEW c \in Cursors, Known(c), OneKind(c), NEW s, SessionOK(s),
         s.portal[c] = NoQuery, NEW n \in {0, 1}, n = 1 => cur[c].sp # NoPrepare,
         NEW d \in Declaring(s, c, n)
  PROVE  d.s.portal[c] \in {Wanted(c), NoQuery}
<1> DEFINE text == IF cur[c].sp # NoPrepare THEN prep[cur[c].sp] ELSE cur[c].query
<1>1. decl[c] \in Prepares \cup {"none", "static"} /\ decl[c] # "none"
  BY DEF IInv, TypeRest, DeclaredSo
<1>2. /\ decl[c] = "static"
           => cur[c].query # NoQuery /\ cur[c].sp = NoPrepare /\ Wanted(c) = cur[c].query
      /\ decl[c] # "static"
           => /\ cur[c].sp = decl[c] /\ cur[c].sp # NoPrepare /\ cur[c].query = NoQuery
              /\ Wanted(c) = prep[cur[c].sp]
  BY <1>1, RuntimeAssumption DEF DeclaredSo, OneKind, Wanted
<1>3. Wanted(c) = text
  BY <1>2
<1>4. nParams(c) > 0 => cur[c].query = text
  BY <1>2 DEF nParams
<1> HIDE DEF text
<1>5. \E m : \/ d \in PQexec(s, Declare(s, c, text, m))
            \/ d \in OCDB_PGExecParams(s, Declare(s, c, text, m))
  BY <1>4 DEF Declaring, text
<1> QED BY <1>3, <1>5, PortalOpened

LEMMA OpeningWanted ==
  ASSUME IInv, DeclaredSo, NEW c \in Cursors, Known(c), OneKind(c), sqlcode' = 0,
         NEW op, NEW n \in {0, 1}, n = 1 => cur[c].sp # NoPrepare, Opening(op, c, n)
  PROVE  ses'[cur[c].conn].portal[c] \in {Wanted(c), NoQuery}
<1> DEFINE s == ses[cur[c].conn]
<1>1. SessionOK(s) /\ cur[c].conn \in 1..MaxId
  BY Known2
<1>2. \A t : ses' = [ses EXCEPT ![cur[c].conn] = t] => ses'[cur[c].conn] = t
  BY <1>1 DEF IInv, Core, TypeCore
<1>3. PICK o \in Closing(c) :
        IF ~Success(o.r) THEN Sent(op, cur[c].conn, o)
        ELSE \E d \in Declaring(o.s, c, n) : ses' = [ses EXCEPT ![cur[c].conn] = d.s]
  BY DEF Opening
<1>4. CASE ~Success(o.r)
  <2>1. ses'[cur[c].conn] = o.s /\ CodeOf(o.r, 0) = 0
    BY <1>2, <1>3, <1>4 DEF Sent, Returns
  <2>2. o \in PQexec(s, Close(s, c))
    BY <1>3, <1>4 DEF Closing, Reply, Success
  <2>3. o.r # "FATAL"
    BY <2>1, Errors
  <2>4. CASE s.link = "up" /\ o \in Close(s, c)
    <3>1. o.r \in {"ERROR", "E34000"}
      BY <1>4, <2>4 DEF Close, Refuse, Reply, Success
    <3> QED BY <2>1, <3>1, Errors
  <2>5. CASE o.s = s /\ s.link # "up"
    BY <1>1, <2>1, <2>5 DEF SessionOK, PortalsInBlock, NoPortals
  <2> QED BY <2>2, <2>3, <2>4, <2>5, ExecCases
<1>5. CASE Success(o.r)
  <2>1. PICK d \in Declaring(o.s, c, n) : ses' = [ses EXCEPT ![cur[c].conn] = d.s]
    BY <1>3, <1>5
  <2>2. SessionOK(o.s) /\ o.s.portal[c] = NoQuery
    BY <1>3, <1>5, ClosingRun DEF Fine
  <2>3. d.s.portal[c] \in {Wanted(c), NoQuery}
    BY <2>1, <2>2, DeclaringWanted
  <2> QED BY <1>2, <2>1, <2>3
<1> QED BY <1>4, <1>5

(* What an OPEN without an error opens on the server is what the cursor    *)
(* was last declared for, whatever was declared, prepared, opened and lost *)
(* before; of a cursor name declared in one of the two ways only.          *)
THEOREM OpensDeclared == Spec => DeclaredOpens
<1>1. ASSUME IInv, DeclaredSo, NEW c \in Cursors, OneKind(c), sqlcode' = 0,
             OCESQLCursorOpen(c) \/ OCESQLCursorOpenParams(c, 1)
      PROVE  ses'[cur[c].conn].portal[c] \in {Wanted(c), NoQuery}
  <2>1. \A id : \A code \in {WARNING_UNKNOWN_PORTAL, INVALID_STMT, EMPTY} :
          \A op : ~Refused(op, id, code)
    BY <1>1 DEF Refused, Returns, WARNING_UNKNOWN_PORTAL, INVALID_STMT, EMPTY
  <2>2. /\ Known(c)
        /\ \/ Opening("Open", c, 0)
           \/ Opening("OpenParams", c, 1) /\ cur[c].sp # NoPrepare
    BY <1>1, <2>1 DEF OCESQLCursorOpen, OCESQLCursorOpenParams
  <2> QED BY <1>1, <2>2, OpeningWanted
<1>2. Init => DeclaredSo
  <2> SUFFICES ASSUME Init, NEW c \in Cursors
               PROVE  decl[c] = "none" /\ "none" \notin Prepares /\ ~Known(c)
    BY DEF DeclaredSo
  <2>1. "none" \notin Prepares
    BY NamesAssumption
  <2> QED BY <2>1 DEF Init, Known, NoEntry
<1>3. Spec => [](IInv /\ DeclaredSo)
  <2>1. IInv /\ DeclaredSo /\ [Next]_vars => DeclaredSo'
    BY NextDeclares
  <2> QED BY <1>2, <2>1, InitIInv, NextIInv, PTL DEF Spec
<1>4. IInv /\ DeclaredSo /\ [Next]_vars =>
        [\A c \in Cursors :
           /\ OneKind(c) /\ sqlcode' = 0
           /\ OCESQLCursorOpen(c) \/ OCESQLCursorOpenParams(c, 1)
           => ses'[cur[c].conn].portal[c] \in {Wanted(c), NoQuery}]_vars
  BY <1>1
<1> QED BY <1>3, <1>4, PTL DEF Spec, DeclaredOpens
=============================================================================
