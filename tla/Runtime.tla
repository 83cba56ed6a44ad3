------------------------------ MODULE Runtime -------------------------------
(***************************************************************************)
(* The embedded-SQL runtime of Open-COBOL-ESQL (dblib/ocesql.c), as the    *)
(* COBOL program that ocesql generated calls it: connections, transactions,*)
(* prepared statements and cursors, over PostgreSQL sessions whose links   *)
(* may die.                                                                *)
(*                                                                         *)
(* An action is one call of the library, from the resolution of the        *)
(* connection name to the SQLCODE it leaves, with every statement it sends *)
(* to the server on the way. The connection list is the map of             *)
(* ConnRegistry, which ConnList implements.                                *)
(***************************************************************************)
EXTENDS PgSession

CONSTANTS Names,        \* connection identifiers
          Prepares,     \* names of prepared statements
          Statics,      \* queries that cursors are declared for directly
          Dynamics,     \* texts the program may PREPARE
          NoPrepare,    \* no prepared statement (sp = NULL)
          MaxId         \* bound: connections ever created

ASSUME RuntimeAssumption ==
  /\ MaxId \in Nat
  /\ NoPrepare \notin Prepares
  /\ Statics \subseteq Selects
  /\ Dynamics \subseteq Texts

(* The history variable decl tells names from its two other values. *)
ASSUME NamesAssumption == Prepares \cap {"none", "static"} = {}

VARIABLES reg,      \* reg[n]: the id registered under n, NoId if none
          next,     \* the next id
          ses,      \* ses[id]: the session behind an id
          cur,      \* _cursor_list, by cursor name
          prep,     \* _prepare_list: the text behind a name, or NoQuery
          sqlcode,  \* SQLCA's SQLCODE after the last call
          last,     \* history: the last step, and the id it resolved to
          decl,     \* history: how each cursor was last declared
          alive     \* FALSE once the process was killed by a wild pointer

vars == <<reg, next, ses, cur, prep, sqlcode, last, decl, alive>>

NoId == 0

(* A cursor entry; conn = NoId where there is none. *)
Entry == [conn : 0..MaxId, sp : Prepares \cup {NoPrepare},
          query : Statics \cup {NoQuery}, isOpened : BOOLEAN]

NoEntry == [conn |-> NoId, sp |-> NoPrepare, query |-> NoQuery,
            isOpened |-> FALSE]

Known(c) == cur[c].conn # NoId

(* nParams of an entry: set by the static DECLARE, which passes as many    *)
(* host variables as its text has markers.                                 *)
nParams(c) == IF cur[c].query = NoQuery THEN 0 ELSE NPar[cur[c].query]

(* SQLCODE values set by the library itself. *)
NOT_FOUND              == 100
OUT_OF_MEMORY          == -12
EMPTY                  == -212
NO_CONN                == -220
INVALID_STMT           == -230
CONNECT                == -402
WARNING_UNKNOWN_PORTAL == -602
WARNING_PORTAL_EXISTS  == -605

Codes == {0, NOT_FOUND, OUT_OF_MEMORY, EMPTY, NO_CONN, INVALID_STMT, CONNECT,
          WARNING_UNKNOWN_PORTAL, WARNING_PORTAL_EXISTS, -400, -604, -9999}

(* The steps: the calls, and the loss of a link. *)
Ops == {"Init", "Connect", "Disconnect", "Exec", "COMMIT", "ROLLBACK", "Prepare",
        "ExecPrepare", "SelectInto", "Declare", "DeclarePrepared", "Open",
        "OpenParams", "FetchOne", "FetchOccurs", "Close", "LoseLink"}

Init ==
  /\ reg = [n \in Names |-> NoId]
  /\ next = 1
  /\ ses = [id \in 1..MaxId |-> NoSession]
  /\ cur = [c \in Cursors |-> NoEntry]
  /\ prep = [p \in Prepares |-> NoQuery]
  /\ sqlcode = 0
  /\ last = [op |-> "Init", id |-> NoId]
  /\ decl = [c \in Cursors |-> "none"]
  /\ alive = TRUE

-----------------------------------------------------------------------------
(* Building blocks of the calls.                                           *)

(* The call op, on connection id, ends with this SQLCODE. *)
Returns(op, id, code) ==
  /\ alive
  /\ sqlcode' = code
  /\ last' = [op |-> op, id |-> id]

(* It ends there, and nothing else has changed. *)
Refused(op, id, code) ==
  /\ Returns(op, id, code)
  /\ UNCHANGED <<reg, next, ses, cur, prep, decl, alive>>

(* _ocesqlResolveCONNID found no such name. *)
NotConnected(op, n) ==
  /\ reg[n] = NoId
  /\ Refused(op, NoId, NO_CONN)

(* The statement sent to connection id had outcome o; nothing else.        *)
Sent(op, id, o) ==
  /\ ses' = [ses EXCEPT ![id] = o.s]
  /\ Returns(op, id, CodeOf(o.r, 0))
  /\ UNCHANGED <<reg, next, cur, prep, decl, alive>>

(* Faulty variants, named Slip..., stand before the definition they vary:  *)
(* what a plausible slip in the code would do, for the properties to tell  *)
(* from the code.                                                          *)
SlipClearNone(id) == cur

SlipClearAll(id) ==
  [c \in Cursors |-> [cur[c] EXCEPT !.isOpened = FALSE]]

clear_cursor_list(id) ==
  [c \in Cursors |-> IF cur[c].conn = id THEN [cur[c] EXCEPT !.isOpened = FALSE]
                                         ELSE cur[c]]

(* A wild pointer: the process dies, and the server ends its sessions.     *)
Crash(op, id) ==
  /\ alive /\ alive' = FALSE
  /\ ses' = [i \in 1..MaxId |-> NoSession]
  /\ last' = [op |-> op, id |-> id]
  /\ UNCHANGED <<reg, next, cur, prep, sqlcode, decl>>

(* PQexec for a text without parameters, PQexecParams for one with them.   *)
Run(s, t, n) ==
  IF n > 0 THEN OCDB_PGExecParams(s, Text(s, t, n)) ELSE PQexec(s, Text(s, t, 0))

-----------------------------------------------------------------------------
(* CONNECT and DISCONNECT.                                                 *)

(* _ocesqlConnectMain. A connection that is up, or that is lost without    *)
(* libpq having noticed, is kept. A bad one is finished before the new one *)
(* is tried. PQconnectdb is followed by SET commands whose results are     *)
(* dropped, so the link may be bad already when BEGIN is sent.             *)
Kept(n) == reg[n] # NoId /\ ses[reg[n]].link \in {"up", "lost"}

Finished(n) ==
  IF reg[n] = NoId THEN ses ELSE [ses EXCEPT ![reg[n]] = NoSession]

_ocesqlConnect(n) ==
  \/ /\ Kept(n)
     /\ Refused("Connect", reg[n], 0)
  \/ /\ ~Kept(n)
     /\ UNCHANGED <<cur, prep, decl, alive>>
     /\ \/ \E code \in {CONNECT, OUT_OF_MEMORY} :
             /\ reg' = [reg EXCEPT ![n] = NoId]
             /\ ses' = Finished(n)
             /\ UNCHANGED next
             /\ Returns("Connect", NoId, code)
        \/ /\ next <= MaxId
           /\ reg' = [reg EXCEPT ![n] = next]
           /\ next' = next + 1
           /\ \E s \in {Fresh, Cut(Fresh)} : \E o \in Run(s, "BEGIN", 0) :
                /\ ses' = [Finished(n) EXCEPT ![next] = o.s]
                /\ Returns("Connect", next, CodeOf(o.r, 0))

SlipIdReused(n) ==
  /\ reg[n] # NoId
  /\ ses' = [ses EXCEPT ![reg[n]] = NoSession]
  /\ reg' = [reg EXCEPT ![n] = NoId]
  /\ next' = reg[n]
  /\ Returns("Disconnect", reg[n], sqlcode)
  /\ UNCHANGED <<cur, prep, decl, alive>>

(* OCESQLDisconnect: the SQLCA and the cursors are left as they are.       *)
OCESQLDisconnect(n) ==
  \/ NotConnected("Disconnect", n)
  \/ /\ reg[n] # NoId
     /\ ses' = [ses EXCEPT ![reg[n]] = NoSession]
     /\ reg' = [reg EXCEPT ![n] = NoId]
     /\ alive
     /\ last' = [op |-> "Disconnect", id |-> reg[n]]
     /\ UNCHANGED <<next, cur, prep, sqlcode, decl, alive>>

-----------------------------------------------------------------------------
(* Statements.                                                             *)

SlipNoBegin(op, id, s, looked) ==
  /\ ses' = [ses EXCEPT ![id] = s]
  /\ cur' = clear_cursor_list(id)
  /\ Returns(op, id, 0)
  /\ UNCHANGED <<reg, next, prep, decl, alive>>

(* COMMIT and ROLLBACK that succeeded, leaving session s: the cursors of   *)
(* the connection are closed and a new block is begun, whose result is     *)
(* looked at or not.                                                       *)
Restarted(op, id, s, looked) ==
  \E b \in Run(s, "BEGIN", 0) :
    /\ ses' = [ses EXCEPT ![id] = b.s]
    /\ cur' = clear_cursor_list(id)
    /\ Returns(op, id, IF looked THEN CodeOf(b.r, 0) ELSE 0)
    /\ UNCHANGED <<reg, next, prep, decl, alive>>

SlipCommitOnly(t) == t = "COMMIT"

Ends(t) == t \in {"COMMIT", "ROLLBACK"}

(* _ocesqlExec and _ocesqlExecParams, for a text of the program. *)
_ocesqlExec(n, t) ==
  LET id == reg[n]
      op == IF t \in {"COMMIT", "ROLLBACK"} THEN t ELSE "Exec"
  IN
  \/ NotConnected(op, n)
  \/ /\ id # NoId
     /\ \E o \in Run(ses[id], t, NPar[t]) :
          IF Success(o.r) /\ Ends(t) THEN Restarted(op, id, o.s, TRUE)
                                     ELSE Sent(op, id, o)

(* OCESQLPrepare: no connection is involved, and the SQLCA is not touched. *)
OCESQLPrepare(p, t) ==
  /\ alive
  /\ prep' = [prep EXCEPT ![p] = t]
  /\ last' = [op |-> "Prepare", id |-> NoId]
  /\ UNCHANGED <<reg, next, ses, cur, sqlcode, decl, alive>>

(* _ocesqlExecPrepare, with n arguments. The result of BEGIN is not looked *)
(* at.                                                                     *)
_ocesqlExecPrepare(n, p, args) ==
  LET id == reg[n]
      t  == prep[p]
  IN
  \/ NotConnected("ExecPrepare", n)
  \/ /\ id # NoId /\ t = NoQuery
     /\ Refused("ExecPrepare", id, INVALID_STMT)
  \/ /\ id # NoId /\ t # NoQuery /\ args # NPar[t]
     /\ Refused("ExecPrepare", id, EMPTY)
  \/ /\ id # NoId /\ t # NoQuery /\ args = NPar[t]
     /\ \E o \in Run(ses[id], t, args) :
          IF Success(o.r) /\ Ends(t)
          THEN Restarted("ExecPrepare", id, o.s, FALSE)
          ELSE Sent("ExecPrepare", id, o)

(* SELECT INTO: the statement, then the number of columns against that of  *)
(* the host variables ("fits").                                            *)
_ocesqlExecSelectIntoOne(n, q, fits) ==
  LET id == reg[n] IN
  \/ NotConnected("SelectInto", n)
  \/ /\ id # NoId
     /\ \E o \in Run(ses[id], q, NPar[q]) :
          /\ ses' = [ses EXCEPT ![id] = o.s]
          /\ Returns("SelectInto", id, IF Success(o.r) /\ ~fits THEN EMPTY
                                       ELSE CodeOf(o.r, 0))
          /\ UNCHANGED <<reg, next, cur, prep, decl, alive>>

-----------------------------------------------------------------------------
(* Cursors.                                                                *)

SlipQueryKept(n, c, q) ==
  /\ reg[n] # NoId /\ ~cur[c].isOpened
  /\ cur' = [cur EXCEPT ![c].conn = reg[n],
                        ![c].query = IF Known(c) THEN @ ELSE q]
  /\ decl' = [decl EXCEPT ![c] = "static"]
  /\ Returns("Declare", reg[n], 0)
  /\ UNCHANGED <<reg, next, ses, prep, alive>>

(* DECLARE ... CURSOR FOR SELECT. add_cursor_list renews every field but   *)
(* sp, and it frees the plist of an entry that exists already: that is an  *)
(* uninitialised pointer in an entry made by a prepared DECLARE.           *)
_ocesqlCursorDeclare(n, c, q) ==
  LET id == reg[n] IN
  \/ NotConnected("Declare", n)
  \/ /\ id # NoId /\ cur[c].isOpened
     /\ Refused("Declare", id, WARNING_PORTAL_EXISTS)
  \/ /\ id # NoId /\ ~cur[c].isOpened
     /\ cur' = [cur EXCEPT ![c].conn = id, ![c].query = q]
     /\ decl' = [decl EXCEPT ![c] = "static"]
     /\ Returns("Declare", id, 0)
     /\ UNCHANGED <<reg, next, ses, prep, alive>>
  \/ /\ id # NoId /\ ~cur[c].isOpened /\ Known(c) /\ cur[c].query = NoQuery
     /\ Crash("Declare", id)

SlipTextForPointer(n, c, p) ==
  /\ reg[n] # NoId /\ prep[p] # NoQuery /\ ~cur[c].isOpened
  /\ cur' = [cur EXCEPT ![c].conn = reg[n], ![c].sp = prep[p]]
  /\ decl' = [decl EXCEPT ![c] = p]
  /\ Returns("DeclarePrepared", reg[n], 0)
  /\ UNCHANGED <<reg, next, ses, prep, alive>>

SlipFirstPrepare(n, c, p) ==
  /\ reg[n] # NoId /\ prep[p] # NoQuery /\ ~cur[c].isOpened
  /\ cur' = [cur EXCEPT ![c].conn = reg[n],
                        ![c].sp = IF Known(c) THEN @ ELSE p]
  /\ decl' = [decl EXCEPT ![c] = p]
  /\ Returns("DeclarePrepared", reg[n], 0)
  /\ UNCHANGED <<reg, next, ses, prep, alive>>

(* DECLARE ... CURSOR FOR a prepared statement: query, nParams and plist   *)
(* of an entry that exists already stay.                                   *)
_ocesqlPreparedCursorDeclare(n, c, p) ==
  LET id == reg[n] IN
  \/ NotConnected("DeclarePrepared", n)
  \/ /\ id # NoId /\ prep[p] = NoQuery
     /\ Refused("DeclarePrepared", id, INVALID_STMT)
  \/ /\ id # NoId /\ prep[p] # NoQuery /\ cur[c].isOpened
     /\ Refused("DeclarePrepared", id, WARNING_PORTAL_EXISTS)
  \/ /\ id # NoId /\ prep[p] # NoQuery /\ ~cur[c].isOpened
     /\ cur' = [cur EXCEPT ![c].conn = id, ![c].sp = p]
     /\ decl' = [decl EXCEPT ![c] = p]
     /\ Returns("DeclarePrepared", id, 0)
     /\ UNCHANGED <<reg, next, ses, prep, alive>>

(* What OPEN declares on session s. With USING, the statement that the     *)
(* cursor was prepared for and the n arguments; without, the parameters of *)
(* the entry decide first, then its prepared statement.                    *)
Declaring(s, c, n) ==
  LET text == IF cur[c].sp # NoPrepare THEN prep[cur[c].sp] ELSE cur[c].query IN
  CASE n > 0 -> OCDB_PGExecParams(s, Declare(s, c, text, n))
    [] n = 0 /\ nParams(c) > 0 ->
         OCDB_PGExecParams(s, Declare(s, c, cur[c].query, nParams(c)))
    [] OTHER -> PQexec(s, Declare(s, c, text, 0))

(* A cursor that is open is closed first; if that fails, it stays marked   *)
(* open and nothing is declared.                                           *)
Closing(c) ==
  LET s == ses[cur[c].conn] IN
  IF cur[c].isOpened THEN PQexec(s, Close(s, c)) ELSE {Reply(s, "COMMAND_OK")}

Opening(op, c, n) ==
  LET id == cur[c].conn IN
  \E o \in Closing(c) :
    IF ~Success(o.r) THEN Sent(op, id, o)
    ELSE \E d \in Declaring(o.s, c, n) :
           /\ ses' = [ses EXCEPT ![id] = d.s]
           /\ cur' = [cur EXCEPT ![c].isOpened = Success(d.r)]
           /\ Returns(op, id, CodeOf(d.r, 0))
           /\ UNCHANGED <<reg, next, prep, decl, alive>>

OCESQLCursorOpen(c) ==
  \/ /\ ~Known(c)
     /\ Refused("Open", NoId, WARNING_UNKNOWN_PORTAL)
  \/ /\ Known(c)
     /\ Opening("Open", c, 0)

(* OPEN ... USING n host variables. *)
OCESQLCursorOpenParams(c, n) ==
  LET sp == cur[c].sp IN
  \/ /\ ~Known(c)
     /\ Refused("OpenParams", NoId, WARNING_UNKNOWN_PORTAL)
  \/ /\ Known(c) /\ sp = NoPrepare
     /\ Refused("OpenParams", cur[c].conn, INVALID_STMT)
  \/ /\ Known(c) /\ sp # NoPrepare
     /\ n # NPar[prep[sp]]
     /\ Refused("OpenParams", cur[c].conn, EMPTY)
  \/ /\ Known(c) /\ sp # NoPrepare
     /\ n = NPar[prep[sp]]
     /\ Opening("OpenParams", c, n)

(* FETCH of one row. *)
OCESQLCursorFetchOne(c, fits) ==
  LET id == cur[c].conn IN
  \/ /\ ~Known(c)
     /\ Refused("FetchOne", NoId, WARNING_UNKNOWN_PORTAL)
  \/ /\ Known(c)
     /\ \E o \in PQexec(ses[id], Fetch(ses[id], c)) :
          /\ ses' = [ses EXCEPT ![id] = o.s]
          /\ Returns("FetchOne", id, IF Success(o.r) /\ ~fits THEN EMPTY
                                     ELSE CodeOf(o.r, 0))
          /\ UNCHANGED <<reg, next, cur, prep, decl, alive>>

SlipNoRowsFirst(c, fits, over500) ==
  LET id == cur[c].conn IN
  /\ ~over500 /\ Known(c)
  /\ \E o \in PQexec(ses[id], Fetch(ses[id], c)) :
       /\ ses' = [ses EXCEPT ![id] = o.s]
       /\ Returns("FetchOccurs", id, IF o.r # "TUPLES" THEN NOT_FOUND
                                     ELSE IF fits THEN 0 ELSE EMPTY)
       /\ UNCHANGED <<reg, next, cur, prep, decl, alive>>

(* FETCH into a table of host variables: the result of the server is never *)
(* turned into a SQLCODE; a result without columns does not fit. More than *)
(* 500 rows are not asked for.                                             *)
OCESQLCursorFetchOccurs(c, fits, over500) ==
  LET id == cur[c].conn IN
  \/ /\ over500
     /\ Refused("FetchOccurs", NoId, EMPTY)
  \/ /\ ~over500 /\ ~Known(c)
     /\ Refused("FetchOccurs", NoId, WARNING_UNKNOWN_PORTAL)
  \/ /\ ~over500 /\ Known(c)
     /\ \E o \in PQexec(ses[id], Fetch(ses[id], c)) :
          /\ ses' = [ses EXCEPT ![id] = o.s]
          /\ Returns("FetchOccurs", id, IF Success(o.r) /\ fits
                                        THEN CodeOf(o.r, 0) ELSE EMPTY)
          /\ UNCHANGED <<reg, next, cur, prep, decl, alive>>

SlipClosedAnyway(c) ==
  LET id == cur[c].conn IN
  /\ Known(c) /\ cur[c].isOpened
  /\ \E o \in PQexec(ses[id], Close(ses[id], c)) :
       /\ ses' = [ses EXCEPT ![id] = o.s]
       /\ cur' = [cur EXCEPT ![c].isOpened = FALSE]
       /\ Returns("Close", id, CodeOf(o.r, 0))
       /\ UNCHANGED <<reg, next, prep, decl, alive>>

(* CLOSE. *)
OCESQLCursorClose(c) ==
  LET id == cur[c].conn IN
  \/ /\ ~Known(c)
     /\ Refused("Close", NoId, WARNING_UNKNOWN_PORTAL)
  \/ /\ Known(c) /\ ~cur[c].isOpened
     /\ Refused("Close", id, 0)
  \/ /\ Known(c) /\ cur[c].isOpened
     /\ \E o \in PQexec(ses[id], Close(ses[id], c)) :
          /\ ses' = [ses EXCEPT ![id] = o.s]
          /\ cur' = [cur EXCEPT ![c].isOpened = ~Success(o.r)]
          /\ Returns("Close", id, CodeOf(o.r, 0))
          /\ UNCHANGED <<reg, next, prep, decl, alive>>

-----------------------------------------------------------------------------

(* The environment: a link dies, and the server rolls its block back.      *)
LoseLink(id) ==
  /\ ses[id].link = "up"
  /\ ses' = [ses EXCEPT ![id] = [Ended(@) EXCEPT !.link = "lost"]]
  /\ last' = [op |-> "LoseLink", id |-> id]
  /\ UNCHANGED <<reg, next, cur, prep, sqlcode, decl, alive>>

ConnNext ==
  \E n \in Names : _ocesqlConnect(n) \/ OCESQLDisconnect(n)

ExecNext ==
  \/ \E n \in Names, t \in Updates \cup {"COMMIT", "ROLLBACK"} : _ocesqlExec(n, t)
  \/ \E n \in Names, q \in Statics, fits \in BOOLEAN :
        _ocesqlExecSelectIntoOne(n, q, fits)

PrepNext ==
  \/ \E p \in Prepares, t \in Dynamics : OCESQLPrepare(p, t)
  \/ \E n \in Names, p \in Prepares, args \in 0..1 : _ocesqlExecPrepare(n, p, args)

DeclareNext ==
  \/ \E n \in Names, c \in Cursors, q \in Statics : _ocesqlCursorDeclare(n, c, q)
  \/ \E n \in Names, c \in Cursors, p \in Prepares :
        _ocesqlPreparedCursorDeclare(n, c, p)

CursorNext ==
  \E c \in Cursors :
    \/ OCESQLCursorOpen(c)
    \/ OCESQLCursorOpenParams(c, 1)
    \/ OCESQLCursorClose(c)
    \/ \E fits \in BOOLEAN :
         \/ OCESQLCursorFetchOne(c, fits)
         \/ \E over500 \in BOOLEAN : OCESQLCursorFetchOccurs(c, fits, over500)

Next ==
  \/ ConnNext
  \/ ExecNext
  \/ PrepNext
  \/ DeclareNext
  \/ CursorNext
  \/ \E id \in 1..MaxId : LoseLink(id)

Spec == Init /\ [][Next]_vars

-----------------------------------------------------------------------------
(* Properties.                                                             *)

TypeOK ==
  /\ reg \in [Names -> 0..MaxId]
  /\ next \in 1..(MaxId + 1)
  /\ ses \in [1..MaxId -> Session]
  /\ cur \in [Cursors -> Entry]
  /\ prep \in [Prepares -> Dynamics \cup {NoQuery}]
  /\ sqlcode \in Codes
  /\ last \in [op : Ops, id : 0..MaxId]
  /\ decl \in [Cursors -> Prepares \cup {"none", "static"}]
  /\ alive \in BOOLEAN

(* A portal in a session is known to the library as open, on that          *)
(* connection: no sequence of errors, rollbacks and redeclarations leaves  *)
(* a portal that the next OPEN of its name would run into (42P03).         *)
PortalOwned ==
  \A id \in 1..MaxId, c \in Cursors :
    ses[id].portal[c] # NoQuery => cur[c].isOpened /\ cur[c].conn = id

(* isOpened is not stale while it matters: on a live connection inside a   *)
(* transaction block, a cursor marked open has its portal. (After a failed *)
(* COMMIT the marks are stale, and the session is outside any block.)      *)
FlagAccurate ==
  \A c \in Cursors :
    cur[c].isOpened =>
      LET s == ses[cur[c].conn] IN
      s.link = "up" /\ s.txn # "idle" => s.portal[c] # NoQuery

(* The texts that EXECUTE may run in a step. *)
Executes(T) == last'.op = "ExecPrepare" /\ \E p \in Prepares : prep[p] \in T

(* A session that leaves its block on a live link, aborted or back to      *)
(* autocommit, does so in a call that reports an error. Only EXECUTE of    *)
(* another spelling of COMMIT is not told apart from any statement.        *)
TxnLeftTold ==
  [][\A id \in 1..MaxId :
       /\ ses[id].txn = "block" /\ ses'[id].txn # "block"
       /\ ses'[id].link = "up" /\ ~Executes(Aliases)
       => sqlcode' < 0]_vars

(* The call in which the library notices that the link is gone reports an  *)
(* error, FETCH into tables included, which looks at no status. (Not so    *)
(* the BEGIN after EXECUTE of COMMIT, and nothing that OCDB_PG_IGNORE_ERROR*)
(* puts a savepoint around.)                                               *)
LossTold ==
  [][\A id \in 1..MaxId :
       /\ ses[id].link \in {"up", "lost"} /\ ses'[id].link = "bad"
       /\ ~IgnoreError /\ ~Executes({"COMMIT", "ROLLBACK"})
       => sqlcode' < 0]_vars

(* What OPEN opens, on the server, is what the cursor was last declared    *)
(* for: the query of the DECLARE, or the text that the prepared statement  *)
(* has now. This is for names that are declared in one of the two ways     *)
(* only: of an entry that has both, OPEN may choose the older one.         *)
Wanted(c) ==
  IF decl[c] = "static" THEN cur[c].query
  ELSE IF decl[c] \in Prepares THEN prep[decl[c]] ELSE NoQuery

OneKind(c) == cur[c].sp = NoPrepare \/ cur[c].query = NoQuery

DeclaredOpens ==
  [][\A c \in Cursors :
       /\ OneKind(c) /\ sqlcode' = 0
       /\ OCESQLCursorOpen(c) \/ OCESQLCursorOpenParams(c, 1)
       => ses'[cur[c].conn].portal[c] \in {Wanted(c), NoQuery}]_vars

(* A cursor still marked open when its connection is found dead keeps that *)
(* mark for the life of the process: neither CLOSE, ROLLBACK, a new        *)
(* DECLARE nor a reconnection frees its name.                              *)
DeadCursorStays ==
  [][\A c \in Cursors :
       cur[c].isOpened /\ ses[cur[c].conn].link \in {"bad", "closed"}
       => cur'[c] = cur[c]]_vars

(* COMMIT and ROLLBACK on a live connection end in a new block without     *)
(* portals and with no cursor of the connection marked open.               *)
Restarts(t) ==
  last'.op = t /\ last'.id # NoId /\ ses'[last'.id].link = "up"
  => /\ ses'[last'.id].txn = "block"
     /\ ses'[last'.id].portal = NoPortals
     /\ \A c \in Cursors : cur'[c].conn = last'.id => ~cur'[c].isOpened

RollbackRestarts == [][Restarts("ROLLBACK")]_vars
CommitRestarts   == [][Restarts("COMMIT")]_vars

(* With OCDB_PG_IGNORE_ERROR an INSERT, UPDATE or DELETE that fails does   *)
(* not abort the block.                                                    *)
SingleStatementRollback ==
  [][IgnoreError /\ last'.op = "Exec" /\ last'.id # NoId
     => ~(/\ ses[last'.id].txn = "block"
          /\ ses'[last'.id].txn = "aborted")]_vars

(* A statement on a connection that is bad, which no server executes,      *)
(* leaves an error in the SQLCA.                                           *)
ExecStored ==
  [][last'.op \in {"Exec", "COMMIT", "ROLLBACK"} /\ last'.id # NoId
     => (ses[last'.id].link = "bad" => sqlcode' < 0)]_vars

(* No pointer of a cursor entry is used before it was set. *)
NoWildPointer == alive

(* The connections as the map that the connection list implements. *)
Registry == INSTANCE ConnRegistry

ImplementsRegistry == Registry!Spec
=============================================================================
