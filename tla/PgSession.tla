----------------------------- MODULE PgSession ------------------------------
(***************************************************************************)
(* One PostgreSQL session as the runtime sees it through libpq: the link,  *)
(* the transaction state of the backend, and its portals (open cursors).   *)
(* PostgreSQL and libpq are not part of the repository; what is modelled   *)
(* is the part of their behaviour that dblib/ocpgsql.c relies on.          *)
(*                                                                         *)
(* A statement is answered with one of a set of outcomes [s, r]: the       *)
(* session it leaves and the PGresult that the client is handed.           *)
(***************************************************************************)
EXTENDS Integers

CONSTANTS Cursors,      \* cursor names
          Selects,      \* texts of queries
          Updates,      \* texts of INSERT, UPDATE and DELETE statements
          Aliases,      \* other spellings of COMMIT ("COMMIT  ", "END", ...)
          NPar,         \* NPar[t]: how many $n the text t has
          IgnoreError,  \* OCDB_PG_IGNORE_ERROR=Y (rollback_one_mode)
          NoQuery       \* no text

Texts == Selects \cup Updates \cup Aliases \cup {"COMMIT", "ROLLBACK"}

ASSUME TextsAssumption ==
  /\ NoQuery \notin Texts
  /\ "BEGIN" \notin Texts
  /\ {"COMMIT", "ROLLBACK"} \cap (Selects \cup Updates \cup Aliases) = {}
  /\ Aliases \cap (Selects \cup Updates) = {}
  /\ Selects \cap Updates = {}

ASSUME NParAssumption ==
  /\ NPar \in [Texts -> Nat]
  /\ \A t \in Aliases \cup {"COMMIT", "ROLLBACK"} : NPar[t] = 0

ASSUME IgnoreErrorAssumption == IgnoreError \in BOOLEAN

(* link: up; lost, and libpq has not noticed; bad, and it has (PQstatus    *)
(* says so); closed, finished or never opened.                             *)
Links == {"up", "lost", "bad", "closed"}

Session == [link   : Links,
            txn    : {"idle", "block", "aborted"},
            portal : [Cursors -> Selects \cup {NoQuery}]]

Results == {"COMMAND_OK", "TUPLES", "NO_TUPLES", "ERROR", "E25P01", "E34000",
            "E42P03", "FATAL", "NULL"}

NoPortals == [c \in Cursors |-> NoQuery]

NoSession == [link |-> "closed", txn |-> "idle", portal |-> NoPortals]
Fresh     == [link |-> "up",     txn |-> "idle", portal |-> NoPortals]

Ended(s) == [s EXCEPT !.txn = "idle", !.portal = NoPortals]
Cut(s)   == [Ended(s) EXCEPT !.link = "bad"]

Reply(s, r) == [s |-> s, r |-> r]

(* An error aborts the transaction block; outside one it only fails the    *)
(* statement.                                                              *)
Refuse(s, r) ==
  Reply(IF s.txn = "block" THEN [s EXCEPT !.txn = "aborted"] ELSE s, r)

-----------------------------------------------------------------------------
(* What the server answers. *)

Begin(s) ==
  IF s.txn = "aborted" THEN {Refuse(s, "ERROR")}
                       ELSE {Reply([s EXCEPT !.txn = "block"], "COMMAND_OK")}

(* A COMMIT may fail on a deferred constraint, and then it rolls back; in  *)
(* an aborted block it rolls back and reports no error.                    *)
Commit(s) ==
  {Reply(Ended(s), r) :
     r \in {"COMMAND_OK"} \cup (IF s.txn = "block" THEN {"ERROR"} ELSE {})}

Rollback(s) == {Reply(Ended(s), "COMMAND_OK")}

(* A data statement sent with n parameters. *)
Statement(s, t, n) ==
  {Refuse(s, "ERROR")} \cup
  (IF s.txn = "aborted" \/ n # NPar[t] THEN {}
   ELSE {Reply(s, r) : r \in IF t \in Selects THEN {"TUPLES", "NO_TUPLES"}
                                              ELSE {"COMMAND_OK"}})

Text(s, t, n) ==
  CASE t = "BEGIN"                 -> Begin(s)
    [] t = "ROLLBACK"              -> Rollback(s)
    [] t \in Aliases \cup {"COMMIT"} -> Commit(s)
    [] OTHER                       -> Statement(s, t, n)

(* DECLARE c CURSOR FOR q, without HOLD. *)
Declare(s, c, q, n) ==
  CASE s.txn = "idle"        -> {Refuse(s, "E25P01")}
    [] s.txn = "aborted"     -> {Refuse(s, "ERROR")}
    [] s.txn = "block" /\ s.portal[c] # NoQuery -> {Refuse(s, "E42P03")}
    [] OTHER ->
         {Refuse(s, "ERROR")} \cup
         (IF q \in Selects /\ n = NPar[q]
          THEN {Reply([s EXCEPT !.portal[c] = q], "COMMAND_OK")} ELSE {})

Close(s, c) ==
  CASE s.txn = "aborted"       -> {Refuse(s, "ERROR")}
    [] s.txn # "aborted" /\ s.portal[c] = NoQuery -> {Refuse(s, "E34000")}
    [] OTHER -> {Reply([s EXCEPT !.portal[c] = NoQuery], "COMMAND_OK")}

Fetch(s, c) ==
  CASE s.txn = "aborted"       -> {Refuse(s, "ERROR")}
    [] s.txn # "aborted" /\ s.portal[c] = NoQuery -> {Refuse(s, "E34000")}
    [] OTHER -> {Refuse(s, "ERROR")} \cup
                {Reply(s, r) : r \in {"TUPLES", "NO_TUPLES"}}

-----------------------------------------------------------------------------
(* What libpq hands to the caller.                                         *)

(* PQexec: on a lost link it returns a fatal result without SQLSTATE and   *)
(* marks the connection bad; on a bad one it returns NULL. An id that is   *)
(* not in the connection list has no result either.                        *)
PQexec(s, answers) ==
  CASE s.link = "up"   -> answers \cup {Reply(Cut(s), "FATAL")}
    [] s.link = "lost" -> {Reply(Cut(s), "FATAL")}
    [] OTHER           -> {Reply(s, "NULL")}

(* A faulty variant: the savepoint is released and never rolled back to.   *)
SlipNotRestored(s, t) == t

(* ROLLBACK TO oc_save undoes the abort of a block in which SAVEPOINT had  *)
(* succeeded.                                                              *)
Restored(s, t) ==
  IF s.txn = "block" /\ t.txn = "aborted" THEN [t EXCEPT !.txn = "block"] ELSE t

(* OCDB_PGExecParams: with IgnoreError the statement stands between        *)
(* SAVEPOINT and RELEASE or ROLLBACK TO, whose own results are dropped; a  *)
(* link lost at SAVEPOINT leaves the statement with a NULL result.         *)
OCDB_PGExecParams(s, answers) ==
  IF ~IgnoreError THEN PQexec(s, answers)
  ELSE CASE s.link = "up" ->
              {Reply(Cut(s), "NULL"), Reply(Cut(s), "FATAL")} \cup
              UNION {{Reply(Restored(s, o.s), o.r), Reply(Cut(o.s), o.r)}
                       : o \in answers}
         [] s.link = "lost" -> {Reply(Cut(s), "NULL")}
         [] OTHER           -> {Reply(s, "NULL")}

-----------------------------------------------------------------------------
(* OCDBSetResultStatus: the SQLCODE a result leaves, where "code" is the   *)
(* one before it. Without a result it is left alone. -400 stands for the   *)
(* SQLSTATEs that have a code of their own (-403 and the like) too.        *)
CodeOf(r, code) ==
  CASE r \in {"COMMAND_OK", "TUPLES"} -> 0
    [] r = "NO_TUPLES" -> 100
    [] r = "ERROR"     -> -400
    [] r = "E25P01"    -> -604
    [] r = "E34000"    -> -602
    [] r = "E42P03"    -> -605
    [] r = "FATAL"     -> -9999
    [] OTHER           -> code

Success(r) == r \in {"COMMAND_OK", "TUPLES", "NO_TUPLES"}
=============================================================================
