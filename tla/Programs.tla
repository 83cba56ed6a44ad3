------------------------------ MODULE Programs -------------------------------
(***************************************************************************)
(* The database programs of the repository (INSERTTBL and FETCHTBL of the  *)
(* samples, helloworld) as clients of the run-time library: each call they *)
(* make, which SQLCODEs they look at, and what ERROR-RTN does.             *)
(*                                                                         *)
(* A step of a program is one action of Runtime; between any two of them   *)
(* the link may die. What the server keeps is followed as two counts, the  *)
(* rows inserted in the open block and the rows that were committed.       *)
(***************************************************************************)
EXTENDS Runtime, Sequences

CONSTANTS
    Rows,      \* rows of TEST-DATA, and bound: rows of the table FETCHTBL reads
    Literal,   \* text of a statement without host variables
    Bound,     \* text of an INSERT of host variables
    Query      \* text of FETCHTBL's queries

ASSUME ProgramsAssumption ==
    /\ Rows \in Nat \ {0}
    /\ {Literal, Bound} \subseteq Updates /\ Query \in Statics
    /\ NPar[Literal] = 0 /\ NPar[Bound] > 0 /\ NPar[Query] = 0
    /\ Names # {} /\ Cursors # {}

VARIABLES
    prog,      \* the program that runs
    pc,        \* its next instruction; 0 once it has stopped
    idx,       \* passes of the loop it is in
    failed,    \* ERROR-RTN is to run
    told,      \* "*** SQL ERROR ***" was displayed
    pending,   \* rows inserted in the open block
    stored     \* rows committed

own  == <<prog, pc, idx, failed, told, pending, stored>>
all  == <<vars, own>>

DefaultName == CHOOSE n \in Names : TRUE

TheCursor == CHOOSE c \in Cursors : TRUE

-----------------------------------------------------------------------------
(* The programs.  After an instruction, SQLCODE is not looked at ("none"); *)
(* or ERROR-RTN runs if it is not zero, and the program goes on ("go"),    *)
(* stops ("stop") or leaves its loop ("leave").                            *)

Call(op, test) == [op |-> op, test |-> test]

CONNECT_USERNAME == Call("CONNECT", "stop")
COMMIT_ALL == Call("COMMIT", "none")
LEAVE == Call("DISCONNECT", "none")

INSERTTBL ==
    <<CONNECT_USERNAME, Call("DDL", "go"), Call("DDL", "stop"),
      Call("INSERT", "go"), Call("INSERT", "go"), Call("INSERT_LOOP", "leave"),
      COMMIT_ALL, LEAVE>>

helloworld ==
    <<CONNECT_USERNAME, Call("DDL", "go"), Call("DDL", "go"),
      Call("INSERT_HOST", "go"), Call("INSERT_HOST", "go"),
      COMMIT_ALL, LEAVE>>

FETCHTBL ==
    <<CONNECT_USERNAME, Call("SELECT", "none"), Call("DECLARE", "none"), Call("OPEN", "none"),
      Call("FETCH_LOOP", "until"), Call("CLOSE", "none"),
      COMMIT_ALL, LEAVE>>

Code == [INSERTTBL |-> INSERTTBL, helloworld |-> helloworld, FETCHTBL |-> FETCHTBL]

(* Rows that a run without errors adds to the table.                       *)
Expected == [INSERTTBL |-> 2 + Rows, helloworld |-> 2, FETCHTBL |-> 0]

Instruction == Code[prog][pc]

At(op) == pc > 0 /\ ~failed /\ Instruction.op = op

ProgInit ==
    /\ Init
    /\ prog \in DOMAIN Code
    /\ pc = 1 /\ idx = 0
    /\ failed = FALSE /\ told = FALSE
    /\ pending = 0 /\ stored = 0

-----------------------------------------------------------------------------
(* What the table keeps                                                    *)

Up == reg[DefaultName] # NoId /\ ses[reg[DefaultName]].link = "up"

(* An open block on the server.                                            *)
InBlock(s) == \E id \in 1..MaxId : s[id].txn = "block"

(* The insertion of one row; the end of the block takes all of them back.  *)
Inserted ==
    /\ pending' = IF ~InBlock(ses') THEN 0
                  ELSE IF Up /\ sqlcode' = 0 THEN pending + 1 ELSE pending
    /\ UNCHANGED stored

NothingInserted ==
    /\ pending' = IF InBlock(ses') THEN pending ELSE 0
    /\ UNCHANGED stored

(* A COMMIT whose answer was lost may have been done or not.               *)
Committed ==
    \E done \in BOOLEAN :
        /\ sqlcode' = 0 => done
        /\ sqlcode' = -400 => ~done
        /\ stored' = IF done THEN stored + pending ELSE stored
        /\ pending' = 0

-----------------------------------------------------------------------------
(* The flow of a program                                                   *)

(* The slip: errors, which are negative, are not looked for.               *)
SlipFails(test, code) == test \notin {"none", "until"} /\ code > 0

(* IF SQLCODE NOT = ZERO PERFORM ERROR-RTN ...                             *)
Fails(test, code) == test \notin {"none", "until"} /\ code # 0

Advance ==
    /\ failed' = Fails(Instruction.test, sqlcode')
    /\ pc' = IF pc < Len(Code[prog]) THEN pc + 1 ELSE 0
    /\ UNCHANGED <<prog, idx, told>>

(* The slip: one pass too many.                                            *)
SlipLastPass(i) == i > Rows

LastPass(i) == i = Rows

(* PERFORM VARYING IDX ... UNTIL IDX > 10, left at the first error.        *)
Loop ==
    /\ failed' = Fails(Instruction.test, sqlcode')
    /\ idx' = idx + 1
    /\ pc' = IF LastPass(idx + 1) /\ sqlcode' = 0 THEN pc + 1 ELSE pc
    /\ UNCHANGED <<prog, told>>

(* FETCH, then PERFORM UNTIL SQLCODE NOT = ZERO ... FETCH.                 *)
Again(code) == code = 0

Until ==
    /\ pc' = IF Again(sqlcode') THEN pc ELSE pc + 1
    /\ idx' = IF Up /\ sqlcode' = 0 THEN idx + 1 ELSE idx
    /\ UNCHANGED <<prog, failed, told>>

(* The slip: ERROR-RTN restarts the transaction, as its comment says.      *)
SlipRollsBack(code) == code < 0

(* WHEN -30 of ERROR-RTN; no call of the library leaves that code.         *)
RollsBack(code) == code = -30

(* The slip: the statement that failed is tried again.                     *)
SlipResumed ==
    CASE Code[prog][pc - 1].test = "stop" -> 0
      [] Instruction.op = "INSERT_LOOP" /\ idx > 0 -> pc + 1
      [] OTHER -> pc - 1

(* After ERROR-RTN: STOP RUN, EXIT PERFORM, or the next statement. pc is   *)
(* still that of the loop, and already that of the next statement for all  *)
(* others.                                                                 *)
Resumed ==
    LET looping == Instruction.op = "INSERT_LOOP" /\ idx > 0
        test    == IF looping THEN "leave" ELSE Code[prog][pc - 1].test
    IN  CASE test = "stop"  -> 0
          [] test = "leave" -> pc + 1
          [] test = "go"    -> pc

ERROR_RTN ==
    /\ failed
    /\ IF RollsBack(sqlcode) THEN _ocesqlExec(DefaultName, "ROLLBACK") ELSE UNCHANGED vars
    /\ pc' = Resumed
    /\ failed' = FALSE /\ told' = TRUE
    /\ pending' = IF RollsBack(sqlcode) \/ Resumed = 0 THEN 0 ELSE pending
    /\ UNCHANGED <<prog, idx, stored>>

-----------------------------------------------------------------------------
(* The instructions                                                        *)

CONNECT_DB == At("CONNECT") /\ _ocesqlConnect(DefaultName) /\ NothingInserted /\ Advance

DROP_CREATE == At("DDL") /\ _ocesqlExec(DefaultName, Literal) /\ NothingInserted /\ Advance

INSERT_LITERAL == At("INSERT") /\ _ocesqlExec(DefaultName, Literal) /\ Inserted /\ Advance

INSERT_HOST == At("INSERT_HOST") /\ _ocesqlExec(DefaultName, Bound) /\ Inserted /\ Advance

INSERT_LOOP == At("INSERT_LOOP") /\ _ocesqlExec(DefaultName, Bound) /\ Inserted /\ Loop

COMMIT_WORK == At("COMMIT") /\ _ocesqlExec(DefaultName, "COMMIT") /\ Committed /\ Advance

DISCONNECT_ALL == At("DISCONNECT") /\ OCESQLDisconnect(DefaultName) /\ NothingInserted /\ Advance

SELECT_COUNT ==
    At("SELECT") /\ _ocesqlExecSelectIntoOne(DefaultName, Query, TRUE) /\ NothingInserted /\ Advance

DECLARE_C1 ==
    At("DECLARE") /\ _ocesqlCursorDeclare(DefaultName, TheCursor, Query) /\ NothingInserted /\ Advance

OPEN_C1 == At("OPEN") /\ OCESQLCursorOpen(TheCursor) /\ NothingInserted /\ Advance

(* The table has no more than Rows rows.                                   *)
FETCH_C1 ==
    /\ At("FETCH_LOOP") /\ OCESQLCursorFetchOne(TheCursor, TRUE)
    /\ Up /\ sqlcode' = 0 => idx < Rows
    /\ NothingInserted /\ Until

CLOSE_C1 == At("CLOSE") /\ OCESQLCursorClose(TheCursor) /\ NothingInserted /\ Advance

Program ==
    \/ CONNECT_DB \/ DROP_CREATE \/ INSERT_LITERAL \/ INSERT_HOST \/ INSERT_LOOP
    \/ COMMIT_WORK \/ DISCONNECT_ALL \/ SELECT_COUNT \/ DECLARE_C1 \/ OPEN_C1 \/ FETCH_C1
    \/ CLOSE_C1 \/ ERROR_RTN

(* The link dies while the program runs: the server takes its block back.  *)
LinkDies ==
    /\ pc > 0 /\ \E id \in 1..MaxId : LoseLink(id)
    /\ NothingInserted
    /\ UNCHANGED <<prog, pc, idx, failed, told>>

ProgNext == Program \/ LinkDies

(* A program that can go on does so.                                       *)
ProgSpec == ProgInit /\ [][ProgNext]_all /\ WF_all(Program)

-----------------------------------------------------------------------------
(* Properties                                                              *)

ProgTypeOK ==
    /\ TypeOK
    /\ prog \in DOMAIN Code
    /\ pc \in 0..Len(Code[prog])
    /\ idx \in 0..Rows
    /\ failed \in BOOLEAN /\ told \in BOOLEAN
    /\ pending \in 0..Expected[prog] /\ stored \in 0..Expected[prog]

(* Of a program's rows the table gets all or none, whatever statement      *)
(* fails or link dies on the way: an error leaves the block aborted, and   *)
(* the COMMIT that follows takes it back.                                  *)
AllOrNothing == stored \in {0, Expected[prog]}

(* A program that has displayed no error and whose COMMIT left SQLCODE 0   *)
(* has stored its rows: no failure is passed over in silence, but that of  *)
(* a link given up before the first statement, when every call leaves 0.   *)
QuietRunStores ==
    [][COMMIT_WORK /\ ~told /\ sqlcode' = 0 /\ Up => stored' = Expected[prog]]_all

(* FETCH loops over a connection that libpq has given up: no result, and   *)
(* SQLCODE stays zero.                                                     *)
Endless == /\ At("FETCH_LOOP") /\ reg[DefaultName] # NoId
           /\ ses[reg[DefaultName]].link = "bad"

(* Every program stops, whatever the server answers and wherever the link  *)
(* dies, but for FETCHTBL when a call before its loop noticed the loss:    *)
(* "PERFORM UNTIL SQLCODE NOT = ZERO".                                     *)
Stops == <>(pc = 0 \/ Endless)
=============================================================================
