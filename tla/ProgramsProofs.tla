--------------------------- MODULE ProgramsProofs ---------------------------
(***************************************************************************)
(* Proofs about the database programs, for a table of any size: that they  *)
(* are clients of the runtime, and that their rows are stored all or none. *)
(***************************************************************************)
EXTENDS Programs, RuntimeProofs

LEMMA Chosen == DefaultName \in Names /\ TheCursor \in Cursors
BY ProgramsAssumption DEF DefaultName, TheCursor

(* Where the COMMIT of a program is; the one instruction behind it is      *)
(* DISCONNECT.                                                             *)
CommitAt == IF prog = "helloworld" THEN 6 ELSE 7

LEMMA Programs3 == DOMAIN Code = {"INSERTTBL", "helloworld", "FETCHTBL"}
BY DEF Code

Counter ==
  /\ prog \in DOMAIN Code
  /\ pc \in 0..(CommitAt + 1)
  /\ idx \in Nat

LEMMA Length == Counter => Len(Code[prog]) = CommitAt + 1
<1> SUFFICES ASSUME Counter PROVE Len(Code[prog]) = CommitAt + 1
  OBVIOUS
<1>1. CASE prog = "INSERTTBL"
  BY <1>1 DEF CommitAt, Code, INSERTTBL
<1>2. CASE prog = "helloworld"
  BY <1>2 DEF CommitAt, Code, helloworld
<1>3. CASE prog = "FETCHTBL"
  BY <1>3 DEF CommitAt, Code, FETCHTBL
<1> QED BY <1>1, <1>2, <1>3, Programs3 DEF Counter

(* Which instructions a program has where.                                 *)
Stands(i, op, test) == pc = i /\ Instruction.op = op /\ Instruction.test = test

LEMMA CallFields == \A o, t : Call(o, t).op = o /\ Call(o, t).test = t
BY DEF Call

LEMMA InsertTable ==
  ASSUME Counter, pc > 0, prog = "INSERTTBL"
  PROVE  \/ Stands(1, "CONNECT", "stop")
         \/ Stands(2, "DDL", "go")
         \/ Stands(3, "DDL", "stop")
         \/ Stands(4, "INSERT", "go")
         \/ Stands(5, "INSERT", "go")
         \/ Stands(6, "INSERT_LOOP", "leave")
         \/ Stands(7, "COMMIT", "none")
         \/ Stands(8, "DISCONNECT", "none")
<1>0. Instruction = INSERTTBL[pc]
  BY DEF Instruction, Code
<1>1. pc = 1 => Stands(1, "CONNECT", "stop")
  BY <1>0, CallFields DEF Stands, INSERTTBL, CONNECT_USERNAME
<1>2. pc = 2 => Stands(2, "DDL", "go")
  BY <1>0, CallFields DEF Stands, INSERTTBL
<1>3. pc = 3 => Stands(3, "DDL", "stop")
  BY <1>0, CallFields DEF Stands, INSERTTBL
<1>4. pc = 4 => Stands(4, "INSERT", "go")
  BY <1>0, CallFields DEF Stands, INSERTTBL
<1>5. pc = 5 => Stands(5, "INSERT", "go")
  BY <1>0, CallFields DEF Stands, INSERTTBL
<1>6. pc = 6 => Stands(6, "INSERT_LOOP", "leave")
  BY <1>0, CallFields DEF Stands, INSERTTBL
<1>7. pc = 7 => Stands(7, "COMMIT", "none")
  BY <1>0, CallFields DEF Stands, INSERTTBL, COMMIT_ALL
<1>8. pc = 8 => Stands(8, "DISCONNECT", "none")
  BY <1>0, CallFields DEF Stands, INSERTTBL, LEAVE
<1>9. pc \in 1..8
  BY DEF Counter, CommitAt
<1> QED BY <1>1, <1>2, <1>3, <1>4, <1>5, <1>6, <1>7, <1>8, <1>9

LEMMA HelloWorld ==
  ASSUME Counter, pc > 0, prog = "helloworld"
  PROVE  \/ Stands(1, "CONNECT", "stop")
         \/ Stands(2, "DDL", "go")
         \/ Stands(3, "DDL", "go")
         \/ Stands(4, "INSERT_HOST", "go")
         \/ Stands(5, "INSERT_HOST", "go")
         \/ Stands(6, "COMMIT", "none")
         \/ Stands(7, "DISCONNECT", "none")
<1>0. Instruction = helloworld[pc]
  BY DEF Instruction, Code
<1>1. pc = 1 => Stands(1, "CONNECT", "stop")
  BY <1>0, CallFields DEF Stands, helloworld, CONNECT_USERNAME
<1>2. pc = 2 => Stands(2, "DDL", "go")
  BY <1>0, CallFields DEF Stands, helloworld
<1>3. pc = 3 => Stands(3, "DDL", "go")
  BY <1>0, CallFields DEF Stands, helloworld
<1>4. pc = 4 => Stands(4, "INSERT_HOST", "go")
  BY <1>0, CallFields DEF Stands, helloworld
<1>5. pc = 5 => Stands(5, "INSERT_HOST", "go")
  BY <1>0, CallFields DEF Stands, helloworld
<1>6. pc = 6 => Stands(6, "COMMIT", "none")
  BY <1>0, CallFields DEF Stands, helloworld, COMMIT_ALL
<1>7. pc = 7 => Stands(7, "DISCONNECT", "none")
  BY <1>0, CallFields DEF Stands, helloworld, LEAVE
<1>9. pc \in 1..7
  BY DEF Counter, CommitAt
<1> QED BY <1>1, <1>2, <1>3, <1>4, <1>5, <1>6, <1>7, <1>9

LEMMA FetchTable ==
  ASSUME Counter, pc > 0, prog = "FETCHTBL"
  PROVE  \/ Stands(1, "CONNECT", "stop")
         \/ Stands(2, "SELECT", "none")
         \/ Stands(3, "DECLARE", "none")
         \/ Stands(4, "OPEN", "none")
         \/ Stands(5, "FETCH_LOOP", "until")
         \/ Stands(6, "CLOSE", "none")
         \/ Stands(7, "COMMIT", "none")
         \/ Stands(8, "DISCONNECT", "none")
<1>0. Instruction = FETCHTBL[pc]
  BY DEF Instruction, Code
<1>1. pc = 1 => Stands(1, "CONNECT", "stop")
  BY <1>0, CallFields DEF Stands, FETCHTBL, CONNECT_USERNAME
<1>2. pc = 2 => Stands(2, "SELECT", "none")
  BY <1>0, CallFields DEF Stands, FETCHTBL
<1>3. pc = 3 => Stands(3, "DECLARE", "none")
  BY <1>0, CallFields DEF Stands, FETCHTBL
<1>4. pc = 4 => Stands(4, "OPEN", "none")
  BY <1>0, CallFields DEF Stands, FETCHTBL
<1>5. pc = 5 => Stands(5, "FETCH_LOOP", "until")
  BY <1>0, CallFields DEF Stands, FETCHTBL
<1>6. pc = 6 => Stands(6, "CLOSE", "none")
  BY <1>0, CallFields DEF Stands, FETCHTBL
<1>7. pc = 7 => Stands(7, "COMMIT", "none")
  BY <1>0, CallFields DEF Stands, FETCHTBL, COMMIT_ALL
<1>8. pc = 8 => Stands(8, "DISCONNECT", "none")
  BY <1>0, CallFields DEF Stands, FETCHTBL, LEAVE
<1>9. pc \in 1..8
  BY DEF Counter, CommitAt
<1> QED BY <1>1, <1>2, <1>3, <1>4, <1>5, <1>6, <1>7, <1>8, <1>9

LEMMA AtConnect ==
  ASSUME Counter, At("CONNECT")
  PROVE  pc = 1 /\ Instruction.test = "stop"
BY Programs3, InsertTable, HelloWorld, FetchTable DEF At, Stands, Counter, CommitAt

LEMMA AtDdl ==
  ASSUME Counter, At("DDL")
  PROVE  prog # "FETCHTBL" /\ pc \in {2, 3} /\ Instruction.test \in {"go", "stop"}
BY Programs3, InsertTable, HelloWorld, FetchTable DEF At, Stands, Counter, CommitAt

LEMMA AtInsert ==
  ASSUME Counter, At("INSERT")
  PROVE  prog = "INSERTTBL" /\ pc \in {4, 5} /\ Instruction.test = "go"
BY Programs3, InsertTable, HelloWorld, FetchTable DEF At, Stands, Counter, CommitAt

LEMMA AtInsertHost ==
  ASSUME Counter, At("INSERT_HOST")
  PROVE  prog = "helloworld" /\ pc \in {4, 5} /\ Instruction.test = "go"
BY Programs3, InsertTable, HelloWorld, FetchTable DEF At, Stands, Counter, CommitAt

LEMMA AtLoop ==
  ASSUME Counter, At("INSERT_LOOP")
  PROVE  prog = "INSERTTBL" /\ pc = 6 /\ Instruction.test = "leave"
BY Programs3, InsertTable, HelloWorld, FetchTable DEF At, Stands, Counter, CommitAt

LEMMA AtCommit ==
  ASSUME Counter, At("COMMIT")
  PROVE  pc = CommitAt /\ Instruction.test = "none"
BY Programs3, InsertTable, HelloWorld, FetchTable DEF At, Stands, Counter, CommitAt

LEMMA AtDisconnect ==
  ASSUME Counter, At("DISCONNECT")
  PROVE  pc = CommitAt + 1 /\ Instruction.test = "none"
BY Programs3, InsertTable, HelloWorld, FetchTable DEF At, Stands, Counter, CommitAt

LEMMA AtRead ==
  ASSUME Counter, NEW op \in {"SELECT", "DECLARE", "OPEN", "FETCH_LOOP", "CLOSE"}, At(op)
  PROVE  prog = "FETCHTBL" /\ pc \in 2..6 /\ Instruction.test \in {"none", "until"}
BY Programs3, InsertTable, HelloWorld, FetchTable DEF At, Stands, Counter, CommitAt

-----------------------------------------------------------------------------
(* Programs as clients.                                                    *)

LEMMA ProgramCalls == [ProgNext]_all => [Next]_vars
<1> SUFFICES ASSUME [ProgNext]_all PROVE [Next]_vars
  OBVIOUS
<1>0. /\ Literal \in Updates /\ Bound \in Updates /\ Query \in Statics
      /\ DefaultName \in Names /\ TheCursor \in Cursors
  BY ProgramsAssumption, Chosen
<1>1. CASE CONNECT_DB
  BY <1>0, <1>1 DEF CONNECT_DB, Next, ConnNext
<1>2. CASE DROP_CREATE \/ INSERT_LITERAL \/ INSERT_HOST \/ INSERT_LOOP \/ COMMIT_WORK
  <2>1. \E t \in Updates \cup {"COMMIT", "ROLLBACK"} : _ocesqlExec(DefaultName, t)
    BY <1>0, <1>2 DEF DROP_CREATE, INSERT_LITERAL, INSERT_HOST, INSERT_LOOP, COMMIT_WORK
  <2> QED BY <1>0, <2>1 DEF Next, ExecNext
<1>3. CASE DISCONNECT_ALL
  BY <1>0, <1>3 DEF DISCONNECT_ALL, Next, ConnNext
<1>4. CASE SELECT_COUNT
  BY <1>0, <1>4 DEF SELECT_COUNT, Next, ExecNext
<1>5. CASE DECLARE_C1
  BY <1>0, <1>5 DEF DECLARE_C1, Next, DeclareNext
<1>6. CASE OPEN_C1 \/ FETCH_C1 \/ CLOSE_C1
  BY <1>0, <1>6 DEF OPEN_C1, FETCH_C1, CLOSE_C1, Next, CursorNext
<1>7. CASE ERROR_RTN
  <2>1. _ocesqlExec(DefaultName, "ROLLBACK") \/ UNCHANGED vars
    BY <1>7 DEF ERROR_RTN
  <2> QED BY <1>0, <2>1 DEF Next, ExecNext
<1>8. CASE LinkDies
  BY <1>8 DEF LinkDies, Next
<1>9. CASE UNCHANGED all
  BY <1>9 DEF all
<1> QED
  BY <1>1, <1>2, <1>3, <1>4, <1>5, <1>6, <1>7, <1>8, <1>9 DEF ProgNext, Program

(* A database program, with the losses of its link, is a behaviour of the  *)
(* runtime: what is proved of every sequence of calls holds of its own.    *)
THEOREM ProgramsUseRuntime == ProgSpec => Spec
<1>1. ProgInit => Init
  BY DEF ProgInit
<1> QED BY <1>1, ProgramCalls, PTL DEF ProgSpec, Spec
-----------------------------------------------------------------------------
(* The invariant: until the COMMIT, the rows pending are those the program *)
(* has inserted so far, or none, when its block is gone; and a program     *)
(* that noticed nothing is still inside its block.                         *)

Sofar ==
  IF prog = "INSERTTBL"
  THEN IF pc = 5 THEN 1 ELSE IF pc = 6 THEN 2 + idx ELSE IF pc = 7 THEN 2 + Rows ELSE 0
  ELSE IF pc = 5 THEN 1 ELSE IF pc = 6 THEN 2 ELSE 0

(* The only block is that of the program's connection, on a live link.     *)
Attached ==
  \A id \in 1..MaxId :
    ses[id].txn = "block" => id = reg[DefaultName] /\ ses[id].link = "up"

Flow ==
  /\ Counter
  /\ failed \in BOOLEAN
  /\ pc = 1 => reg[DefaultName] = NoId
  /\ failed => pc \in 2..6 /\ (prog = "FETCHTBL" => pc = 2)
  /\ prog = "INSERTTBL" /\ pc \in 1..5 => idx = 0

(* What holds of a program that inserts, before its COMMIT. *)
Working ==
  /\ Attached
  /\ pending = IF InBlock(ses) THEN Sofar ELSE 0
  /\ failed => ~InBlock(ses)
  /\ stored = 0
  /\ ~told /\ ~failed /\ Up /\ pc > 1 => InBlock(ses)

Rest ==
  IF prog = "FETCHTBL" THEN pending = 0 /\ stored = 0
  ELSE IF pc \in 1..CommitAt THEN Working
  ELSE pending = 0 /\ stored \in {0, Expected[prog]}

PInv == IInv /\ Flow /\ Rest

-----------------------------------------------------------------------------
(* What the calls do to the block.                                         *)

LEMMA CutEnds ==
  ASSUME NEW s, SessionOK(s)
  PROVE  Cut(s).txn = "idle" /\ Cut(s).link = "bad"
BY DEF SessionOK, Session, Cut, Ended

(* DDL and INSERT neither enter a block nor leave one without an error.    *)
LEMMA UpdateRun ==
  ASSUME ~IgnoreError, NEW s, SessionOK(s), s.txn = "block" => s.link = "up",
         NEW t \in Updates, NEW o \in Run(s, t, NPar[t])
  PROVE  /\ o.s.txn = "block" => /\ s.txn = "block" /\ o.s.link = "up"
                                 /\ CodeOf(o.r, 0) = 0
         /\ CodeOf(o.r, 0) = 0 /\ o.s.link = "up" => o.s = s
<1>1. \E n : o \in PQexec(s, Text(s, t, n))
  BY DEF Run, OCDB_PGExecParams
<1>2. PICK n : o \in PQexec(s, Text(s, t, n))
  BY <1>1
<1>3. Text(s, t, n) = Statement(s, t, n)
  BY TextsAssumption DEF Text, Texts
<1>4. CASE o \in Statement(s, t, n) /\ s.link = "up"
  <2>1. o = Refuse(s, "ERROR") \/ o = Reply(s, "COMMAND_OK")
    BY <1>4, TextsAssumption DEF Statement
  <2>2. CASE o = Reply(s, "COMMAND_OK")
    BY <1>4, <2>2 DEF Reply, CodeOf
  <2>3. CASE o = Refuse(s, "ERROR")
    <3>1. CodeOf(o.r, 0) = -400
      BY <2>3 DEF Refuse, Reply, CodeOf
    <3>2. o.s.txn # "block"
      BY <2>3 DEF Refuse, Reply
    <3> QED BY <3>1, <3>2
  <2> QED BY <2>1, <2>2, <2>3
<1>5. CASE o = Reply(Cut(s), "FATAL")
  <2>1. o.s.txn # "block" /\ o.s.link # "up"
    BY <1>5, CutEnds DEF Reply
  <2> QED BY <2>1
<1>6. CASE o = Reply(s, "NULL") /\ s.link # "up"
  BY <1>6 DEF Reply
<1> QED BY <1>2, <1>3, <1>4, <1>5, <1>6 DEF PQexec
LEMMA Here ==
  ASSUME PInv, Attached, reg[DefaultName] # NoId
  PROVE  /\ reg[DefaultName] \in 1..MaxId
         /\ SessionOK(ses[reg[DefaultName]])
         /\ InBlock(ses) <=> ses[reg[DefaultName]].txn = "block"
         /\ InBlock(ses) => Up
         /\ DOMAIN ses = 1..MaxId
<1>1. reg[DefaultName] \in 1..MaxId
  BY Ids, Chosen DEF PInv
<1>2. SessionOK(ses[reg[DefaultName]])
  BY <1>1, Sessions DEF PInv, IInv
<1>3. DOMAIN ses = 1..MaxId
  BY DEF PInv, IInv, Core, TypeCore
<1> QED BY <1>1, <1>2, <1>3 DEF InBlock, Attached, Up

LEMMA NotHere ==
  ASSUME PInv, Attached, reg[DefaultName] = NoId
  PROVE  ~InBlock(ses) /\ ~Up
BY RuntimeAssumption DEF InBlock, Attached, Up, NoId

(* DDL or INSERT of a program. *)
LEMMA UpdateEffect ==
  ASSUME ~IgnoreError, PInv, Attached, NEW t \in Updates, _ocesqlExec(DefaultName, t)
  PROVE  /\ reg' = reg /\ Attached'
         /\ InBlock(ses') => InBlock(ses) /\ Up /\ sqlcode' = 0
         /\ Up' /\ sqlcode' = 0 => Up /\ (InBlock(ses) => InBlock(ses'))
<1> DEFINE c == reg[DefaultName]
<1>1. CASE NotConnected("Exec", DefaultName)
  <2>1. c = NoId /\ UNCHANGED <<reg, ses>> /\ sqlcode' = NO_CONN
    BY <1>1 DEF NotConnected, Refused, Returns
  <2> QED BY <2>1, NotHere DEF Attached, Up
<1>2. ASSUME c # NoId, NEW o \in Run(ses[c], t, NPar[t]), Sent("Exec", c, o)
      PROVE  /\ reg' = reg /\ Attached'
             /\ InBlock(ses') => InBlock(ses) /\ Up /\ sqlcode' = 0
             /\ Up' /\ sqlcode' = 0 => Up /\ (InBlock(ses) => InBlock(ses'))
  <2>1. /\ ses' = [ses EXCEPT ![c] = o.s] /\ reg' = reg
        /\ sqlcode' = CodeOf(o.r, 0)
    BY <1>2 DEF Sent, Returns
  <2>2. /\ c \in 1..MaxId /\ SessionOK(ses[c])
        /\ ses[c].txn = "block" => ses[c].link = "up"
        /\ DOMAIN ses = 1..MaxId
    BY <1>2, Here DEF Attached
  <2>3. /\ o.s.txn = "block" => /\ ses[c].txn = "block" /\ o.s.link = "up"
                                /\ CodeOf(o.r, 0) = 0
        /\ CodeOf(o.r, 0) = 0 /\ o.s.link = "up" => o.s = ses[c]
    BY <1>2, <2>2, UpdateRun
  <2>4. \A id \in 1..MaxId : ses'[id] = IF id = c THEN o.s ELSE ses[id]
    BY <2>1, <2>2
  <2> HIDE DEF c
  <2>5. Attached'
    <3>1. SUFFICES ASSUME NEW id \in 1..MaxId, ses'[id].txn = "block"
                   PROVE  id = c /\ ses'[id].link = "up"
      BY <2>1 DEF Attached, c
    <3>2. CASE id # c
      BY <2>4, <3>1, <3>2 DEF Attached, c
    <3>3. CASE id = c
      BY <2>3, <2>4, <3>1, <3>3
    <3> QED BY <3>2, <3>3
  <2>6. InBlock(ses') => o.s.txn = "block"
    BY <2>1, <2>4, <2>5 DEF InBlock, Attached, c
  <2>7. Up' <=> o.s.link = "up"
    BY <1>2, <2>1, <2>2, <2>4 DEF Up, c
  <2>8. InBlock(ses') => InBlock(ses) /\ Up /\ sqlcode' = 0
    BY <1>2, <2>1, <2>2, <2>3, <2>6 DEF InBlock, Up, c
  <2>9. Up' /\ sqlcode' = 0 => \A id \in 1..MaxId : ses'[id] = ses[id]
    BY <2>1, <2>3, <2>4, <2>7
  <2>10. Up' /\ sqlcode' = 0 => Up /\ (InBlock(ses) => InBlock(ses'))
    BY <1>2, <2>1, <2>2, <2>9 DEF Up, InBlock, c
  <2> QED BY <2>1, <2>5, <2>8, <2>10
<1>3. ~Ends(t) /\ t \notin {"COMMIT", "ROLLBACK"}
  BY TextsAssumption DEF Ends
<1> QED BY <1>1, <1>2, <1>3 DEF _ocesqlExec

(* The CONNECT of a program, which has no connection before. *)
LEMMA ConnectEffect ==
  ASSUME PInv, Attached, reg[DefaultName] = NoId, _ocesqlConnect(DefaultName)
  PROVE  /\ Attached'
         /\ Up' /\ sqlcode' = 0 <=> InBlock(ses')
<1>1. ~InBlock(ses)
  BY NotHere
<1>2. CASE /\ reg' = [reg EXCEPT ![DefaultName] = NoId]
           /\ ses' = ses
  <2>1. reg'[DefaultName] = NoId
    BY <1>2, Chosen DEF PInv, IInv, Core, TypeCore
  <2> QED BY <1>1, <1>2, <2>1 DEF Up, InBlock, Attached
<1>3. ASSUME next <= MaxId, reg' = [reg EXCEPT ![DefaultName] = next],
             NEW s \in {Fresh, Cut(Fresh)}, NEW o \in Run(s, "BEGIN", 0),
             ses' = [ses EXCEPT ![next] = o.s], sqlcode' = CodeOf(o.r, 0)
      PROVE  /\ Attached'
             /\ Up' /\ sqlcode' = 0 <=> InBlock(ses')
  <2>1. /\ next \in 1..MaxId /\ next # NoId
        /\ reg'[DefaultName] = next
        /\ \A id \in 1..MaxId : ses'[id] = IF id = next THEN o.s ELSE ses[id]
    BY <1>3, Chosen, RuntimeAssumption DEF PInv, IInv, Core, TypeCore, NoId
  <2>2. o.s.link = "up" /\ CodeOf(o.r, 0) = 0 <=> o.s.txn = "block"
    <3>1. o \in PQexec(s, Text(s, "BEGIN", 0))
      BY <1>3 DEF Run
    <3>2. Text(s, "BEGIN", 0) = Begin(s)
      BY TextsAssumption DEF Text, Texts
    <3>3. CASE s = Cut(Fresh)
      <4>1. s.txn = "idle" /\ s.link = "bad"
        BY <3>3, CutEnds, NewSessions
      <4>2. o = Reply(s, "NULL")
        BY <3>1, <4>1 DEF PQexec
      <4> QED BY <4>1, <4>2 DEF Reply
    <3>4. CASE s = Fresh
      <4>1. \/ o = Reply([s EXCEPT !.txn = "block"], "COMMAND_OK")
            \/ o = Reply(Cut(s), "FATAL")
        BY <3>1, <3>2, <3>4 DEF PQexec, Begin, Fresh
      <4>2. CASE o = Reply(Cut(s), "FATAL")
        BY <3>4, <4>2, CutEnds, NewSessions DEF Reply
      <4>3. CASE o = Reply([s EXCEPT !.txn = "block"], "COMMAND_OK")
        BY <3>4, <4>3 DEF Reply, Fresh, CodeOf
      <4> QED BY <4>1, <4>2, <4>3
    <3> QED BY <1>3, <3>3, <3>4
  <2>3. InBlock(ses') <=> o.s.txn = "block"
    BY <1>1, <2>1 DEF InBlock
  <2>4. Up' <=> o.s.link = "up"
    BY <2>1 DEF Up
  <2>5. Attached'
    BY <1>1, <2>1, <2>2 DEF Attached, InBlock
  <2> QED BY <1>3, <2>2, <2>3, <2>4, <2>5
<1>4. Finished(DefaultName) = ses /\ ~Kept(DefaultName)
  BY DEF Finished, Kept
<1> QED BY <1>2, <1>3, <1>4 DEF _ocesqlConnect, Returns

(* A link that dies. *)
LEMMA LossEffect ==
  ASSUME PInv, Attached, NEW id \in 1..MaxId, LoseLink(id)
  PROVE  /\ reg' = reg /\ Attached'
         /\ InBlock(ses') => InBlock(ses)
         /\ Up' => Up /\ (InBlock(ses) => InBlock(ses'))
<1> DEFINE t == [Ended(ses[id]) EXCEPT !.link = "lost"]
<1>1. /\ reg' = reg /\ DOMAIN ses = 1..MaxId
      /\ ses' = [ses EXCEPT ![id] = t]
  BY DEF LoseLink, PInv, IInv, Core, TypeCore
<1>2. SessionOK(ses[id])
  BY Sessions DEF PInv, IInv
<1>3. t.txn = "idle" /\ t.link = "lost"
  BY <1>2 DEF SessionOK, Session, Ended
<1> HIDE DEF t
<1>4. \A i \in 1..MaxId : ses'[i] = IF i = id THEN t ELSE ses[i]
  BY <1>1
<1>5. InBlock(ses') => InBlock(ses)
  BY <1>3, <1>4 DEF InBlock
<1>6. Attached'
  BY <1>1, <1>3, <1>4 DEF Attached
<1>7. Up' => Up /\ (InBlock(ses) => InBlock(ses'))
  <2>1. SUFFICES ASSUME Up' PROVE Up /\ (InBlock(ses) => InBlock(ses'))
    OBVIOUS
  <2>2. reg[DefaultName] # NoId
    BY <1>1, <2>1 DEF Up
  <2>3. reg[DefaultName] \in 1..MaxId /\ reg[DefaultName] # id
    BY <1>1, <1>3, <1>4, <2>1, <2>2, Here DEF Up
  <2> QED BY <1>1, <1>4, <2>1, <2>2, <2>3, Here DEF Up, InBlock
<1> QED BY <1>1, <1>5, <1>6, <1>7
-----------------------------------------------------------------------------
(* What the instructions do to the invariant.                              *)

LEMMA InitPInv == ProgInit => PInv
<1> SUFFICES ASSUME ProgInit PROVE PInv
  OBVIOUS
<1>1. IInv
  BY InitIInv DEF ProgInit
<1>2. Flow
  <2>1. reg[DefaultName] = NoId
    BY Chosen DEF ProgInit, Init
  <2>2. Counter /\ pc = 1 /\ idx = 0
    BY DEF ProgInit, Counter, CommitAt
  <2>3. ~failed /\ failed \in BOOLEAN
    BY DEF ProgInit
  <2> QED BY <2>1, <2>2, <2>3 DEF Flow
<1>3. \A id \in 1..MaxId : ses[id].txn = "idle"
  BY DEF ProgInit, Init, NoSession
<1>4. Rest
  BY <1>3, Chosen
  DEF ProgInit, Init, Rest, Working, Attached, InBlock, CommitAt, Sofar
<1> QED BY <1>1, <1>2, <1>4 DEF PInv

LEMMA Advanced ==
  ASSUME Flow, pc > 0, Advance
  PROVE  /\ pc' = IF pc <= CommitAt THEN pc + 1 ELSE 0
         /\ UNCHANGED <<prog, idx, told, CommitAt>>
         /\ failed' \in BOOLEAN
         /\ failed' <=> Instruction.test \notin {"none", "until"} /\ sqlcode' # 0
<1>1. Len(Code[prog]) = CommitAt + 1 /\ pc \in 0..(CommitAt + 1) /\ CommitAt \in {6, 7}
  BY Length DEF Flow, Counter, CommitAt
<1>2. UNCHANGED <<prog, idx, told, CommitAt>>
  BY DEF Advance, CommitAt
<1>3. pc' = IF pc <= CommitAt THEN pc + 1 ELSE 0
  BY <1>1 DEF Advance
<1>4. failed' \in BOOLEAN
      /\ (failed' <=> Instruction.test \notin {"none", "until"} /\ sqlcode' # 0)
  BY DEF Advance, Fails
<1> QED BY <1>2, <1>3, <1>4

(* CONNECT. *)
LEMMA ConnectKeeps == ASSUME PInv, CONNECT_DB PROVE Flow' /\ Rest'
<1>1. pc = 1 /\ Instruction.test = "stop" /\ reg[DefaultName] = NoId
  BY AtConnect DEF CONNECT_DB, PInv, Flow
<1>2. /\ pc' = 2 /\ UNCHANGED <<prog, idx, told, CommitAt>>
      /\ failed' \in BOOLEAN /\ (failed' <=> sqlcode' # 0)
  BY <1>1, Advanced DEF CONNECT_DB, PInv, CommitAt
<1>3. Flow'
  BY <1>1, <1>2 DEF PInv, Flow, Counter, CommitAt
<1>4. stored' = stored /\ pending' \in {0, pending}
  BY DEF CONNECT_DB, NothingInserted
<1>5. CASE prog = "FETCHTBL"
  BY <1>2, <1>3, <1>4, <1>5 DEF PInv, Rest
<1>6. CASE prog # "FETCHTBL"
  <2>1. Working /\ pending = 0
    BY <1>1, <1>6, NotHere DEF PInv, Rest, Working, CommitAt
  <2>2. Attached' /\ (Up' /\ sqlcode' = 0 <=> InBlock(ses'))
    BY <1>1, <2>1, ConnectEffect DEF CONNECT_DB, Working
  <2>3. pending' = 0 /\ stored' = 0 /\ Sofar' = 0
    BY <1>2, <1>4, <2>1 DEF Working, Sofar
  <2>4. Working'
    BY <1>2, <2>2, <2>3 DEF Working
  <2> QED BY <1>2, <1>3, <1>6, <2>4 DEF Rest, CommitAt
<1> QED BY <1>5, <1>6

(* DDL and INSERT, once the rows pending are right. *)
LEMMA UpdateKeeps ==
  ASSUME ~IgnoreError, PInv, Working, pc > 1, ~failed,
         NEW t \in Updates, _ocesqlExec(DefaultName, t),
         UNCHANGED <<told, stored>>, failed' <=> sqlcode' # 0,
         pending' = IF InBlock(ses') THEN Sofar' ELSE 0
  PROVE  Working'
<1>1. /\ reg' = reg /\ Attached'
      /\ InBlock(ses') => InBlock(ses) /\ Up /\ sqlcode' = 0
      /\ Up' /\ sqlcode' = 0 => Up /\ (InBlock(ses) => InBlock(ses'))
  BY UpdateEffect DEF Working
<1>2. failed' => ~InBlock(ses')
  BY <1>1
<1>3. ~told' /\ ~failed' /\ Up' => InBlock(ses')
  BY <1>1 DEF Working
<1> QED BY <1>1, <1>2, <1>3 DEF Working

LEMMA DdlKeeps == ASSUME ~IgnoreError, PInv, DROP_CREATE PROVE Flow' /\ Rest'
<1>1. /\ prog # "FETCHTBL" /\ pc \in {2, 3} /\ Instruction.test \in {"go", "stop"}
      /\ ~failed
  BY AtDdl DEF DROP_CREATE, PInv, Flow, At
<1>2. /\ pc' = pc + 1 /\ UNCHANGED <<prog, idx, told, CommitAt>>
      /\ failed' \in BOOLEAN /\ (failed' <=> sqlcode' # 0)
  BY <1>1, Advanced DEF DROP_CREATE, PInv, CommitAt
<1>3. Flow'
  BY <1>1, <1>2 DEF PInv, Flow, Counter, CommitAt
<1>4. Working
  BY <1>1 DEF PInv, Rest, CommitAt
<1>5. Sofar = 0 /\ Sofar' = 0
  BY <1>1, <1>2 DEF Sofar
<1>6. pending' = IF InBlock(ses') THEN Sofar' ELSE 0
  BY <1>4, <1>5 DEF Working, DROP_CREATE, NothingInserted
<1>7. Working'
  BY <1>1, <1>2, <1>4, <1>6, UpdateKeeps, ProgramsAssumption
  DEF DROP_CREATE, NothingInserted
<1> QED BY <1>1, <1>2, <1>3, <1>7 DEF Rest, CommitAt

(* The rows pending after an INSERT that counts for one. *)
LEMMA InsertedOne ==
  ASSUME ~IgnoreError, PInv, Working, NEW t \in Updates, _ocesqlExec(DefaultName, t),
         Inserted, sqlcode' = 0 => Sofar' = Sofar + 1
  PROVE  pending' = IF InBlock(ses') THEN Sofar' ELSE 0
<1>1. InBlock(ses') => InBlock(ses) /\ Up /\ sqlcode' = 0
  BY UpdateEffect DEF Working
<1> QED BY <1>1 DEF Working, Inserted

LEMMA InsertKeeps ==
  ASSUME ~IgnoreError, PInv, INSERT_LITERAL \/ INSERT_HOST
  PROVE  Flow' /\ Rest'
<1>1. /\ prog # "FETCHTBL" /\ pc \in {4, 5} /\ Instruction.test = "go" /\ ~failed
      /\ Inserted /\ Advance
  BY AtInsert, AtInsertHost DEF INSERT_LITERAL, INSERT_HOST, PInv, Flow, At
<1>2. /\ pc' = pc + 1 /\ UNCHANGED <<prog, idx, told, CommitAt>>
      /\ failed' \in BOOLEAN /\ (failed' <=> sqlcode' # 0)
  BY <1>1, Advanced DEF PInv, CommitAt
<1>3. PICK t \in Updates : _ocesqlExec(DefaultName, t)
  BY ProgramsAssumption DEF INSERT_LITERAL, INSERT_HOST
<1>4. prog = "INSERTTBL" /\ pc = 5 => idx = 0
  BY DEF PInv, Flow
<1>5. Flow'
  BY <1>1, <1>2 DEF PInv, Flow, Counter, CommitAt
<1>6. Working
  BY <1>1 DEF PInv, Rest, CommitAt
<1>7. Sofar' = Sofar + 1
  BY <1>1, <1>2, <1>4 DEF Sofar
<1>8. pending' = IF InBlock(ses') THEN Sofar' ELSE 0
  BY <1>1, <1>3, <1>6, <1>7, InsertedOne
<1>9. Working'
  BY <1>1, <1>2, <1>3, <1>6, <1>8, UpdateKeeps DEF Inserted
<1> QED BY <1>1, <1>2, <1>5, <1>9 DEF Rest, CommitAt
LEMMA LoopKeeps == ASSUME ~IgnoreError, PInv, INSERT_LOOP PROVE Flow' /\ Rest'
<1>1. /\ prog = "INSERTTBL" /\ pc = 6 /\ Instruction.test = "leave" /\ ~failed
      /\ idx \in Nat /\ Rows \in Nat
  BY AtLoop, ProgramsAssumption DEF INSERT_LOOP, PInv, Flow, At, Counter
<1>2. /\ pc' \in {6, 7} /\ idx' = idx + 1 /\ UNCHANGED <<prog, told, CommitAt>>
      /\ pc' = 7 <=> idx + 1 = Rows /\ sqlcode' = 0
  BY <1>1 DEF INSERT_LOOP, Loop, LastPass, CommitAt
<1>3. failed' \in BOOLEAN /\ (failed' <=> sqlcode' # 0)
  BY <1>1 DEF INSERT_LOOP, Loop, Fails
<1>4. Flow'
  <2>1. failed' => pc' = 6
    BY <1>2, <1>3
  <2>2. Counter'
    BY <1>1, <1>2 DEF PInv, Flow, Counter, CommitAt
  <2> QED BY <1>1, <1>2, <1>3, <2>1, <2>2 DEF Flow
<1>5. Working
  BY <1>1 DEF PInv, Rest, CommitAt
<1>6. sqlcode' = 0 => Sofar' = Sofar + 1
  BY <1>1, <1>2 DEF Sofar
<1>7. pending' = IF InBlock(ses') THEN Sofar' ELSE 0
  BY <1>5, <1>6, InsertedOne, ProgramsAssumption DEF INSERT_LOOP
<1>8. Working'
  BY <1>1, <1>2, <1>3, <1>5, <1>7, UpdateKeeps, ProgramsAssumption
  DEF INSERT_LOOP, Inserted
<1> QED BY <1>1, <1>2, <1>4, <1>8 DEF Rest, CommitAt

(* At the COMMIT all rows are pending, or none.                            *)
LEMMA AtTheCommit ==
  ASSUME PInv, At("COMMIT")
  PROVE  /\ pc = CommitAt /\ Instruction.test = "none" /\ ~failed
         /\ stored = 0 /\ pending \in {0, Expected[prog]}
         /\ ~told /\ Up => pending = Expected[prog]
<1>1. pc = CommitAt /\ Instruction.test = "none" /\ ~failed
  BY AtCommit DEF PInv, Flow, At
<1>2. CASE prog = "FETCHTBL"
  BY <1>1, <1>2 DEF PInv, Rest, Expected
<1>3. CASE prog # "FETCHTBL"
  <2>1. Working /\ pc > 1
    BY <1>1, <1>3 DEF PInv, Rest, CommitAt
  <2>2. prog \in {"INSERTTBL", "helloworld"}
    BY <1>3, Programs3 DEF PInv, Flow, Counter
  <2>3. Sofar = Expected[prog]
    BY <1>1, <2>2 DEF Sofar, Expected, CommitAt
  <2> QED BY <1>1, <2>1, <2>3 DEF Working
<1> QED BY <1>1, <1>2, <1>3

LEMMA CommitKeeps == ASSUME PInv, COMMIT_WORK PROVE Flow' /\ Rest'
<1>1. /\ pc = CommitAt /\ Instruction.test = "none"
      /\ stored = 0 /\ pending \in {0, Expected[prog]}
  BY AtTheCommit DEF COMMIT_WORK
<1>2. /\ pc' = CommitAt + 1 /\ UNCHANGED <<prog, idx, told, CommitAt>>
      /\ failed' \in BOOLEAN /\ ~failed'
  BY <1>1, Advanced DEF COMMIT_WORK, PInv, CommitAt
<1>3. Flow'
  BY <1>2 DEF PInv, Flow, Counter, CommitAt
<1>4. Expected[prog] \in Nat
  BY Programs3, ProgramsAssumption DEF PInv, Flow, Counter, Expected
<1>5. pending' = 0 /\ stored' \in {0, Expected[prog]}
  BY <1>1, <1>4 DEF COMMIT_WORK, Committed
<1>6. CASE prog = "FETCHTBL"
  BY <1>2, <1>3, <1>5, <1>6 DEF Rest, Expected
<1>7. CASE prog # "FETCHTBL"
  <2>1. pc' \notin 1..CommitAt'
    BY <1>2 DEF CommitAt
  <2> QED BY <1>2, <1>3, <1>5, <1>7, <2>1 DEF Rest
<1> QED BY <1>6, <1>7

LEMMA DisconnectKeeps == ASSUME PInv, DISCONNECT_ALL PROVE Flow' /\ Rest'
<1>1. pc = CommitAt + 1 /\ Instruction.test = "none"
  BY AtDisconnect DEF DISCONNECT_ALL, PInv, Flow
<1>2. /\ pc' = 0 /\ UNCHANGED <<prog, idx, told, CommitAt>>
      /\ failed' \in BOOLEAN /\ ~failed'
  BY <1>1, Advanced DEF DISCONNECT_ALL, PInv, CommitAt
<1>3. Flow'
  BY <1>2 DEF PInv, Flow, Counter, CommitAt
<1>4. pending = 0 /\ stored' = stored /\ pending' = 0
  BY <1>1 DEF DISCONNECT_ALL, NothingInserted, PInv, Rest, CommitAt
<1>5. pc \notin 1..CommitAt /\ pc' \notin 1..CommitAt'
  BY <1>1, <1>2 DEF CommitAt
<1> QED BY <1>2, <1>3, <1>4, <1>5 DEF PInv, Rest

(* The program that only reads.                                            *)
LEMMA ReadKeeps ==
  ASSUME PInv, SELECT_COUNT \/ DECLARE_C1 \/ OPEN_C1 \/ FETCH_C1 \/ CLOSE_C1
  PROVE  Flow' /\ Rest'
<1>1. /\ prog = "FETCHTBL" /\ pc \in 2..6 /\ Instruction.test \in {"none", "until"}
      /\ ~failed /\ failed \in BOOLEAN
      /\ NothingInserted /\ (Advance \/ Until)
  BY AtRead DEF SELECT_COUNT, DECLARE_C1, OPEN_C1, FETCH_C1, CLOSE_C1, PInv, Flow, At
<1>2. /\ pc' \in 2..7 /\ UNCHANGED <<prog, told>> /\ idx' \in Nat
      /\ failed' \in BOOLEAN /\ ~failed'
  <2>1. CASE Advance
    BY <1>1, <2>1, Advanced DEF PInv, Flow, Counter, CommitAt
  <2>2. CASE Until
    BY <1>1, <2>2 DEF Until, PInv, Flow, Counter
  <2> QED BY <1>1, <2>1, <2>2
<1>3. Flow'
  BY <1>1, <1>2 DEF PInv, Flow, Counter, CommitAt
<1>4. pending' = 0 /\ stored' = 0
  BY <1>1 DEF PInv, Rest, NothingInserted
<1> QED BY <1>1, <1>2, <1>3, <1>4 DEF Rest

(* Where a program goes on after ERROR-RTN.                                *)
LEMMA ResumedAt ==
  ASSUME Flow, failed
  PROVE  /\ Resumed \in 0..CommitAt
         /\ Resumed = 0 \/ (prog # "FETCHTBL" /\ Resumed \in {pc, 7} /\ Resumed >= pc)
<1> DEFINE test == Code[prog][pc - 1].test
           looping == Instruction.op = "INSERT_LOOP" /\ idx > 0
<1>1. Counter /\ pc \in 2..6 /\ (prog = "FETCHTBL" => pc = 2)
  BY DEF Flow
<1>2. CASE looping
  <2>1. prog = "INSERTTBL" /\ pc = 6
    BY <1>1, <1>2, Programs3, InsertTable, HelloWorld, FetchTable
    DEF Counter, Stands, CommitAt
  <2> QED BY <1>2, <2>1 DEF Resumed, CommitAt
<1>3. CASE ~looping
  <2>1. test \in {"stop", "go"} /\ (prog = "FETCHTBL" => test = "stop")
    <3>1. CASE prog = "INSERTTBL"
      <4>1. test = INSERTTBL[pc - 1].test /\ pc - 1 \in {1, 2, 3, 4, 5}
        BY <1>1, <3>1 DEF Code
      <4> QED BY <3>1, <4>1, CallFields DEF INSERTTBL, CONNECT_USERNAME
    <3>2. CASE prog = "helloworld"
      <4>1. test = helloworld[pc - 1].test /\ pc - 1 \in {1, 2, 3, 4, 5}
        BY <1>1, <3>2 DEF Code
      <4> QED BY <3>2, <4>1, CallFields DEF helloworld, CONNECT_USERNAME
    <3>3. CASE prog = "FETCHTBL"
      <4>1. test = FETCHTBL[1].test
        BY <1>1, <3>3 DEF Code
      <4> QED BY <4>1, CallFields DEF FETCHTBL, CONNECT_USERNAME
    <3> QED BY <1>1, <3>1, <3>2, <3>3, Programs3 DEF Counter
  <2>2. Resumed = IF test = "stop" THEN 0 ELSE pc
    BY <1>3, <2>1 DEF Resumed
  <2> HIDE DEF test
  <2> QED BY <1>1, <2>1, <2>2 DEF CommitAt
<1> QED BY <1>2, <1>3

LEMMA ErrorKeeps == ASSUME PInv, ERROR_RTN PROVE Flow' /\ Rest'
<1>1. failed /\ ~failed' /\ failed' \in BOOLEAN /\ told' = TRUE
  BY DEF ERROR_RTN
<1>2. ~RollsBack(sqlcode)
  BY DEF PInv, IInv, TypeRest, RollsBack, Codes, NOT_FOUND, OUT_OF_MEMORY, EMPTY,
         NO_CONN, INVALID_STMT, CONNECT, WARNING_UNKNOWN_PORTAL, WARNING_PORTAL_EXISTS
<1>3. /\ UNCHANGED vars /\ UNCHANGED <<prog, idx, stored, CommitAt>>
      /\ pc' = Resumed /\ pending' \in {0, pending}
  BY <1>2 DEF ERROR_RTN, CommitAt
<1>4. /\ Resumed \in 0..CommitAt
      /\ Resumed = 0 \/ (prog # "FETCHTBL" /\ Resumed \in {pc, 7} /\ Resumed >= pc)
  BY <1>1, ResumedAt DEF PInv
<1>5. pc \in 2..6 /\ (prog = "FETCHTBL" => pc = 2)
  BY <1>1 DEF PInv, Flow
<1>6. Flow'
  <2>1. pc' # 1 /\ (prog = "INSERTTBL" /\ pc' \in 1..5 => pc \in 1..5)
    BY <1>3, <1>4, <1>5
  <2>2. Counter'
    BY <1>3, <1>4 DEF PInv, Flow, Counter, CommitAt
  <2> QED BY <1>1, <1>3, <2>1, <2>2 DEF PInv, Flow
<1>7. CASE prog = "FETCHTBL"
  BY <1>3, <1>6, <1>7 DEF PInv, Rest
<1>8. CASE prog # "FETCHTBL"
  <2>1. Working /\ ~InBlock(ses) /\ pending = 0
    BY <1>1, <1>5, <1>8 DEF PInv, Rest, Working, CommitAt
  <2>2. Attached' /\ ~InBlock(ses')
    BY <1>3, <2>1 DEF Working, Attached, InBlock, vars
  <2>3. Working' /\ pending' = 0 /\ stored' = 0
    BY <1>1, <1>3, <2>1, <2>2 DEF Working
  <2> QED BY <1>3, <1>6, <1>8, <2>3 DEF Rest
<1> QED BY <1>7, <1>8

LEMMA LossKeeps == ASSUME PInv, LinkDies PROVE Flow' /\ Rest'
<1>1. /\ UNCHANGED <<prog, pc, idx, failed, told, stored, CommitAt>> /\ pc > 0
      /\ pending' = IF InBlock(ses') THEN pending ELSE 0
  BY DEF LinkDies, NothingInserted, CommitAt
<1>2. PICK id \in 1..MaxId : LoseLink(id)
  BY DEF LinkDies
<1>3. Flow'
  BY <1>1, <1>2 DEF LoseLink, PInv, Flow, Counter, CommitAt
<1>4. CASE (Rest /\ ~Working) \/ prog = "FETCHTBL" \/ pc \notin 1..CommitAt
  BY <1>1, <1>3, <1>4 DEF PInv, Rest
<1>5. CASE Working /\ prog # "FETCHTBL" /\ pc \in 1..CommitAt
  <2>1. /\ Attached' /\ (InBlock(ses') => InBlock(ses))
        /\ Up' => Up /\ (InBlock(ses) => InBlock(ses'))
    BY <1>2, <1>5, LossEffect DEF Working
  <2>2. Sofar' = Sofar
    BY <1>1 DEF Sofar
  <2>3. Working'
    BY <1>1, <1>5, <2>1, <2>2 DEF Working
  <2> QED BY <1>1, <1>3, <1>5, <2>3 DEF Rest
<1> QED BY <1>4, <1>5 DEF PInv

LEMMA NextPInv == ASSUME ~IgnoreError, PInv, [ProgNext]_all PROVE PInv'
<1>1. IInv'
  BY ProgramCalls, NextIInv DEF PInv
<1>2. CASE UNCHANGED all
  <2>1. UNCHANGED <<vars, prog, pc, idx, failed, told, pending, stored>>
    BY <1>2 DEF all, own
  <2>2. UNCHANGED <<reg, ses, sqlcode, CommitAt, Sofar>>
    BY <2>1 DEF vars, CommitAt, Sofar
  <2>3. Flow'
    BY <2>1, <2>2 DEF PInv, Flow, Counter
  <2>4. Working => Working'
    BY <2>1, <2>2 DEF Working, Attached, InBlock, Up
  <2>5. Rest'
    BY <2>1, <2>2, <2>4 DEF PInv, Rest
  <2> QED BY <1>1, <2>3, <2>5 DEF PInv
<1>3. CASE ProgNext
  <2> SUFFICES Flow' /\ Rest'
    BY <1>1 DEF PInv
  <2>1. CASE CONNECT_DB
    BY <2>1, ConnectKeeps
  <2>2. CASE DROP_CREATE
    BY <2>2, DdlKeeps
  <2>3. CASE INSERT_LITERAL \/ INSERT_HOST
    BY <2>3, InsertKeeps
  <2>4. CASE INSERT_LOOP
    BY <2>4, LoopKeeps
  <2>5. CASE COMMIT_WORK
    BY <2>5, CommitKeeps
  <2>6. CASE DISCONNECT_ALL
    BY <2>6, DisconnectKeeps
  <2>7. CASE SELECT_COUNT \/ DECLARE_C1 \/ OPEN_C1 \/ FETCH_C1 \/ CLOSE_C1
    BY <2>7, ReadKeeps
  <2>8. CASE ERROR_RTN
    BY <2>8, ErrorKeeps
  <2>9. CASE LinkDies
    BY <2>9, LossKeeps
  <2> QED
    BY <1>3, <2>1, <2>2, <2>3, <2>4, <2>5, <2>6, <2>7, <2>8, <2>9
    DEF ProgNext, Program
<1> QED BY <1>2, <1>3

-----------------------------------------------------------------------------
(* Without OCDB_PG_IGNORE_ERROR, the rows of a program of any length are   *)
(* all stored or none, wherever a statement fails and the link dies.       *)
THEOREM RowsAllOrNothing == ASSUME ~IgnoreError PROVE ProgSpec => []AllOrNothing
<1>1. PInv => AllOrNothing
  <2> SUFFICES ASSUME PInv PROVE stored \in {0, Expected[prog]}
    BY DEF AllOrNothing
  <2>1. CASE prog = "FETCHTBL"
    BY <2>1 DEF PInv, Rest
  <2>2. CASE prog # "FETCHTBL"
    BY <2>2 DEF PInv, Rest, Working
  <2> QED BY <2>1, <2>2
<1>2. PInv /\ [ProgNext]_all => PInv'
  BY NextPInv
<1> QED BY <1>1, <1>2, InitPInv, PTL DEF ProgSpec

(* Without OCDB_PG_IGNORE_ERROR, a program of any length that displayed no *)
(* error, and whose COMMIT is sent over a live link and leaves SQLCODE 0,  *)
(* has stored every row.                                                   *)
THEOREM QuietStores == ASSUME ~IgnoreError PROVE ProgSpec => QuietRunStores
<1>1. ASSUME PInv, [ProgNext]_all, COMMIT_WORK, ~told, sqlcode' = 0, Up
      PROVE  stored' = Expected[prog]
  <2>1. stored = 0 /\ pending = Expected[prog]
    BY <1>1, AtTheCommit DEF COMMIT_WORK
  <2>2. stored' = stored + pending
    BY <1>1 DEF COMMIT_WORK, Committed
  <2>3. Expected[prog] \in Nat
    BY <1>1, Programs3, ProgramsAssumption DEF PInv, Flow, Counter, Expected
  <2> QED BY <2>1, <2>2, <2>3
<1>2. PInv /\ [ProgNext]_all
        => [COMMIT_WORK /\ ~told /\ sqlcode' = 0 /\ Up => stored' = Expected[prog]]_all
  BY <1>1
<1>3. PInv /\ [ProgNext]_all => PInv'
  BY NextPInv
<1> QED BY <1>2, <1>3, InitPInv, PTL DEF ProgSpec, QuietRunStores
-----------------------------------------------------------------------------
(* Types, with OCDB_PG_IGNORE_ERROR too. The loop of INSERTTBL has a pass  *)
(* left whenever it runs, or has failed at the last; and no more rows are  *)
(* pending than were inserted.                                             *)
Counts ==
  /\ told \in BOOLEAN
  /\ idx <= Rows
  /\ prog = "INSERTTBL" /\ pc = 6 /\ ~failed => idx < Rows
  /\ pending \in Nat
  /\ pc \in 1..CommitAt => pending <= Sofar /\ stored = 0
  /\ pc \notin 1..CommitAt => pending = 0
  /\ prog = "FETCHTBL" => pending = 0
  /\ stored \in 0..Expected[prog]

TInv == IInv /\ Flow /\ Counts

LEMMA ExpectedIs ==
  ASSUME Flow, Counts
  PROVE  /\ prog \in {"INSERTTBL", "helloworld", "FETCHTBL"}
         /\ Expected[prog] \in Nat /\ Rows \in Nat /\ Rows > 0 /\ idx \in 0..Rows
         /\ Sofar \in Nat
         /\ prog # "FETCHTBL" => Sofar <= Expected[prog]
         /\ CommitAt = IF prog = "helloworld" THEN 6 ELSE 7
<1>1. prog \in {"INSERTTBL", "helloworld", "FETCHTBL"} /\ idx \in Nat
  BY Programs3 DEF Flow, Counter
<1>2. Rows \in Nat /\ Rows > 0
  BY ProgramsAssumption
<1>3. idx <= Rows /\ (prog = "INSERTTBL" /\ pc = 5 => idx = 0)
  BY DEF Counts, Flow
<1> QED BY <1>1, <1>2, <1>3 DEF Expected, Sofar, CommitAt

LEMMA TypedInit == ProgInit => TInv
<1> SUFFICES ASSUME ProgInit PROVE TInv
  OBVIOUS
<1>1. IInv /\ Flow
  BY InitPInv DEF PInv
<1>2. /\ pc = 1 /\ idx = 0 /\ told = FALSE /\ pending = 0 /\ stored = 0
      /\ prog \in {"INSERTTBL", "helloworld", "FETCHTBL"}
  BY Programs3 DEF ProgInit
<1>3. Rows \in Nat /\ Expected[prog] \in Nat
  BY <1>2, ProgramsAssumption DEF Expected
<1>4. pc \in 1..CommitAt /\ Sofar = 0
  BY <1>2 DEF Sofar, CommitAt
<1>5. /\ pc # 6
      /\ pc \in 1..CommitAt => pending <= Sofar /\ stored = 0
      /\ pc \notin 1..CommitAt => pending = 0
  BY <1>2, <1>4
<1>6. idx <= Rows /\ pending \in Nat /\ stored \in 0..Expected[prog]
  BY <1>2, <1>3
<1>7. told \in BOOLEAN
  BY DEF ProgInit
<1>8. Counts
  BY <1>2, <1>5, <1>6, <1>7 DEF Counts
<1> QED BY <1>1, <1>8 DEF TInv

(* A step to an instruction before the COMMIT, or to it.                   *)
LEMMA MovedTyped ==
  ASSUME TInv, pc \in 1..CommitAt, pc' \in 2..CommitAt,
         UNCHANGED <<prog, stored>>, told' \in BOOLEAN, idx' \in 0..Rows,
         failed' \in BOOLEAN, failed' => pc' <= 6 /\ (prog = "FETCHTBL" => pc' = 2),
         prog = "INSERTTBL" => /\ pc' <= 5 => idx' = 0
                               /\ pc' = 6 /\ ~failed' => idx' < Rows,
         pending' \in Nat, pending' <= Sofar', prog = "FETCHTBL" => pending' = 0
  PROVE  Flow' /\ Counts'
<1>1. /\ CommitAt' = CommitAt /\ CommitAt \in {6, 7} /\ prog \in DOMAIN Code
      /\ Rows \in Nat
  BY ExpectedIs, Programs3 DEF TInv, CommitAt
<1>2. Counter'
  BY <1>1 DEF Counter
<1>3. Flow'
  BY <1>1, <1>2 DEF Flow
<1>4. stored = 0 /\ stored \in 0..Expected[prog]
  BY DEF TInv, Counts
<1> QED BY <1>1, <1>3, <1>4 DEF Counts

LEMMA ConnectTyped == ASSUME TInv, CONNECT_DB PROVE Flow' /\ Counts'
<1>1. pc = 1 /\ Instruction.test = "stop"
  BY AtConnect DEF CONNECT_DB, TInv, Flow
<1>2. /\ pc' = 2 /\ UNCHANGED <<prog, idx, told, CommitAt>> /\ failed' \in BOOLEAN
  BY <1>1, Advanced, ExpectedIs DEF CONNECT_DB, TInv
<1>3. stored' = stored /\ pending' \in {0, pending}
  BY DEF CONNECT_DB, NothingInserted
<1>4. pending \in Nat /\ pending <= 0 /\ idx \in 0..Rows /\ told \in BOOLEAN
      /\ (prog = "INSERTTBL" => idx = 0) /\ CommitAt \in {6, 7}
  BY <1>1, ExpectedIs DEF TInv, Counts, Flow, Sofar
<1> QED BY <1>1, <1>2, <1>3, <1>4, MovedTyped DEF Sofar

LEMMA DdlTyped == ASSUME TInv, DROP_CREATE PROVE Flow' /\ Counts'
<1>1. prog # "FETCHTBL" /\ pc \in {2, 3}
  BY AtDdl DEF DROP_CREATE, TInv, Flow
<1>2. /\ pc' = pc + 1 /\ UNCHANGED <<prog, idx, told, CommitAt>> /\ failed' \in BOOLEAN
  BY <1>1, Advanced, ExpectedIs DEF DROP_CREATE, TInv
<1>3. stored' = stored /\ pending' \in {0, pending}
  BY DEF DROP_CREATE, NothingInserted
<1>4. pending \in Nat /\ pending <= 0 /\ idx \in 0..Rows /\ told \in BOOLEAN
      /\ (prog = "INSERTTBL" => idx = 0) /\ CommitAt \in {6, 7}
  BY <1>1, ExpectedIs DEF TInv, Counts, Flow, Sofar
<1> QED BY <1>1, <1>2, <1>3, <1>4, MovedTyped DEF Sofar

LEMMA InsertTyped == ASSUME TInv, INSERT_LITERAL \/ INSERT_HOST PROVE Flow' /\ Counts'
<1>1. /\ prog # "FETCHTBL" /\ pc \in {4, 5} /\ Inserted /\ Advance
  BY AtInsert, AtInsertHost DEF INSERT_LITERAL, INSERT_HOST, TInv, Flow
<1>2. /\ pc' = pc + 1 /\ UNCHANGED <<prog, idx, told, CommitAt>> /\ failed' \in BOOLEAN
  BY <1>1, Advanced, ExpectedIs DEF TInv
<1>3. /\ CommitAt \in {6, 7} /\ Rows \in Nat /\ Rows > 0 /\ idx \in 0..Rows
      /\ pending \in Nat /\ pending <= Sofar /\ told \in BOOLEAN /\ Sofar \in Nat
      /\ prog = "INSERTTBL" => idx = 0
      /\ prog = "helloworld" => CommitAt = 6
  BY <1>1, ExpectedIs DEF TInv, Counts, Flow
<1>4. stored' = stored /\ pending' \in {0, pending, pending + 1}
  BY <1>1 DEF Inserted
<1>5. Sofar' = Sofar + 1
  BY <1>1, <1>2, <1>3 DEF Sofar
<1> QED BY <1>1, <1>2, <1>3, <1>4, <1>5, MovedTyped

LEMMA LoopTyped == ASSUME TInv, INSERT_LOOP PROVE Flow' /\ Counts'
<1>1. prog = "INSERTTBL" /\ pc = 6 /\ Instruction.test = "leave" /\ ~failed
  BY AtLoop DEF INSERT_LOOP, TInv, Flow, At
<1>2. /\ Rows \in Nat /\ idx \in 0..Rows /\ idx < Rows /\ CommitAt = 7
      /\ pending \in Nat /\ pending <= Sofar /\ told \in BOOLEAN /\ Sofar = 2 + idx
  BY <1>1, ExpectedIs DEF TInv, Counts, Sofar
<1>3. /\ pc' \in {6, 7} /\ idx' = idx + 1 /\ UNCHANGED <<prog, told>>
      /\ pc' = 7 <=> (idx + 1 = Rows /\ sqlcode' = 0)
  BY <1>1 DEF INSERT_LOOP, Loop, LastPass
<1>4. failed' \in BOOLEAN /\ (failed' <=> sqlcode' # 0)
  BY <1>1 DEF INSERT_LOOP, Loop, Fails
<1>5. pending' \in {0, pending, pending + 1} /\ stored' = stored
  BY DEF INSERT_LOOP, Inserted
<1>6. Sofar' = Sofar + 1
  BY <1>1, <1>2, <1>3 DEF Sofar
<1> QED BY <1>1, <1>2, <1>3, <1>4, <1>5, <1>6, MovedTyped

LEMMA ReadTyped ==
  ASSUME TInv, SELECT_COUNT \/ DECLARE_C1 \/ OPEN_C1 \/ FETCH_C1 \/ CLOSE_C1
  PROVE  Flow' /\ Counts'
<1>1. /\ prog = "FETCHTBL" /\ pc \in 2..6 /\ Instruction.test \in {"none", "until"} /\ ~failed
      /\ NothingInserted
      /\ Advance \/ (Until /\ (Up /\ sqlcode' = 0 => idx < Rows))
  BY AtRead DEF SELECT_COUNT, DECLARE_C1, OPEN_C1, FETCH_C1, CLOSE_C1, TInv, Flow, At
<1>2. CommitAt = 7 /\ idx \in 0..Rows /\ Rows \in Nat /\ failed \in BOOLEAN
      /\ pending = 0 /\ told \in BOOLEAN
  BY <1>1, ExpectedIs DEF TInv, Counts, Flow
<1>3. /\ pc' \in 2..7 /\ UNCHANGED <<prog, told>> /\ idx' \in 0..Rows
      /\ failed' \in BOOLEAN /\ ~failed'
  <2>1. CASE Advance
    BY <1>1, <1>2, <2>1, Advanced DEF TInv
  <2>2. CASE Until /\ (Up /\ sqlcode' = 0 => idx < Rows)
    <3>1. pc' \in {pc, pc + 1} /\ UNCHANGED <<prog, told, failed>> /\ idx' \in {idx, idx + 1}
          /\ (idx' = idx \/ idx < Rows)
      BY <2>2 DEF Until
    <3> QED BY <1>1, <1>2, <3>1
  <2> QED BY <1>1, <2>1, <2>2
<1>4. pending' = 0 /\ stored' = stored
  BY <1>1, <1>2 DEF NothingInserted
<1>5. Sofar' \in Nat /\ Sofar' >= 0
  BY <1>1, <1>3 DEF Sofar
<1> QED BY <1>1, <1>2, <1>3, <1>4, <1>5, MovedTyped

LEMMA CommitTyped == ASSUME TInv, COMMIT_WORK PROVE Flow' /\ Counts'
<1>1. pc = CommitAt /\ Instruction.test = "none"
  BY AtCommit DEF COMMIT_WORK, TInv, Flow
<1>2. /\ pc' = CommitAt + 1 /\ UNCHANGED <<prog, idx, told, CommitAt>>
      /\ failed' \in BOOLEAN /\ ~failed'
  BY <1>1, Advanced, ExpectedIs DEF COMMIT_WORK, TInv
<1>3. Flow'
  BY <1>2, ExpectedIs DEF TInv, Flow, Counter
<1>4. /\ stored = 0 /\ pending \in Nat /\ pending <= Sofar /\ Sofar \in Nat
      /\ prog = "FETCHTBL" => pending = 0
      /\ prog # "FETCHTBL" => Sofar <= Expected[prog]
      /\ Expected[prog] \in Nat /\ CommitAt \in {6, 7}
      /\ told \in BOOLEAN /\ idx <= Rows
  BY <1>1, ExpectedIs DEF TInv, Counts
<1>5. pending' = 0 /\ stored' \in {stored, stored + pending}
  BY DEF COMMIT_WORK, Committed
<1>6. stored' \in 0..Expected[prog] /\ pc' \notin 1..CommitAt'
  BY <1>2, <1>4, <1>5
<1>7. ~(prog' = "INSERTTBL" /\ pc' = 6)
  BY <1>2, <1>4, ExpectedIs DEF TInv
<1> QED BY <1>2, <1>3, <1>4, <1>5, <1>6, <1>7 DEF Counts

LEMMA DisconnectTyped == ASSUME TInv, DISCONNECT_ALL PROVE Flow' /\ Counts'
<1>1. pc = CommitAt + 1 /\ Instruction.test = "none"
  BY AtDisconnect DEF DISCONNECT_ALL, TInv, Flow
<1>2. /\ pc' = 0 /\ UNCHANGED <<prog, idx, told, CommitAt>>
      /\ failed' \in BOOLEAN /\ ~failed'
  BY <1>1, Advanced, ExpectedIs DEF DISCONNECT_ALL, TInv
<1>3. Flow'
  BY <1>2, ExpectedIs DEF TInv, Flow, Counter
<1>4. pending = 0 /\ pending' = 0 /\ stored' = stored
  BY <1>1, ExpectedIs DEF DISCONNECT_ALL, NothingInserted, TInv, Counts
<1> QED BY <1>2, <1>3, <1>4 DEF TInv, Counts

LEMMA ErrorTyped == ASSUME TInv, ERROR_RTN PROVE Flow' /\ Counts'
<1>1. failed /\ ~failed' /\ failed' \in BOOLEAN /\ told' = TRUE
  BY DEF ERROR_RTN
<1>2. ~RollsBack(sqlcode)
  BY DEF TInv, IInv, TypeRest, RollsBack, Codes, NOT_FOUND, OUT_OF_MEMORY, EMPTY,
         NO_CONN, INVALID_STMT, CONNECT, WARNING_UNKNOWN_PORTAL, WARNING_PORTAL_EXISTS
<1>3. /\ UNCHANGED <<vars, prog, idx, stored, CommitAt>>
      /\ pc' = Resumed /\ pending' = IF Resumed = 0 THEN 0 ELSE pending
  BY <1>2 DEF ERROR_RTN, CommitAt
<1>4. /\ pc \in 2..6 /\ (prog = "FETCHTBL" => pc = 2)
      /\ Resumed \in 0..CommitAt
      /\ Resumed = 0 \/ (prog # "FETCHTBL" /\ Resumed \in {pc, 7} /\ Resumed >= pc)
  BY <1>1, ResumedAt DEF TInv, Flow
<1>5. /\ Rows \in Nat /\ Rows > 0 /\ idx \in 0..Rows /\ Expected[prog] \in Nat
      /\ prog \in {"INSERTTBL", "helloworld", "FETCHTBL"}
      /\ CommitAt = (IF prog = "helloworld" THEN 6 ELSE 7)
      /\ pending \in Nat /\ pending <= Sofar /\ stored = 0
      /\ prog = "INSERTTBL" /\ pc \in 1..5 => idx = 0
  BY <1>4, ExpectedIs DEF TInv, Counts, Flow
<1>6. CASE Resumed = 0
  <2>1. pc' = 0 /\ pending' = 0
    BY <1>3, <1>6
  <2>2. Flow'
    BY <1>1, <1>3, <2>1, ExpectedIs DEF TInv, Flow, Counter
  <2> QED BY <1>1, <1>3, <1>5, <2>1, <2>2 DEF Counts
<1>7. CASE Resumed # 0
  <2>1. /\ prog # "FETCHTBL" /\ pc' \in {pc, 7} /\ pc' \in 2..CommitAt /\ pending' = pending
        /\ pc \in 1..CommitAt
    BY <1>3, <1>4, <1>5, <1>7
  <2>2. prog = "INSERTTBL" /\ pc = 6 /\ idx > 0 => pc' = 7
    <3> SUFFICES ASSUME prog = "INSERTTBL", pc = 6, idx > 0 PROVE pc' = 7
      OBVIOUS
    <3>1. Instruction.op = "INSERT_LOOP"
      BY CallFields DEF Instruction, Code, INSERTTBL
    <3> QED BY <1>3, <3>1 DEF Resumed
  <2>3. pending' <= Sofar'
    BY <1>3, <1>5, <2>1, <2>2 DEF Sofar
  <2> QED BY <1>1, <1>3, <1>4, <1>5, <2>1, <2>2, <2>3, MovedTyped
<1> QED BY <1>6, <1>7

LEMMA LossTyped == ASSUME TInv, LinkDies PROVE Flow' /\ Counts'
<1>1. /\ UNCHANGED <<prog, pc, idx, failed, told, stored, CommitAt, Sofar>>
      /\ pending' \in {0, pending}
  BY DEF LinkDies, NothingInserted, CommitAt, Sofar
<1>2. PICK id \in 1..MaxId : LoseLink(id)
  BY DEF LinkDies
<1>3. Flow'
  BY <1>1, <1>2 DEF LoseLink, TInv, Flow, Counter
<1>4. Sofar \in Nat
  BY ExpectedIs DEF TInv
<1> QED BY <1>1, <1>3, <1>4 DEF TInv, Counts

LEMMA NextTyped == ASSUME TInv, [ProgNext]_all PROVE TInv'
<1>1. IInv'
  BY ProgramCalls, NextIInv DEF TInv
<1>2. CASE UNCHANGED all
  <2>1. UNCHANGED <<vars, prog, pc, idx, failed, told, pending, stored>>
    BY <1>2 DEF all, own
  <2>2. UNCHANGED <<reg, CommitAt, Sofar>>
    BY <2>1 DEF vars, CommitAt, Sofar
  <2> QED BY <1>1, <2>1, <2>2 DEF TInv, Flow, Counter, Counts
<1>3. CASE ProgNext
  BY <1>1, <1>3, ConnectTyped, DdlTyped, InsertTyped, LoopTyped, CommitTyped,
     DisconnectTyped, ReadTyped, ErrorTyped, LossTyped
  DEF ProgNext, Program, TInv
<1> QED BY <1>2, <1>3

(* Whatever fails, and whether or not errors are ignored: a program stays  *)
(* within its instructions, its loop within the rows there are, and it has *)
(* never more rows pending or stored than it inserts.                      *)
THEOREM ProgramsTyped == ProgSpec => []ProgTypeOK
<1>1. TInv => ProgTypeOK
  <2> SUFFICES ASSUME TInv PROVE ProgTypeOK
    OBVIOUS
  <2>1. TypeOK
    BY DEF TInv, IInv, Core, TypeCore, TypeRest, TypeOK
  <2>2. prog \in DOMAIN Code /\ pc \in 0..Len(Code[prog])
    BY Length DEF TInv, Flow, Counter
  <2>3. idx \in 0..Rows /\ pending \in 0..Expected[prog] /\ stored \in 0..Expected[prog]
    BY ExpectedIs DEF TInv, Counts
  <2> QED BY <2>1, <2>2, <2>3 DEF TInv, Flow, Counts, ProgTypeOK
<1>2. TInv /\ [ProgNext]_all => TInv'
  BY NextTyped
<1> QED BY <1>1, <1>2, TypedInit, PTL DEF ProgSpec
=============================================================================
