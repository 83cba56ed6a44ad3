------------------------------ MODULE Statements -----------------------------
(***************************************************************************)
(* Statements with host variables: the frame of parameters that the        *)
(* generated program builds between OCESQLStartSQL and OCESQLEndSQL, and   *)
(* the calls that send the rows of a COBOL table to the server and store   *)
(* the rows of a result in one.                                            *)
(*                                                                         *)
(* The program has one host variable, an item or a table of them, with a   *)
(* neighbour behind it; the server has one table, with one column of the   *)
(* item's own type. A row is the text of its value as the server sends it. *)
(* What becomes of transactions and connections is in Runtime.             *)
(***************************************************************************)
EXTENDS Conversion

CONSTANTS Hosts,     \* declarations of the host variable: its item, its OCCURS
                     \* count, 1 for none, and whether it is a table of groups
          Numbers,   \* digits of the numeric values, with their sign
          Strings,   \* character values
          MaxRows,   \* bound: rows in the server's table
          MaxOpens   \* bound: rows fetched before the cursor is opened again

ASSUME StatementsAssumption ==
  /\ Hosts \subseteq [item : Item, count : Nat \ {0}, group : BOOLEAN]
  /\ \A h \in Hosts : h.group => h.count > 1
  /\ Numbers \subseteq Int
  /\ Strings \subseteq Seq(1..255) \ {<< >>}
  /\ MaxRows \in Nat \ {0} /\ MaxOpens \in Nat

VARIABLES host,     \* the host variable
          elems,    \* the values the program last moved to it
          mem,      \* the storage of the host variable and its neighbour
          frame,    \* the lists and the _occurs_* variables of dblib/ocesql.c
          table,    \* the rows of the server's table
          cursor,   \* the cursor: rows of its query, rows passed, CURSORLIST.tuples
          res,      \* the result that the connection keeps (resaddr)
          sqlcode,  \* of the SQLCA
          sqlerrd,  \* SQLERRD(3) of the SQLCA
          told,     \* history: the last statement, how many parameters it announced, its code
          alive     \* FALSE once a conversion overran its buffer and the process died

vars == <<host, elems, mem, frame, table, cursor, res, sqlcode, sqlerrd, told, alive>>

SUCCESS            == 0
NOT_FOUND          == 100
TOO_MANY_ARGUMENTS == -201
TOO_FEW_ARGUMENTS  == -202
EMPTY              == -212
PGSQL              == -400

MAX_OCCURS == 500

-----------------------------------------------------------------------------
(* The server: values as texts.                                            *)

Magnitude(v) == IF v < 0 THEN -v ELSE v

Pow10[k \in Nat] == IF k = 0 THEN 1 ELSE 10 * Pow10[k - 1]

(* How many digits m takes, one of them before s decimals. *)
Figures(m, s) ==
  CHOOSE k \in (s + 1)..(s + 1 + m) :
    m < Pow10[k] /\ (k = s + 1 \/ m >= Pow10[k - 1])

(* The last n digits of m. *)
Numeral(m, n) == [i \in 1..n |-> Digit((m \div Pow10[n - i]) % 10)]

(* The text of v / 10^s: at least one digit before the point. *)
Render(v, s) ==
  LET m == Magnitude(v)
  IN  (IF v < 0 THEN <<MINUS>> ELSE << >>)
        \o insert_decimal_point(Numeral(m, Figures(m, s)), -s)

Unsigned(text) == IF text # << >> /\ text[1] \in {PLUS, MINUS} THEN Tail(text) ELSE text

Digits(text) == whole(Unsigned(text)) \o decimals(Unsigned(text))

IsNumber(text) ==
  Digits(text) # << >> /\ \A i \in DOMAIN Digits(text) : Digits(text)[i] \in 48..57

(* The number that the digits d are. *)
NumberOf(d) ==
  LET sum[i \in 0..Len(d)] == IF i = 0 THEN 0 ELSE 10 * sum[i - 1] + (d[i] - 48)
  IN  sum[Len(d)]

(* The value of a text of at most s decimals, in units of 10^-s. *)
Value(text, s) ==
  LET v == NumberOf(Digits(text)) * Pow10[s - Len(decimals(Unsigned(text)))]
  IN  IF text[1] = MINUS THEN -v ELSE v

(* A column NUMERIC(length, -power), or a character column. *)
Accepts(it, text) ==
  Numeric(it) => IsNumber(text) /\ Magnitude(Value(text, -it.power)) < Pow10[it.length]

Stored(it, text) == IF Numeric(it) THEN Render(Value(text, -it.power), -it.power)
                                   ELSE text

-----------------------------------------------------------------------------
(* COBOL: the storage of a value.                                          *)

LastDigits(text, n) ==
  LET d == Digits(text)
  IN  [i \in 1..n |-> IF i + Len(d) - n \in 1..Len(d) THEN d[i + Len(d) - n]
                                                      ELSE Digit(0)]

(* Half bytes: a zero where the number of digits is even, the digits, and  *)
(* the sign.                                                               *)
PackedStorage(digits, sign) ==
  LET halves == (IF Len(digits) % 2 = 0 THEN <<0>> ELSE << >>)
                  \o [i \in DOMAIN digits |-> digits[i] - 48] \o <<sign>>
  IN  [i \in 1..(Len(halves) \div 2) |-> (16 * halves[2 * i - 1]) + halves[2 * i]]

Storage(it, text) ==
  LET digits == LastDigits(text, it.length) IN
  CASE it.type = "UNSIGNED_NUMBER"  -> digits
    [] it.type = "SIGNED_NUMBER_TC" ->
         IF Negative(text) THEN [digits EXCEPT ![it.length] = NegativeFinal(@ - 48)]
                           ELSE digits
    [] it.type = "SIGNED_NUMBER_LS" -> Sign(~Negative(text)) \o digits
    [] it.type = "UNSIGNED_NUMBER_PD" -> PackedStorage(digits, 15)
    [] it.type = "SIGNED_NUMBER_PD" -> PackedStorage(digits, IF Negative(text) THEN 13 ELSE 12)
    [] Varying(it) -> HeaderOf(Len(text) \div (Width(it) \div it.length))
                        \o Justified(it, text)
    [] OTHER -> Justified(it, text)

Values(it) ==
  IF Numeric(it)
  THEN {Render(v, -it.power) :
          v \in {n \in Numbers : Magnitude(n) < Pow10[it.length] /\ (n < 0 => Signed(it))}}
  ELSE {s \in Strings : Len(s) <= Width(it) /\ Len(s) % Len(Pad(it)) = 0}

(* The storage of a row of the table, and where it lies: a group has one   *)
(* more byte.                                                              *)
NEIGHBOUR == 55
stride(h) == Bytes(h.item) + (IF h.group THEN 1 ELSE 0)
Offset(h, j) == (j - 1) * stride(h)

(* How far the runtime may look: it takes an item that has more digits than *)
(* bytes to be as long as its digits.                                      *)
Extent(h) ==
  LET bytes == Bytes(h.item)
  IN  h.count * ((IF bytes < h.item.length THEN h.item.length ELSE bytes)
                   + IF h.group THEN 1 ELSE 0) + 2

Laid(h, es) ==
  [i \in 1..Extent(h) |->
     LET j == (i - 1) \div stride(h) + 1
         k == i - Offset(h, j)
     IN  IF j <= h.count /\ k <= Bytes(h.item) THEN Storage(h.item, es[j])[k]
                                              ELSE NEIGHBOUR]

-----------------------------------------------------------------------------
(* The two lists, of parameters and of result variables, are the number of *)
(* times the host variable is in them; done: the statement was sent.       *)
NoFrame == [open |-> FALSE, params |-> 0, results |-> 0, iter |-> 0, length |-> 0,
            is_parent |-> FALSE, done |-> FALSE]

(* base is a history: rows passed in earlier openings since the DECLARE,   *)
(* less those that no variable was there to take.                          *)
NoCursor == [open |-> FALSE, rows |-> << >>, pos |-> 0, tuples |-> 0, base |-> 0]

NoResult     == [kind |-> "none", rows |-> << >>, count |-> 0]
Failed       == [kind |-> "error", rows |-> << >>, count |-> 0]
Done(n)      == [kind |-> "ok", rows |-> << >>, count |-> n]
Tuples(rows) == [kind |-> "tuples", rows |-> rows, count |-> Len(rows)]

Nothing == [op |-> "none", announced |-> 0, code |-> 0]

(* What other programs left in the table: nothing, a NULL, or a number too *)
(* wide for the item.                                                      *)
Wide(it) == Render(Pow10[it.length], -it.power)

Init ==
  /\ host \in Hosts
  /\ elems \in [1..host.count -> Values(host.item)]
  /\ mem = Laid(host, elems)
  /\ frame = NoFrame
  /\ table \in {<< >>} \cup (IF Varying(host.item) THEN {} ELSE {<< << >> >>})
                       \cup (IF Numeric(host.item) THEN {<<Wide(host.item)>>} ELSE {})
  /\ cursor = NoCursor
  /\ res = NoResult
  /\ sqlcode = 0 /\ sqlerrd = 0
  /\ told = Nothing
  /\ alive = TRUE

(* The program moves values to its host variable. *)
Move ==
  /\ alive /\ ~frame.open
  /\ \E es \in [1..host.count -> Values(host.item)] :
        elems' = es /\ mem' = Laid(host, es)
  /\ told' = Nothing
  /\ UNCHANGED <<host, frame, table, cursor, res, sqlcode, sqlerrd, alive>>

-----------------------------------------------------------------------------
(* The frame.                                                              *)

OnlyFrame(f) ==
  /\ alive
  /\ frame' = f
  /\ UNCHANGED <<host, elems, mem, table, cursor, res, sqlcode, sqlerrd, told, alive>>

OCESQLStartSQL ==
  /\ ~frame.open
  /\ OnlyFrame([NoFrame EXCEPT !.open = TRUE])

(* One more parameter: the program names its host variable once or twice.  *)
OCESQLSetSQLParams ==
  /\ frame.open /\ ~frame.done /\ frame.iter = 0 /\ frame.params < 2
  /\ OnlyFrame([frame EXCEPT !.params = @ + 1])

OCESQLSetResultParams ==
  /\ frame.open /\ ~frame.done /\ frame.iter = 0 /\ frame.results = 0
  /\ OnlyFrame([frame EXCEPT !.results = 1])

(* The precompiler passes the number of rows, and for a table of groups    *)
(* the sum of the lengths of their items.                                  *)
OCESQLSetHostTable ==
  /\ frame.open /\ ~frame.done /\ frame.iter = 0 /\ host.count > 1
  /\ frame.params + frame.results > 0
  /\ OnlyFrame([frame EXCEPT !.iter = host.count, !.is_parent = host.group,
                             !.length = host.item.length + (IF host.group THEN 1 ELSE 0)])

OCESQLEndSQL ==
  /\ alive /\ frame.done
  /\ frame' = NoFrame
  /\ told' = Nothing
  /\ UNCHANGED <<host, elems, mem, table, cursor, res, sqlcode, sqlerrd, alive>>

(* Where row j of the host variable is read and written. *)
Address(j) == (j - 1) * (IF frame.is_parent THEN frame.length ELSE host.item.length)

(* The text of parameter row j. *)
realdata(j) == create_realdata(host.item, Drop(mem, Address(j)))

Ready == alive /\ frame.open /\ ~frame.done

(* A statement that announced n parameters ends with this SQLCODE and this *)
(* SQLERRD(3).                                                             *)
Ends(op, n, code, count) ==
  /\ frame' = [frame EXCEPT !.done = TRUE]
  /\ sqlcode' = code /\ sqlerrd' = count
  /\ told' = [op |-> op, announced |-> n, code |-> code]
  /\ UNCHANGED host

(* It ends with the storage and the table as they were. *)
Leaves(op, n, code, count) ==
  /\ Ends(op, n, code, count)
  /\ UNCHANGED <<elems, mem, table, alive>>

(* It ends before anything is sent. *)
Refused(op, n, code, count) ==
  /\ Leaves(op, n, code, count)
  /\ UNCHANGED <<cursor, res>>

-----------------------------------------------------------------------------
(* Statements that send rows: INSERT INTO t VALUES (:host).                *)

(* What _ocesqlExecParams says to n announced parameters, 0 if nothing.    *)
ArgumentError(n) ==
  CASE n = 0                        -> EMPTY
    [] n > 0 /\ frame.params > n -> TOO_MANY_ARGUMENTS
    [] n > 0 /\ frame.params < n -> TOO_FEW_ARGUMENTS
    [] OTHER                        -> 0

(* The server accepts the first k of rows texts, and refuses the next one  *)
(* if there is one: for its text, or for a reason of its own.              *)
Inserts(op, k, rows) ==
  /\ \A j \in 1..k : Accepts(host.item, realdata(j))
  /\ Len(table) + k <= MaxRows
  /\ table' = table \o [j \in 1..k |-> Stored(host.item, realdata(j))]
  /\ res' = IF k = rows THEN Done(1) ELSE Failed
  /\ Ends(op, 1, IF k = rows THEN SUCCESS ELSE PGSQL, res'.count)
  /\ UNCHANGED <<elems, mem, cursor, alive>>

_ocesqlExecParams(n) ==
  /\ Ready /\ frame.params > 0 /\ frame.results = 0 /\ frame.iter = 0
  /\ \/ /\ ArgumentError(n) # 0
        /\ Refused("ExecParams", n, ArgumentError(n), 0)
     \/ /\ ArgumentError(n) = 0 /\ n = 1
        /\ \E k \in 0..1 : Inserts("ExecParams", k, 1)

SlipRowSkipped(n) ==
  /\ Ready /\ frame.params = n /\ n = 1 /\ frame.results = 0 /\ frame.iter > 0
  /\ \E kept \in SUBSET (1..frame.iter) :
       /\ \A j \in kept : Accepts(host.item, realdata(j))
       /\ kept = {2} /\ Len(table) + 1 <= MaxRows
       /\ table' = Append(table, Stored(host.item, realdata(2)))
       /\ res' = Failed
       /\ Ends("ExecParamsOccurs", n, PGSQL, 0)
       /\ UNCHANGED <<elems, mem, cursor, alive>>

(* A table of rows: one INSERT each, up to the first that fails. (Not where *)
(* the number announced is not that of the list, on which arr is sized.)   *)
_ocesqlExecParamsOccurs(n) ==
  /\ Ready /\ frame.params = n /\ n = 1 /\ frame.results = 0 /\ frame.iter > 0
  /\ IF frame.iter > MAX_OCCURS THEN Refused("ExecParamsOccurs", n, EMPTY, 0)
     ELSE \E k \in 0..frame.iter : Inserts("ExecParamsOccurs", k, frame.iter)

-----------------------------------------------------------------------------
(* Statements that store rows.                                             *)

(* The storage once these data were written one after another, each at its *)
(* row's address.                                                          *)
Overwritten(written) ==
  [i \in DOMAIN mem |->
     LET over == {j \in DOMAIN written : i - Address(j) \in 1..Len(written[j])}
         last == CHOOSE j \in over : \A k \in over : k <= j
     IN  IF over = {} THEN mem[i] ELSE written[last][i - Address(last)]]

SlipLeftStale(rows, n) ==
  Overwritten([j \in DOMAIN rows |-> create_coboldata(host.item, rows[j])])

(* What is written to n rows of the host variable: low-values where there  *)
(* are fewer rows.                                                         *)
Written(rows, n) ==
  [j \in 1..n |-> IF j <= Len(rows) THEN create_coboldata(host.item, rows[j])
                                    ELSE create_coboldata_lowvalue(host.item)]

Filled(rows, n) == Overwritten(Written(rows, n))

(* Known defects of the conversion, which the properties leave out: a sign *)
(* that stands before leading zeros is overwritten by them; a number that  *)
(* is all decimals loses its point; a NULL has no decimals, which are      *)
(* filled in at the wrong end; a national text that fills a VARYING item   *)
(* is written over its header; a number may overrun the buffer.            *)
Faithful(it, text) ==
  /\ Numeric(it) /\ it.power < 0 => it.length > -it.power /\ text # << >>
  /\ it.type = "SIGNED_NUMBER_LS" => fillzero(it, Bare(it, text)) = 0
  /\ it.type = "JAPANESE_VARYING" => Len(text) < Width(it)
  /\ ~Overruns(it, text)

(* The rows of a table lie where the runtime looks for them: the size of   *)
(* the item in storage is its length.                                      *)
StrideRight(h) == h.count = 1 \/ Bytes(h.item) = h.item.length

(* A value the program cannot count on. *)
Unknown == <<NUL>>

(* op delivers these rows, of n that there is room for. A row that overruns *)
(* the buffer of its conversion may end the process.                       *)
Delivers(op, announced, rows, n, count) ==
  /\ Ends(op, announced, SUCCESS, count)
  /\ mem' = Filled(rows, n)
  /\ elems' = [j \in 1..host.count |->
                 IF j \in DOMAIN rows /\ StrideRight(host) /\ Faithful(host.item, rows[j])
                 THEN rows[j] ELSE Unknown]
  /\ alive' \in {TRUE} \cup {~Overruns(host.item, rows[j]) : j \in DOMAIN rows}
  /\ UNCHANGED table

(* OCDBSetResultStatus, where the SQLCODE was "code": the result is that   *)
(* of the last statement the connection was sent, whichever it was.        *)
StatusOf(r, code) ==
  CASE r.kind = "none"   -> code
    [] r.kind = "ok"     -> SUCCESS
    [] r.kind = "error"  -> PGSQL
    [] r.kind = "tuples" -> IF r.rows = << >> THEN NOT_FOUND ELSE SUCCESS

(* The rows that are among these values. *)
Matching(rows, values) ==
  LET kept[i \in 0..Len(rows)] ==
        IF i = 0 THEN << >>
        ELSE IF rows[i] \in values THEN Append(kept[i - 1], rows[i]) ELSE kept[i - 1]
  IN  kept[Len(rows)]

(* The rows of SELECT v FROM t, or of SELECT v FROM t WHERE v = :host.     *)
Selected(n) ==
  IF n = 0 THEN table ELSE Matching(table, {Stored(host.item, realdata(1))})

(* The results the server may have for it. *)
Answers(n) ==
  {Failed} \cup
  (IF n = 1 /\ ~Accepts(host.item, realdata(1)) THEN {} ELSE {Tuples(Selected(n))})

SlipResultKept(n) ==
  IF ArgumentError(n) # 0 THEN {res} ELSE Answers(n) \cup {res}

(* What the connection has as its result after the statement with n        *)
(* parameters: the old one, if the arguments were refused.                 *)
Results(n) == IF n > 0 /\ ArgumentError(n) # 0 THEN {res} ELSE Answers(n)

(* A result with one column is stored in one variable. *)
Selects(op, n, room) ==
  \E r \in Results(n) :
    LET code == StatusOf(r, IF n > 0 THEN ArgumentError(n) ELSE SUCCESS) IN
    /\ res' = r
    /\ UNCHANGED cursor
    /\ IF code < 0 THEN Leaves(op, n, code, r.count)
       ELSE IF r.kind # "tuples" \/ frame.results # 1 THEN Leaves(op, n, EMPTY, r.count)
       ELSE IF r.rows = << >> THEN Leaves(op, n, NOT_FOUND, 0)
       ELSE Delivers(op, n, Take(r.rows, room), room, r.count)

_ocesqlExecSelectIntoOne(n) ==
  /\ Ready /\ frame.iter = 0 /\ host.count = 1
  /\ Selects("SelectInto", n, 1)

_ocesqlExecSelectIntoOccurs(n) ==
  /\ Ready /\ frame.iter > 0
  /\ IF frame.iter > MAX_OCCURS THEN Refused("SelectInto", n, EMPTY, sqlerrd)
     ELSE Selects("SelectInto", n, frame.iter)

-----------------------------------------------------------------------------
(* The cursor, of SELECT v FROM t.                                         *)

OnlyCursor(c, r) ==
  /\ alive /\ ~frame.open
  /\ cursor' = c
  /\ res' = r
  /\ sqlcode' = StatusOf(r, SUCCESS) /\ sqlerrd' = 0
  /\ told' = Nothing
  /\ UNCHANGED <<host, elems, mem, frame, table, alive>>

(* DECLARE sends nothing. *)
OCESQLCursorDeclare ==
  /\ ~cursor.open
  /\ alive /\ ~frame.open
  /\ cursor' = NoCursor
  /\ sqlcode' = SUCCESS /\ sqlerrd' = 0
  /\ told' = Nothing
  /\ UNCHANGED <<host, elems, mem, frame, table, res, alive>>

(* OPEN does not begin a new count. *)
OCESQLCursorOpen ==
  /\ ~cursor.open /\ cursor.tuples <= MaxOpens
  /\ OnlyCursor([cursor EXCEPT !.open = TRUE, !.rows = table], Done(0))

OCESQLCursorClose ==
  /\ cursor.open
  /\ OnlyCursor([cursor EXCEPT !.open = FALSE, !.rows = << >>, !.pos = 0,
                               !.base = @ + cursor.pos], Done(0))

(* The server's answer to FETCH FORWARD n. *)
Fetched(n) == Take(Drop(cursor.rows, cursor.pos), n)

SlipCountedTwice(n) == cursor.tuples + n

(* The rows fetched since the DECLARE. *)
Counted(n) == cursor.tuples + Len(Fetched(n))

(* op fetches n rows and finds there are none: what it says if the FETCH   *)
(* failed, and in SQLERRD(3) if there were no more.                        *)
Fetches(op, n, refusal, empty) ==
  \/ /\ res' = Failed
     /\ Leaves(op, 0, refusal, 0)
     /\ UNCHANGED cursor
  \/ /\ cursor.open
     /\ res' = Tuples(Fetched(n))
     /\ IF frame.results # 1
        THEN /\ cursor' = [cursor EXCEPT !.pos = @ + Len(Fetched(n)),
                                         !.base = @ - Len(Fetched(n))]
             /\ Leaves(op, 0, EMPTY, IF op = "FetchOne" THEN Len(Fetched(n)) ELSE 0)
        ELSE /\ cursor' = [cursor EXCEPT !.pos = @ + Len(Fetched(n)),
                                         !.tuples = Counted(n)]
             /\ IF Fetched(n) = << >> THEN Leaves(op, 0, NOT_FOUND, empty)
                ELSE Delivers(op, 0, Fetched(n), n, Counted(n))

OCESQLCursorFetchOne ==
  /\ Ready /\ frame.iter = 0 /\ frame.params = 0 /\ host.count = 1
  /\ Fetches("FetchOne", 1, PGSQL, cursor.tuples)

(* The status of the result is not looked at, but one that failed has no   *)
(* columns.                                                                *)
OCESQLCursorFetchOccurs ==
  /\ Ready /\ frame.iter > 0 /\ frame.params = 0
  /\ IF frame.iter > MAX_OCCURS THEN Refused("FetchOccurs", 0, EMPTY, 0)
     ELSE Fetches("FetchOccurs", frame.iter,
                  IF frame.results = 0 THEN NOT_FOUND ELSE EMPTY, 0)

-----------------------------------------------------------------------------
FrameNext ==
  \/ OCESQLStartSQL
  \/ OCESQLSetSQLParams
  \/ OCESQLSetResultParams
  \/ OCESQLSetHostTable
  \/ OCESQLEndSQL

SendNext ==
  \E n \in 0..2 : _ocesqlExecParams(n) \/ _ocesqlExecParamsOccurs(n)

SelectNext ==
  \E n \in 0..1 : _ocesqlExecSelectIntoOne(n) \/ _ocesqlExecSelectIntoOccurs(n)

CursorNext ==
  \/ OCESQLCursorDeclare
  \/ OCESQLCursorOpen
  \/ OCESQLCursorClose
  \/ OCESQLCursorFetchOne
  \/ OCESQLCursorFetchOccurs

Next == Move \/ FrameNext \/ SendNext \/ SelectNext \/ CursorNext

Spec == Init /\ [][Next]_vars

-----------------------------------------------------------------------------
(* Properties.                                                             *)

(* Storage stays bytes and as long as it was declared, rows stay texts, and *)
(* the counts of the lists stay in their ranges.                           *)
TypeOK ==
  /\ host \in Hosts
  /\ mem \in [1..Extent(host) -> 0..255]
  /\ elems \in [1..host.count -> Seq(0..255)]
  /\ table \in Seq(Seq(0..255)) /\ Len(table) <= MaxRows
  /\ frame \in [open : BOOLEAN, params : 0..2, results : 0..1, iter : {0, host.count},
                length : Nat, is_parent : BOOLEAN, done : BOOLEAN]
  /\ cursor.pos <= Len(cursor.rows) /\ cursor.tuples \in Nat
  /\ res.kind \in {"none", "error", "ok", "tuples"}
  /\ sqlcode \in {SUCCESS, NOT_FOUND, TOO_MANY_ARGUMENTS, TOO_FEW_ARGUMENTS, EMPTY, PGSQL}
  /\ sqlerrd \in Nat

Executes(ops) == ~frame.done /\ frame'.done /\ told'.op \in ops

(* The rows of the host variable that the statement is about. *)
Room == IF frame.iter > 0 THEN frame.iter ELSE 1

Inserted ==
  LET new == Drop(table', Len(table))
  IN  /\ Take(table', Len(table)) = table
      /\ told'.code = SUCCESS <=> Len(new) = Room
      /\ told'.code \notin {SUCCESS, PGSQL} => new = << >>
      /\ \A j \in DOMAIN new :
           StrideRight(host) /\ elems[j] # Unknown
             => Storage(host.item, new[j]) = Storage(host.item, elems[j])

(* A statement that sends a host variable, or a table of them row by row,  *)
(* ends with SQLCODE 0 exactly when the server has every row; otherwise it *)
(* has the first rows up to one that it refused, in order and without      *)
(* gaps; and each row is the value that the program moved there.           *)
InsertedPrefix == [][Executes({"ExecParams", "ExecParamsOccurs"}) => Inserted]_vars

(* The rows a read has to deliver: what is left of the cursor's query, the *)
(* table, or its rows that equal the host variable. A number that a NULL   *)
(* was read into is zero.                                                  *)
Equals(row) ==
  IF Numeric(host.item)
  THEN row = IF elems[1] = << >> THEN Render(0, -host.item.power) ELSE elems[1]
  ELSE row # << >> /\ Storage(host.item, row) = Storage(host.item, elems[1])

Due ==
  CASE told'.op \in {"FetchOne", "FetchOccurs"} -> Drop(cursor.rows, cursor.pos)
    [] told'.op = "SelectInto" /\ told'.announced = 0 -> table
    [] OTHER -> Matching(table, {row \in {table[i] : i \in DOMAIN table} : Equals(row)})

Element(m, j) == SubSeq(m, Offset(host, j) + 1, Offset(host, j) + Bytes(host.item))

Delivered ==
  \A j \in 1..Room :
    IF j \in DOMAIN Due
    THEN Faithful(host.item, Due[j]) => Element(mem', j) = Storage(host.item, Due[j])
    ELSE \A k \in 1..host.item.length : Element(mem', j)[k] = NUL

(* A read that ends with SQLCODE 0, its arguments counted right, has put   *)
(* the rows due in their order in the rows of the host variable, each in   *)
(* the storage COBOL has for the value, and low-values in the rows left.   *)
RowsRead ==
  [][ /\ Executes({"SelectInto", "FetchOne", "FetchOccurs"})
      /\ told'.code = SUCCESS /\ StrideRight(host)
      /\ told'.announced > 0 => told'.announced = frame.params /\ elems[1] # Unknown
      => Due # << >> /\ Delivered ]_vars

Outside(i) ==
  \A j \in 1..host.count :
    i - Offset(host, j) \notin 1..(Bytes(host.item)
                                 + IF host.item.type = "SIGNED_NUMBER_TC" THEN 1 ELSE 0)

(* No statement writes outside the host variable, but for the one byte that *)
(* a trailing-combined number is followed by.                              *)
NeighbourKept ==
  StrideRight(host) => \A i \in DOMAIN mem : Outside(i) => mem[i] = NEIGHBOUR

(* SQLERRD(3) after a fetch is the number of rows that the server has      *)
(* passed over for this cursor since the DECLARE, however many at a time   *)
(* and in however many openings.                                           *)
CountTold ==
  [][ \/ Executes({"FetchOne", "FetchOccurs"}) /\ told'.code = SUCCESS
      \/ Executes({"FetchOne"}) /\ told'.code = NOT_FOUND
      => sqlerrd' = cursor'.base + cursor'.pos ]_vars
=============================================================================
