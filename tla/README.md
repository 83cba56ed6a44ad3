# TLA+ model of the database runtime in this repository

The repository is a set of COBOL exercises (`opgave1` .. `opgave9`, with model
answers in `docs/Solutions`) and, under `database-integration`, programs with
embedded SQL together with the library that makes them run: Open-COBOL-ESQL 1.2,
a precompiler (`ocesql/`) and a runtime over libpq (`dblib/`). Almost all of the
state that outlives a statement is in the runtime. Modelled here are the
runtime, what the precompiler writes for it, the programs that use both, and
those exercises that have a loop: reports over files, and names that are cleaned.

Paths below are relative to `src/database-integration/lib/Open-COBOL-ESQL-1.2/`
unless they start with `opgave`, `docs` or `database-integration`.

## 1. Inventory

| Component | State | Operations | Interacts with |
|---|---|---|---|
| Connection list (`dblib/ocdb.c`) | `_conn_lists`, `_next_conn_id`, the PGconn of each node | `OCDBConnect`, `OCDBFinish`, two searches | libpq below, the runtime above |
| Result dispatch (`dblib/ocdb.c`) | `resaddr` and `result` of a node, for the length of a call | `OCDBExec` .. `OCDBCursorClose`, `OCDBSetResultStatus` | the adapter |
| PostgreSQL adapter (`dblib/ocpgsql.c`) | `rollback_one_mode` | exec, exec with parameters, DECLARE, FETCH, CLOSE, SQLCODE of a result | libpq and the server |
| Statements and cursors (`dblib/ocesql.c`) | `_cursor_list`, `_prepare_list`, the SQLCA of the program | the `OCESQL...` entry points | everything below; called by generated code |
| Host variable lists (`dblib/ocesql.c`) | `_sql_var_lists`, `_sql_res_var_lists`, `_occurs_*` | `OCESQLStartSQL` .. `OCESQLEndSQL` | the statements |
| Data conversion (`dblib/ocesql.c`, `dblib/ocdbutil.c`) | none | `create_realdata`, `create_coboldata`, `insert_decimal_point`, ... | host variables |
| Host variable substitution (`dblib/ocdbutil.c`) | a list, for the length of a call | `get_str_replace_hostvalue` | PREPARE |
| Precompiler: scanner and grammar (`ocesql/scanner.l`, `parser.y`) | start condition, the lists of the statement being read, the tree of host variables | rules, productions | writes the list of statements |
| Precompiler: emission (`ocesql/ppout.c`) | the place in the list, the last line read | two copies of the source, `ppbuff` | reads list and tree, writes the calls of the runtime |
| Precompiler: lists and driver (`ocesql/ocesql.c`, `ocesqlutil.c`) | the list of statements, the counters that outlive a pass | `translate`, `com_readline` | both of the above |
| Database programs (`database-integration/**/*.cbl`, the samples) | working storage, SQLCA | connect, insert, cursor loops, commit, ERROR-RTN | the runtime |
| Batch reports (`opgave6` to `opgave9`, `docs/Solutions/Opgave6` to `Opgave9`) | customer and account file, `konto-array`, `FULDT-NAVN`, flags of the ends of files | open, read, match, write | files only |
| Name cleaning (`opgave3`, `Opgave3` to `Opgave5`) | two indices, the character before, the result | one character | the screen |

What is hard in it:

* **State kept twice.** The cursor list marks cursors open; the server has the
  portals. The server drops portals on its own: at the end of a block, with the
  link. The marks follow only where the code makes them follow.
* **Partial failure.** CONNECT is three commands, OPEN up to two, COMMIT and
  ROLLBACK are followed by BEGIN, a statement with parameters may stand between
  savepoints. Each command may fail or lose the link, and early returns decide
  what is left undone.
* **Loss of a link.** libpq notices a dead link only when it uses it. Before
  that, the library believes the connection; afterwards every statement returns
  no result at all.
* **Stale identity.** Cursors hold a connection id over DISCONNECT and
  reconnection, and a pointer to a prepared statement whose text may be replaced.
* **Sequences of legal calls.** A cursor name may be declared again, in another
  way, for another connection; a text may be prepared again while a cursor is
  open for it.

* **Two scans, two copies.** The precompiler scans the source, copies it with
  its include files, scans the copy and copies it again. A copy knows a statement
  only by line numbers that the scanner counted, and globals survive a pass.
* **Rewound and reused storage.** The reports read a file again for each
  customer, or fill a table of ten, and use one field for the names of all.
* **Bytes.** Values go between COBOL storage and text digit by digit, through
  buffers sized by picture; tables of items are walked with a stride the library
  computes.

There is one thread and nothing is persisted by the library, so there is no data
race and no recovery to model; the concurrency is between the program and the
server. Nothing in the library has to happen eventually by itself: liveness is a
question about the programs (`Stops`).

What makes each component correct:

* connection list: a name has at most one id, an id is never used again, a
  PGconn is neither leaked nor used after it was finished;
* adapter: the SQLCODE says what happened; a savepoint keeps an error from
  aborting the block;
* statements and cursors: marks and portals agree; the program learns when its
  transaction is gone; OPEN opens what was declared;
* host variables: as many values as the statement takes, from the right rows;
* conversions: what is read back is what was written, within the picture;
* precompiler: the calls it writes pass as many variables as it announces;
* programs: every opened cursor and every connection is closed; reports are the
  join of their files.

## 2. Modules

| Module | Contents |
|---|---|
| `ConnRegistry` | abstract: a map from names to ids that are never used twice |
| `ConnList` | `_conn_lists` as the sequence of its nodes, the searches, libpq's open handles; implements `ConnRegistry` |
| `PgSession` | one session: link, block, portals, and the outcomes of each command (no variables) |
| `Runtime` | the `OCESQL...` calls over the registry, the sessions, the cursor list and the prepare list; uses the connections as `ConnRegistry` |
| `Conversion` | the bytes of the nine item types: `create_realdata`, `create_coboldata`, `insert_decimal_point` (no variables) |
| `Statements` | host variable lists, statements for one row and for a table of rows, SELECT INTO, FETCH, SQLERRD(3) |
| `Fields` | declarations of host variables: the tree, its searches, type, length and power of an item (no variables) |
| `Scanner` | rules and start conditions of the scanner, productions, the list of statements (no variables) |
| `Emission` | what `ppbuff` writes for an entry of the list: FILLERs, calls, END-CALLs, messages (no variables) |
| `Precompile` | `translate`: scan, copy, scan, copy, as steps of one line |
| `Programs` | INSERTTBL, FETCHTBL and helloworld, call by call, over `Runtime` |
| `PrepareText` | `get_str_replace_hostvalue`: the host variables of a prepared text become `$1`, `$2`, ... |
| `Join` | abstract: the lines of a report, and that it is written in their order |
| `Reports` | opgave6 to opgave9 and Opgave6 to Opgave9, each OPEN, READ and pass of a table; implements `Join` |
| `CleanName` | the loop that takes spaces out of a name: opgave3, Opgave3, Opgave4, Opgave5 |
| `MCConnList`, `MCRuntime`, `MCStatements`, `MCPrecompile`, `MCPrograms`, `MCLoops` | symmetry sets, items and values, the programs that are translated, files and names |
| `ConnListProofs`, `RuntimeProofs`, `StatementsProofs`, `PrecompileProofs`, `ProgramsProofs`, `ReportsProofs`, `TextProofs` | theorems and their lemmas |
| `Recursions` | lemmas about recursive functions, for the modules of proofs |

`Runtime` EXTENDS `PgSession`. `ConnList` and `Runtime` meet in `ConnRegistry`:
`ConnList` implements it, and the registry half of `Runtime` is one of its
behaviours. `Programs` EXTENDS `Runtime`: a step of a program is one of its
calls. `Statements` EXTENDS `Conversion`; `Precompile` EXTENDS `Emission`, that
`Scanner`, that `Fields`. `Statements` looks at one statement and its bytes,
`Runtime` at transactions and connections; they do not share state but for the
SQLCODE, which a call overwrites. What `Emission` shows, that each call announces
as many parameters as were set before it, is what `Statements` finds out about
when it is not so (`ArgumentError`). `PrepareText` is what PREPARE does
with a text before `Runtime` keeps it. The exercises use no database. These
loops share nothing; `MCLoops` runs a text, a name and a report in turn.

### How state corresponds

| Model | Code |
|---|---|
| `list`, `nextId`, `open` (`ConnList`) | `_conn_lists.next` and on, `_next_conn_id`, PGconns that libpq has open |
| `reg[n]`, `next` (`Runtime`) | what `OCDBResolveCONNID` returns for a name; `_next_conn_id` |
| `ses[id].link` | `PQstatus`: `up` and `lost` are `CONNECTION_OK` (lost: not noticed yet), `bad` is not, `closed` is finished or never made |
| `ses[id].txn`, `ses[id].portal` | transaction state and cursors of the backend |
| `cur[c]` | the entry of `_cursor_list` with that name: `connid`, `sp`, `query`, `isOpened` |
| `prep[p]` | the text of the entry of `_prepare_list` |
| `sqlcode` | `SQLCODE` in the SQLCA |
| `last`, `decl` | history only: the last call and its connection, and the last DECLARE of a cursor |
| `alive` | FALSE after a wild pointer has been freed, or (`Statements`) a conversion has overrun its buffer |
| `host`, `elems`, `mem` (`Statements`) | the host variable as declared, the values last moved to it, its storage with two bytes behind it |
| `frame` | `_sql_var_lists` and `_sql_res_var_lists` by their lengths, `_occurs_iter`, `_occurs_length`, `_occurs_is_parent` |
| `table`, `cursor`, `res` | the server's rows, its cursor with `CURSORLIST.tuples`, the result in `resaddr` |
| `sqlerrd`, `told` | `SQLERRD(3)`; history of the last statement |
| `file`, `line` (`Precompile`) | the file read in this phase, `yylineno` or `lineNUM` |
| `s` | the scanner: start condition, tokens of the statement, `exec_list` (`list`), the tree of `cb_field`, `sqlnum` |
| `first` | the list of the first scan, kept for comparison |
| `l`, `inbuff`, `out` | the entry a copy stands at, its buffer, the lines and calls it wrote |
| `prog`, `pc`, `idx` (`Programs`) | the program, its next statement, passes of its loop |
| `failed`, `told` | ERROR-RTN is to run; it has displayed something |
| `pending`, `stored` | rows inserted in the open block, rows committed |
| `target`, `now`, `start`, `hoststat`, `nParams` (`PrepareText`) | the variables of that name, pointers as positions; `slist` is the list of pieces put together |
| `kunder`, `konti`, `missing` (`Reports`) | the two files, and which of them cannot be opened |
| `phase` | which loop the program is in, or how it ended |
| `kpos`, `apos` | records read of the files since they were opened |
| `array`, `count`, `at` | `konto-array` by the records in it, `konto-index` or `KONTO-COUNT`, `current-index` or `IX-KONTI` |
| `navn`, `shown` | `FULDT-NAVN`, and what it was for each customer |
| `opened`, `out` | OPEN OUTPUT has emptied the report; its lines |
| `ix`, `ix2`, `previous` (`CleanName`) | `IX`, `IX2`, `PREVIOUS-CHAR`, in opgave3 `character-index`, `clean-name-index`, and the character at `previous-character-index` |
| `rens`, `cleaned` | `RENS-FULDT-NAVN` or `clean-name` with the byte before it; the results shown |

In `Runtime` an action is one call of the generated program, from the resolution of the
connection name to the SQLCODE it leaves; its disjuncts are the returns of the
function. What the server answers is chosen inside the action, per command, from
`PgSession`; a link may be lost before a call (`LoseLink`) or in any command of
one (`Cut`). A call that runs several commands is one action because the program
waits for it and no other client shares the session.

What is abstracted: SQL texts are members of small sets, told apart by what they
do (query, update, COMMIT, ROLLBACK, another spelling of COMMIT) and by how many
parameters they take; rows are "some" or "none"; the number of host variables of
a FETCH or SELECT INTO fits or does not (`fits`). SQLSTATEs that the library maps
to the generic code or to one of its own (duplicate key and others) are one
error, -400: what matters is that they abort the block and are negative. Return
values of the entry points are left out, since generated programs test SQLCODE.
Allocation failures appear where they change the protocol (`create_conn`,
CONNECT), and not in the statements.

In `Statements` an action is one call of a frame. There is one host variable, an
item or a table of items with other members between them, and one column of the
item's own type: the parameters of a statement are treated alike and one by one.
Bytes are kept as numbers, since the properties are about them.

In `Precompile` an action is one line through the scanner or one through a copy.
A word is what one rule of the scanner matches, with the name of the rule; texts
of no interest are tokens; only literals are spelled, as the bytes that are the
first half of a national character (`"D"`, two to a character) or any other
(`"s"`), for that decides where a text may be cut. The layout of the written
lines is left out, what they say (function, count, text, period) is kept. The
pointers between the fields of the tree are places in the sequence of all fields
made, 0 for NULL. What the code does with a loop over words, tokens, fields or
bytes is a function on the places it passes, which calls itself at the place
before, or at the place a pointer leads to.

A word is what the scanner can match: a PICTURE is one of those of the instance,
and a verb that is kept as it was typed (`commandname`) is not spelled like
`VARYING_PARAM`, which no rule for verbs matches.

In `Reports` an action is an OPEN, a READ with everything that is done for its
record or at its end, or a pass over the table. A line is its customer, its
account and its number, for the texts of the lines are MOVEs; an account of
spaces (an empty line of a file) has an id like any other. Of a name the model
keeps its length, and of each character shown whose name it is from. A record
stored behind the table may stay there, be lost, or end the program: GnuCOBOL
checks an index only if it is told to. Counters of two digits that wrap, far
behind a table of ten, are not modelled. In `CleanName` an action is one
character, or the reset for the next name.

The definitions named `Slip...` (and `Create...`, `Add...` in `ConnList`) are
deliberately wrong variants of the operation below them. They are used by no
specification; substituted for the operation they must violate the property they
are listed with, and do.

## 3. Properties

Connection list:

* `HandlesOwned`: libpq's open handles are exactly those in the list, each once,
  also when a name is refused or memory runs out;
* `NodesUnique`: names unique, ids ascending and below the counter;
* `ImplementsRegistry`: what the searches return is a map with fresh ids.

Runtime:

* `PortalOwned`: a portal on a server belongs to a cursor that the list has as
  open on that connection, so that no OPEN runs into a forgotten portal;
* `FlagAccurate`: on a live connection inside a block, a cursor marked open has
  its portal. Outside a block it may not: see `CommitRestarts`;
* `TxnLeftTold`: a session that leaves its block on a live link does so in a call
  with a negative SQLCODE (but for EXECUTE of another spelling of COMMIT);
* `LossTold`: so does the call that finds the link gone, including FETCH into a
  table, which looks at no status but finds no columns (but for the BEGIN after
  EXECUTE of COMMIT, and for the savepoints, whose results are dropped);
* `DeclaredOpens`: OPEN opens the query of the last DECLARE, or the present text
  of the prepared statement. It is stated for names that are declared in one way
  only: `add_cursor_list_with_prepare` leaves `nParams` and `query`,
  `add_cursor_list` leaves `sp`, and `OCESQLCursorOpen` looks at `nParams` first
  and `sp` second, so of an entry with both it may open the older one;
* `RollbackRestarts`: ROLLBACK on a link that is up afterwards ends in a new
  block, without portals and with no cursor of that connection marked open;
* `DeadCursorStays`: a cursor marked open when its connection was found dead
  keeps the mark for ever. This is a limit the users of the library meet: the
  name is lost for the life of the process;
* `SingleStatementRollback`: with `OCDB_PG_IGNORE_ERROR`, a failing update leaves
  the block usable.

Statements:

* `InsertedPrefix`: SQLCODE 0 means that every row of the host variable is on the
  server, and anything else that a prefix of them is, in order; each row is the
  value the program moved, through `create_realdata` and the server's own reading
  of it;
* `RowsRead`: a read with SQLCODE 0 put the rows due in their order into the rows
  of the host variable, in the storage COBOL has for the value, and low-values in
  the rest. Left out are the cases named in `Faithful`: the sign of a LEADING
  SEPARATE number that needs leading zeros is overwritten by them, a number that
  is all decimals loses its point, a NULL for an item with decimals, a national
  text that fills a VARYING item is written over its header, and what overruns
  the buffer. `StrideRight` leaves out tables of packed, LEADING SEPARATE,
  national and VARYING items: the stride is the length in digits or characters,
  and the runtime reads and writes between their rows;
* `NeighbourKept`: no statement writes outside the host variable, but for one NUL
  behind a trailing-combined number, and tables with a wrong stride;
* `CountTold`: SQLERRD(3) counts the rows passed over since the DECLARE.

Precompiler:

* `SourceKept`: every line of the program is in the output once and in order;
  the last one comes again in each copy, since `com_readline` returns it twice;
* `CallsInPlace`: a line is a comment exactly if a statement is on it, the calls
  of a statement stand behind its last line, those of two statements in their
  order;
* `FramesComplete`: what a step writes for a statement has an error message in it
  (and may break off after a CALL), or each CALL has its END-CALL, each StartSQL
  its EndSQL, the numbers announced are those of the parameters set, and the
  statement's period ends the frame and nothing before it. Left out: the number
  that OPEN USING a group announces, which is one; the table that is announced
  for a group without members (`Hollow`; a field counts as one too when it has the
  name of a group that the search finds first); and the period of COMMIT RELEASE
  and ROLLBACK RELEASE, which is written twice;
* `PartsOfItsOwn`: a statement has its own host variables and no one else's, and
  its calls name a text that is written and is its own. However many of its host
  variables are refused, every CALL is ended or the last thing before the message
  that breaks the frame off, and the numbers announced are those of the parameters
  set (`Unbroken`; OPEN USING and the two frames of COMMIT RELEASE apart);
* `TextsWhole`: the FILLERs of a text hold all of its bytes once, in lines of
  the size that their PICTURE says, none of which ends inside a national
  character; except a line of nothing but the first bytes of such characters
  (`Solid`), of which `substring` never looks at the first;
* `FieldsNested`: the parent of a field is the nearest before it with a lower
  level (`LevelsNested`, for every program), and for programs whose variables have
  different names each is found by its name, at its level, under that parent. Only
  declarations that have a place in the tree are meant (`HasPlace`, `Taken`): at
  level 01, below the field before, or in a row of the same level that is still
  open. 03 in 01/05/03 has none: the walk of `cb_build_field_tree` returns NULL,
  the declaration is lost, and the property says that it is not found and hides
  no other;
* `SecondPassSame`: the second scan of a source without include files makes of it
  what the first did. What the reader of an entry sees is compared: a VARYING
  field by its name, and periods only of statements.

`SourceKept`, `FramesComplete`, `TextsWhole`, `LevelsNested` and the host variables
of `PartsOfItsOwn` are stated for every program. `CallsInPlace`, `SecondPassSame`
and the frames of `PartsOfItsOwn` are stated for programs that are `Tidy`, its
texts for those that are `Apart` too: no two statements end on one line, none ends on the last
line of an include file, and a line stands between the last declaration and the
PROCEDURE DIVISION. For programs that are not, see section 5.

Programs:

* `AllOrNothing`: the table gets all rows of a program or none;
* `QuietRunStores`: a program that has displayed no error and whose COMMIT left
  SQLCODE 0 on a live link has stored its rows;
* `Stops`: every program stops, but for FETCHTBL on a connection that a call
  before its loop found dead (`Endless`).

Prepared texts:

* `HostsNumbered`: the text that PREPARE keeps is the one it was given with host
  variables numbered in order, nothing lost beside them, and `nParams` is their
  number. A host variable is defined as SQL has it, a colon outside quotes and
  the name behind it; stated for texts that are `Plain` (section 5).

Exercises:

* `ImplementsJoin`: number 8, which reads the account file again for each
  customer, and number 9, which looks in a table, write the same join, line by
  line: no account left out, written twice or under another customer, with ids
  that are missing, repeated or in any order. Number 9 promises it for files that
  the table has room for (`Fits`), as the code has no test of the index;
* `ReportWhole`: a program that comes to its end has written all lines;
* `OldReportKept`: a file that is missing leaves the report of the run before,
  but for number 8, which opens the accounts when the first head is written;
* `NamesShown`: the name shown is the customer's and spaces, or in Opgave8 and
  Opgave9 what is left of the last longer name;
* `NamesCleaned`: every letter is behind the letters before it, with one space
  between words, and nothing is stored outside the result but a zero over a zero;
* `Ends`: every program comes to its end, whichever files are empty or missing.

Properties that the text of the repository states and the code does not have
(section 5): `CommitRestarts`, `ExecStored`, `NoWildPointer`, and
`SingleStatementRollback` for texts without parameters, and `CallsInPlace` for
verbs in lower case.

## 4. Runs that pass

| Run | Instance | States | Question |
|---|---|---|---|
| `conn_list` | 3 names, 4 handles, 5 ids | 597 | the list |
| `one_connection` | 1 name, 1 cursor, 2 statements, 2 queries (0 and 1 parameter), an update, COMMIT, another spelling, 2 ids | 121891 | cursors, transactions and SQLCODE together |
| `two_connections` | 2 names, 2 cursors, 2 queries (0 and 1 parameter), an update, 2 ids, `IgnoreError = TRUE` | 98270 | does one connection disturb the other; savepoints; refinement of the registry |
| `statements` | the nine item types alone, tables of 2 of five of them, groups of 2 of three; 2 values, 2 rows on the server | 1498538 | bytes, rows and counts |
| `precompile` | 3549 programs: 5 data divisions, 31 statements, 2 of them in 4 layouts, 2 include files and one that is missing | 278308 | lines, calls and texts |
| `programs` | 3 programs, 3 passes of the INSERT loop, 1 id | 329 | rows, and whether they stop |
| `loops` | every text of up to 6 of 5 kinds of characters; pairs of name fields of 3 characters; up to 2 customers of any kind and 3 of chosen ones, up to 3 accounts, a table of 2, names of up to 3 | 545112 | the numbering of host variables, the names, the join, and whether the reports end |

Bounds. `MaxId` (ids ever handed out) is the only bound on a counter. Two ids
give a connection that is replaced after a loss while cursors still name the old
one, or two connections at once; no action compares ids other than for equality.
A third connection could only repeat what the second does. One cursor is enough
for the marks of one connection since the operations on a cursor touch one
entry; the exception, the clearing at the end of a block, is what the second run
is for. Two prepared statements are needed to see a cursor move from one to the
other, two queries to see a text replaced. 0 and 1 parameters are the two ways
of sending a statement. `ConnList` has one handle more than names, so a refused
PGconn can differ from all that are held, and more ids than names.

In `Statements` items have one or two digits or characters, so that values with
leading zeros, with all digits used, without whole part, and texts shorter and as
long as the item occur; a packed item of one digit and one of two have an odd and
an even number of half bytes. The tables are of the items whose rows the runtime
finds, in a group (whose rows lie one byte apart) or not, and of three whose rows
it does not find where COBOL put them (LEADING SEPARATE and national VARYING,
and national in a group). Two values, one negative; a table of two rows is
the smallest with a stride, and two rows on the server give a read that fills the
table, one that fills part of it and one that finds nothing. `MaxOpens` bounds
the rows a cursor counts: with 1 the cursor is opened again at least once with
rows already counted. The limit of 500 rows (`MAX_OCCURS`) is not reached; the
guards state it.

In `Precompile` the literals are chosen for the cuts: national characters across
the end of the first line of a FILLER (30 bytes) at an odd and an even place, of
a later line (58), of the last line (52), and across two FILLERs. Statements are
of every kind `ppbuff` has, each alone in three layouts, and INSERT, FETCH, OPEN
and statements with AT followed by every other, on separate lines, adjacent
lines and the same line. Of the five data divisions one goes down to a fourth
level and returns to rows of the middle, one level up (01/05/10/15/10) and two
(15 to 05), and has a group without members; one goes up to levels without a row
(01/05/03) and on from there. Two statements are enough, as the scanner clears its
lists at each EXEC SQL and a copy only ever moves from one entry to the next.

In `Programs` the loop runs 3 times instead of 10, and a table has at most 3
rows: a first, a middle and a last pass. One id, since a program connects once.

In `loops` a character of a prepared text is a kind: a letter of names, a comma
(which stands for the bracket too), a space, a colon, and a quote, which stands
for whatever else may follow a name. Six are enough for two host variables with
something before, between or behind them, and for one between quotes. Two ids
give accounts of the customer, of another and of none; three customers with a
short name between or behind long ones show what is left in a field that is not
cleared; three accounts overrun a table of two, and two fill it. The name fields
have spaces before, between, behind, and nothing else. The text, the name and
the report share no variable, so two of them are fixed small cases while the
third takes all values.

`CHECK_DEADLOCK FALSE` is in the configurations of `Runtime` and `Statements`
since the process may die (`alive`), and in those of `Precompile`, `Programs`,
`MCLoops` since they come to their end.

Fairness: `Programs` assumes weak fairness of the program, which is sequential
code without a wait of its own: it always takes its next step, and every call of
libpq returns, with or without an answer. Nothing is assumed of the server or
the link. `Reports` and `MCLoops` assume the same of programs that do nothing but read files
of finite length. All other properties are safety properties and properties of steps.

With `IgnoreError = TRUE` `AllOrNothing` does not hold, nor is it meant to: the
savepoints keep the rows before and after the one that failed.

## 5. Runs that find a violation

Each is a claim of a comment that the code does not keep.

* `commit_restarts`: "COMMIT, ROLLBACK の時は BEGIN も行う" (BEGIN is done as well;
  `dblib/ocesql.c:678`). A COMMIT that the server refuses, for a deferred
  constraint, ends the block; the early return at line 697 skips BEGIN and the
  clearing of the cursors. The connection is in autocommit from then on. The
  program is told once, by the SQLCODE of the COMMIT.
* `silent_loss`: the outcome of a statement is stored in the SQLCA
  (`dblib/ocesql.c:679`). Once libpq has marked a connection bad, PQexec returns
  NULL, `OCDBSetResultStatus` returns without touching the SQLCA, and each
  statement ends with SQLCODE 0. A program that ignores the first error, or
  treats it as a failed row, goes on "inserting" with success.
* `wild_pointer`: `new_cursor_list` initialises every field but `plist`
  (`dblib/ocesql.c:3385`); a later DECLARE of the same name for a query frees it.
* `flag_ignored`: the flag for single-statement rollback (`dblib/ocpgsql.c:36`)
  has no effect in `OCDB_PGExec`: the local copy it tests is always 0.

* `lowercase`: "the code written is commented out and replaced with a call to a
  open cobol esql library" (`README.md:11`). The scanner takes verbs in any case
  (`ocesql/scanner.l:21`), `ppoutcontext` and `ppbuff` compare them with strcmp to
  upper case (`ocesql/ppout.c:1391`): a `delete` is commented out and replaced
  with nothing, without a message.

Seen while modelling, and kept in the models without a property, or as the
conditions that properties are stated under:

* runtime: PREPARE does not reset the SQLCA, so the SQLCODE after it is that of
  the call before. SELECT INTO whose arguments are refused asks for the status of
  an older result. The mixed declarations named under `DeclaredOpens`, and the
  conversions named under `RowsRead`;
* layouts that the copies lose (`Tidy`, `Apart`): when the last line of an
  include file ends a statement, or two statements end on one line, the copy
  stays at the first of them, and every later call is missing (`ppout.c:2038`). When the
  PROCEDURE DIVISION follows a declaration directly, the FILLERs are never
  written and the calls name texts that do not exist;
* frames: the text of INSERT with a group has one `$n` where several parameters
  are set; OPEN USING a group announces one parameter; an undeclared host
  variable ends the emission behind a CALL, and `translate` reports success;
  PREPARE FROM a group without members compares the name of a member that is NULL
  and brings ocesql down (`ppout.c:1059`; `Crash` in `Emission`, `Killed` in
  `Precompile`), so that nothing of the statement or behind it is written;
* levels: a declaration without a row to stand in, as 03 in 01/05/03, gets no
  field and no message; its clauses change the field before it, and statements
  that name it are told that it is not declared (`parser.c:2788`);
* declarations of levels 66, 77, 78 and 88 are swallowed, COMP-5 is not known;
* programs: ERROR-RTN tests for codes +10, -1, -20 and -30, which the library
  never returns, so its ROLLBACK is dead code; it is the COMMIT of an aborted
  block that takes the rows back. No program tests SQLCODE after COMMIT: a
  COMMIT that fails is not displayed. FETCHTBL loops for ever over a connection
  that was lost before its loop, `PERFORM UNTIL SQLCODE NOT = ZERO`;
* PREPARE (`Plain`): a colon between quotes (`'12:30'`) and the second colon of
  `::` begin a host variable, and only a comma, a bracket, a space or the end
  closes one: `:a+1` and `:a;` are one host variable each;
* reports: Opgave8 and Opgave9 do not clear `FULDT-NAVN`, and the report they
  left in the repository shows it: "Anna Jensenlsen", "Sofie Petersenn"
  (`docs/Solutions/KUNDEKONTO.txt:7` and `:18`). First names are cut at their
  first space, as they are strung `DELIMITED BY SPACE`. The table of opgave9 has
  ten entries and its file ten lines; an eleventh would be stored behind it;
* names: the loop of opgave3 begins at index 0, one byte before both items. The
  byte is one of the zeros that fill the item before it up to its alignment, and
  a zero is stored over it. Names that begin with a space keep one in opgave3.

## 6. Proofs

All theorems are checked by tlapm for every value of the constants, under the
assumptions the modules state: the names of texts are distinct from one another
by kind, no prepared statement is named by one of the two words the model uses
for its absence (`NamesAssumption`), COMMIT and ROLLBACK take no parameters,
`MaxId` is a natural number; in `Programs`, that the texts of the programs are
such texts and `Rows` is positive; in `Precompile`, that programs and include files
are lines of words and a program has a line (`ProgramsAssumption`), and that
pictures and spellings are sequences of symbols and of bytes.

* `ConnListTyped`, `ConnListOrdered`, `ConnListSafe`, `ConnListImplements` (`ConnListProofs`):
  `NodesUnique` with the types is inductive; that ids ascend is what makes "first
  match" equal to "the match" and so the searches equal to a map.
* `RuntimeTyped`, `RuntimeSafe`, `RuntimeFlags` (`RuntimeProofs`): `PortalOwned`
  and `FlagAccurate` are inductive only together with
  - `PortalsInBlock`: a session outside a block or off line has no portals (or a
    dropped link could leave a portal with no mark);
  - `IdsOld`: ids in the registry and in cursors were handed out already (or a
    new connection could bring portals to an old cursor), and an open cursor has
    a connection.

  The proof goes over what calls do to sessions and marks, not over the calls
  one by one: the lemmas about `PgSession` show that every outcome of every command keeps
  sessions within `Keeps` (no portal appears but that of the cursor concerned,
  and a session inside a block was inside it before with the same portals), and
  four lemmas (`SessionsStep`, `CursorStep`, `RestartStep`, `DeclareStep`) show
  that such a change keeps the invariant. An action then is an instance of one
  of them.
* `RuntimeImplements`: the connections are a behaviour of `ConnRegistry`.
* `DeadStays`: `DeadCursorStays`, from the fact that nothing sent over a bad or
  closed connection succeeds.
* `LossesTold`, `BlocksTold`, `RollbacksRestart`, `FailuresContained`,
  `OpensDeclared` (`RuntimeProofs`): what the SQLCODE says, for each call. For each
  command it is shown which outcomes find the link gone or leave the block, and
  which SQLCODE they leave; a call that runs several commands stops at the
  first such outcome, or drops its result, which is one of the named exceptions.
  Needed besides the invariant above: ids not handed out have no session
  (`Unborn`: a CONNECT changes no session but its own, in any way that these
  properties could see), and for `OpensDeclared` that the fields of a cursor say
  what the last DECLARE said, for names declared in one way only
  (`DeclaredSo`). `FailuresContained` assumes that every update takes parameters:
  the run `flag_ignored` is the case where one does not.
* `StatementsTyped`, `StatementsStayInside`, `FetchCounts`, `InsertsPrefix`,
  `ReadsDeliver` (`StatementsProofs`): for items of every type, of any length and number of decimals, tables of any
  size, and any values (`StatementsAssumption`: character values are not empty
  and have no NUL, as the server cannot keep one). The invariant `IInv` has four
  parts that need each other:
  - the rows of table, cursor and result are texts of the item's column
    (`Texts`): what the server writes for some number, or a string without NUL;
  - storage is bytes of the item's alphabet (`Alphabet`), which for numbers in
    display form is finer than bytes: a point or a minus sign in the middle of
    them would be sent, accepted, and stored as a number with other decimals;
  - the frame has the stride of the table once OCESQLSetHostTable was called,
    and a count of one before (`Placed`), so that the runtime stays inside
    `Extent`, and inside the rows themselves where `StrideRight` holds;
  - `tuples` is the number of rows of the openings before plus the place in this
    one (`Counting`), which is all that `FetchCounts` needs.

  The lemmas below it say, type by type, what `create_coboldata` writes
  (`ConvertIs`: how many bytes, of which alphabet), what `create_realdata` reads
  (`StoredIs`: whatever is accepted is stored as a text of the column), how
  numbers are printed and read (`RenderIs`, `NumberOfNumeral`), and where a byte of
  a table lies (`LaidIs`, `OverwrittenIs`). The recursive functions they compute with
  (powers of ten, the number that digits are, the rows that match) are
  justified first, in `Recursions`: `InductSet` is induction over a set of naturals,
  from their least member (`LeastNat`), and `Recursion` gives a recursive function
  its defining equation.

  `InsertsPrefix` and `ReadsDeliver` say that what is sent is what the program
  moved or read, and that what is read arrives. `IInv` does not know what value
  the bytes are of; the second invariant, `Holding`, does, wherever the runtime
  looks for the rows where COBOL put them (`StrideRight`):
  - every row of the host variable whose value the program can count on
    (`elems`, unless `Unknown`) is the storage COBOL has for that value, the value
    is one the item has room for (`Known`), and a row of characters has no NUL or
    nothing else (`HoldsRow`), or `create_realdata` would stop inside it. This is
    needed of the rows of which nothing is known too: an INSERT may send them, a
    SELECT fetch them back, and they are known from then on;
  - a VARYING item counts at least one character, and those in it are not NUL
    (`Readable`): a length of 0 would be sent as a text the server never gives back;
  - the rows of table, cursor and result are of lengths that an item of the type
    can have sent (`Tidy`), which is narrower than a text of the column. A national
    text may be one character longer than the item: the length of a national
    VARYING item is read off its characters when the item is filled.

  That a step keeps it is one round trip in each direction, type by type:
  `StoredBack` (what is stored from storage of a value has the storage of that
  value again, whatever point and zeros the text has), `FilledHolds` (a row read
  from the server leaves the storage of the text it was, in its place, and leaves
  the rows before it alone), and `MatchBack` (the server finds exactly the rows
  equal in value to the one sent, so a SELECT by that value is due those). The two
  theorems then follow for one call at a time: which rows were sent before a
  refusal (`SentIs`), and which are due (`DueDelivered`).
* `TypeCorrect`, `FramesAlwaysComplete`, `TextsAlwaysWhole`, `SourceAlwaysKept`
  (`PrecompileProofs`): for programs of any length and layout, any declarations,
  pictures, texts and include files. Three theorems carry them, which are about
  what one step computes and not about runs:
  - `ScanFine`: a line of words, through the rules and the productions, keeps the
    scanner's globals of their types, its entries naming fields there are, and the
    tree one (`Grown`, `WellLinked`: what a field has as sister or children comes
    behind it, its parent before it). Rule by rule for the types, and by
    `cb_build_field_tree` alone for the tree: a new field is made at the end, so
    that a link to it leads forward;
    With `SameLevelFinds` it keeps the tree nested, too: the walk from parent to
    parent finds the last field of the level asked for behind which nothing lower
    stands, and NULL only if there is none. By induction on the field the walk
    starts from: between it and its parent stand only fields of its level or
    higher ones, so the walk misses none that is open. A new field then is the
    child of the last, or has the parent of a row that is open, or is a founder's
    sister, and in each case what stands between is of its level or higher;
  - `TextWhole`: any sequence of tokens is in its FILLERs whole. `substring` cuts
    after an even run of leading bytes, or takes one byte more or less; that a
    line which took one more is made up for in the last of its FILLER is `Wider`,
    and with it the lines of a FILLER hold 256 bytes, or 255, as its PICTURE says.
    `sql_string` is taken from its end: what is cut from a byte on is whole if
    what is cut from the byte behind the next FILLER is;
  - `PpbuffWritable`: what `ppbuff` writes for an entry is `Writable`, that is,
    `Complete` and `Stopped` unless it has an error in it. Each command's frame is
    put together from parts in which calls and ends alternate and nothing is
    announced too early (`Frame`), and the counts of the parts add up. A walk over a
    group comes to its end, for `WellLinked` holds of the tree, also after a
    VARYING field was split.

  With these `Typed` is inductive: the phases, lines read in range, the
  place of the copy in the list, the scanner's state, that the texts in the
  output are whole, and until the second copy that the tree is `Rooted`: nested,
  with the last field or none as current (behind a lower current field the walk
  would not see all there is). `TreeAlwaysNested` is read off it. In the second
  copy VARYING adds its two members behind all other fields. `Kept` is inductive together with it. It says where the
  program's lines are in every phase: in the file itself while that is scanned;
  in the output of a copy as many as have been read, the n-th being number n
  (`Numbered_`); after the first copy one more than the program has, since
  `com_readline` gives the last line again, from `inbuff`, so the invariant has
  to say what is in there too. Lines of include files and marks have no number and move
  nothing; but the last line of the file that is scanned second must be one of
  the program's, or the one that comes again would be of another.

  Walks over the tree and over tokens are recursive functions. `Recursions`
  shows, for those that call themselves at the place before (`IntervalRecursion`),
  at a place a pointer leads to (`PointerRecursion`), at any place behind
  (`OnwardRecursion`) or before (`BackwardRecursion`), that there is a function
  with the defining equation, so that CHOOSE gives one.
* `ProgramsUseRuntime` (`ProgramsProofs`): with the program's own variables
  hidden, its steps are steps of `Runtime` or stutters, so every theorem about
  `Runtime` holds of the programs.
* `ProgramsTyped` (`ProgramsProofs`): the types of the programs, over those of
  `Runtime`, with and without `OCDB_PG_IGNORE_ERROR`.
* `RowsAllOrNothing`, `QuietStores` (`ProgramsProofs`): the invariant `PInv` says
  that as long as the program has a block on a live link, `pending` is the number
  of rows that the statements passed so far insert (`Sofar`); a statement that
  fails aborts the block, after which there is none until the COMMIT. That the
  only block is the one of the program's own connection (`Attached`) needs the
  invariant of `Runtime`. Both assume that `OCDB_PG_IGNORE_ERROR` is not set.

* `ReportsTyped`, `ReportsJoin`, `ReportsWhole`, `ReportsNames`,
  `ReportsOldKept` (`ReportsProofs`): for files of any length, a table of any
  size and names of any width (`ReportsAssumption`). The invariant `WrittenSofar`
  says that `out` is in order and holds exactly the lines up to the customer and
  the account that the loops have passed. For number 9 it needs what the loading
  loop leaves, entry by entry (`Loaded`), and that it fits. An addition to `out`
  of the lines of the next account then is a beginning of the report again.
* `NamesClean` (`TextProofs`): for fields of any length
  (`CleanNameAssumption`). The invariant says that the next place in the result
  is the number of letters, plus the number of words begun, plus one for a space
  that has been kept, so each letter is stored where `Clean` wants it and is not
  stored over.
* `PrepareNumbers` (`TextProofs`): `HostsNumbered` for texts of any length. The
  invariant says that the pieces put together so far are the reference's text up
  to where the present piece starts, with `nParams` the number of host variables
  before it, and that the present piece is one host variable or holds none
  (`Scanned`).

Model-checked only:

* `CallsInPlace` and `PartsOfItsOwn`: they compare the list of the scanner, which
  is built token by token across lines, with what the words of the whole file say
  by themselves. A proof needs an invariant that relates the start condition and the
  tokens after each line to those words, for every rule and production;
* `SecondPassSame`: a simulation of the second scan by the first, over every rule;
* `FieldsNested` but for `LevelsNested`: that the variables are found by their
  names holds for programs in which no name is declared twice, as in those of the
  run; the search for a name finds the first of two;
* `Stops` and `Ends`: liveness under fairness, which is outside what the prover
  handles.

In a CASE the guards exclude one another, wherever a module of the system has one:
TLA+ leaves open which of two that hold is taken, so that TLC would take the first
where the prover may rely on neither. `ReadsDeliver` depends on it in `Due`, the
rows that a read should find.

## 7. Plan

Done, in this order: connection list and registry; sessions and runtime; their
types and safety; `Conversion` and `Statements`; `Fields`, `Scanner`, `Emission`
and `Precompile`; `Programs`; the theorems about calls, fetches and programs;
`Join`, `Reports` and `CleanName` with their theorems; `PrepareText`; the theorems
about bytes and about the precompiler.

Left:

1. `CallsInPlace` for every program that is Tidy: the invariant that relates the
   scanner's state after a line to the words before it.
2. Statements of several columns, and on a connection named with AT, in
   `Statements`.

## 8. Not modelled

* the regular expressions of `scanner.l` and the automata in `scanner.c` and
  `parser.c`, which flex and bison generate: their rules and productions are in
  `Scanner`;
* insertmany (`database-integration/insertmany.cob`): the source breaks off in the
  middle of PARSE-JSON-DATA, ORDER-COUNT is never set, and it does not compile;
* logging, string helpers, command line, build files;
* `opgave1`, `opgave2`, `opgave4`, `opgave5`, `Opgave1`, `Opgave2`: programs without
  a branch or a loop; the texts of the lines that reports write, and how balances
  are edited for them;
* paths without a caller: WITH HOLD cursors, backward fetches, `OCDBDropTable`,
  `OCDBDeleteTable`, `remove_cursor_list`;
* more than one program on the same database: isolation is the server's.
