----------------------------- MODULE Precompile -----------------------------
(***************************************************************************)
(* ocesql as a whole (translate in ocesql.c, the two copies in ppout.c): a *)
(* source is scanned for INCLUDE and copied with the included lines, the   *)
(* copy is scanned again, and copied to the output with the calls.         *)
(*                                                                         *)
(* The scanner finishes its file before a copy begins, so the list of      *)
(* statements and the lines of the file meet only through line numbers.    *)
(* The variables are the globals that outlive a pass: s is the scanner,    *)
(* line is yylineno and lineNUM, file the file that is being read.         *)
(***************************************************************************)
EXTENDS Emission

CONSTANTS
    Programs,    \* sources: sequences of lines, a line a sequence of words
    Included     \* file name -> its lines

(* The words of a program; a PICTURE is one of those there are, and a verb *)
(* is spelled in whatever letters, but never like an entry of ocesql's own. *)
Words == {w \in [rule : STRING, text : STRING, n : Nat] :
            /\ w.rule = "PICTURE" => w.text \in DOMAIN Pictures
            /\ w.rule \in {"SELECT", "INSERT", "DELETE", "DISCONNECT", "UPDATE"}
                 => w.text # "VARYING_PARAM"}

(* A program has a line, if only an empty one.                             *)
ASSUME ProgramsAssumption ==
    /\ Programs \subseteq Seq(Seq(Words)) \ {<<>>}
    /\ \A name \in DOMAIN Included : Included[name] \in Seq(Seq(Words))

VARIABLES
    source,      \* the program (it never changes)
    phase,       \* where translate stands
    file,        \* the lines of the file read in this phase
    line,        \* lines read of it
    s,           \* the scanner
    first,       \* the list of the first pass (kept to be compared)
    l,           \* the entry of the list at which the copy stands
    inbuff,      \* the last line read
    out          \* what was written in this phase

vars == <<source, phase, file, line, s, first, l, inbuff, out>>

Line(k, words) ==
    [kind |-> "line", line |-> k, words |-> words, mark |-> FALSE, comment |-> FALSE]

Mark == [Line(0, <<>>) EXCEPT !.mark = TRUE]

(* OCESQL* in the first columns: a comment for the compiler and for the    *)
(* next scan.                                                              *)
Comment(x) == [x EXCEPT !.comment = TRUE, !.words = <<>>]

Init == /\ source \in Programs
        /\ phase = "scan1"
        /\ file = [k \in 1..Len(source) |-> Line(k, source[k])]
        /\ line = 0
        /\ s = Started
        /\ first = <<>>
        /\ l = 1
        /\ inbuff = Mark
        /\ out = <<>>

-----------------------------------------------------------------------------
(* Scanning                                                                *)

(* One line through yyinput and the rules.                                 *)
Scan == /\ phase \in {"scan1", "scan2"} /\ line < Len(file)
        /\ line' = line + 1
        /\ s' = ScanLine(s, file[line + 1].words, line + 1)
        /\ UNCHANGED <<source, phase, file, first, l, inbuff, out>>

(* A statement, a field or the section without its end is an error too.    *)
Rejected == s.error \/ s.toks # <<>> \/ s.state # "INITIAL"

(* The end of the file: a syntax error ends translate without an output.   *)
SyntaxError ==
    /\ phase \in {"scan1", "scan2"} /\ line = Len(file) /\ Rejected
    /\ phase' = "failed"
    /\ UNCHANGED <<source, file, line, s, first, l, inbuff, out>>

Parsed ==
    /\ phase \in {"scan1", "scan2"} /\ line = Len(file) /\ ~Rejected
    /\ phase' = IF phase = "scan1" THEN "copy1" ELSE "copy2"
    /\ line' = 0
    /\ l' = 1
    /\ out' = <<>>
    /\ UNCHANGED <<source, file, s, first, inbuff>>

-----------------------------------------------------------------------------
(* Copying                                                                 *)

Covers(e, n) == e.start <= n /\ n <= e.end

(* The slip: the buffer is cleared before it is read into.                 *)
SlipRead == IF line < Len(file) THEN file[line + 1] ELSE Mark

(* com_readline: at the end of the file the last line is still in inbuff,  *)
(* is counted once more and goes through the loop once more.               *)
Read == IF line < Len(file) THEN file[line + 1] ELSE inbuff

(* The slip: the end is noticed one line late.                             *)
SlipEOFflg == line > Len(file)

EOFflg == line = Len(file)

(* The entry after l; the last one is kept.                                *)
NextEntry(i) == IF i < Len(s.list) THEN i + 1 ELSE i

(* The line to be copied belongs to the entry, or comes next after it.     *)
Inside == s.list # <<>> /\ Covers(s.list[l], line + 1)

Passed == s.list # <<>> /\ ~Covers(s.list[l], line + 1) /\ line + 1 - s.list[l].end = 1

(* A copy of one line.  Commented(e) says whether the lines of an entry    *)
(* become comments, Before(e) and After(e) what is written before its      *)
(* first line and after its last.                                          *)
CopyLine(Commented(_), Before(_), After(_)) ==
    LET e == s.list[l]
        Covered(i, x) ==
            IF Covers(s.list[i], line + 1) /\ Commented(s.list[i]) THEN Comment(x) ELSE x
        i == IF Passed THEN NextEntry(l) ELSE l
        x == IF Inside \/ Passed THEN Covered(i, Read) ELSE Read
    IN  /\ l' = i
        /\ inbuff' = x
        /\ out' = out \o (IF Inside THEN Before(e) ELSE IF Passed THEN After(e) ELSE <<>>)
                      \o <<x>>

Nothing(e) == <<>>

IsInclude(e) == e.command = "INCFILE"

(* ppbuff_incfile: the lines of the file between two marks.                *)
ppbuff_incfile(e) ==
    IF ~IsInclude(e) THEN <<>>
    ELSE <<Mark>> \o [k \in DOMAIN Included[e.inc] |-> Line(0, Included[e.inc][k])] \o <<Mark>>

(* The slip: the names of the texts go on counting in the second scan.     *)
SlipReset(x) == [x EXCEPT !.list = <<>>]

Reset(x) == [x EXCEPT !.list = <<>>, !.sqlnum = 0]

(* fopen_or_die: no such file.                                             *)
Missing == Passed /\ IsInclude(s.list[l]) /\ s.list[l].inc \notin DOMAIN Included

NoFile ==
    /\ phase = "copy1" /\ Missing
    /\ phase' = "failed"
    /\ UNCHANGED <<source, file, line, s, first, l, inbuff, out>>

ppoutput_incfile ==
    /\ phase = "copy1" /\ ~Missing
    /\ CopyLine(IsInclude, Nothing, ppbuff_incfile)
    /\ IF EOFflg
       THEN /\ phase' = "scan2"
            /\ file' = out'
            /\ line' = 0
            /\ first' = s.list
            /\ s' = Reset(s)
       ELSE /\ line' = line + 1
            /\ UNCHANGED <<phase, file, first, s>>
    /\ UNCHANGED source

IsWorking(e) == e.command \in {"WORKING_BEGIN", "WORKING_END"}
NotWorking(e) == ~IsWorking(e)

(* Every item carries the place of its entry in the list.                  *)
Tagged(items) ==
    [k \in 1..Len(items) |-> [kind |-> items[k].kind, of |-> l, item |-> items[k]]]

Calls(e) == Tagged(ppbuff(s.tree, e, SubSeq(s.list, l, Len(s.list))))

Fillers(e) == IF e.command = "WORKING_END" THEN Calls(e) ELSE <<>>
Statement(e) == IF e.command = "WORKING_END" THEN <<>> ELSE Calls(e)

(* The statement to be written next brings ocesql down.                    *)
Dies ==
    /\ ~Read.mark /\ Passed
    /\ s.list[l].command = "PREPARE" /\ Memberless(s.tree, s.list[l].hosts[1])

Killed ==
    /\ phase = "copy2" /\ Dies
    /\ phase' = "failed"
    /\ UNCHANGED <<source, file, line, s, first, l, inbuff, out>>

(* Lines between the marks of an include file are copied, the marks not.   *)
ppoutput ==
    /\ phase = "copy2" /\ ~Dies
    /\ IF Read.mark
       THEN inbuff' = Read /\ UNCHANGED <<l, out, s>>
       ELSE /\ CopyLine(NotWorking, Fillers, Statement)
            /\ s' = IF Passed THEN [s EXCEPT !.tree = TreeAfter(s.tree, s.list[l])] ELSE s
    /\ IF EOFflg THEN phase' = "done" /\ UNCHANGED line
                 ELSE line' = line + 1 /\ UNCHANGED phase
    /\ UNCHANGED <<source, file, first>>

Next == Scan \/ SyntaxError \/ Parsed \/ ppoutput_incfile \/ NoFile \/ ppoutput \/ Killed

Spec == Init /\ [][Next]_vars

-----------------------------------------------------------------------------
(* What the words of a file say by themselves, without the scanner         *)

Has(x, rules) == \E k \in 1..Len(x.words) : x.words[k].rule \in rules

HowMany(x, rules) == Cardinality({k \in 1..Len(x.words) : x.words[k].rule \in rules})

Opener == {"EXEC SQL", "INCLUDE"}
Closer == {"END-EXEC", "END-EXEC."}
Own    == {"HOST_BEGIN", "HOST_END", "VARYING"}    \* an entry of one line
Border == {"WORKING-STORAGE", "LINKAGE SECTION", "PROCEDURE DIVISION"}

Total(lines, k, rules) ==
    LET total[j \in 0..k] == IF j = 0 THEN 0 ELSE total[j - 1] + HowMany(lines[j], rules)
    IN  total[k]

(* Line k is, in whole or in part, a statement of embedded SQL.            *)
InStatement(lines, k) ==
    Has(lines[k], Own) \/ Total(lines, k, Opener) > Total(lines, k - 1, Closer)

Original == [k \in 1..Len(source) |-> Line(k, source[k])]

(* No two statements end on one line, none on the last line of the program *)
(* and none on the last line of an included file.  Where this fails the    *)
(* copy stays at the first of them for good, or ends twice.                *)
Tidy ==
    /\ \A k \in DOMAIN file :
          /\ HowMany(file[k], Closer \cup Own \cup Border) <= 1
          /\ k > 1 /\ Has(file[k - 1], Closer) => ~file[k].mark
    /\ ~InStatement(Original, Len(source))

(* A line of program stands between the last statement or declaration of   *)
(* WORKING-STORAGE and the division that follows it.                       *)
Apart ==
    \A k \in 2..Len(file) :
        Has(file[k], Border) => ~Has(file[k - 1], Closer \cup Own \cup Border)

Plain(lines) == SelectSeq(lines, LAMBDA x : ~x.mark)

Written == SelectSeq(out, LAMBDA x : x.kind = "line")

Done == phase = "done"

-----------------------------------------------------------------------------
(* Properties                                                              *)

(* The pointers of the fields lead to fields, the parent to one before,    *)
(* the sister and the children to one behind: every walk over the tree     *)
(* comes to its end.                                                       *)
TreeOK(tree) ==
    LET n == Len(tree.f)
    IN  /\ tree.current \in 0..n /\ tree.first \in 0..n
        /\ \A i \in 1..n : /\ tree.f[i].parent \in 0..(i - 1)
                           /\ tree.f[i].sister \in {Null} \cup (i + 1)..n
                           /\ tree.f[i].children \in {Null} \cup (i + 1)..n

(* The copies keep their place: the entry at which a copy stands is one of *)
(* the list, and the line counter stays in the file (ppout.c, the loops of *)
(* both copies).  The tree of the host variables is one: no walk over it   *)
(* (getfieldbyname, the groups of ppout.c) goes on for ever.               *)
TypeOK ==
    /\ phase \in {"scan1", "copy1", "scan2", "copy2", "done", "failed"}
    /\ line \in 0..Len(file)
    /\ phase \in {"copy1", "copy2"} => l \in 1..(IF s.list = <<>> THEN 1 ELSE Len(s.list))
    /\ s.state \in {"INITIAL", "WORKING", "FUNC", "ESQL", "DBNAME",
                     "WHERE_CURRENT_OF", "INCLUDE", "SWALLOWED"}
    /\ s.sqlnum \in Nat
    /\ TreeOK(s.tree)
    /\ \A i \in 1..Len(s.list) : s.list[i].varying \in 0..Len(s.tree.f)

(* The lines of the program among these, up to place k.                    *)
OwnTo(lines, k) == {p \in 1..k : lines[p].kind = "line" /\ lines[p].line # 0}

(* Every line of the program reaches the output once and in order, only    *)
(* the last comes again at the end of each copy (com_readline): whatever   *)
(* the program and the files it includes, the n-th of its lines in the     *)
(* output is its n-th, and there are two more at the end.                  *)
SourceKept ==
    Done => /\ Cardinality(OwnTo(out, Len(out))) = Len(source) + 2
            /\ \A p \in OwnTo(out, Len(out)) :
                  LET n == Cardinality(OwnTo(out, p))
                  IN  out[p].line = IF n > Len(source) THEN Len(source) ELSE n

(* Lines of the output before its place p.                                 *)
LinesBefore(p) == Len(SelectSeq(SubSeq(out, 1, p - 1), LAMBDA x : x.kind = "line"))

Items == {p \in 1..Len(out) : out[p].kind # "line"}

(* README.md:11, "the code written is commented out and replaced with a    *)
(* call".  A line is a comment exactly when a statement is on it; the      *)
(* calls of a statement stand behind its last line, and behind no other:   *)
(* after each line of the output come the items of one entry if a          *)
(* statement (or a VARYING) ends there, of none otherwise, in the order of *)
(* the list (the loops of ppoutput).                                       *)
CallsInPlace ==
    (Done /\ Tidy) =>
        LET lines == Plain(file)
            own   == SelectSeq(Written, LAMBDA x : x.line # 0)
            Behind_(k) == {out[p].of : p \in
                             {q \in Items : out[q].kind # "filler" /\ LinesBefore(q) = k}}
        IN  /\ \A i \in 1..Len(source) : own[i].comment <=> InStatement(Original, i)
            /\ \A k \in 1..Len(lines) :
                   IF Has(lines[k], Closer \cup {"VARYING"})
                   THEN Cardinality(Behind_(k)) = 1 ELSE Behind_(k) = {}
            /\ \A p, q \in Items : p < q => out[p].of <= out[q].of \/ out[p].kind = "filler"

-----------------------------------------------------------------------------

(* The items a step writes before the line it copies.                      *)
Emitted == [k \in 1..(Len(out') - Len(out) - 1) |-> out'[Len(out) + k].item]

(* A frame that was not broken off; a crash is never written (Killed).     *)
Clean(f) ==
    f # <<>> /\ f[1].kind = "call" /\ \A k \in DOMAIN f : f[k].kind \notin {"error", "crash"}

Starts(f) == f[1].kind = "call" /\ f[1].fn = "StartSQL"

IsGroup(tree, name) == Type(tree, name).ret = 0 /\ Type(tree, name).type = VARTYPE_GROUP

(* A group without members: a level that has neither picture nor fields,   *)
(* or a field that has no fields and the name of a group elsewhere, which  *)
(* is found first.                                                         *)
Hollow(tree) ==
    \E i \in DOMAIN tree.f : IsGroup(tree, tree.f[i].sname) /\ tree.f[i].children = Null

(* What the call at place k announces is what stands before it.            *)
Announced(f, k) ==
    LET set == Count(SubSeq(f, 1, k), "SetSQLParams")
        got == Count(SubSeq(f, 1, k), "SetResultParams")
    IN  /\ "count" \in DOMAIN f[k].args => f[k].args.count = set
        /\ "results" \in DOMAIN f[k].args => f[k].args.results = got

(* Calls and ends in turn; StartSQL has its EndSQL; the numbers announced  *)
(* are those of the parameters set; a table is announced for some.         *)
Complete(f, e, tree) ==
    /\ Len(f) % 2 = 0
    /\ \A k \in 1..Len(f) : f[k].kind = IF k % 2 = 1 THEN "call" ELSE "end"
    /\ Starts(f) => f[Len(f) - 1].fn \in {"EndSQL", "Disconnect"}
    /\ \/ \E k \in DOMAIN e.hosts : e.command = "OPEN" /\ IsGroup(tree, e.hosts[k])
       \/ \A k \in DOMAIN f : f[k].kind = "call" => Announced(f, k)
    /\ \/ Hollow(tree)
       \/ \A k \in DOMAIN f : (f[k].kind = "call" /\ f[k].fn = "SetHostTable") =>
             \E j \in 1..k : f[j].kind = "call" /\ f[j].fn \in {"SetSQLParams", "SetResultParams"}

(* The period of the statement ends its last call, and no call before.     *)
Stopped(f, e) ==
    \A k \in DOMAIN f : f[k].kind = "end" => (f[k].period <=> k = Len(f) /\ e.period)

(* What a step writes for a statement is a complete frame, or there is an  *)
(* error message in it: each CALL has its END-CALL, StartSQL its EndSQL,   *)
(* the numbers announced are those of the parameters set, and the period   *)
(* that ended the statement ends the frame and nothing before it.  OPEN    *)
(* with a group announces too little, a group without members makes a      *)
(* table of nothing, and the two frames of COMMIT RELEASE write the period *)
(* twice (ppoutputopen, ppoutputfetch, ppoutcontext): they are left out.   *)
FramesComplete ==
    [][(phase = "copy2" /\ Clean(Emitted)) =>
          LET e == s.list[l]
          IN  /\ Complete(Emitted, e, s.tree)
              /\ e.command \notin {"COMMIT_RELEASE", "ROLLBACK_RELEASE"} => Stopped(Emitted, e)]_vars

-----------------------------------------------------------------------------

(* The words of the statements of a file, one statement after another.     *)
WordsOf(lines) == FlattenSeq([k \in 1..Len(lines) |-> lines[k].words])

StatementsOf(w) ==
    LET Last_(i) == SelectInSeq(From(w, i + 1), LAMBDA x : x.rule \in Closer)
        upto[i \in 0..Len(w)] ==
            IF i = 0 THEN <<>>
            ELSE IF w[i].rule = "EXEC SQL"
                 THEN Append(upto[i - 1], SubSeq(w, i + 1, i + Last_(i) - 1)) ELSE upto[i - 1]
    IN  upto[Len(w)]

Bordering(e) == e.command \in {"WORKING_BEGIN", "WORKING_END", "HOST_BEGIN", "HOST_END",
                               "VARYING_PARAM", "INCLUDE", "INCFILE"}

(* The entries of statements, in the order of the list.                    *)
Sql == SelectSeq(s.list, LAMBDA e : ~Bordering(e))

HostWords(w) == [k \in DOMAIN SelectSeq(w, LAMBDA x : x.rule = "HOST") |->
                   SelectSeq(w, LAMBDA x : x.rule = "HOST")[k].text]

Occurrences(x, q) == Len(SelectSeq(q, LAMBDA y : y = x))

(* The text a call names is in the output before it, and is that of its    *)
(* entry.                                                                  *)
TextBefore(p) ==
    (out[p].kind = "call" /\ "sql" \in DOMAIN out[p].item.args) =>
        \E q \in Items : /\ q < p /\ out[q].kind = "filler"
                          /\ out[q].item.sql = out[p].item.args.sql
                          /\ out[q].item.text = s.list[out[p].of].text

(* The calls of entry i, their ends and the messages among them, in the    *)
(* order of the output.                                                    *)
FrameOf(i) ==
    LET mine == SelectSeq(out, LAMBDA x : x.kind \in {"call", "end", "error"} /\ x.of = i)
    IN  [k \in 1..Len(mine) |-> mine[k].item]

(* Calls of fn before place k.                                             *)
CallsBefore(f, k, fn) ==
    Cardinality({j \in 1..(k - 1) : f[j].kind = "call" /\ f[j].fn = fn})

(* However many of the host variables were refused, each CALL is ended     *)
(* before the next begins, and says how many parameters are set: a message *)
(* stands between two calls, or breaks off the last one.                   *)
Unbroken(f) ==
    \A k \in DOMAIN f :
        /\ f[k].kind = "end" => k > 1 /\ f[k - 1].kind = "call"
        /\ f[k].kind = "call" =>
              /\ k < Len(f)
              /\ f[k + 1].kind = "end" \/ (f[k + 1].kind = "error" /\ k + 1 = Len(f))
              /\ "count" \in DOMAIN f[k].args /\ f[k].fn # "CursorOpenParams" =>
                    f[k].args.count = CallsBefore(f, k, "SetSQLParams")
              /\ "results" \in DOMAIN f[k].args =>
                    f[k].args.results = CallsBefore(f, k, "SetResultParams")

(* An entry has the host variables that stand between its EXEC SQL and its *)
(* END-EXEC and no others: the lists are globals that each statement must  *)
(* clear (scanner.l, the rule of EXEC SQL).  Its calls name a text that is *)
(* its own (outsqlfiller), and pass the parameters that were set for them, *)
(* also when some of its host variables are not declared (ppoutputparam).  *)
(* OPEN announces its host variables, whatever was set; the two frames of  *)
(* COMMIT RELEASE are not one.                                             *)
PartsOfItsOwn ==
    Done => LET w == StatementsOf(WordsOf(file))
            IN  /\ Len(w) = Len(Sql)
                /\ \A i \in DOMAIN w :
                      LET mine == Sql[i].hosts \o Sql[i].res
                                  \o IF Sql[i].at THEN <<Sql[i].db>> ELSE <<>>
                      IN  \A x \in ToSet(mine) \cup ToSet(HostWords(w[i])) :
                            Occurrences(x, mine) = Occurrences(x, HostWords(w[i]))
                /\ Tidy /\ Apart => \A p \in Items : TextBefore(p)
                /\ Tidy => \A i \in DOMAIN s.list :
                      s.list[i].command \in {"COMMIT_RELEASE", "ROLLBACK_RELEASE"}
                         \/ Unbroken(FrameOf(i))

-----------------------------------------------------------------------------

(* The first k bytes end in the middle of a character: an odd run of       *)
(* leading bytes ends there.                                               *)
Splits(b, k) ==
    \E j \in 0..k : /\ (k - j) % 2 = 1 /\ \A i \in (j + 1)..k : b[i] = "D"
                    /\ j = 0 \/ b[j] # "D"

(* A line that is nothing but leading bytes: substring never looks at its  *)
(* first byte, and may end it anywhere.                                    *)
Solid(b, x) == \A k \in x.at..(x.at + x.n - 1) : b[k] = "D"

(* The FILLERs of a text hold every byte of it once and in order, each as  *)
(* many as its PICTURE says, and no line but the last of all ends inside a *)
(* national character.                                                     *)
Whole(b, fillers) ==
    LET Lines_(i) == fillers[i].lines
        End_(x)   == x.at + x.n
    IN  /\ fillers # <<>> /\ \A i \in DOMAIN fillers : Lines_(i) # <<>>
        /\ Lines_(1)[1].at = 1
        /\ \A i \in DOMAIN fillers : \A j \in 1..(Len(Lines_(i)) - 1) :
              Lines_(i)[j + 1].at = End_(Lines_(i)[j])
        /\ \A i \in 1..(Len(fillers) - 1) : Lines_(i + 1)[1].at = End_(Last(Lines_(i)))
        /\ End_(Last(Lines_(Len(fillers)))) = Len(b) + 1
        /\ \A i \in DOMAIN fillers :
              fillers[i].size = End_(Last(Lines_(i))) - Lines_(i)[1].at
        /\ \A i \in DOMAIN fillers : \A j \in DOMAIN Lines_(i) :
              LET x == Lines_(i)[j]
              IN  \/ End_(x) = Len(b) + 1
                  \/ ~Splits(b, End_(x) - 1)
                  \/ Solid(b, x)

(* Every text in the output is whole, and cut where it may be (sql_string, *)
(* substring, outsqlfiller): the numbers of the lines, the bytes a long    *)
(* line takes from the last, and the PICTURE agree for every length.       *)
TextsWhole ==
    \A p \in Items : out[p].kind = "filler" =>
        Whole(TextBytes(out[p].item.text), out[p].item.fillers)

-----------------------------------------------------------------------------

(* The declarations of WORKING-STORAGE as written, levels 66 to 88 apart.  *)
DeclarationsOf(w) ==
    FlattenSeq([k \in 1..(Len(w) - 1) |->
        IF w[k].rule = "NUMBER" /\ w[k].n <= 49 /\ w[k + 1].rule = "WORD"
        THEN <<[level |-> w[k].n, name |-> w[k + 1].text]>> ELSE <<>>])

(* Declaration i has a place behind those taken before it: at the top,     *)
(* under the last one, or in a row that is still open, one of the same     *)
(* level with nothing of a lower level behind it.  01, 05, 03 has no place *)
(* for the third.                                                          *)
HasPlace(d, taken, i) ==
    \/ d[i].level = 1
    \/ taken # {} /\ d[i].level > d[Max(taken)].level
    \/ \E j \in taken : /\ d[j].level = d[i].level
                        /\ \A k \in taken : k > j => d[k].level >= d[i].level

Taken(d) ==
    LET upto[i \in 0..Len(d)] ==
            IF i = 0 THEN {}
            ELSE upto[i - 1] \cup IF HasPlace(d, upto[i - 1], i) THEN {i} ELSE {}
    IN  upto[Len(d)]

(* The parent of a field is the nearest before it with a lower level.      *)
Nested(f) ==
    \A i \in 1..Len(f) :
        /\ f[i].level \in 1..49
        /\ f[i].parent # Null => f[f[i].parent].level < f[i].level
        /\ \A k \in (f[i].parent + 1)..(i - 1) : f[k].level >= f[i].level

(* So it is while the tree grows, and from one section to the next; the    *)
(* members that VARYING is split into come later, behind all the others.   *)
LevelsNested == phase \in {"scan1", "copy1", "scan2"} => Nested(s.tree.f)

(* The tree is that of the levels: every variable that has a place in it   *)
(* is found by its name, and its parent is the nearest one before it with  *)
(* a lower level number; one that has none is lost, and hides no other     *)
(* (cb_build_field_tree, getfieldbyname).                                  *)
FieldsNested ==
    /\ LevelsNested
    /\ phase \in {"copy1", "copy2"} =>
          LET d == DeclarationsOf(WordsOf(file))
              f == s.tree.f
              taken == Taken(d)
              Found(i) == getfieldbyname(s.tree, d[i].name)
              Above(i) == {j \in taken : j < i /\ d[j].level < d[i].level}
          IN  /\ \A i \in DOMAIN d \ taken : Found(i) = Null
              /\ \A i \in taken :
                    /\ Found(i) # Null /\ f[Found(i)].level = d[i].level
                    /\ f[Found(i)].parent =
                          IF Above(i) = {} THEN Null ELSE Found(Max(Above(i)))

(* What the emission reads of an entry: of a VARYING field, its name.      *)
Seen(e) ==
    [e EXCEPT !.period = @ /\ ~Bordering(e),
              !.varying = IF @ = Null THEN "" ELSE s.tree.f[@].sname]

(* The second scan makes of a file without INCLUDE what the first made of  *)
(* it: nothing the first left in the globals reaches the second.           *)
SecondPassSame ==
    (/\ phase = "copy2" /\ Tidy
     /\ \A i \in DOMAIN first : ~IsInclude(first[i]))
        => [i \in DOMAIN s.list |-> Seen(s.list[i])] = [i \in DOMAIN first |-> Seen(first[i])]
=============================================================================
