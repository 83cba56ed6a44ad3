------------------------------ MODULE Scanner ------------------------------
(***************************************************************************)
(* The scanner (scanner.l) and the grammar (parser.y) of ocesql: the words *)
(* of a COBOL source become the list of embedded statements (exec_list)    *)
(* and the tree of host variables.                                         *)
(*                                                                         *)
(* A word is what one rule of the scanner matches: [rule, text, n].  The   *)
(* state s holds the globals of the scanner, the tokens since the last     *)
(* statement or field began, and what the actions of the grammar build.    *)
(* The tokens of a statement are reduced at its END-EXEC, those of a field *)
(* at its period: until then nothing reads what the reductions set.        *)
(***************************************************************************)
EXTENDS Fields

Word(rule, text, n) == [rule |-> rule, text |-> text, n |-> n]

(* What a statement leaves in the globals, and the start of the next.      *)
Blank == [hosts |-> <<>>, res |-> <<>>, text |-> <<>>, db |-> "", prep |-> "",
          cursor |-> "", sqlname |-> 0, inc |-> "", varying |-> Null,
          at |-> FALSE, putother |-> FALSE]

Started ==
    [state |-> "INITIAL", below |-> "INITIAL", insql |-> FALSE, select |-> FALSE,
     sqlnum |-> 0, period |-> FALSE, command |-> "", start |-> 0, end |-> 0,
     toks |-> <<>>, list |-> <<>>, tree |-> NoTree, error |-> FALSE, here |-> Blank]

Tok(s, kind, w) == [s EXCEPT !.toks = Append(@, [kind |-> kind, text |-> w.text, n |-> w.n])]

(* SQ0001, SQ0002, ...: one more name, and the verb as it was typed.       *)
Numbered(s, w) ==
    [s EXCEPT !.command = w.text, !.sqlnum = @ + 1, !.here.sqlname = s.sqlnum + 1]

Push(s, state) == [s EXCEPT !.below = s.state, !.state = state]
Pop(s)         == [s EXCEPT !.state = s.below]

(* Every entry of the list starts from cleared globals.                    *)
(* The slip: the host variables of the statement before stay.              *)
SlipCleared(s) == [s EXCEPT !.here = [Blank EXCEPT !.hosts = s.here.hosts]]

Cleared(s) == [s EXCEPT !.here = Blank]

(* The rules of WORKING_STATE that begin an entry of their own; a field    *)
(* that has no period yet is an error there.                               *)
Entry(s, command, line) ==
    [Cleared(s) EXCEPT !.command = command, !.start = line, !.end = line,
                       !.error = s.toks # <<>>]

-----------------------------------------------------------------------------
(* The list                                                                *)

put_exec_list(s) ==
    [s EXCEPT !.toks = <<>>,
              !.list = Append(@,
                  LET h == s.here
                  IN  [start |-> s.start, end |-> s.end, period |-> s.period,
                       command |-> s.command, hosts |-> h.hosts, res |-> h.res,
                       text |-> h.text, db |-> h.db, prep |-> h.prep, cursor |-> h.cursor,
                       sqlname |-> h.sqlname, inc |-> h.inc, varying |-> h.varying,
                       at |-> h.at, putother |-> h.putother])]

cb_host_list_add(s, name) == [s EXCEPT !.here.hosts = Append(@, name)]
cb_res_host_list_add(s, name) == [s EXCEPT !.here.res = Append(@, name)]

cb_set_cursorname(s, name) == [s EXCEPT !.here.cursor = name]

(* A host variable enters the text of a statement as $1, $2, ...           *)
cb_add_text_list(s, k) ==
    LET Piece(x, p) == [x EXCEPT !.here.text = Append(@, p)]
        host == cb_host_list_add(s, k.text)
    IN  CASE k.kind = "HOST" ->
               Piece(host, [k EXCEPT !.text = "$", !.n = Len(host.here.hosts)])
          [] k.kind = "CURNAME" -> Piece(cb_set_cursorname(s, k.text), k)
          [] OTHER -> Piece(s, k)

TextOf(s, t) ==
    LET upto[i \in 0..Len(t)] == IF i = 0 THEN s ELSE cb_add_text_list(upto[i - 1], t[i])
    IN  upto[Len(t)]

(* The host variables among the tokens t, each added to its list.          *)
HostsOf(s, t, Add(_, _)) ==
    LET upto[i \in 0..Len(t)] ==
            IF i = 0 THEN s
            ELSE IF t[i].kind = "HOST" THEN Add(upto[i - 1], t[i].text) ELSE upto[i - 1]
    IN  upto[Len(t)]

-----------------------------------------------------------------------------
(* The grammar.  A production is the set of the states it leads to: one    *)
(* when the tokens match, none when they do not.                           *)

Expr == {"TOKEN", "SELECT", "FOR", "UPDATE"}

KindsOf(t) == [i \in 1..Len(t) |-> t[i].kind]

IsTokenList(t) ==
    /\ t # <<>> /\ t[1].kind \in Expr
    /\ \A i \in 1..Len(t) : t[i].kind \in Expr \cup {"HOST", "WHERECURRENTOF", "CURNAME"}

IsHosts(t) == /\ t # <<>> /\ t[1].kind = "HOST"
              /\ \A i \in 1..Len(t) : t[i].kind \in {"HOST", "TOKEN"}

From(t, i) == SubSeq(t, i, Len(t))
Upto(t, i) == SubSeq(t, 1, i)

When(cond, s) == IF cond THEN {s} ELSE {}

(* insertsql, updatesql, deletesql, disconnectsql and othersql             *)
TextSql(s, b) ==
    When(/\ b[1].kind \in {"INSERT", "UPDATE", "DELETE", "DISCONNECT", "OTHERFUNC"}
         /\ IsTokenList(Tail(b)), TextOf(s, b))

(* commitsql and rollbacksql *)
EndSql(s, b) == When(KindsOf(b) \in {<<"COMMIT">>, <<"ROLLBACK">>}, s)

fetchsql(s, b) ==
    When(/\ Len(b) >= 4 /\ b[1].kind = "FETCH" /\ b[2].kind \in Expr
         /\ b[3].kind = "INTO" /\ IsHosts(From(b, 4)),
         HostsOf(cb_set_cursorname(s, b[2].text), From(b, 4), cb_res_host_list_add))

closesql(s, b) ==
    When(Len(b) = 2 /\ b[1].kind = "CLOSE" /\ b[2].kind \in Expr,
         cb_set_cursorname(s, b[2].text))

opensql(s, b) ==
    When(/\ Len(b) >= 2 /\ b[1].kind = "OPEN" /\ b[2].kind \in Expr
         /\ Len(b) > 2 => b[3].kind = "USING" /\ IsHosts(From(b, 4)),
         HostsOf(cb_set_cursorname(s, b[2].text), From(b, 3), cb_host_list_add))

preparesql(s, b) ==
    When(KindsOf(b) = <<"PREPARE", "TOKEN", "FROM", "HOST">>,
         cb_host_list_add([s EXCEPT !.here.prep = b[2].text], b[4].text))

execsql(s, b) ==
    When(/\ Len(b) >= 2 /\ b[1].kind = "EXECUTE" /\ b[2].kind = "TOKEN"
         /\ Len(b) > 2 => b[3].kind = "USING" /\ IsHosts(From(b, 4)),
         HostsOf([s EXCEPT !.here.prep = b[2].text], From(b, 3), cb_host_list_add))

(* EXEC SQL CONNECT, bare, with one host variable, or with all three       *)
connectsql(s, b) ==
    When(/\ KindsOf(b) \in {<<"CONNECT">>, <<"CONNECT", "HOST">>,
                            <<"CONNECT", "HOST", "IDENTIFIED", "HOST", "USING", "HOST">>}
         /\ s.toks[1].kind = "AT" => Len(b) = 2,
         HostsOf(s, b, cb_host_list_add))

selectintosql(s, b) ==
    LET into == SelectInSeq(b, LAMBDA k : k.kind = "INTO")
        from == SelectInSeq(b, LAMBDA k : k.kind = "SELECTFROM")
        end  == IF from = 0 THEN Len(b) ELSE from - 1
        Res(x) == HostsOf(x, SubSeq(b, into + 1, end), cb_res_host_list_add)
        rest == IF from = 0 THEN <<>> ELSE From(b, from)
    IN  When(/\ b[1].kind = "SELECT" /\ into > 2 /\ (from = 0 \/ from > into)
             /\ IsTokenList(SubSeq(b, 2, into - 1))
             /\ IsHosts(SubSeq(b, into + 1, end))
             /\ from # 0 => IsTokenList(From(b, from + 1)),
             TextOf(Res(TextOf(s, Upto(b, into - 1))), rest))

declaresql(s, b) ==
    LET x == cb_set_cursorname(s, b[2].text)
    IN  When(/\ Len(b) >= 5 /\ b[1].kind = "DECLARE" /\ b[2].kind \in Expr
             /\ b[3].kind = "CURSOR" /\ b[4].kind = "FOR"
             /\ \/ b[5].kind = "SELECT" /\ IsTokenList(From(b, 6))
                \/ Len(b) = 5 /\ b[5].kind = "TOKEN",
             IF b[5].kind = "SELECT" THEN TextOf(x, From(b, 5))
                                     ELSE [x EXCEPT !.here.prep = b[5].text])

(* INCLUDE SQLCA is a statement of WORKING-STORAGE only.                   *)
IncludeSql(s, b) ==
    When(\/ KindsOf(b) = <<"INCLUDE_FILE">>
         \/ KindsOf(b) = <<"INCLUDE_SQLCA">> /\ s.state = "WORKING", s)

(* AT and its host variable are taken out: otherdb, dbid.                  *)
WithoutDb(t) ==
    LET i == SelectInSeq(t, LAMBDA k : k.kind = "AT")
    IN  IF i = 0 THEN t ELSE Upto(t, i - 1) \o From(t, i + 2)

cb_set_dbname(s) ==
    LET i == SelectInSeq(s.toks, LAMBDA k : k.kind = "AT")
    IN  IF i = 0 THEN s ELSE [s EXCEPT !.here.db = s.toks[i + 1].text]

(* AT stands before the verb, or in CONNECT at the end or before USING.    *)
OtherDb(t) ==
    \A i \in 1..Len(t) : t[i].kind = "AT" =>
        /\ \/ i = 1
           \/ t[1].kind = "CONNECT" /\ i = (IF Len(t) = 8 THEN 5 ELSE Len(t) - 1)
        /\ i < Len(t) /\ t[i + 1].kind = "HOST"

Reduce(s) ==
    LET b == WithoutDb(s.toks)
        x == cb_set_dbname(s)
        r == IF b = <<>> \/ ~OtherDb(s.toks) THEN {}
             ELSE UNION {TextSql(x, b), EndSql(x, b), fetchsql(x, b), closesql(x, b),
                         opensql(x, b), preparesql(x, b), execsql(x, b), connectsql(x, b),
                         selectintosql(x, b), declaresql(x, b), IncludeSql(x, b)}
    IN  IF r = {} THEN [s EXCEPT !.error = TRUE]
        ELSE put_exec_list(CHOOSE y \in r : TRUE)

(* sqlvariantstate: a level number, a name and the clauses.  VARYING puts  *)
(* an entry of its own into the list, and stops the program when the       *)
(* picture is no text.                                                     *)
Declared(s) ==
    LET t     == s.toks
        named == Len(t) > 1 /\ t[2].kind = "WORD"
        tree  == cb_build_field_tree(s.tree, t[1].n, IF named THEN t[2].text ELSE "")
        c     == tree.current
        new   == [tree EXCEPT
                    !.f[c] = Clauses(@, From(t, IF named THEN 3 ELSE 2)),
                    !.first = IF @ = Null THEN c ELSE @]
        x     == [s EXCEPT !.tree = new, !.toks = <<>>]
    IN  CASE \/ t[1].kind # "NUMBER" \/ Orphan(s.tree, t[1].n) \/ c = Null
             \/ \E i \in 2..Len(t) : t[i].kind = "NUMBER" /\ t[i - 1].kind # "VALUE" ->
               [s EXCEPT !.error = TRUE]
          [] OTHER ->
               IF \A i \in 1..Len(t) : t[i].kind # "VARYING" THEN x
               ELSE IF new.f[c].pictype \notin {ALPHANUMERIC, NATIONAL}
                    THEN [s EXCEPT !.error = TRUE]
                    ELSE put_exec_list([x EXCEPT !.here.varying = c])

-----------------------------------------------------------------------------
(* The rules, one operator per start condition                             *)

FuncRule(s, w) ==
    LET e == [s EXCEPT !.state = "ESQL"]
    IN  CASE w.rule = "SELECT" ->
               Tok([Numbered(e, w) EXCEPT !.insql = TRUE, !.select = TRUE], "SELECT", w)
          [] w.rule \in {"INSERT", "DELETE", "DISCONNECT", "UPDATE"} ->
               Tok([Numbered(e, w) EXCEPT !.insql = TRUE], w.rule, w)
          [] w.rule \in {"CONNECT", "OPEN", "PREPARE", "EXECUTE", "CLOSE", "FETCH"} ->
               Tok([e EXCEPT !.command = w.rule], w.rule, w)
          [] w.rule = "DECLARE" -> Tok(e, "DECLARE", w)
          [] w.rule \in {"COMMIT", "COMMIT_RELEASE"} ->
               Tok([e EXCEPT !.command = w.rule], "COMMIT", w)
          [] w.rule \in {"ROLLBACK", "ROLLBACK_RELEASE"} ->
               Tok([e EXCEPT !.command = w.rule], "ROLLBACK", w)
          [] w.rule = "AT" ->
               IF s.insql \/ s.here.at THEN Tok(s, "TOKEN", w)
               ELSE Tok([Push(s, "DBNAME") EXCEPT !.here.at = TRUE], "AT", w)
          [] OTHER ->
               Tok([Numbered(e, w) EXCEPT !.here.putother = TRUE], "OTHERFUNC", w)

DbRule(s, w) == IF w.rule = "HOST" THEN Tok(Pop(s), "HOST", w) ELSE s

(* Keywords of ocesql are plain words inside the text of a statement.      *)
Unless(s, w, kind) == Tok(s, IF s.insql THEN "TOKEN" ELSE kind, w)

(* The slip: the line of END-EXEC is not taken.                            *)
SlipEndExec(s, w, line) ==
    Reduce([s EXCEPT !.insql = FALSE, !.select = FALSE, !.end = s.start,
                     !.period = @ \/ w.rule = "END-EXEC.", !.state = "INITIAL"])

EndExec(s, w, line) ==
    Reduce([s EXCEPT !.insql = FALSE, !.select = FALSE, !.end = line,
                     !.period = @ \/ w.rule = "END-EXEC.",
                     !.state = "INITIAL"])

EsqlRule(s, w, line) ==
    CASE w.rule = "AT" ->
           IF s.insql \/ s.here.at THEN Tok(s, "TOKEN", w)
           ELSE Tok([Push(s, "DBNAME") EXCEPT !.here.at = TRUE], "AT", w)
      [] w.rule = "SELECT" ->
           IF s.insql THEN Tok(s, "TOKEN", w)
           ELSE Tok([Numbered(s, w) EXCEPT !.insql = TRUE], "SELECT", w)
      [] w.rule = "FROM" ->
           IF s.insql /\ s.select THEN Tok([s EXCEPT !.select = FALSE], "SELECTFROM", w)
           ELSE Unless(s, w, "FROM")
      [] w.rule \in {"CURSOR", "FOR", "IDENTIFIED", "USING"} -> Unless(s, w, w.rule)
      [] w.rule = "INTO" -> Tok(s, IF s.insql /\ ~s.select THEN "TOKEN" ELSE "INTO", w)
      [] w.rule = "WHERE CURRENT OF" -> Tok(Push(s, "WHERE_CURRENT_OF"), "WHERECURRENTOF", w)
      [] w.rule = "HOST" -> Tok(s, "HOST", w)
      [] w.rule \in {"END-EXEC", "END-EXEC."} -> EndExec(s, w, line)
      [] OTHER -> Tok(s, "TOKEN", w)

WhereRule(s, w) == Tok(Pop(s), "CURNAME", w)

IncludeRule(s, w, line) ==
    CASE w.rule = "SQLCA" -> Tok([s EXCEPT !.command = "INCLUDE"], "INCLUDE_SQLCA", w)
      [] w.rule \in {"END-EXEC", "END-EXEC."} ->
           Reduce([Pop(s) EXCEPT !.end = line, !.period = @ \/ w.rule = "END-EXEC."])
      [] OTHER -> Tok([s EXCEPT !.command = "INCFILE", !.here.inc = w.text], "INCLUDE_FILE", w)

(* 66, 77, 78 and 88 and whatever begins with them are thrown away up to   *)
(* the next period, wherever in WORKING-STORAGE they stand.                *)
Swallows(w) == w.rule = "NUMBER" /\ \E k \in {1, 10, 100} : w.n \div k \in {66, 77, 78, 88}

WorkingRule(s, w, line) ==
    CASE Swallows(w) -> Push(s, "SWALLOWED")
      [] w.rule \in {"HOST_BEGIN", "HOST_END"} -> put_exec_list(Entry(s, w.rule, line))
      [] w.rule = "COPY" -> s
      [] w.rule \in {"LINKAGE SECTION", "PROCEDURE DIVISION"} ->
           put_exec_list([Entry(s, "WORKING_END", line) EXCEPT !.state = "INITIAL"])
      [] w.rule = "VARYING" ->
           Tok([Entry(s, "VARYING_PARAM", line) EXCEPT !.error = FALSE], "VARYING", w)
      [] w.rule = "." -> IF s.toks = <<>> THEN [s EXCEPT !.error = TRUE] ELSE Declared(s)
      [] OTHER -> Tok(s, w.rule, w)

SwallowedRule(s, w) == IF w.rule = "." THEN Pop(s) ELSE s

(* These rules hold in INITIAL and in WORKING_STATE alike; inside the      *)
(* section the grammar takes no statement but INCLUDE.                     *)
Opening(s, w, line) ==
    LET x == [Cleared(s) EXCEPT !.start = line,
                                !.error = \/ s.toks # <<>>
                                          \/ s.state = "WORKING" /\ w.rule # "INCLUDE"]
    IN  CASE w.rule = "EXEC SQL" ->
               [x EXCEPT !.state = "FUNC", !.command = "", !.period = FALSE]
          [] w.rule = "INCLUDE" ->
               Push([x EXCEPT !.period = FALSE], "INCLUDE")
          [] w.rule = "WORKING-STORAGE" ->
               put_exec_list([Entry(x, "WORKING_BEGIN", line) EXCEPT
                                 !.state = "WORKING", !.tree.current = Null, !.tree.first = Null,
                                 !.error = x.error])

Rule(s, w, line) ==
    LET opens == w.rule \in {"EXEC SQL", "INCLUDE", "WORKING-STORAGE"}
    IN  CASE s.error -> s
          [] ~s.error /\ s.state \in {"INITIAL", "WORKING"} /\ opens -> Opening(s, w, line)
          [] ~s.error /\ s.state = "INITIAL" /\ ~opens -> s
          [] ~s.error /\ s.state = "WORKING" /\ ~opens -> WorkingRule(s, w, line)
          [] ~s.error /\ s.state = "SWALLOWED" -> SwallowedRule(s, w)
          [] ~s.error /\ s.state = "FUNC" -> FuncRule(s, w)
          [] ~s.error /\ s.state = "DBNAME" -> DbRule(s, w)
          [] ~s.error /\ s.state = "ESQL" -> EsqlRule(s, w, line)
          [] ~s.error /\ s.state = "WHERE_CURRENT_OF" -> WhereRule(s, w)
          [] ~s.error /\ s.state = "INCLUDE" -> IncludeRule(s, w, line)

(* yyinput hands the scanner one line; comment lines come without a word.  *)
ScanLine(s, words, line) ==
    LET upto[i \in 0..Len(words)] == IF i = 0 THEN s ELSE Rule(upto[i - 1], words[i], line)
    IN  upto[Len(words)]
=============================================================================
