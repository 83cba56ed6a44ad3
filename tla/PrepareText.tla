----------------------------- MODULE PrepareText -----------------------------
(***************************************************************************)
(* get_str_replace_hostvalue: the text given to PREPARE is gone through    *)
(* once, and from a colon to the next comma, bracket or space it is        *)
(* replaced by $1, $2, ... The scan knows neither the quotes of SQL nor    *)
(* what else may end a name. A character stands for its kind, and a quote  *)
(* also for whatever else may stand behind a name.                         *)
(***************************************************************************)
EXTENDS Naturals, Sequences, FiniteSets

CONSTANTS
    Letter,     \* characters of names
    Delims,     \* what ends one: comma, bracket, space
    MaxLen      \* length of a text

Colon    == ":"
Quote    == "'"
TextChar == Letter \cup Delims \cup {Colon, Quote}

ASSUME PrepareTextAssumption ==
    /\ MaxLen \in Nat
    /\ {Colon, Quote} \cap (Letter \cup Delims) = {} /\ Letter \cap Delims = {}

VARIABLES
    target,     \* the text
    now,        \* the character it is at
    start,      \* where the piece it is in begins
    hoststat,   \* that piece is a host variable
    nParams,    \* host variables so far
    slist,      \* the pieces so far, put together
    ended

textVars == <<target, now, start, hoststat, nParams, slist, ended>>

TextInit ==
    /\ target \in UNION {[1..n -> TextChar] : n \in 0..MaxLen}
    /\ now = 1 /\ start = 1
    /\ hoststat = FALSE
    /\ nParams = 0
    /\ slist = <<>>
    /\ ended = FALSE

Placeholder(n) == <<<<"$", n>>>>
Piece          == SubSeq(target, start, now - 1)

(* The slip: the character that ends the name is taken for a part of it.   *)
SlipEndOfHost ==
    /\ hoststat /\ target[now] \in Delims
    /\ nParams' = nParams + 1
    /\ slist' = slist \o Placeholder(nParams + 1)
    /\ start' = now + 1
    /\ hoststat' = FALSE

EndOfHost ==
    /\ hoststat /\ target[now] \in Delims
    /\ nParams' = nParams + 1
    /\ slist' = slist \o Placeholder(nParams + 1)
    /\ start' = now
    /\ hoststat' = FALSE

BeginOfHost ==
    /\ ~hoststat /\ target[now] = Colon
    /\ slist' = slist \o Piece
    /\ start' = now
    /\ hoststat' = TRUE
    /\ UNCHANGED nParams

Within ==
    /\ target[now] \notin IF hoststat THEN Delims ELSE {Colon}
    /\ UNCHANGED <<start, hoststat, nParams, slist>>

Character ==
    /\ now <= Len(target)
    /\ EndOfHost \/ BeginOfHost \/ Within
    /\ now' = now + 1
    /\ UNCHANGED <<target, ended>>

(* The piece the text ends with, if it has any.                            *)
EndOfText ==
    /\ ~ended /\ now > Len(target)
    /\ ended' = TRUE
    /\ IF now # start /\ hoststat
       THEN nParams' = nParams + 1 /\ slist' = slist \o Placeholder(nParams + 1)
       ELSE slist' = slist \o Piece /\ UNCHANGED nParams
    /\ UNCHANGED <<target, now, start, hoststat>>

TextNext == Character \/ EndOfText

TextSpec == TextInit /\ [][TextNext]_textVars

-----------------------------------------------------------------------------
(* Properties                                                              *)

(* As SQL has it: a host variable is a colon outside quotes, and the name  *)
(* that stands directly behind it, as long as it is.                       *)
Quoted(i) == Cardinality({j \in 1..(i - 1) : target[j] = Quote}) % 2 = 1

Hosts ==
    {i \in 1..(Len(target) - 1) :
        target[i] = Colon /\ ~Quoted(i) /\ target[i + 1] \in Letter}

InName(k) == \E i \in Hosts : i < k /\ \A j \in (i + 1)..k : target[j] \in Letter

Behind(i) == {k \in (i + 1)..Len(target) : target[k] \notin Letter}

(* Texts the scan is made for: no colon but those of host variables, and   *)
(* behind each name a comma, a bracket, a space or the end.                *)
Plain ==
    /\ \A i \in 1..Len(target) : target[i] = Colon => i \in Hosts
    /\ \A i \in Hosts : \A k \in Behind(i) :
        (\A j \in Behind(i) : k <= j) => target[k] \in Delims

(* The text with the n-th host variable replaced by $n, and the characters *)
(* of its name left out: what is kept is at the place it has among what is *)
(* kept.                                                                   *)
Places(k)    == {j \in 1..k : ~InName(j)}
HostsUpTo(k) == {i \in Hosts : i <= k}

Image(k) ==
    IF k \in Hosts THEN <<"$", Cardinality(HostsUpTo(k))>> ELSE target[k]

Replaced(list, k) ==
    /\ Len(list) = Cardinality(Places(k))
    /\ \A j \in Places(k) : list[Cardinality(Places(j))] = Image(j)

(* What PREPARE stores is the text with its host variables numbered in     *)
(* order, nothing lost at either side of them, also when it begins or ends *)
(* with one; and nParams, with which EXECUTE is compared, is their number. *)
HostsNumbered ==
    ended /\ Plain => Replaced(slist, Len(target)) /\ nParams = Cardinality(Hosts)
=============================================================================
