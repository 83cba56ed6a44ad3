------------------------------ MODULE Reports --------------------------------
(***************************************************************************)
(* The batch programs that read a customer file and write or display a     *)
(* report: opgave6 to opgave9 and the model solutions Opgave6 to Opgave9.  *)
(* From number 8 on they join an account file: number 8 reads it again for *)
(* every customer, number 9 loads it into a table first.                   *)
(*                                                                         *)
(* An action is one OPEN, or one READ with all that is done for its record *)
(* or its AT END, or one pass of the loop over the table. A record of      *)
(* spaces, an empty line of a file, has an id like any other. Of a name    *)
(* only its length is kept, and of each character of the name that is      *)
(* shown the customer whose name it comes from.                            *)
(***************************************************************************)
EXTENDS Naturals, Sequences

CONSTANTS
    Ids,           \* customer ids
    Width,         \* characters of FULDT-NAVN
    KundeFiles,    \* customer files: sequences of records
    KontoFiles,    \* account files: sequences of the ids in the records
    Occurs         \* entries of konto-array

Kunde == [id : Ids, len : 1..Width]

ASSUME ReportsAssumption ==
    /\ Width \in Nat \ {0} /\ Occurs \in Nat \ {0}
    /\ KundeFiles \subseteq Seq(Kunde)
    /\ KontoFiles \subseteq Seq(Ids)

VARIABLES
    prog,       \* the program that runs
    kunder,     \* the customer file
    konti,      \* the account file
    missing,    \* which of them cannot be opened
    phase,      \* the loop it is in
    kpos,       \* customers read
    apos,       \* accounts read since the account file was opened
    array,      \* konto-array: which record of the account file is in an entry
    count,      \* konto-index of opgave9, KONTO-COUNT of Opgave9
    at,         \* current-index, IX-KONTI
    navn,       \* FULDT-NAVN: whose character is in each place, 0 for a space
    shown,      \* what it was when each customer's name was written
    opened,     \* the report of an earlier run has been emptied
    out         \* lines of the report

input == <<prog, kunder, konti, missing>>
vars  == <<input, phase, kpos, apos, array, count, at, navn, shown, opened, out>>

Nested  == {"opgave8", "Opgave8"}
Tables  == {"opgave9", "Opgave9"}
Joins   == Nested \cup Tables
Answers == {"Opgave6", "Opgave7", "Opgave8", "Opgave9"}
Reports == {"opgave6", "opgave7", "opgave8", "opgave9"} \cup Answers

(* Lines written for a customer, for each account, and after them.         *)
Form ==
    [opgave6 |-> [head |-> 1, konto |-> 0, tail |-> 0],
     opgave7 |-> [head |-> 5, konto |-> 0, tail |-> 1],
     opgave8 |-> [head |-> 5, konto |-> 2, tail |-> 1],
     opgave9 |-> [head |-> 5, konto |-> 2, tail |-> 1],
     Opgave6 |-> [head |-> 8, konto |-> 0, tail |-> 0],
     Opgave7 |-> [head |-> 6, konto |-> 0, tail |-> 1],
     Opgave8 |-> [head |-> 3, konto |-> 1, tail |-> 1],
     Opgave9 |-> [head |-> 3, konto |-> 1, tail |-> 1]]

(* STRING leaves the rest of FULDT-NAVN as it was, and these two do not    *)
(* move spaces to it first.                                                *)
Uncleared == {"Opgave8", "Opgave9"}

Init ==
    /\ prog \in Reports
    /\ kunder \in KundeFiles /\ konti \in KontoFiles
    /\ missing \in SUBSET {"kunder", "konti"}
    /\ phase = IF prog \in Tables THEN "konti" ELSE "open"
    /\ kpos = 0 /\ apos = 0
    /\ array = <<>>
    /\ count = IF prog = "Opgave9" THEN 1 ELSE 0
    /\ at = 1
    /\ navn = [j \in 1..Width |-> 0]
    /\ shown = <<>>
    /\ opened = FALSE
    /\ out = <<>>

-----------------------------------------------------------------------------
(* Lines                                                                   *)

HeadOf(c)     == [p \in 1..Form[prog].head  |-> <<c, 0, p>>]
KontoOf(c, a) == [p \in 1..Form[prog].konto |-> <<c, a, p>>]
TailOf(c)     == [p \in 1..Form[prog].tail  |-> <<c, Len(konti) + 1, p>>]

(* The slip: Opgave7 without its MOVE SPACES, as Opgave8 is.               *)
SlipFormatted(c) ==
    [j \in 1..Width |->
        IF j <= kunder[c].len THEN c
        ELSE IF prog \in Uncleared \cup {"Opgave7"} THEN navn[j] ELSE 0]

Formatted(c) ==
    [j \in 1..Width |->
        IF j <= kunder[c].len THEN c ELSE IF prog \in Uncleared THEN navn[j] ELSE 0]

-----------------------------------------------------------------------------
(* The account file                                                        *)

(* The slip: the flag of its end is not reset, and nothing is read again.  *)
SlipRewound == apos

(* OPEN begins at the first record, and the flag of the end is reset.      *)
Rewound == 0

(* OPEN of a file that is not there ends the program.                      *)
OpenKonti ==
    /\ phase = "konti"
    /\ IF "konti" \in missing
       THEN phase' = "failed" /\ UNCHANGED apos
       ELSE /\ phase' = IF prog \in Tables THEN "load" ELSE "match"
            /\ apos' = Rewound
    /\ UNCHANGED <<input, kpos, array, count, at, navn, shown, opened, out>>

(* The slip: the first entry is left out.                                  *)
SlipEntry == count + 1

(* opgave9 adds to konto-index first and Opgave9 to KONTO-COUNT last.      *)
Entry == IF prog = "opgave9" THEN count + 1 ELSE count

Put(a, i, x) == [j \in DOMAIN a \cup {i} |-> IF j = i THEN x ELSE a[j]]

(* Behind the last entry of the table the record is stored over something  *)
(* else: it may stay there, or be lost, or the program dies.               *)
LoadKonto ==
    /\ phase = "load" /\ apos < Len(konti)
    /\ apos' = apos + 1
    /\ count' = count + 1
    /\ IF Entry <= Occurs
       THEN array' = Put(array, Entry, apos + 1) /\ UNCHANGED phase
       ELSE /\ \E x \in {apos + 1, 0} : array' = Put(array, Entry, x)
            /\ phase' \in {"load", "dead"}
    /\ UNCHANGED <<input, kpos, at, navn, shown, opened, out>>

EndOfLoad ==
    /\ phase = "load" /\ apos = Len(konti)
    /\ phase' = "open"
    /\ UNCHANGED <<input, kpos, apos, array, count, at, navn, shown, opened, out>>

-----------------------------------------------------------------------------
(* The customer file                                                       *)

(* The slip: the report is opened before the file it is made from.         *)
SlipOpenKunder ==
    /\ phase = "open"
    /\ opened' = (prog # "Opgave6")
    /\ phase' = IF "kunder" \in missing THEN "failed" ELSE "kunder"
    /\ UNCHANGED <<input, kpos, apos, array, count, at, navn, shown, out>>

(* OPEN INPUT of the customers, then OPEN OUTPUT of the report, which      *)
(* empties it. Opgave6 displays and has no output.                         *)
OpenKunder ==
    /\ phase = "open"
    /\ IF "kunder" \in missing
       THEN phase' = "failed" /\ UNCHANGED opened
       ELSE phase' = "kunder" /\ opened' = (prog # "Opgave6")
    /\ UNCHANGED <<input, kpos, apos, array, count, at, navn, shown, out>>

(* READ of a customer: its head, then its accounts if the program has any, *)
(* or what ends its lines.                                                 *)
ReadKunde ==
    /\ phase = "kunder" /\ kpos < Len(kunder)
    /\ kpos' = kpos + 1
    /\ navn' = Formatted(kpos + 1)
    /\ shown' = Append(shown, Formatted(kpos + 1))
    /\ at' = 1
    /\ phase' = CASE prog \in Nested -> "konti"
                  [] prog \in Tables -> "match"
                  [] OTHER           -> "kunder"
    /\ out' = out \o HeadOf(kpos + 1)
                  \o (IF prog \in Joins THEN <<>> ELSE TailOf(kpos + 1))
    /\ UNCHANGED <<input, apos, array, count, opened>>

(* The slip: the end of the file does not end the loop.                    *)
SlipEndOfKunder == phase = "kunder" /\ kpos = Len(kunder) /\ UNCHANGED vars

EndOfKunder ==
    /\ phase = "kunder" /\ kpos = Len(kunder)
    /\ phase' = "done"
    /\ UNCHANGED <<input, kpos, apos, array, count, at, navn, shown, opened, out>>

-----------------------------------------------------------------------------
(* The accounts of a customer                                              *)

Belongs(a) == a # 0 /\ konti[a] = kunder[kpos].id

(* The lines of record a, if it is the customer's.                         *)
Show(a) == out' = out \o (IF Belongs(a) THEN KontoOf(kpos, a) ELSE <<>>)

EndOfKonti ==
    /\ phase' = "kunder"
    /\ out' = out \o TailOf(kpos)

(* Number 8: a READ of the account file, which is closed at its end.       *)
ReadKonto ==
    /\ phase = "match" /\ prog \in Nested /\ apos < Len(konti)
    /\ apos' = apos + 1
    /\ Show(apos + 1)
    /\ UNCHANGED <<input, phase, kpos, array, count, at, navn, shown, opened>>

CloseKonti ==
    /\ phase = "match" /\ prog \in Nested /\ apos = Len(konti)
    /\ EndOfKonti
    /\ UNCHANGED <<input, kpos, apos, array, count, at, navn, shown, opened>>

(* The slip: the last entry is not looked at.                              *)
SlipPast == at >= count

(* "until current-index > konto-index", "UNTIL IX-KONTI >= KONTO-COUNT".   *)
Past == IF prog = "opgave9" THEN at > count ELSE at >= count

(* Number 9: an entry of the table.                                        *)
MatchKonto ==
    /\ phase = "match" /\ prog \in Tables /\ ~Past
    /\ at' = at + 1
    /\ Show(array[at])
    /\ UNCHANGED <<input, phase, kpos, apos, array, count, navn, shown, opened>>

EndOfMatch ==
    /\ phase = "match" /\ prog \in Tables /\ Past
    /\ EndOfKonti
    /\ UNCHANGED <<input, kpos, apos, array, count, at, navn, shown, opened>>

Next ==
    \/ OpenKonti \/ LoadKonto \/ EndOfLoad
    \/ OpenKunder \/ ReadKunde \/ EndOfKunder
    \/ ReadKonto \/ CloseKonti \/ MatchKonto \/ EndOfMatch

(* Sequential programs, which always take their next step.                 *)
Spec == Init /\ [][Next]_vars /\ WF_vars(Next)

-----------------------------------------------------------------------------
(* Properties                                                              *)

Ended == {"done", "failed", "dead"}

TypeOK ==
    /\ prog \in Reports
    /\ phase \in {"konti", "load", "open", "kunder", "match"} \cup Ended
    /\ kpos \in 0..Len(kunder) /\ apos \in 0..Len(konti)
    /\ count \in 0..(Len(konti) + 1) /\ at \in 1..(Len(konti) + 1)
    /\ DOMAIN array \subseteq 1..Len(konti)
    /\ \A j \in DOMAIN array : array[j] \in 0..Len(konti)
    /\ navn \in [1..Width -> 0..kpos]
    /\ Len(shown) = kpos
    /\ opened \in BOOLEAN

(* The table of number 9 has room for the accounts.                        *)
Fits == prog \in Tables => Len(konti) <= Occurs

Report == INSTANCE Join WITH form <- Form[prog], promised <- Fits

(* Both ways of joining write the lines of the join in its order: no       *)
(* account is left out, shown twice or under another customer, whatever    *)
(* the order of the files, with ids that are missing or occur twice.       *)
ImplementsJoin == Report!Spec

(* A program that comes to its end has written all of its report.          *)
ReportWhole == phase = "done" /\ Fits => Report!Written(out) = Report!Lines

(* A run that cannot open its files leaves the report of the run before;   *)
(* only number 8, which looks for the accounts when the first customer's   *)
(* head is written, leaves that head instead.                              *)
OldReportKept ==
    phase = "failed" =>
        IF prog \in Nested /\ "kunder" \notin missing THEN out = HeadOf(1)
        ELSE ~opened /\ out = <<>>

(* Customers up to number i whose name reaches place j.                    *)
Reaching(i, j) == {c \in 1..i : j <= kunder[c].len}

Latest(C) == CHOOSE c \in C : \A d \in C : d <= c

(* Whose character is in place j of the name shown for customer i.         *)
NameAt(i, j) ==
    IF i \in Reaching(i, j) THEN i
    ELSE IF prog \in Uncleared /\ Reaching(i, j) # {} THEN Latest(Reaching(i, j))
    ELSE 0

(* The name shown for a customer is that customer's, and behind its end    *)
(* there are spaces; in Opgave8 and Opgave9, which do not clear FULDT-NAVN, *)
(* there is what is left of the last customer with a name as long as that. *)
NamesShown ==
    \A i \in 1..Len(shown) : \A j \in 1..Width : shown[i][j] = NameAt(i, j)

(* Every run comes to an end: each loop reads on to the end of its file    *)
(* (or of the table), also when a file is empty.                           *)
Ends == <>(phase \in Ended)
=============================================================================
