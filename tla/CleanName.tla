------------------------------ MODULE CleanName ------------------------------
(***************************************************************************)
(* The loop that takes superfluous spaces out of a name: opgave3 and the   *)
(* model solutions Opgave3, Opgave4 and Opgave5. The name is put together  *)
(* of two fields and a space, one character longer than its item, and is   *)
(* copied character by character, but for a space behind a space.          *)
(*                                                                         *)
(* opgave3 starts one place before the name and stores that byte one place *)
(* before the result: in both places there are the zeros that fill up the  *)
(* item before it to its alignment.                                        *)
(***************************************************************************)
EXTENDS Integers, Sequences, FiniteSets

CONSTANTS
    Half,       \* characters of first-name and last-name (20)
    Char,       \* characters
    Fields      \* values of the two items

Space == " "
Zero  == "zero"    \* the byte 0

ASSUME CleanNameAssumption ==
    /\ Half \in Nat \ {0}
    /\ Space \in Char /\ Zero \notin Char
    /\ Fields \subseteq [1..Half -> Char]

VARIABLES
    job,         \* the program
    names,       \* the names it cleans, one after another
    who,         \* the one it is at
    ix, ix2,     \* character-index and clean-name-index, IX and IX2
    previous,    \* the character before
    rens,        \* clean-name, RENS-FULDT-NAVN, from the byte before it on
    cleaned      \* the results

cleanVars == <<job, names, who, ix, ix2, previous, rens, cleaned>>

Length == 2 * Half

(* STRING first-name " " last-name INTO full-name.                         *)
FullName(first, last) ==
    [i \in 1..Length |-> IF i <= Half THEN first[i]
                         ELSE IF i = Half + 1 THEN Space ELSE last[i - Half - 1]]

FullNames == {FullName(f, g) : f, g \in Fields}

(* Opgave5 has two customers.                                              *)
Jobs == {"opgave3", "Opgave3", "Opgave4", "Opgave5"}
Customers(j) == IF j = "Opgave5" THEN 2 ELSE 1

Student == job = "opgave3"

(* What is before the first character, and what previous starts with.      *)
Ahead == IF Student THEN Zero ELSE Space

(* Cleared, with the byte before it; first IX and IX2.                     *)
Blank    == [i \in 0..Length |-> IF i = 0 THEN Zero ELSE Space]
FirstIX  == IF Student THEN 0 ELSE 1

CleanInit ==
    /\ job \in Jobs
    /\ names \in [1..Customers(job) -> FullNames]
    /\ who = 1
    /\ ix = FirstIX /\ ix2 = 0
    /\ previous = Ahead
    /\ rens = Blank
    /\ cleaned = <<>>

Current == IF ix = 0 THEN Zero ELSE names[who][ix]

(* Opgave3 adds to IX2 before it stores, opgave3 after.                    *)
Target == IF Student THEN ix2 ELSE ix2 + 1

(* The slip: only spaces that stand alone are kept.                        *)
SlipKept == Current # Space

Kept == Current # Space \/ previous # Space

CleanPass ==
    /\ who <= Customers(job) /\ ix <= Length
    /\ IF Kept THEN rens' = [rens EXCEPT ![Target] = Current] /\ ix2' = ix2 + 1
               ELSE UNCHANGED <<rens, ix2>>
    /\ previous' = Current
    /\ ix' = ix + 1
    /\ UNCHANGED <<job, names, who, cleaned>>

(* The slip: the previous character is still that of the customer before.  *)
SlipNextName ==
    /\ who <= Customers(job) /\ ix > Length
    /\ cleaned' = Append(cleaned, rens)
    /\ who' = who + 1
    /\ ix' = FirstIX /\ ix2' = 0 /\ rens' = Blank
    /\ UNCHANGED <<job, names, previous>>

(* The result is shown; for the next customer all is reset.                *)
NextName ==
    /\ who <= Customers(job) /\ ix > Length
    /\ cleaned' = Append(cleaned, rens)
    /\ who' = who + 1
    /\ ix' = FirstIX /\ ix2' = 0 /\ rens' = Blank
    /\ previous' = Ahead
    /\ UNCHANGED <<job, names>>

CleanNext == CleanPass \/ NextName

CleanSpec == CleanInit /\ [][CleanNext]_cleanVars

-----------------------------------------------------------------------------
(* Properties                                                              *)

(* Letters among the first i characters, and those that begin a word.      *)
Letters(n, i) == {j \in 1..i : n[j] # Space}
Starts(n, i)  == {j \in 1..i : n[j] # Space /\ (j = 1 \/ n[j - 1] = Space)}

(* Where character i belongs: behind the letters before it, with one space *)
(* between words, and in opgave3 one before them if the name has any.      *)
Lead(n) == IF Student /\ n[1] = Space THEN 1 ELSE 0
Place(n, i) == Lead(n) + Cardinality(Letters(n, i)) + Cardinality(Starts(n, i)) - 1

(* q is name n with one space between words: each letter is in its place,  *)
(* and everything else is spaces.                                          *)
Clean(n, q) ==
    /\ \A i \in Letters(n, Length) : Place(n, i) \in 1..Length /\ q[Place(n, i)] = n[i]
    /\ \A k \in 1..Length : q[k] = Space \/ \E i \in Letters(n, Length) : Place(n, i) = k

(* Every name comes out clean, whatever spaces its fields begin with, have *)
(* in them or end with, and nothing is stored but in the result and, by    *)
(* opgave3, a zero in the byte of zeros before it.                         *)
NamesCleaned ==
    \A c \in 1..Len(cleaned) : Clean(names[c], cleaned[c]) /\ cleaned[c][0] = Zero
=============================================================================
