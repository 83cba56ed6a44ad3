---------------------------- MODULE MCStatements -----------------------------
(* Statements over an item of each type, most of two digits or characters,  *)
(* and over tables of two rows: those that the runtime reads where COBOL    *)
(* put them, in a group or not, and three of which it does not.             *)
EXTENDS Statements

I(type, length, power) == [type |-> type, length |-> length, power |-> power]

Alone(items)  == [item : items, count : {1}, group : {FALSE}]
Rows(items)   == [item : items, count : {2}, group : {FALSE}]
Groups(items) == [item : items, count : {2}, group : {TRUE}]

MCHosts ==
  Alone({I("UNSIGNED_NUMBER", 2, -2), I("SIGNED_NUMBER_TC", 2, -1),
         I("SIGNED_NUMBER_LS", 2, 0), I("UNSIGNED_NUMBER_PD", 2, 0),
         I("SIGNED_NUMBER_PD", 1, 0), I("ALPHANUMERIC", 2, 0), I("JAPANESE", 1, 0),
         I("ALPHANUMERIC_VARYING", 2, 0), I("JAPANESE_VARYING", 2, 0)})
    \cup Rows({I("UNSIGNED_NUMBER", 2, -2), I("SIGNED_NUMBER_TC", 2, -1),
               I("ALPHANUMERIC", 2, 0), I("SIGNED_NUMBER_LS", 1, 0),
               I("JAPANESE_VARYING", 1, 0)})
    \cup Groups({I("SIGNED_NUMBER_PD", 1, 0), I("ALPHANUMERIC", 2, 0), I("JAPANESE", 1, 0)})

(* "A", and a national character. *)
MCStrings == {<<65>>, <<130, 160>>}
MCNumbers == {-12, 7}
=============================================================================
