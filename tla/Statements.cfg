CONSTANTS
  Hosts   <- MCHosts
  Numbers <- MCNumbers
  Strings <- MCStrings
  MaxRows  = 2
  MaxOpens = 1
SPECIFICATION Spec
INVARIANTS TypeOK NeighbourKept
PROPERTIES InsertedPrefix RowsRead CountTold
\* The process may have died.
CHECK_DEADLOCK FALSE
