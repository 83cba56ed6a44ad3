CONSTANTS
  Names       = {default}
  MaxId       = 1
  Cursors     = {C1}
  Prepares    = {}
  Selects     = {"select"}
  Updates     = {"literal", "insert_host"}
  Aliases     = {}
  Statics     = {"select"}
  Dynamics    = {}
  IgnoreError = FALSE
  NPar       <- MCTextPar
  NoQuery     = NoQuery
  NoPrepare   = NoPrepare
  Rows        = 3
  Literal     = "literal"
  Bound       = "insert_host"
  Query       = "select"
SPECIFICATION ProgSpec
INVARIANTS ProgTypeOK AllOrNothing
PROPERTIES QuietRunStores Stops
\* The program has stopped.
CHECK_DEADLOCK FALSE
