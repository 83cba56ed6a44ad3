CONSTANTS
  Names       = {default}
  MaxId       = 2
  Cursors     = {c1}
  Prepares    = {p1}
  Selects     = {"select_0", "select_1"}
  Updates     = {"update_1"}
  Aliases     = {"commit_padded"}
  Statics     = {"select_0", "select_1"}
  Dynamics    = {"select_0", "select_1", "COMMIT", "commit_padded"}
  IgnoreError = FALSE
  NPar       <- MCNPar
  NoQuery     = NoQuery
  NoPrepare   = NoPrepare
SPECIFICATION Spec
PROPERTIES CommitRestarts
\* The process may have died.
CHECK_DEADLOCK FALSE
