CONSTANTS
  Names       = {default}
  MaxId       = 2
  Cursors     = {c1}
  Prepares    = {p1, p2}
  Selects     = {"select_0", "select_1"}
  Updates     = {"update_1"}
  Aliases     = {"commit_padded"}
  Statics     = {"select_0", "select_1"}
  Dynamics    = {"select_0", "select_1", "COMMIT", "commit_padded"}
  IgnoreError = FALSE
  NPar       <- MCNPar
  NoQuery     = NoQuery
  NoPrepare   = NoPrepare
SPECIFICATION Spec
SYMMETRY Sym
INVARIANTS TypeOK PortalOwned FlagAccurate
PROPERTIES RollbackRestarts DeadCursorStays TxnLeftTold LossTold DeclaredOpens
\* The process may have died.
CHECK_DEADLOCK FALSE
