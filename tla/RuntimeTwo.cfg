CONSTANTS
  Names       = {default, at1}
  MaxId       = 2
  Cursors     = {c1, c2}
  Prepares    = {}
  Selects     = {"select_0", "select_1"}
  Updates     = {"update_1"}
  Aliases     = {}
  Statics     = {"select_0", "select_1"}
  Dynamics    = {}
  IgnoreError = TRUE
  NPar       <- MCNPar
  NoQuery     = NoQuery
  NoPrepare   = NoPrepare
SPECIFICATION Spec
SYMMETRY Sym
INVARIANTS PortalOwned
PROPERTIES ImplementsRegistry SingleStatementRollback
\* The process may have died.
CHECK_DEADLOCK FALSE
