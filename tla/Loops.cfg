CONSTANTS
  Ids        = {"a", "b"}
  Width      = 3
  KundeFiles <- MCKundeFiles
  KontoFiles <- MCKontoFiles
  Occurs     = 2
  Half       = 3
  Char       = {" ", "x", "y", "z"}
  Fields     <- MCFields
  Letter     = {"x"}
  Delims     = {",", " "}
  MaxLen     = 6
SPECIFICATION LoopsSpec
INVARIANTS TypeOK ReportWhole OldReportKept NamesShown NamesCleaned HostsNumbered
PROPERTIES ImplementsJoin Ends
\* The programs have ended.
CHECK_DEADLOCK FALSE
