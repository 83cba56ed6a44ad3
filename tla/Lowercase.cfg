CONSTANTS
  Pictures  <- MCPictures
  Spellings <- MCSpellings
  Programs  <- MCLowercase
  Included  <- MCIncluded
SPECIFICATION Spec
INVARIANT CallsInPlace
CHECK_DEADLOCK FALSE
