CONSTANTS
  Pictures  <- MCPictures
  Spellings <- MCSpellings
  Programs  <- MCPrograms
  Included  <- MCIncluded
SPECIFICATION Spec
INVARIANTS TypeOK SourceKept CallsInPlace PartsOfItsOwn TextsWhole FieldsNested SecondPassSame
PROPERTY FramesComplete
\* A source has been translated, or has not.
CHECK_DEADLOCK FALSE
