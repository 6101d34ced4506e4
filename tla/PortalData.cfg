SPECIFICATION Spec
CONSTANTS
  Word = 64
  None = None
  One = 2
  Bad = Bad
  Unset = Unset
  Images <- SmallImages
  Files <- SmallFiles
  Patterns <- SmallPatterns
INVARIANTS SampleIsCenter WrappedNeverShown RowsFit FormatSurvives
INVARIANTS ReadsAgree LastLineDecides
CHECK_DEADLOCK FALSE
