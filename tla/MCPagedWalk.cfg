SPECIFICATION Spec
CONSTANTS
  Old = 3
  Rows = 5
  PageSize = 1
  MaxPages = 5
  MaxLies = 2
  MaxGone = 1
  Repeated = {1, 3}
  Failed = {1, 2}
  Undated = {3}
INVARIANTS
  WalkTypeOK
  BusyListIsReadWhole
  TruncationIsRefused
  EqualityIsExact
  CutIsNeverWhole
  QuietDoctorMeansNoFailures
