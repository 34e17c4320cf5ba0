SPECIFICATION Spec
CONSTANT MaxIds = 5
INVARIANTS
  DeleteTypeOK
  RecordPartitionsIds
  RecordIsTrue
  StopsWhenItShould
  UnknownStaysUnknown
