SPECIFICATION Spec
CONSTANTS
  LastDay = 3
  PerPage = 1
  Reads = 3
  MaxPage = 2
  Changes = 1
INVARIANTS
  FiltersWereApplied
  QueueAnswersAreWhole
