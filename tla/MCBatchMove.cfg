SPECIFICATION Spec
CONSTANTS
  Posts = {p1, p2}
  MaxLength = 4
SYMMETRY Symmetry
INVARIANTS
  MoveTypeOK
  OnlyDrivenPostsMove
  AcceptedMoveIsReported
  ReadingStopsInTime
