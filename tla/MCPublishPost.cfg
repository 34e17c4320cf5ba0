SPECIFICATION Spec
CONSTANTS
  Clients = {c1, c2}
  Stranger = stranger
  PageSize = 1
  MaxPages = 2
  Initial = 0
  MaxPosts = 3
SYMMETRY Symmetry
INVARIANTS
  TypeOK
  SlotIsMine
  CountGuardSuffices
  RecoveryNeverFailsTheCreate
  OnePostPerCall
