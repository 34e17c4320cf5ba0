SPECIFICATION Spec
CONSTANTS
  Editors = {ann, bob}
  Attempts = 2
  Old = old
  Zero = zero
  Foreign = foreign
INVARIANTS
  EditorsTypeOK
  EditsKeepTheRest
  NothingForeignIsWritten
  NeverLeftWithoutTarget
  CreatesMakeOne
