SPECIFICATION StopSpec
CONSTANTS
  Jobs = 3
  Attempts = 2
  Calls = 3
INVARIANTS
  StoppedWasSeen
  NewParsesAreLeftAlone
