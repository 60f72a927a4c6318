SPECIFICATION SaveSpec
CONSTANTS
  Parts <- DocumentParts
  DomainOf <- Domain
  OwnParts = {"exam1", "alerts"}
  LastOwn = 2
  LastTheirs = 3
  MaxMishaps = 1
  MaxChain = 2
  None = None
PROPERTY EditsAreKept
CHECK_DEADLOCK FALSE
