SPECIFICATION SaveSpec
CONSTANTS
  Parts <- DocumentParts
  DomainOf <- Domain
  OwnParts = {"exam1", "alerts"}
  LastOwn = 2
  LastTheirs = 3
  MaxMishaps = 2
  MaxChain = 2
  None = None
PROPERTY SavesCarryOwnEdits
CHECK_DEADLOCK FALSE
