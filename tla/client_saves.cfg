SPECIFICATION Spec
CONSTANTS
  Parts <- DocumentParts
  DomainOf <- Domain
  OwnParts = {"exam1", "alerts"}
  LastOwn = 2
  LastTheirs = 3
  MaxMishaps = 2
  MaxEvents = 3
  MaxChain = 2
  None = None
  Revised = {"major"}
  Rest = "rest"
  Screens = {s1}
  Panels = {s2}
  MaxVersion = 3
  MaxReadFaults = 1
INVARIANTS
  TypeOK
  ReportedWasStored
  RestedEditsAreKept
  KeptIsWhole
PROPERTIES
  EditsArrive
  ScreensCatchUp
CHECK_DEADLOCK FALSE
