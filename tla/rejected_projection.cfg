SPECIFICATION Spec
CONSTANTS
  Null = Null
  Exams = {e1}
  Quick = {}
  Itemized = {}
  Grace = 1
  Extension = 1
  Workers = {}
  Requests = {r1}
  Instances = {}
  Saves = {s1}
  Actions <- RecordActions
  Keys = {k1}
  Edits = {"other"}
  Windows <- OneWindow
  Bases = {"revision"}
  MaxClock = 3
  MaxResets = 0
INVARIANT NoDrift
CHECK_DEADLOCK FALSE
