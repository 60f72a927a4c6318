SPECIFICATION Spec
CONSTANTS
  Null = Null
  Exams = {e1}
  Quick = {}
  Itemized = {}
  Grace = 1
  Extension = 1
  Workers = {}
  Requests = {r1, r2}
  Instances = {}
  Saves = {}
  Actions <- RecordActions
  Keys = {k1}
  Edits = {}
  Windows <- OneWindow
  Bases = {}
  MaxClock = 3
  MaxResets = 0
INVARIANT ReplayMeansDone
CHECK_DEADLOCK FALSE
