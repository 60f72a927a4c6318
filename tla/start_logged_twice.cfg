SPECIFICATION Spec
CONSTANTS
  Null = Null
  Exams = {e1}
  Quick = {}
  Itemized = {}
  Grace = 1
  Extension = 1
  Workers = {w1, w2}
  Requests = {}
  Instances = {}
  Saves = {}
  Actions <- RecordActions
  Keys = {}
  Edits = {}
  Windows <- OneWindow
  Bases = {}
  MaxClock = 3
  MaxResets = 0
INVARIANT AutoStartLoggedOnce
