SPECIFICATION Spec
CONSTANTS
  Null = Null
  Exams = {e1}
  Quick = {}
  Itemized = {}
  Grace = 1
  Extension = 1
  Workers = {}
  Requests = {r1, r2, r3}
  Instances = {}
  Saves = {}
  Actions <- RecordActions
  Keys = {}
  Edits = {}
  Windows <- OneWindow
  Bases = {}
  MaxClock = 1
  MaxResets = 0
PROPERTY OnlyUnarchiveLeavesArchive
CHECK_DEADLOCK FALSE
