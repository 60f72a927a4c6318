SPECIFICATION PartSpec
CONSTANTS
  Null = Null
  Exams = {e1, q1}
  Quick = {q1}
  Itemized = {q1}
  Grace = 1
  Extension = 1
  Workers = {w1}
  Requests = {r1, r2}
  Instances = {i1, i2}
  Saves = {s1}
  Actions <- RecordActions
  Keys = {k1}
  Edits = {"create", "delete", "reschedule", "endQuick", "other"}
  Windows <- TwoWindows
  Bases = {"revision", "version", "blank"}
  MaxClock = 3
  MaxResets = 1
SYMMETRY Symmetry
INVARIANTS
  TypeOK
  CopiesAreCurrent
  
  EndedRecordEndedInSnapshot
  PausedIsStarted
  ArchivedHasTimestamp
PROPERTIES
  ChangesAreVersioned
  OverIsFinal
  HistoryIsKept
  SaveKeepsLifecycle
  ArchivedIsFrozen
