SPECIFICATION FairSpec
CONSTANTS
  Null = Null
  Exams = {q1, f1}
  Quick = {q1}
  Itemized = {}
  Grace = 0
  Extension = 1
  Workers = {w1}
  Requests = {r1}
  Instances = {}
  Saves = {}
  Actions <- LiveActions
  Keys = {k1}
  Edits = {}
  Windows <- FirstWindow
  Bases = {}
  MaxClock = 2
  MaxResets = 1
INVARIANT CopiesAreCurrent
PROPERTY OneExamPerTransaction DueExamsStart DueExamsEnd FinishedQuickExamsAreArchived
