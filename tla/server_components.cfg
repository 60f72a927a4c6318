SPECIFICATION Spec
CONSTANTS
  LastMail = 2
  Drains = {s1, s2}
  MaxMailFaults = 1
  CodeMinutes = 3
  StaleMinutes = 1
  RetryDelay <- Delay
  Bundles = 1
  Posters = {s1, s2}
  NoPoster = NoPoster
  LeaseMinutes = 2
  MaxPostFaults = 2
  Tasks = {t1, t2}
  Restores = {t1}
  NoTask = NoTask
  LeaseTicks = 2
  MaxWrites = 2
  LastCommand = 2
  Heartbeats = {s1, s2}
  MaxDeviceFaults = 1
  Viewers = {v1, v2}
  Rooms = {c1, c2}
  NoRoom = NoRoom
  NoViewer = NoViewer
  Plugins = {p1}
  NoPlugin = NoPlugin
  Binders = {s3, s4}
  Polls = {s1, s2}
  MaxBindings = 2
  MaxPairings = 1
  MaxBinderFaults = 1
  LastWrite = 4
  WriteKeys = {k1, k2}
  NoKey = NoKey
  Notices = {a1, a2, a3}
  Flushes = {s1, s2}
  AckBatch = 2
  MaxShowings = 3
  MaxErased = 1
  MaxAckFaults = 1
INVARIANTS
  TypeOK
  OneDrainPerMail
  MailsAreCounted
  AcknowledgedWasRun
  NoReportOverwritten
  RoomHeldOnce
  WaveCoversPending
PROPERTIES
  MailsSettle
  MailsKeepPromise
  SettledIsFinal
  BundlesSettle
  BundlesKeepPromise
  RestoreIsProtected
  CommandTransitions
  CommandsSettle
  PairingsSettle
  WriteOrSuccessorSent
  ReceiptsArrive
CHECK_DEADLOCK FALSE
