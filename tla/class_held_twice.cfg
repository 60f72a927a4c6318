SPECIFICATION PairSpec
CONSTANTS
  Viewers = {v1, v2}
  Rooms = {c1, c2}
  NoRoom = NoRoom
  NoViewer = NoViewer
  Plugins = {p1}
  NoPlugin = NoPlugin
  Binders = {s3,s4}
  Polls = {s1, s2}
  MaxBindings = 2
  MaxPairings = 1
  MaxBinderFaults = 1
INVARIANT OneDevicePerClass
CHECK_DEADLOCK FALSE
