CONSTANTS
  Clients = {c1, c2}
  Reaper = reaper
  Shutdown = shutdown
  Daemons = {}
  Sandboxes = {s1, s2}
  Snapshots = {n1}
  Keys = {}
  WithSecrets = {}
  DestroyOnIdle = {}
  RecordOps = {"destroy"}
  Faults = {"backend", "crash"}
  NoTask = NoTask
  NoBox = NoBox
  NoKey = NoKey
  NoImage = NoImage
SYMMETRY Symmetry
SPECIFICATION Spec
CHECK_DEADLOCK FALSE
INVARIANT StartUpFindsAll
