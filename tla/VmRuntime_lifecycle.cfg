CONSTANTS
  Clients = {c1, c2}
  Reaper = reaper
  Shutdown = shutdown
  Daemons = {shutdown}
  Sandboxes = {s1}
  Snapshots = {}
  Keys = {}
  WithSecrets = {}
  DestroyOnIdle = {}
  RecordOps = {"pause", "resume"}
  Faults = {"backend", "crash", "cancel", "io"}
  NoTask = NoTask
  NoBox = NoBox
  NoKey = NoKey
  NoImage = NoImage
SYMMETRY Symmetry
SPECIFICATION Spec
CHECK_DEADLOCK FALSE
INVARIANTS TypeOK LockDiscipline IdleHasNoFlag
PROPERTY TransitionsAreLegal
