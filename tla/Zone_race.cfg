\* Two UPDATEs of one key.
SPECIFICATION Spec
CONSTANTS
  SafeLabels <- MCSafeLabels
  Lower <- MCLower
  KDecode <- MCKDecode
  KEncode <- MCKEncode
  NoKey = NoKey
  Bodies = {"b1", "b2"}
  EmptyBody = "empty"
  NilItem = NilItem
  NoItem = NoItem
  Broken = Broken
  NoMsg = NoMsg
  NoDeltas = NoDeltas
  SerialMod = 12
  Start = 1
  Changes <- AllChanges
  Cap = 2
  Updaters = {u1, u2}
  Streams = {}
  UpdateMsgs <- ConcurrentUpdates
  TransferMsgs <- NoTransfers
  InitialItems <- Table1
  Backend = "demo"
  Consistent = FALSE
  StoreFaults = FALSE
  Notifiees = {}
  MaxQueries = 2
INVARIANTS
  ReplayRebuildsZone
