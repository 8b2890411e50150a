\* One UPDATE at a time, of every form, on the demo store.
SPECIFICATION Spec
CONSTANTS
  SafeLabels <- MCSafeLabels
  Lower <- MCLower
  KDecode <- MCKDecode
  KEncode <- MCKEncode
  NoKey = NoKey
  Bodies = {"b1", "b2"}
  EmptyBody = "empty"
  NilItem = NilItem
  NoItem = NoItem
  Broken = Broken
  NoMsg = NoMsg
  NoDeltas = NoDeltas
  SerialMod = 12
  Start = 1
  Changes <- AllChanges
  Cap = 2
  Updaters = {u1}
  Streams = {x1}
  UpdateMsgs <- RichUpdates
  TransferMsgs <- SequentialTransfers
  InitialItems <- Table3
  Backend = "demo"
  Consistent = FALSE
  StoreFaults = FALSE
  Notifiees = {sec}
  MaxQueries = 3
INVARIANTS
  StoredNamesResolve
  ExactDeltasRebuildZone
  RecentClientsAnswered
PROPERTIES
  PrereqsHoldAtWrite
