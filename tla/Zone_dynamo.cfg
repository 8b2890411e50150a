\* Eventually consistent reads and failing calls on the dynamo store.
SPECIFICATION FairSpec
CONSTANTS
  SafeLabels <- MCSafeLabels
  Lower <- MCLower
  KDecode <- MCKDecode
  KEncode <- MCKEncode
  NoKey = NoKey
  Bodies = {"b1", "b2"}
  EmptyBody = "empty"
  NilItem = NilItem
  NoItem = NoItem
  Broken = Broken
  NoMsg = NoMsg
  NoDeltas = NoDeltas
  SerialMod = 12
  Start = 1
  Changes <- AllChanges
  Cap = 2
  Updaters = {u1}
  Streams = {x1}
  UpdateMsgs <- DynamoUpdates
  TransferMsgs <- DynamoTransfers
  InitialItems <- Table2
  Backend = "dynamo"
  Consistent = FALSE
  StoreFaults = TRUE
  Notifiees = {sec}
  MaxQueries = 3
INVARIANTS
  TypeOK
  WritesAccounted
PROPERTIES
  MessagesAnswered
