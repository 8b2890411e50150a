\* Queries on both front ends while an UPDATE writes.
SPECIFICATION Spec
CONSTANTS
  c1 = c1
  c2 = c2
  Clients = {c1, c2}
  Messages <- MCMessages
  InitialItems <- MCInitialItems
  Items <- MCItems
  NoItem = NoItem
  NilItem = NilItem
  Updates <- MCUpdates
  Configs <- MCConfigs
  GSIs <- MCGSIs
  Size <- MCSize
  UdpSize = 3
  EdnsSize = 6
  TcpSize = 10
  LongLabels <- MCLongLabels
  MaxSignErrors = 1
  Start = 1
  MaxWrites = 1
  NoMsg = NoMsg
  SafeLabels <- MCSafeLabels
  Lower <- MCLower
  KDecode <- MCKDecode
  KEncode <- MCKEncode
  NoKey = NoKey
INVARIANTS
  QueryTypeOK
  AuthGate
  ListedIsAnswered
  SignedAnswers
  SameAnswerEverywhere
  FitsBeforeTsig
  CountersMatchReplies
