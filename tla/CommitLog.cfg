\* Three commits in flight at once, the uint32 wraps after two draws.
SPECIFICATION Spec
CONSTANTS
  SerialMod = 7
  Cap = 2
  Changes = {c1, c2}
  NoDeltas = NoDeltas
  Start = 4
  MaxPending = 3
INVARIANTS
  TypeOK
  AnswersComplete
  NoInFlightSkipped
  AtMostCap
PROPERTIES
  HistoryFixed
