\* The clock of a restart is not past the serials handed out.
SPECIFICATION Spec
CONSTANTS
  Secondaries = {s1}
  Items = {"a", "b"}
  NoItem = NoItem
  FirstItem = "a"
  NoDeltas = NoDeltas
  SerialMod = 16
  Cap = 1
  Changes <- MCChanges
  Start = 1
  ClockStep = 1
  MaxHistory = 3
  MaxFaults = 2
INVARIANTS
  UpToDateMeansCurrent
