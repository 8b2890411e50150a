\* Three starts, two of which may crash or meet a failing file operation.
SPECIFICATION Spec
CONSTANTS
  P1 = P1
  P2 = P2
  P3 = P3
  Pids = {P1, P2, P3}
  Canon <- MCCanon
  Secrets <- MCSecrets
  Algorithms <- MCAlgorithms
  HmacSHA256 = "sha256"
  Configs <- MCConfigs
  Disks <- MCDisks
  NoKeys = NoKeys
  Failed = Failed
  Absent = Absent
  Torn = Torn
  NoPid = NoPid
  MaxFaults = 2
INVARIANTS
  KeyStable
  PidfileTrue
  PairUsable
  RequiredServesHealthcheck
  VerifiedMeansConfigured
PROPERTY
  StopEndsServer
