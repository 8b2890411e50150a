\* Any text, any small table and any small journal through decoding and batching.
SPECIFICATION Spec
CONSTANTS
  maxTxtChunk = 3
  Malformed = "malformed"
  NoSerial = NoSerial
  Jobs <- AllJobs
  capBytes = 14
  MaxMsg = 13
  overheadPerMsg = 4
  axfrMaxRRsPerMsg = 3
  FixedLen = 2
  NameLen = 1
  SOALen = 2
INVARIANTS
  DecodedAsSent
  PlainServedIntact
  BatchersAgree
  AbortedOnlyByUnsendable
  ClientFindsDeltas
