SPECIFICATION FairSpec
CONSTANTS
  Worker = Worker
  NoProcess = NoProcess
  Backends = {b1}
  Cap = 5
  Radix = 3
  MAX_RECORD_BYTES = 2
  CHUNK_BYTES = 4
  Payloads <- MCPayloads
  MaxBatchBytes = 5
  MaxTail = 10
  MaxFaults = 1
INVARIANTS
  InBounds
PROPERTIES
  NoFalseCorruption
  LockReleased
