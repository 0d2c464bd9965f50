SPECIFICATION Spec
CONSTANTS
  Worker = Worker
  NoProcess = NoProcess
  Backends = {b1, b2}
  Cap = 6
  Radix = 3
  MAX_RECORD_BYTES = 3
  CHUNK_BYTES = 4
  Payloads <- RingPayloads
  MaxBatchBytes = 6
  MaxTail = 12
  MaxFaults = 0
INVARIANTS
  Window
  WholeRecords
PROPERTIES
  TakesOldest
  ImplementsSpanQueue
