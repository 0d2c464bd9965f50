SPECIFICATION Spec
CONSTANTS
  NoWorker = NoWorker
  Readable <- MCReadable
  Settings <- GrpcSettings
  Backends = {b1}
  Slots = {s1}
  Cap = 1
  CHUNK = 1
  MaxSpans = 2
  MaxStatements = 2
  MaxHups = 0
  MaxTerms = 1
  MaxCrashes = 0
  MaxUndecodable = 0
  MaxDropped = 9
  KeepHistory = TRUE
INVARIANTS
  ReportedOnce
