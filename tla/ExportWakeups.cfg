SPECIFICATION Spec
CONSTANTS
  NoWorker = NoWorker
  Readable <- MCReadable
  Settings <- GrpcSettings
  Backends = {b1, b2}
  Slots = {s1, s2}
  Cap = 4
  CHUNK = 2
  MaxSpans = 2
  MaxStatements = 1
  MaxHups = 1
  MaxTerms = 1
  MaxCrashes = 1
  MaxUndecodable = 0
  MaxDropped = 0
  KeepHistory = FALSE
INVARIANTS
  TypeOK
  NoStrandedSpans
  AtMostOneExport
