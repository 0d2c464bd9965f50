SPECIFICATION Spec
CONSTANTS
  NoWorker = NoWorker
  Readable <- MCReadable
  Settings <- GrpcSettings
  Backends = {b1, b2}
  Slots = {s1}
  Cap = 3
  CHUNK = 2
  MaxSpans = 2
  MaxStatements = 2
  MaxHups = 0
  MaxTerms = 1
  MaxCrashes = 1
  MaxUndecodable = 1
  MaxDropped = 9
  KeepHistory = TRUE
INVARIANTS
  Accounted
  DeliveredInOrder
PROPERTIES
  ImplementsSpanQueue
