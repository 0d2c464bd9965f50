SPECIFICATION FairSpec
CONSTANTS
  NoWorker = NoWorker
  Readable <- MCReadable
  Settings <- OtherSettings
  Backends = {b1}
  Slots = {s1}
  Cap = 3
  CHUNK = 2
  MaxSpans = 2
  MaxStatements = 1
  MaxHups = 2
  MaxTerms = 1
  MaxCrashes = 0
  MaxUndecodable = 0
  MaxDropped = 0
  KeepHistory = FALSE
PROPERTIES
  TermObeyed
  ConfigApplied
  QueueDrained
