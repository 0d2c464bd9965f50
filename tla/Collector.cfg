SPECIFICATION FairSpec
CONSTANTS
  Statements = {s1, s2}
  NoStatement = NoStatement
  MinDurations <- Settings
  Durations = {0, 1}
INVARIANTS
  HandsBackClean
  ExportedWasMeasured
PROPERTIES
  ReachesExecutorEnd
  CancelHonoured
