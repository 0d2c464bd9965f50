SPECIFICATION Spec
CONSTANTS
  BASE = 8
  MAX_RECORD_BYTES = 45
  Statements <- MCStatements
INVARIANTS
  TypeOK
  RoundTrip
  Canonical
  DamageConfined
