SPECIFICATION Spec
CONSTANTS
  MAX_NORMALIZE_INPUT_BYTES = 30
  MAX_LEN = 12
  MAX_PLACEHOLDER = 9
  Params <- MCParams
  Inputs <- PairInputs
INVARIANTS
  EncodedKeysFound
