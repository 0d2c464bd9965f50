SPECIFICATION FairSpec
CONSTANTS
  MAX_NORMALIZE_INPUT_BYTES = 30
  MAX_LEN = 12
  MAX_PLACEHOLDER = 9
  Params <- MCParams
  Inputs <- MCInputs
INVARIANTS
  TypeOK
  NothingRaw
  PlaceholdersApart
  NeverFused
  CutAtCharacter
  CommentsFound
  ParentFound
  SelectListsShortened
  OnlyItsText
PROPERTIES
  ScansEnd
