CONSTANTS
  Ids <- ValidIds
  Clashing = TRUE
  EmptyOffers = TRUE
SPECIFICATION Spec
CHECK_DEADLOCK FALSE
INVARIANTS
  NamesReversible
  DocumentsServe
  SubFlagsRaised
  VariantsOfAll
  DiffsAreReal
  DiffsAreAll
