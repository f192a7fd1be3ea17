CONSTANTS
  Ids <- PlainIds
  Clashing = FALSE
  EmptyOffers = FALSE
SPECIFICATION Spec
CHECK_DEADLOCK FALSE
INVARIANTS
  NamesReversible
  CompositionFaithful
  DocumentsServe
  FramesArrive
