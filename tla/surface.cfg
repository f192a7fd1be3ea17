SPECIFICATION SurfaceSpec
CONSTANTS
  Configs <- Sound
  OfferSets <- MCOffers
  MaxChanges = 2
  MaxOutages = 2
CHECK_DEADLOCK FALSE
INVARIANTS
    CallReachesLister
    PagesComplete
    PriorityKeepsBest
