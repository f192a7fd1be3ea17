SPECIFICATION SurfaceSpec
CONSTANTS
  Configs <- Disagreeing
  OfferSets <- MCOffers
  MaxChanges = 1
  MaxOutages = 0
CHECK_DEADLOCK FALSE
INVARIANTS
    CallReachesLister
    PagesComplete
    PriorityKeepsBest
    PassthroughLive
    RestIsFindable
