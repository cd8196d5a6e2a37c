\* No symmetry: liveness is checked.
CONSTANTS
  l1 = l1
  l2 = l2
  t1 = t1
  NoActor = NoActor
  Watchlist = Watchlist
  Lookups <- MCLookups
  Tracks <- MCTracks
  AsyncLimit = 2
  Coalescing = TRUE
  MaxCrashes = 1
SPECIFICATION FairSpec
INVARIANTS MarkMeansInFlight
PROPERTIES ImplementsSingleFlight LookupsReturn
