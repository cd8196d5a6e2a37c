\* No symmetry: liveness is checked.
CONSTANTS
  l1 = l1
  l2 = l2
  t1 = t1
  t2 = t2
  NoLookup = NoLookup
  Watchlist = Watchlist
  Lookups <- MCLookups
  Tracks <- MCTracks
  Settings <- MCSettings
  MaxProducts = 1
  AsyncLimit = 3
SPECIFICATION FairSpec
INVARIANTS SeededOnce
PROPERTIES ImplementsSingleFlight FlightsComplete LookupsAnswer CapacityRestored
