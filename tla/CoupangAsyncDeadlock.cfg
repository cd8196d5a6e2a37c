\* As many slots as deferred bootstraps: each waits for a slot to seed with.
\* The system stops then, without a successor state.
CONSTANTS
  l1 = l1
  l2 = l2
  t1 = t1
  t2 = t2
  NoLookup = NoLookup
  Watchlist = Watchlist
  Lookups <- MCLookups
  Tracks <- MCTracks
  Settings <- DeferredSettings
  MaxProducts = 2
  AsyncLimit = 2
SPECIFICATION FairSpec
PROPERTY AsyncWorkObservesShutdown
CHECK_DEADLOCK FALSE
