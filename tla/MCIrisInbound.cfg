\* Rooms are not declared symmetric: liveness is checked.
CONSTANTS
  r1 = r1
  r2 = r2
  t1 = t1
  Rooms <- MCRooms
  Texts <- MCTexts
  WorkerCounts <- MCWorkerCounts
  BufCap = 1
  DedupWindow = 1
  MaxFrames = 3
  MaxConns = 2
SPECIFICATION FairSpec
INVARIANTS SerialPerRoom NoSilentLoss
PROPERTIES InRoomOrder QueuedStarts ShutdownCompletes
