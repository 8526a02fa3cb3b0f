SPECIFICATION Spec
CONSTANTS
  x = x
  y = y
  NBatch = 1
  Chunk = {1, 2}
  Value = {x, y}
  None = None
  Unreadable = Unreadable
  Poller = {p}
  Edge = {e}
  PollLimit = 1
  EdgeLimit = 2
  EdgeChunks = 2
  MaxAttempts = 2
  Masters <- NewAndOld
  Files <- ThreeFiles
  MaxFaults = 2
INVARIANTS
  TypeOK
  PhasesComplete
  PublishedAsShown
PROPERTIES
  KeepsPromise
  UploadSettles
  ConfirmedSettles
\* Nothing is left to do when the batch has ended.
CHECK_DEADLOCK FALSE
