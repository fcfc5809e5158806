SPECIFICATION LiveSpec
CONSTANTS
  b1 = b1  b2 = b2
  Books = {b1, b2}
  Unmapped = Unmapped
  Malformed = Malformed
  None = None
  Threshold = 3
  MaxBackoff = 6
  MaxFrames = 2
  FailureCap = 4
INVARIANTS TypeOK NoFrameDropped NoReaderLeft SeededBookAccepted WarnsOncePerOutage BackoffFollowsOutage
PROPERTIES StopsWhenCancelled Reconnects
