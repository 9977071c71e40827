SPECIFICATION FairSpec
CONSTANTS
  a = a
  b = b
  NoCall = NoCall
  Calls = {a, b}
  Cancellable = {a, b}
  MaxRetries = 2
  MaxFrames = 6
  MaxFaults = 2

INVARIANTS TypeOK StreamAligned OwnReply
PROPERTIES KeepsPromise EveryCallReturns
