CONSTANTS
  t1 = t1
  t2 = t2
  Thread = {t1, t2}
  p1 = p1
  p2 = p2
  p3 = p3
  Ptr = {p1, p2}
  NoThread = NoThread
  NoEntry = NoEntry
  NoPath = NoPath
  MapJob <- RoundJobs
  MapCall <- RoundCalls
  OpenPath <- OneOpen
  Bdvd <- MCBdvd
  EntrySize = 1
  MaxTable = 2
SPECIFICATION LiveSpec
PROPERTY Completes
