CONSTANTS
  t1 = t1
  t2 = t2
  t3 = t3
  h1 = h1
  Thread = {t1, t2, t3}
  VshThread = {t1}
  Storage = storage
  Dispatcher = dispatcher
  Nobody = nobody
  Handle = {h1}
  HandleOf <- SharedHandle
  Disc = {d1, d2}
  Off = off
  MaxSectors = 2
  MaxCalls = 2
SPECIFICATION Spec
INVARIANTS OwnAnswer NoEventLost OnlyUnlockedEventRaces
SYMMETRY Symmetry
CHECK_DEADLOCK FALSE
