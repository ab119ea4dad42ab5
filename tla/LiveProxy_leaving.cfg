\* The event loop and the timer are fair; the SDK may be silent.
SPECIFICATION ProxyLoopSpec
CONSTANTS
  NULL = NULL
  Call = {c1, c2}
  Addr = {a1}
  Handle = {h1}
  Rid = {r1}
  Ports <- OnlyNoPorts
  MaxParallel = {0, 1}
  MayFail = {}
  IdleExpire = 1
  Word = 4
  MaxSlots = 2
PROPERTIES
  BrokenIsForgotten
  SessionsDrain
  RequestAnswered
\* The daemon is stopped in the end, and its clients are gone.
CHECK_DEADLOCK FALSE
