\* A fair event loop; the live module may never answer.
SPECIFICATION LoopSpec
CONSTANTS
  c1 = c1 c2 = c2 c3 = c3 a1 = a1 a2 = a2 a3 = a3
  h1 = h1 h2 = h2 h3 = h3 r1 = r1 r2 = r2
  Call = {c1, c2}
  Addr = {a1, a2}
  Handle = {h1}
  Rid = {r1}
  Ports <- NoPorts
  MaxParallel = {1}
  MayFail = {}
  IdleExpire = 2
  Word = 3
  MaxSlots = 1
  NULL = NULL
PROPERTIES
  StoppedCallAnswered CancelResolved IdleReclaimed
