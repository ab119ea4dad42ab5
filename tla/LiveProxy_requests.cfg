\* Two clients ask for, share, leave and ask again for two channels.
SPECIFICATION ProxySpec
CONSTANTS
  NULL = NULL
  Call = {c1, c2}
  Addr = {a1, a2}
  Handle = {h1, h2}
  Rid = {r1, r2}
  Ports <- OnlyNoPorts
  MaxParallel = {0, 1}
  MayFail = {}
  IdleExpire = 1
  Word = 4
  MaxSlots = 2
SYMMETRY Symmetry
INVARIANTS
  NothingLeftOver
  ServedKeepsPlaying
\* The daemon is stopped in the end, and its clients are gone.
CHECK_DEADLOCK FALSE
