\* Lists that overlap, grow, shrink, change ports and lose entries.
SPECIFICATION SSNSpec
CONSTANTS
  NULL = NULL
  r1 = r1 r2 = r2
  Call = {c1, c2, c3}
  Addr = {a1, a2}
  Handle = {h1, h2}
  Rid = {r1, r2}
  Ports <- SmallPorts
  MaxParallel = {1}
  MayFail = {}
  IdleExpire = 1
  Word = 4
  MaxSlots = 2
  Lists <- SomeLists
  PortWord = 4
  MaxFetches = 2
SYMMETRY Symmetry
INVARIANTS
  HandlesOfOneList
  RunsTheList
PROPERTIES
  ListedKeepsRunning
\* The daemon is stopped in the end, and no fetch is on its way.
CHECK_DEADLOCK FALSE
