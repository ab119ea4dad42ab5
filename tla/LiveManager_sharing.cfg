\* Two rids: sharing, release, expiry, eviction, and a max_parallel_ that
\* turns negative when check_parallel copies it to an int. check_channels may
\* report any channel as failed.
SPECIFICATION Spec
CONSTANTS
  c1 = c1 c2 = c2 c3 = c3 a1 = a1 a2 = a2 a3 = a3
  h1 = h1 h2 = h2 h3 = h3 r1 = r1 r2 = r2
  Call = {c1, c2}
  Addr = {a1, a2}
  Handle = {h1, h2}
  Rid = {r1, r2}
  Ports <- NoPorts
  MaxParallel = {1, 2, 4}
  MayFail = {h1, h2}
  IdleExpire = 2
  Word = 5
  MaxSlots = 2
  NULL = NULL
SYMMETRY Symmetry
INVARIANTS
  VectorIsHeap SessionsOwned StoppedHasUser
  TypeOK RefCountExact CallbackOnce ServedWhatAsked CacheWithinLimit IdleInReleaseOrder
PROPERTIES
  EvictedOnlyWhenFull
