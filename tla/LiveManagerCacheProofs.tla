----------------------- MODULE LiveManagerCacheProofs -----------------------
(***************************************************************************)
(* Proofs about LiveManager as a cache: what may end a channel, how many   *)
(* unused channels are kept, and in which order they go.                   *)
(***************************************************************************)
EXTENDS LiveManagerSessionProofs

---------------------------------------------------------------------------
(* The room check_parallel computes, a size_t assigned to an int *)

LEMMA ModSmall ==
  ASSUME NEW n \in Nat \ {0}, NEW x \in 0 .. n - 1
  PROVE  x % n = x
OBVIOUS

LEMMA ModBelow ==
  ASSUME NEW n \in Nat \ {0}, NEW x \in 1 .. n
  PROVE  (0 - x) % n = n - x
OBVIOUS

LEMMA HalfWord ==
  /\ MaxInt \in Nat /\ 2 * MaxInt <= Word - 1
BY WidthAssumption DEF MaxInt

LEMMA RoomLeft ==
  ASSUME NEW m \in 0 .. Word - 1, NEW u \in Nat
  PROVE  LET left == LeftSize(m, u) IN
         /\ left \in Int
         /\ u <= m /\ left >= 0 => left = m - u
         /\ m <= MaxInt /\ left < 0 => u > m
         /\ u > m /\ u <= MaxInt => left < 0
<1> DEFINE x == (m - u) % Word
           left == LeftSize(m, u)
<1>1. Word \in Nat \ {0} /\ MaxInt \in Nat /\ 2 * MaxInt <= Word - 1
  BY HalfWord, WidthAssumption
<1>2. x \in 0 .. Word - 1
  <2>1. m - u \in Int
    OBVIOUS
  <2> QED
    BY <1>1, <2>1, ModRange
<1>3. left = IF x <= MaxInt THEN x ELSE x - Word
  BY DEF LeftSize, ToInt
<1>4. CASE u <= m
  <2>1. m - u \in 0 .. Word - 1
    BY <1>1, <1>4
  <2>2. x = m - u
    BY <1>1, <2>1, ModSmall
  <2> HIDE DEF x, left
  <2> QED
    BY <1>1, <1>2, <1>3, <1>4, <2>2 DEF left
<1>5. CASE u > m
  <2>1. ASSUME u <= MaxInt PROVE left < 0
    <3>1. u - m \in 1 .. Word /\ m - u = 0 - (u - m)
      BY <1>1, <1>5, <2>1
    <3>2. x = Word - (u - m)
      <4> DEFINE y == u - m
      <4> HIDE DEF y
      <4>1. y \in 1 .. Word /\ m - u = 0 - y
        BY <3>1 DEF y
      <4>2. (0 - y) % Word = Word - y
        BY <1>1, <4>1, ModBelow
      <4> QED
        BY <4>1, <4>2 DEF y
    <3> HIDE DEF x
    <3>3. x > MaxInt
      BY <1>1, <2>1, <3>2
    <3> QED
      BY <1>1, <1>2, <1>3, <3>3
  <2> HIDE DEF x
  <2> QED
    BY <1>1, <1>2, <1>3, <1>5, <2>1
<1> QED
  BY <1>4, <1>5

---------------------------------------------------------------------------
(* Counting by rank: how many members of a set have a rank up to n *)

LEMMA RankedUpTo ==
  ASSUME NEW K \in SUBSET Nat, IsFiniteSet(K), NEW n \in Int
  PROVE  LET L == {i \in K : RankIn(K, i) <= n} IN
         /\ IsFiniteSet(L) /\ Cardinality(L) \in Nat
         /\ Cardinality(L) # 0 => n >= 1 /\ Cardinality(L) <= n
         /\ n >= 0 /\ L # K => Cardinality(L) = n
<1> DEFINE L == {i \in K : RankIn(K, i) <= n}
           N == Cardinality(K)
           f == [i \in L |-> RankIn(K, i)]
<1>1. /\ N \in Nat
      /\ \A i \in K : RankIn(K, i) \in 1 .. N
      /\ \A k \in 1 .. N : \E i \in K : RankIn(K, i) = k
  BY RankIsBijection
<1>2. IsFiniteSet(L) /\ Cardinality(L) \in Nat
  BY FS_Subset, FS_CardinalityType
<1>3. \A i, j \in L : f[i] = f[j] => i = j
  BY RankIsInjective
<1>4. \A i \in L : f[i] \in 1 .. n
  <2> SUFFICES ASSUME NEW i \in K, RankIn(K, i) <= n
               PROVE  RankIn(K, i) \in 1 .. n
    OBVIOUS
  <2>1. RankIn(K, i) \in 1 .. N
    BY <1>1
  <2> QED
    BY <1>1, <2>1
<1>a. \A i \in K : i \notin L => ~ (RankIn(K, i) <= n)
  OBVIOUS
<1>b. \A i \in K : RankIn(K, i) <= n => i \in L /\ f[i] = RankIn(K, i)
  OBVIOUS
<1>c. L \subseteq K /\ f \in [L -> 1 .. n]
  BY <1>4
<1> HIDE DEF L, f
<1>5. ASSUME Cardinality(L) # 0
      PROVE  n >= 1 /\ Cardinality(L) <= n
  <2>1. L # {}
    BY <1>5, FS_EmptySet
  <2>2. n >= 1
    <3>1. PICK i \in L : TRUE
      BY <2>1
    <3>2. f[i] \in 1 .. n
      BY <1>4, <3>1
    <3> QED
      BY <3>2
  <2>3. f \in Injection(L, 1 .. n)
    BY <1>3, <1>c, Fun_IsInj
  <2>4. IsFiniteSet(1 .. n) /\ Cardinality(1 .. n) = n
    BY <2>2, FS_Interval
  <2> QED
    BY <2>2, <2>3, <2>4, FS_Injection
<1>6. ASSUME n >= 0, L # K
      PROVE  Cardinality(L) = n
  <2>1. n < N
    <3>1. PICK i \in K : i \notin L
      BY <1>6, <1>c
    <3>2. RankIn(K, i) \in 1 .. N /\ ~ (RankIn(K, i) <= n)
      BY <1>1, <1>a, <3>1
    <3> HIDE DEF N
    <3> QED
      BY <1>1, <3>2
  <2>2. f \in Injection(L, 1 .. n)
    BY <1>3, <1>c, Fun_IsInj
  <2>3. f \in Surjection(L, 1 .. n)
    <3>2. ASSUME NEW k \in 1 .. n PROVE \E i \in L : f[i] = k
      <4>1. PICK i \in K : RankIn(K, i) = k
        BY <1>1, <2>1
      <4>2. i \in L /\ f[i] = k
        BY <1>b, <4>1
      <4> QED
        BY <4>2
    <3> QED
      BY <1>c, <3>2 DEF Surjection
  <2>4. IsFiniteSet(1 .. n) /\ Cardinality(1 .. n) = n
    BY <1>6, FS_Interval
  <2> QED
    BY <2>2, <2>3, <2>4, FS_Injection
<1> QED
  BY <1>2, <1>5, <1>6 DEF L

(* A distinct sequence has as many positions for the members of X as X has *)
(* members.                                                                *)
LEMMA PositionsAreMembers ==
  ASSUME NEW S, NEW s \in Seq(S), Distinct(s), NEW X, X \subseteq Range(s)
  PROVE  LET P == {i \in DOMAIN s : s[i] \in X} IN
         /\ IsFiniteSet(P) /\ IsFiniteSet(X)
         /\ Cardinality(P) = Cardinality(X) /\ Cardinality(X) \in Nat
<1> DEFINE P == {i \in DOMAIN s : s[i] \in X}
           f == [i \in P |-> s[i]]
<1>1. DOMAIN s = 1 .. Len(s) /\ Len(s) \in Nat
  BY LenProperties
<1>2. IsFiniteSet(P)
  <2>1. IsFiniteSet(1 .. Len(s))
    BY <1>1, FS_Interval
  <2> QED
    BY <1>1, <2>1, FS_Subset
<1>3. f \in [P -> X] /\ \A i, j \in P : f[i] = f[j] => i = j
  BY DEF Distinct
<1>4. \A x \in X : \E i \in P : f[i] = x
  <2> SUFFICES ASSUME NEW x \in X
               PROVE  \E i \in P : f[i] = x
    OBVIOUS
  <2>1. PICK i \in DOMAIN s : s[i] = x
    BY DEF Range
  <2> QED
    BY <2>1
<1> HIDE DEF f, P
<1>5. f \in Injection(P, X) /\ f \in Surjection(P, X)
  BY <1>3, <1>4, Fun_IsInj DEF Surjection
<1>6. IsFiniteSet(X) /\ Cardinality(X) = Cardinality(P)
  BY <1>2, <1>5, FS_Surjection
<1> QED
  BY <1>2, <1>6, FS_CardinalityType DEF P

---------------------------------------------------------------------------
(* What check_parallel leaves *)

UsedCells(ch) == {a \in Addr : Used(ch[a])}
IdleCells(ch) == {a \in Addr : Idle(ch[a])}

LEMMA StopOneEnds ==
  ASSUME NEW x \in Channel
  PROVE  ~ Active(StopOne(x))
<1>1. x.status \in {"free", "started", "working", "cancel", "stopped"}
  BY DEF Channel, Status
<1>2. StopOne(x).status \notin {"started", "working"}
  BY <1>1, StopOneSide
<1> QED
  BY <1>2 DEF Active

(* What runs is listed.                                                    *)
LEMMA RunningListed ==
  ASSUME NEW w, WorldOK(w)
  PROVE  /\ UsedCells(w.chan) \subseteq Range(w.channels)
         /\ IdleCells(w.chan) \subseteq Range(w.channels)
         /\ \A a \in Addr : Active(w.chan[a]) =>
              Used(w.chan[a]) \/ Idle(w.chan[a])
<1>1. \A a \in Addr : Active(w.chan[a]) => a \in Range(w.channels)
  BY DEF WorldOK, Active
<1>2. \A a \in Addr : w.chan[a].nref \in Nat
  BY DEF WorldOK, WorldType, Channel
<1> QED
  BY <1>1, <1>2 DEF UsedCells, IdleCells, Used, Idle

LEMMA CellCounts ==
  ASSUME NEW w, WorldOK(w)
  PROVE  /\ Cardinality(Users(w)) = Cardinality(UsedCells(w.chan))
         /\ Cardinality(UsedCells(w.chan)) \in Nat
         /\ Cardinality({i \in DOMAIN w.channels : Idle(w.chan[w.channels[i]])})
              = Cardinality(IdleCells(w.chan))
         /\ Cardinality(IdleCells(w.chan)) \in Nat
         /\ IsFiniteSet(UsedCells(w.chan)) /\ IsFiniteSet(IdleCells(w.chan))
<1> DEFINE U == UsedCells(w.chan)
           I == IdleCells(w.chan)
           s == w.channels
<1>1. /\ s \in Seq(Addr) /\ Distinct(s) /\ U \subseteq Range(s) /\ I \subseteq Range(s)
      /\ \A i \in DOMAIN s : s[i] \in Addr
  <2>1. s \in Seq(Addr) /\ Distinct(s)
    BY DEF WorldOK, WorldType
  <2>2. \A i \in DOMAIN s : s[i] \in Addr
    BY <2>1, ElementOfSeq, LenProperties
  <2> QED
    BY <2>1, <2>2, RunningListed
<1>2. /\ Users(w) = {i \in DOMAIN s : s[i] \in U}
      /\ {i \in DOMAIN s : Idle(w.chan[s[i]])} = {i \in DOMAIN s : s[i] \in I}
  BY <1>1 DEF Users, UsedCells, IdleCells
<1> HIDE DEF U, I, s
<1>3. /\ IsFiniteSet(U) /\ Cardinality({i \in DOMAIN s : s[i] \in U}) = Cardinality(U)
      /\ Cardinality(U) \in Nat
  BY <1>1, PositionsAreMembers
<1>4. /\ IsFiniteSet(I) /\ Cardinality({i \in DOMAIN s : s[i] \in I}) = Cardinality(I)
      /\ Cardinality(I) \in Nat
  BY <1>1, PositionsAreMembers
<1> QED
  BY <1>2, <1>3, <1>4 DEF U, I, s

(* The first unused channels stay, as many as there is room for.           *)
LEMMA CheckParallelRoom ==
  ASSUME NEW w, WorldOK(w), NEW m \in 0 .. Word - 1
  PROVE  LET z == CheckParallel(w, m)
             n == Cardinality(IdleCells(z.chan))
             left == LeftSize(m, Cardinality(UsedCells(w.chan)))
         IN  /\ UsedCells(z.chan) = UsedCells(w.chan)
             /\ left \in Int /\ n \in Nat
             /\ n # 0 => left >= 1 /\ n <= left
             /\ \A a \in Addr :
                  Idle(w.chan[a]) /\ ~ Idle(z.chan[a]) /\ left >= 0 => n = left
<1> DEFINE s     == w.channels
           left  == LeftSize(m, Cardinality(UsedCells(w.chan)))
           evict == {i \in DOMAIN s :
                       /\ w.chan[s[i]].nref = 0
                       /\ \/ Stopped(w.chan[s[i]])
                          \/ IdleUpTo(w, i) > left}
           S     == {s[i] : i \in evict}
           K     == {i \in DOMAIN s : Idle(w.chan[s[i]])}
           L     == {i \in K : RankIn(K, i) <= left}
           z     == CheckParallel(w, m)
           I     == IdleCells(z.chan)
<1>1. /\ w \in WorldType /\ w.chan \in [Addr -> Channel] /\ s \in Seq(Addr) /\ Distinct(s)
      /\ Len(s) \in Nat /\ DOMAIN s = 1 .. Len(s) /\ \A i \in DOMAIN s : s[i] \in Addr
  BY ElementOfSeq, LenProperties DEF WorldOK, WorldType
<1>2. z = StopAll(w, S) /\ left \in Int
  BY CellCounts, RoomLeft DEF CheckParallel
<1>3. \A a \in Addr : z.chan[a] = IF a \in S THEN StopOne(w.chan[a]) ELSE w.chan[a]
  <2> HIDE DEF S, z
  <2>1. StoppedFields(w, S, z)
    BY <1>1, <1>2, StopAllFields
  <2> QED
    BY <2>1 DEF StoppedFields
<1>4. \A i \in DOMAIN s : IdleUpTo(w, i) = RankIn(K, i)
  <2> SUFFICES ASSUME NEW i \in DOMAIN s
               PROVE  IdleUpTo(w, i) = RankIn(K, i)
    OBVIOUS
  <2>1. \A j : j \in 1 .. i <=> j \in DOMAIN s /\ j <= i
    BY <1>1
  <2>2. {j \in 1 .. i : Idle(w.chan[s[j]])} = {j \in K : j <= i}
    BY <2>1
  <2> QED
    BY <2>2 DEF IdleUpTo, RankIn
<1>5. \A a \in S : w.chan[a].nref = 0
  OBVIOUS
<1>6. \A i \in DOMAIN s : s[i] \in S => i \in evict
  BY <1>1 DEF Distinct
<1>7. K \in SUBSET Nat /\ IsFiniteSet(K)
  <2>1. IsFiniteSet(1 .. Len(s))
    BY <1>1, FS_Interval
  <2> QED
    BY <1>1, <2>1, FS_Subset
<1>8. \A a \in Addr : a \in S => ~ Active(z.chan[a])
  <2> HIDE DEF S, z
  <2> QED
    BY <1>1, <1>3, StopOneEnds
<1>9. UsedCells(z.chan) = UsedCells(w.chan)
  <2> HIDE DEF S, z
  <2>1. \A a \in Addr : a \in S => ~ Used(w.chan[a]) /\ ~ Used(z.chan[a])
    BY <1>5, <1>8 DEF Used
  <2> QED
    BY <1>3, <2>1 DEF UsedCells
<1>10. {i \in DOMAIN s : s[i] \in I} = L
  <2> SUFFICES ASSUME NEW i \in DOMAIN s
               PROVE  s[i] \in I <=> i \in K /\ RankIn(K, i) <= left
    OBVIOUS
  <2>1. s[i] \in I <=> s[i] \notin S /\ i \in K
    <3>1. s[i] \in Addr
      BY <1>1
    <3> HIDE DEF S, z
    <3> QED
      BY <1>3, <1>8, <3>1 DEF IdleCells, Idle
  <2>2. i \in K => (s[i] \in S <=> IdleUpTo(w, i) > left)
    <3> SUFFICES ASSUME i \in K
                 PROVE  s[i] \in S <=> IdleUpTo(w, i) > left
      OBVIOUS
    <3>1. w.chan[s[i]].nref = 0 /\ ~ Stopped(w.chan[s[i]])
      BY DEF Idle, Active, Stopped
    <3> HIDE DEF K, left
    <3> QED
      BY <1>6, <3>1
  <2>3. i \in K => RankIn(K, i) \in Nat
    BY <1>7, RankIsBijection
  <2>4. IdleUpTo(w, i) = RankIn(K, i)
    BY <1>4
  <2> HIDE DEF I, S, K, left
  <2> QED
    BY <1>2, <2>1, <2>2, <2>3, <2>4
<1>11. I \subseteq Range(s)
  <2>1. ASSUME NEW a \in I PROVE a \in Range(s)
    <3>1. a \in Addr /\ Idle(z.chan[a])
      BY DEF IdleCells
    <3>2. Idle(w.chan[a])
      <4> HIDE DEF S, z
      <4> QED
        BY <1>3, <1>8, <3>1 DEF Idle
    <3> QED
      BY <3>1, <3>2, RunningListed DEF IdleCells
  <2> QED
    BY <2>1
<1> HIDE DEF I, K, z, S, evict, left, s
<1>12. Cardinality(I) = Cardinality(L)
  <2>1. Cardinality({i \in DOMAIN s : s[i] \in I}) = Cardinality(I)
    BY <1>1, <1>11, PositionsAreMembers
  <2> QED
    BY <1>10, <2>1
<1>13. ASSUME left \in Int
       PROVE  /\ Cardinality(L) \in Nat
              /\ Cardinality(L) # 0 => left >= 1 /\ Cardinality(L) <= left
              /\ left >= 0 /\ L # K => Cardinality(L) = left
  BY <1>7, <1>13, RankedUpTo
<1>14. ASSUME NEW a \in Addr, Idle(w.chan[a]), ~ Idle(z.chan[a]) PROVE L # K
  <2>1. a \in Range(s)
    BY <1>14, RunningListed DEF IdleCells, s
  <2>2. PICK i \in DOMAIN s : s[i] = a
    BY <2>1 DEF Range
  <2>3. i \in K
    BY <1>14, <2>2 DEF K, s
  <2>4. s[i] \notin I
    BY <1>14, <2>2 DEF I, IdleCells
  <2> QED
    BY <1>10, <2>3, <2>4
<1> QED
  BY <1>2, <1>9, <1>12, <1>13, <1>14 DEF I, z, left

---------------------------------------------------------------------------
(* What a step does to the channels that run *)

(* An unused channel that goes is due to expire, any channel that goes is  *)
(* reported, restarted or shut down.                                       *)
Excuse(a) ==
  \/ running /\ ~ running'
  \/ \E c \in Call : /\ want[c] = NULL /\ want'[c] = chan[a].rid
                     /\ chan[a].nref # 0 => handle'[c].channel # a
  \/ Reported(a)
  \/ chan[a].nref = 0 /\ chan[a].expire = 1

(* The channels of X may stop, nothing else does and nothing is started.   *)
Drops(X) ==
  /\ max_parallel' = max_parallel
  /\ \A a \in Addr : /\ Used(chan'[a]) => Used(chan[a])
                     /\ Idle(chan'[a]) => Idle(chan[a])
  /\ \A a \in Addr \ X : Active(chan[a]) => Active(chan'[a])

(* The channels of X may stop, and check_parallel ends the handler.        *)
Cuts(X) ==
  \E w : /\ WorldOK(w) /\ chan' = CheckParallel(w, max_parallel').chan
         /\ \A a \in Addr \ X : Active(chan[a]) => Active(w.chan[a])

CacheStep == \E X \in SUBSET Addr : (Drops(X) \/ Cuts(X)) /\ \A a \in X : Excuse(a)

LEMMA StopAllCells ==
  ASSUME NEW w, w \in WorldType, NEW S, NEW a \in Addr
  PROVE  IF a \in S THEN ~ Active(StopAll(w, S).chan[a])
                    ELSE StopAll(w, S).chan[a] = w.chan[a]
<1> DEFINE z == StopAll(w, S)
<1>1. z.chan[a] = IF a \in S THEN StopOne(w.chan[a]) ELSE w.chan[a]
  <2>1. StoppedFields(w, S, z)
    BY StopAllFields
  <2> HIDE DEF z
  <2> QED
    BY <2>1 DEF StoppedFields
<1>2. w.chan[a] \in Channel
  BY DEF WorldType
<1> HIDE DEF z
<1>3. a \in S => ~ Active(z.chan[a])
  BY <1>1, <1>2, StopOneEnds
<1> QED
  BY <1>1, <1>3 DEF z

LEMMA SameSideActive ==
  ASSUME NEW w, NEW v, SameSide(w, v), NEW a \in Addr
  PROVE  Active(v.chan[a]) <=> Active(w.chan[a])
BY DEF SameSide, SameChannel, Active

LEMMA UnchangedCache ==
  ASSUME UNCHANGED <<chan, max_parallel>>
  PROVE  CacheStep
<1>1. Drops({})
  BY DEF Drops
<1> QED
  BY <1>1 DEF CacheStep

LEMMA CutsAre ==
  ASSUME NEW w, WorldOK(w), Become(CheckParallel(w, max_parallel')),
         \A a \in Addr : Active(chan[a]) => Active(w.chan[a])
  PROVE  CacheStep
<1>1. chan' = CheckParallel(w, max_parallel').chan
  BY DEF Become
<1>2. Cuts({})
  BY <1>1 DEF Cuts
<1> QED
  BY <1>2 DEF CacheStep

LEMMA SetMaxParallelCache ==
  ASSUME SessInv, NEW m \in MaxParallel, SetMaxParallel(m)
  PROVE  CacheStep
BY SessInvParts, CutsAre DEF SetMaxParallel

LEMMA StopChannelCache ==
  ASSUME SessInv, NEW c \in Call, StopChannel(c)
  PROVE  CacheStep
<1> DEFINE a == handle[c].channel
           w == Released(c)
<1>1. /\ a # NULL /\ Become(CheckParallel(w, max_parallel')) /\ max_parallel' = max_parallel
      /\ handle' = [handle EXCEPT ![c] = NoHandle]
  BY DEF StopChannel
<1>2. a \in Addr /\ chan[a].nref \in Nat \ {0}
  BY <1>1, SessInvParts, OneHolderLess
<1> HIDE DEF a
<1>3. a = handle[c].channel
  BY DEF a
<1>4. WorldOK(w) /\ SameSide(World, w)
  BY <1>2, <1>3, SessInvParts, ReleasedOK, ReleasedSame
<1> HIDE DEF w
<1>5. \A b \in Addr : Active(chan[b]) => Active(w.chan[b])
  BY <1>4, SessInvParts, SameSideActive
<1> QED
  BY <1>1, <1>4, <1>5, CutsAre

LEMMA StartSharedCache ==
  ASSUME SessInv, NEW c \in Call, NEW r \in Rid, NEW p \in Ports, StartShared(c, r, p)
  PROVE  CacheStep
<1>1. PICK a \in Matching(World, r) : Become(CheckParallel(Attached(c, a), max_parallel))
  BY DEF StartShared
<1>2. max_parallel' = max_parallel
  BY DEF StartShared
<1> DEFINE w == Attached(c, a)
<1>3. a \in Range(channels)
  BY SessInvParts DEF Matching
<1>4. WorldOK(w) /\ SameSide(World, w)
  BY <1>3, SessInvParts, AttachedOK, AttachedSame
<1> HIDE DEF w
<1>5. \A b \in Addr : Active(chan[b]) => Active(w.chan[b])
  BY <1>4, SessInvParts, SameSideActive
<1>6. Become(CheckParallel(w, max_parallel'))
  BY <1>1, <1>2 DEF w
<1> QED
  BY <1>4, <1>5, <1>6, CutsAre

LEMMA ShutdownCache ==
  ASSUME SessInv, Shutdown
  PROVE  CacheStep
<1> DEFINE z == StopAll(World, Range(channels))
<1>1. Become(z) /\ max_parallel' = max_parallel /\ running /\ ~ running'
  BY DEF Shutdown
<1>2. \A a \in Addr : z.chan[a] = chan[a] \/ ~ Active(z.chan[a])
  BY SessInvParts, StopAllCells DEF WorldOK
<1> HIDE DEF z
<1>3. Drops(Addr)
  BY <1>1, <1>2 DEF Drops, Become, Used, Idle
<1>4. \A a \in Addr : Excuse(a)
  BY <1>1 DEF Excuse
<1> QED
  BY <1>3, <1>4 DEF CacheStep

(* The callback of the live module ends a cancelled channel, or leaves one *)
(* running that ran.                                                       *)
Concludes(v, z, a) ==
  /\ z = StopAll(v, {a}) /\ WorldOK(v) /\ v.channels = channels
  /\ \A b \in Addr \ {a} : v.chan[b] = chan[b]
  /\ ~ Active(chan[a]) /\ ~ Active(v.chan[a])

Continues(z, a) ==
  /\ z.channels = channels
  /\ \A b \in Addr \ {a} : z.chan[b] = chan[b]
  /\ Active(chan[a]) /\ Active(z.chan[a])
  /\ z.chan[a].nref = chan[a].nref /\ z.chan[a].expire = chan[a].expire
  /\ z.chan[a].rid = chan[a].rid /\ z.chan[a].ports = chan[a].ports
  /\ z.chan[a].status = "working"

LEMMA StartedCells ==
  ASSUME SessInv, NEW a \in Addr, done[a] # <<>>
  PROVE  LET z == Started(a, Head(done[a])) IN
         (\E v : Concludes(v, z, a)) \/ Continues(z, a)
<1> DEFINE m == Head(done[a])
           x == chan[a]
           d == [done EXCEPT ![a] = Tail(done[a])]
           w == [World EXCEPT !.done = d]
           z == Started(a, m)
<1>1. /\ chan \in [Addr -> Channel] /\ done \in [Addr -> Seq(Answer)] /\ x \in Channel
      /\ World \in WorldType /\ WorldOK(World) /\ World.chan = chan /\ World.channels = channels
  BY SessInvParts DEF RefInv, TypeOK, WorldOK
<1>2. x.status = "cancel" \/ x.status = "started"
  <2>1. Due(x, a, sess, done[a])
    BY DEF SessInv, SessOK
  <2>2. x.status \in {"free", "started", "working", "cancel", "stopped"}
    BY <1>1 DEF Channel, Status
  <2> QED
    BY <2>1, <2>2 DEF Due
<1>3. d \in [Addr -> Seq(Answer)]
  <2>1. done[a] \in Seq(Answer)
    BY <1>1
  <2> QED
    BY <1>1, <2>1, HeadTailProperties
<1>4. [World EXCEPT !.done[a] = Tail(@)] = w
  BY DEF World
<1>5. w \in WorldType /\ w.chan = chan /\ w.channels = channels
  BY <1>1, <1>3 DEF WorldType
<1>6. a \in Range(channels)
  BY <1>2, SessInvParts DEF RefInv, VectorIsHeap
<1> HIDE DEF w, m, d
<1>7. WorldOK(w)
  BY <1>1, <1>5 DEF WorldOK
<1>8. CASE x.status = "cancel"
  <2> DEFINE y == [x EXCEPT !.status = "stopped"]
             v == [w EXCEPT !.chan[a].status = "stopped"]
  <2>1. z = StopAll(v, {a})
    BY <1>4, <1>6, <1>8 DEF Started, Resolved
  <2>2. v.chan = [chan EXCEPT ![a] = y]
    BY <1>5, StatusFields
  <2>3. y.status = "stopped"
    BY <1>1 DEF Channel
  <2>4. WorldOK(v) /\ v.channels = channels
    <3>1. a \in Range(w.channels) /\ "stopped" \in Status \ {"free"}
      BY <1>5, <1>6 DEF Status
    <3> QED
      BY <1>5, <1>7, <3>1, PutStatusOK
  <2> HIDE DEF v, y, x, z
  <2>5. v.chan[a] = y /\ \A b \in Addr \ {a} : v.chan[b] = chan[b]
    BY <1>1, <2>2
  <2>6. ~ Active(v.chan[a]) /\ ~ Active(x)
    BY <1>8, <2>3, <2>5 DEF Active
  <2>7. Concludes(v, z, a)
    BY <2>1, <2>4, <2>5, <2>6 DEF Concludes, x
  <2> QED
    BY <2>7 DEF z, m
<1>9. CASE x.status = "started"
  <2> DEFINE y1 == [x EXCEPT !.status = "working"]
             y  == [y1 EXCEPT !.ec = m.ec, !.url = m.url, !.call_backs = <<>>]
             v  == [w EXCEPT !.chan[a].status = "working"]
  <2>1. z = Responded(v, a, m)
    BY <1>4, <1>6, <1>9 DEF Started
  <2>2. v.chan = [chan EXCEPT ![a] = y1]
    BY <1>5, StatusFields
  <2>3. v \in WorldType /\ v.channels = channels
    <3>1. a \in Range(w.channels) /\ "working" \in Status \ {"free"}
      BY <1>5, <1>6 DEF Status
    <3> QED
      BY <1>5, <1>7, <3>1, PutStatusOK DEF WorldOK
  <2>10. v \in WorldType
    BY <2>3
  <2>4. /\ y.status = "working" /\ y.nref = x.nref /\ y.expire = x.expire
        /\ y.rid = x.rid /\ y.ports = x.ports
    BY <1>1 DEF Channel
  <2>11. y = ToldOf(y1, m)
    BY DEF ToldOf
  <2> HIDE DEF v, y1, z, m
  <2>5. v.chan[a] = y1 /\ \A b \in Addr \ {a} : v.chan[b] = chan[b]
    BY <1>1, <2>2
  <2>6. /\ z.chan = [v.chan EXCEPT ![a] = ToldOf(v.chan[a], m)]
        /\ z.channels = v.channels
    <3>1. Responded(v, a, m).channels = v.channels
      BY <2>3 DEF Responded, WorldType
    <3>2. Responded(v, a, m).chan = [v.chan EXCEPT ![a] = ToldOf(v.chan[a], m)]
      BY <2>10, RespondedCells
    <3> QED
      BY <2>1, <3>1, <3>2
  <2>7. z.chan[a] = y /\ \A b \in Addr \ {a} : z.chan[b] = chan[b]
    BY <2>3, <2>5, <2>6, <2>11 DEF WorldType
  <2> HIDE DEF y
  <2>8. Active(z.chan[a]) /\ Active(x)
    BY <1>9, <2>4, <2>7 DEF Active
  <2>9. Continues(z, a)
    BY <2>3, <2>4, <2>6, <2>7, <2>8 DEF Continues
  <2> QED
    BY <2>9 DEF z, m
<1> QED
  BY <1>2, <1>8, <1>9

LEMMA HandleStartChannelCache ==
  ASSUME SessInv, NEW a \in Addr, HandleStartChannel(a)
  PROVE  CacheStep
<1> DEFINE z == Started(a, Head(done[a]))
<1>1. done[a] # <<>> /\ Become(z) /\ max_parallel' = max_parallel
  BY DEF HandleStartChannel
<1>2. (\E v : Concludes(v, z, a)) \/ Continues(z, a)
  BY <1>1, StartedCells
<1> HIDE DEF z
<1>3. /\ \A b \in Addr \ {a} : z.chan[b] = chan[b]
      /\ Active(z.chan[a]) <=> Active(chan[a])
      /\ Active(z.chan[a]) => z.chan[a].nref = chan[a].nref
  <2>1. CASE \E v : Concludes(v, z, a)
    <3>1. PICK v : Concludes(v, z, a)
      BY <2>1
    <3>2. \A b \in Addr : IF b \in {a} THEN ~ Active(z.chan[b]) ELSE z.chan[b] = v.chan[b]
      BY <3>1, StopAllCells DEF Concludes, WorldOK
    <3> QED
      BY <3>1, <3>2 DEF Concludes
  <2>2. CASE Continues(z, a)
    BY <2>2 DEF Continues
  <2> QED
    BY <1>2, <2>1, <2>2
<1>4. chan' = z.chan
  BY <1>1 DEF Become
<1>5. Drops({})
  BY <1>1, <1>3, <1>4 DEF Drops, Used, Idle
<1> QED
  BY <1>5 DEF CacheStep

LEMMA ModWraps ==
  ASSUME NEW n \in Nat \ {0}, NEW x \in 0 .. n - 1
  PROVE  (x + n) % n = x
OBVIOUS

(* The countdown reaches zero from one only: it is never found at zero.    *)
LEMMA TickedToZero ==
  ASSUME NEW x \in Channel, Ticked(x).expire = 0
  PROVE  x.expire = 1
<1>1. Word \in Nat /\ Word >= 2 /\ x.expire \in 0 .. Word - 1
  <2>1. Word \in Nat /\ Word >= 2
    BY WidthAssumption
  <2>2. x.expire \in 0 .. Word - 1
    BY DEF Channel
  <2> QED
    BY <2>1, <2>2
<1>2. (x.expire + Word - 1) % Word = 0
  BY DEF Ticked, Channel
<1> DEFINE e == x.expire
<1> HIDE DEF e
<1>3. e \in 0 .. Word - 1 /\ (e + Word - 1) % Word = 0
  BY <1>1, <1>2 DEF e
<1>4. CASE e = 0
  <2>1. 0 + Word - 1 = Word - 1 /\ Word - 1 \in 0 .. Word - 1
    BY <1>1
  <2>2. (Word - 1) % Word = Word - 1
    BY <1>1, <2>1, ModSmall
  <2> QED
    BY <1>1, <1>3, <1>4, <2>1, <2>2
<1>5. CASE e # 0
  <2>1. e + Word - 1 = (e - 1) + Word /\ e - 1 \in 0 .. Word - 1
    BY <1>1, <1>3, <1>5
  <2>2. ((e - 1) + Word) % Word = e - 1
    BY <1>1, <2>1, ModWraps
  <2>3. e - 1 = 0
    BY <1>3, <2>1, <2>2
  <2>4. e = 1
    BY <1>1, <1>3, <2>3
  <2> QED
    BY <2>4 DEF e
<1> QED
  BY <1>4, <1>5

LEMMA HandleTimerCache ==
  ASSUME SessInv, NEW failed \in SUBSET MayFail, HandleTimer(failed)
  PROVE  CacheStep
<1> DEFINE front == SubSeq(channels, 1, WorkingEnd)
           bad   == {a \in Range(front) : chan[a].handle \in failed}
           p     == Partitioned(front, bad)
           w     == StopAll(p, bad)
           aged  == Aged(w)
           dead  == {a \in Unused(aged) : aged.chan[a].expire = 0}
           z     == StopAll(aged, dead)
           due   == {a \in Addr : chan[a].nref = 0 /\ chan[a].expire = 1}
           X     == (bad \cap Addr) \cup due
<1>1. Become(z) /\ UNCHANGED <<max_parallel, handle, want>>
  BY DEF HandleTimer, Expired
<1>2. WorldOK(p) /\ SameRefs(World, p) /\ bad \subseteq Range(p.channels)
  <2>1. bad \subseteq Range(front)
    OBVIOUS
  <2> HIDE DEF bad
  <2> QED
    BY <2>1, PartitionedOK, SessInvParts
<1>3. p.chan = chan
  BY DEF Partitioned, World
<1>4. \A a \in X : Excuse(a)
  BY <1>1 DEF Excuse, Reported
<1> HIDE DEF p, bad
<1>5. WorldOK(w) /\ SameRefs(p, w)
  BY <1>2, StopAllOK
<1>6. \A a \in Addr : IF a \in bad THEN ~ Active(w.chan[a]) ELSE w.chan[a] = chan[a]
  BY <1>2, <1>3, StopAllCells DEF WorldOK
<1> HIDE DEF w
<1>7. WorldOK(aged) /\ SameRefs(w, aged) /\ SameSide(w, aged)
  BY <1>5, AgedOK, AgedSame
<1>8. \A a \in Addr : aged.chan[a] = IF a \in Unused(w) THEN Ticked(w.chan[a]) ELSE w.chan[a]
  BY <1>5 DEF Aged, WorldOK, WorldType
<1>9. aged.channels = w.channels
  BY <1>5 DEF Aged, WorldOK, WorldType
<1> HIDE DEF aged
<1>10. \A a \in Addr : IF a \in dead THEN ~ Active(z.chan[a]) ELSE z.chan[a] = aged.chan[a]
  BY <1>7, StopAllCells DEF WorldOK
<1>11. \A a \in dead : a \notin bad => a \in due \/ ~ Active(chan[a])
  <2> SUFFICES ASSUME NEW a \in dead, a \notin bad
               PROVE  chan[a].nref = 0 /\ chan[a].expire = 1 /\ a \in Addr
    OBVIOUS
  <2>1. a \in Range(w.channels) /\ aged.chan[a].nref = 0 /\ aged.chan[a].expire = 0
    BY <1>9 DEF Unused
  <2>2. a \in Addr
    BY <1>5, <2>1 DEF WorldOK
  <2>3. w.chan[a] = chan[a] /\ w.chan[a].nref = 0
    BY <1>6, <1>7, <2>1, <2>2 DEF SameRefs
  <2>4. aged.chan[a] = Ticked(chan[a])
    BY <1>8, <2>1, <2>2, <2>3 DEF Unused
  <2>5. chan[a] \in Channel
    BY <2>2, SessInvParts DEF RefInv, TypeOK
  <2> QED
    BY <2>1, <2>2, <2>3, <2>4, <2>5, TickedToZero
<1> HIDE DEF dead, z
<1>12. ASSUME NEW a \in Addr \ X, Active(chan[a])
       PROVE  Active(z.chan[a])
  <2>1. a \notin bad /\ a \notin dead /\ w.chan[a] = chan[a]
    BY <1>6, <1>11, <1>12
  <2>2. Active(aged.chan[a])
    BY <1>7, <1>12, <2>1, SameSideActive
  <2> QED
    BY <1>10, <2>1, <2>2
<1>13. ASSUME NEW a \in Addr, Active(z.chan[a])
       PROVE  Active(chan[a]) /\ z.chan[a].nref = chan[a].nref
  <2>1. z.chan[a] = aged.chan[a]
    BY <1>10, <1>13
  <2>2. Active(w.chan[a])
    BY <1>7, <1>13, <2>1, SameSideActive
  <2>3. w.chan[a] = chan[a]
    BY <1>6, <2>2
  <2> QED
    BY <1>7, <2>1, <2>2, <2>3 DEF SameRefs
<1>14. chan' = z.chan
  BY <1>1 DEF Become
<1> HIDE DEF X
<1>15. Drops(X)
  BY <1>1, <1>12, <1>13, <1>14 DEF Drops, Used, Idle
<1>16. X \in SUBSET Addr
  BY DEF X
<1> QED
  BY <1>4, <1>15, <1>16 DEF CacheStep

LEMMA StartNewCache ==
  ASSUME SessInv, NEW c \in Call, NEW r \in Rid, NEW p \in Ports, StartNew(c, r, p)
  PROVE  CacheStep
<1> DEFINE old == Matching(World, r)
           w   == Cleared(r)
<1>1. /\ want[c] = NULL /\ handle[c].channel = NULL /\ want' = [want EXCEPT ![c] = r]
      /\ max_parallel' = max_parallel
      /\ \/ \E a \in Addr, h \in Handle :
              /\ w.chan[a].status = "free" /\ w.sess[h].st = "free"
              /\ Become(CheckParallel(Opened(w, c, r, p, a, h), max_parallel))
              /\ handle' = [handle EXCEPT ![c] = [channel |-> a, token |-> 1]]
         \/ /\ Become([w EXCEPT !.posted = Post(@, {c}, Failed)])
            /\ handle' = handle
  BY DEF StartNew, CanCall
<1>2. WorldOK(w) /\ SameRefs(World, w)
  BY ClearedOK, SessInvParts
<1>3. \A a \in Addr : /\ a \in old => ~ Active(w.chan[a])
                      /\ a \notin old => (Active(w.chan[a]) <=> Active(chan[a]))
  <2>1. PICK u : w = StopAll(u, old) /\ WorldOK(u) /\ SameSide(World, u)
    BY SessInvParts, ClearedForm
  <2> HIDE DEF w, old
  <2>2. \A a \in Addr : IF a \in old THEN ~ Active(w.chan[a]) ELSE w.chan[a] = u.chan[a]
    BY <2>1, StopAllCells DEF WorldOK
  <2>3. \A a \in Addr : Active(u.chan[a]) <=> Active(chan[a])
    BY <2>1, SessInvParts, SameSideActive
  <2> QED
    BY <2>2, <2>3
<1>4. old \subseteq Addr /\ \A a \in old : chan[a].rid = r
  BY SessInvParts DEF Matching, World, WorldOK
<1>5. want'[c] = r
  BY <1>1, SessInvParts DEF RefInv, TypeOK
<1> HIDE DEF w, old
<1>6. \A a \in Addr : w.chan[a].nref = chan[a].nref
  BY <1>2, SessInvParts DEF SameRefs
<1>7. CASE \E a \in Addr, h \in Handle :
             /\ w.chan[a].status = "free" /\ w.sess[h].st = "free"
             /\ Become(CheckParallel(Opened(w, c, r, p, a, h), max_parallel))
             /\ handle' = [handle EXCEPT ![c] = [channel |-> a, token |-> 1]]
  <2>1. PICK a \in Addr, h \in Handle :
             /\ w.chan[a].status = "free"
             /\ Become(CheckParallel(Opened(w, c, r, p, a, h), max_parallel))
             /\ handle' = [handle EXCEPT ![c] = [channel |-> a, token |-> 1]]
    BY <1>7
  <2> DEFINE o == Opened(w, c, r, p, a, h)
  <2>2. WorldOK(o) /\ o.chan = [w.chan EXCEPT ![a] = NewChannel(r, p, h, c)]
    BY <1>2, <2>1, OpenedOK
  <2> HIDE DEF o
  <2>3. \A b \in Addr \ {a} : o.chan[b] = w.chan[b]
    BY <1>2, <2>2 DEF WorldOK, WorldType
  <2>4. ~ Active(w.chan[a]) /\ w.chan[a].nref = 0
    BY <1>2, <2>1 DEF Active, WorldOK
  <2>5. \A b \in Addr \ old : Active(chan[b]) => Active(o.chan[b])
    BY <1>3, <2>3, <2>4
  <2>6. chan' = CheckParallel(o, max_parallel').chan
    BY <1>1, <2>1 DEF Become, o
  <2>7. Cuts(old)
    BY <2>2, <2>5, <2>6 DEF Cuts
  <2>8. handle'[c].channel = a
    BY <2>1, SessInvParts DEF RefInv, TypeOK
  <2>9. \A b \in old : Excuse(b)
    BY <1>1, <1>4, <1>5, <1>6, <2>4, <2>8 DEF Excuse
  <2> QED
    BY <1>4, <2>7, <2>9 DEF CacheStep
<1>8. CASE Become([w EXCEPT !.posted = Post(@, {c}, Failed)]) /\ handle' = handle
  <2>1. chan' = w.chan
    BY <1>2, <1>8 DEF Become, WorldOK, WorldType
  <2>2. Drops(old)
    BY <1>1, <1>3, <1>4, <1>6, <2>1 DEF Drops, Used, Idle
  <2>3. \A b \in old : Excuse(b)
    BY <1>1, <1>4, <1>5, <1>8, DomainAssumption DEF Excuse
  <2> QED
    BY <1>4, <2>2, <2>3 DEF CacheStep
<1> QED
  BY <1>1, <1>7, <1>8

LEMMA CacheStepIs == SessInv /\ [Next]_vars => CacheStep
<1> SUFFICES ASSUME SessInv, [Next]_vars
             PROVE  CacheStep
  OBVIOUS
<1>1. CASE \E c \in Call : StartBadUrl(c) \/ StopChannel(c) \/ RunCallback(c)
  BY <1>1, StopChannelCache, UnchangedCache DEF StartBadUrl, RunCallback
<1>2. CASE \E c \in Call, r \in Rid, p \in Ports : StartNew(c, r, p) \/ StartShared(c, r, p)
  BY <1>2, StartNewCache, StartSharedCache
<1>3. CASE \E a \in Addr : HandleStartChannel(a)
  BY <1>3, HandleStartChannelCache
<1>4. CASE \E h \in Handle : ModuleAnswers(h)
  BY <1>4, UnchangedCache DEF ModuleAnswers
<1>5. CASE \E m \in MaxParallel : SetMaxParallel(m)
  BY <1>5, SetMaxParallelCache
<1>6. CASE \E failed \in SUBSET MayFail : HandleTimer(failed)
  BY <1>6, HandleTimerCache
<1>7. CASE Shutdown
  BY <1>7, ShutdownCache
<1>8. CASE UNCHANGED vars
  BY <1>8, UnchangedCache DEF vars
<1> QED
  BY <1>1, <1>2, <1>3, <1>4, <1>5, <1>6, <1>7, <1>8 DEF Next

(* What a handler that ends with check_parallel leaves in the next state.  *)
LEMMA CutsLeave ==
  ASSUME NEW X, Cuts(X), max_parallel' \in 0 .. Word - 1
  PROVE  LET n    == Cardinality(IdleCells(chan'))
             u    == Cardinality(UsedCells(chan'))
             left == LeftSize(max_parallel', u)
         IN  /\ n \in Nat /\ u \in Nat /\ left \in Int
             /\ n # 0 => left >= 1 /\ n <= left
             /\ \A a \in Addr \ X :
                  /\ Used(chan[a]) /\ ~ Active(chan'[a]) => ~ chan'[a].nref > 0
                  /\ Active(chan[a]) /\ ~ Active(chan'[a]) /\ left >= 0 => n = left
<1> DEFINE m == max_parallel'
<1>1. PICK w : /\ WorldOK(w) /\ chan' = CheckParallel(w, m).chan
               /\ \A a \in Addr \ X : Active(chan[a]) => Active(w.chan[a])
  BY DEF Cuts
<1> DEFINE z == CheckParallel(w, m)
<1>2. SameRefs(w, z)
  BY <1>1, CheckParallelOK
<1> HIDE DEF m
<1>3. m \in 0 .. Word - 1
  BY DEF m
<1>4. /\ UsedCells(z.chan) = UsedCells(w.chan)
      /\ LeftSize(m, Cardinality(UsedCells(w.chan))) \in Int
      /\ Cardinality(IdleCells(z.chan)) \in Nat
      /\ Cardinality(IdleCells(z.chan)) # 0 =>
           /\ LeftSize(m, Cardinality(UsedCells(w.chan))) >= 1
           /\ Cardinality(IdleCells(z.chan)) <= LeftSize(m, Cardinality(UsedCells(w.chan)))
      /\ \A a \in Addr :
           /\ Idle(w.chan[a]) /\ ~ Idle(z.chan[a])
           /\ LeftSize(m, Cardinality(UsedCells(w.chan))) >= 0
           => Cardinality(IdleCells(z.chan)) = LeftSize(m, Cardinality(UsedCells(w.chan)))
  BY <1>1, <1>3, CheckParallelRoom
<1>5. Cardinality(UsedCells(w.chan)) \in Nat
  BY <1>1, CellCounts
<1>6. chan' = z.chan
  BY <1>1
<1> HIDE DEF z
<1>7. ASSUME NEW a \in Addr \ X, Active(chan[a]), ~ Active(chan'[a])
      PROVE  Idle(w.chan[a]) /\ ~ Idle(z.chan[a]) /\ ~ chan'[a].nref > 0
  <2>1. Active(w.chan[a]) /\ ~ Active(z.chan[a])
    BY <1>1, <1>6, <1>7
  <2>2. ~ Used(w.chan[a])
    BY <1>4, <2>1 DEF UsedCells, Used
  <2>3. Idle(w.chan[a])
    BY <1>1, <2>1, <2>2, RunningListed
  <2>4. z.chan[a].nref = 0
    BY <1>2, <2>3 DEF SameRefs, Idle
  <2> QED
    BY <1>6, <2>1, <2>3, <2>4 DEF Idle
<1>8. \A a \in Addr \ X :
        /\ Used(chan[a]) /\ ~ Active(chan'[a]) => ~ chan'[a].nref > 0
        /\ Active(chan[a]) /\ ~ Active(chan'[a]) => Idle(w.chan[a]) /\ ~ Idle(z.chan[a])
  BY <1>7 DEF Used
<1> QED
  BY <1>4, <1>5, <1>6, <1>8 DEF m

(* The cells counted, and the positions of channels_ that are.             *)
Counted ==
  /\ Cardinality(Users(World)) = Cardinality(UsedCells(chan))
  /\ Cardinality(IdleAt) = Cardinality(IdleCells(chan))
  /\ Cardinality(UsedCells(chan)) \in Nat /\ Cardinality(IdleCells(chan)) \in Nat
  /\ IsFiniteSet(UsedCells(chan)) /\ IsFiniteSet(IdleCells(chan))
  /\ max_parallel \in 0 .. Word - 1
  /\ \A a \in Addr : chan[a].nref \in Nat

LEMMA CountsOfCells == SessInv => Counted
<1> SUFFICES ASSUME SessInv PROVE Counted
  OBVIOUS
<1>1. IdleAt = {i \in DOMAIN World.channels : Idle(World.chan[World.channels[i]])}
  BY SessInvParts DEF IdleAt
<1>2. max_parallel \in 0 .. Word - 1 /\ \A a \in Addr : chan[a].nref \in Nat
  <2>1. TypeOK
    BY SessInvParts DEF RefInv
  <2> QED
    BY <2>1, WidthAssumption DEF TypeOK, Channel
<1>3. WorldOK(World) /\ World.chan = chan
  BY SessInvParts
<1> QED
  BY <1>1, <1>2, <1>3, CellCounts DEF Counted

LEMMA CountsOfStep ==
  ASSUME SessInv, [Next]_vars
  PROVE  CacheStep /\ Counted /\ Counted'
<1>1. SessInv' => Counted'
  BY CountsOfCells, PTL
<1> QED
  BY <1>1, CountsOfCells, CacheStepIs, SessInvStep

KeptUnless(a) ==
  Used(chan[a]) /\ ~ Used(chan'[a]) /\ chan'[a].nref > 0 =>
    \/ running /\ ~ running'
    \/ \E c \in Call : /\ want[c] = NULL /\ want'[c] = chan[a].rid
                       /\ handle'[c].channel # a
    \/ Reported(a)

LEMMA KeptStep ==
  ASSUME SessInv, [Next]_vars, NEW a \in Addr
  PROVE  KeptUnless(a)
<1> SUFFICES ASSUME Used(chan[a]), ~ Used(chan'[a]), chan'[a].nref > 0
             PROVE  \/ running /\ ~ running'
                    \/ \E c \in Call : /\ want[c] = NULL /\ want'[c] = chan[a].rid
                                       /\ handle'[c].channel # a
                    \/ Reported(a)
  BY DEF KeptUnless
<1>1. PICK X \in SUBSET Addr : (Drops(X) \/ Cuts(X)) /\ \A b \in X : Excuse(b)
  BY CountsOfStep DEF CacheStep
<1>2. max_parallel' \in 0 .. Word - 1 /\ chan[a].nref \in Nat
  BY CountsOfStep DEF Counted
<1>3. Active(chan[a]) /\ ~ Active(chan'[a])
  BY DEF Used
<1>4. a \in X
  <2>1. CASE Drops(X)
    BY <1>3, <2>1 DEF Drops
  <2>2. CASE Cuts(X)
    <3>1. \A b \in Addr \ X :
            Used(chan[b]) /\ ~ Active(chan'[b]) => ~ chan'[b].nref > 0
      BY <1>2, <2>2, CutsLeave
    <3> QED
      BY <1>3, <3>1
  <2> QED
    BY <1>1, <2>1, <2>2
<1>5. Excuse(a) /\ chan[a].nref # 0
  BY <1>1, <1>2, <1>4 DEF Used
<1> QED
  BY <1>5 DEF Excuse

(* A channel somebody keeps using outlives the release of the others, the  *)
(* expiry of the unused ones and every max_parallel: check_parallel counts *)
(* the used channels, and takes the unused ones only.                      *)
THEOREM UsersStayOn == Spec => UsersKeepChannel
<1>1. SessInv /\ [Next]_vars => [\A a \in Addr : KeptUnless(a)]_vars
  BY KeptStep
<1> QED
  BY <1>1, SessInvHolds, PTL DEF Spec, UsersKeepChannel, KeptUnless

(* The cache is cut only when it is full: check_parallel stops an unused   *)
(* channel before its time only when those it leaves fill max_parallel.    *)
THEOREM EvictsOnlyWhenFull == Spec => EvictedOnlyWhenFull
<1> DEFINE Full == \A a \in Addr :
       Idle(chan[a]) /\ ~ Active(chan'[a]) /\ max_parallel' <= MaxInt =>
         \/ chan[a].expire = 1
         \/ running /\ ~ running'
         \/ \E c \in Call : want[c] = NULL /\ want'[c] = chan[a].rid
         \/ Reported(a)
         \/ Cardinality(IdleAt') + Cardinality(Users(World)') >= max_parallel'
<1>1. SessInv /\ [Next]_vars => Full
  <2> SUFFICES ASSUME SessInv, [Next]_vars,
                      NEW a \in Addr, Idle(chan[a]), ~ Active(chan'[a]),
                      max_parallel' <= MaxInt
               PROVE  \/ chan[a].expire = 1
                      \/ running /\ ~ running'
                      \/ \E c \in Call : want[c] = NULL /\ want'[c] = chan[a].rid
                      \/ Reported(a)
                      \/ Cardinality(IdleAt') + Cardinality(Users(World)') >= max_parallel'
    OBVIOUS
  <2>1. PICK X \in SUBSET Addr : (Drops(X) \/ Cuts(X)) /\ \A b \in X : Excuse(b)
    BY CountsOfStep DEF CacheStep
  <2> DEFINE m    == max_parallel'
             n    == Cardinality(IdleCells(chan'))
             u    == Cardinality(UsedCells(chan'))
             left == LeftSize(m, u)
  <2>2. /\ m \in 0 .. Word - 1 /\ u \in Nat
        /\ Cardinality(IdleAt') = n /\ Cardinality(Users(World)') = u
    BY CountsOfStep DEF Counted
  <2>3. Active(chan[a])
    BY DEF Idle
  <2>4. CASE a \in X
    <3>1. Excuse(a)
      BY <2>1, <2>4
    <3> QED
      BY <3>1 DEF Excuse
  <2>5. CASE a \notin X
    <3>1. Cuts(X)
      BY <2>1, <2>3, <2>5 DEF Drops
    <3>2. n \in Nat /\ left \in Int /\ (left >= 0 => n = left)
      BY <2>2, <2>3, <2>5, <3>1, CutsLeave
    <3> HIDE DEF m, n, u, left
    <3>3. m \in 0 .. Word - 1 /\ u \in Nat /\ left = LeftSize(m, u) /\ m <= MaxInt
      BY <2>2 DEF left, m
    <3>4. (u <= m /\ left >= 0 => left = m - u) /\ (left < 0 => u > m)
      BY <3>3, RoomLeft
    <3>5. n + u >= m
      BY <3>2, <3>3, <3>4
    <3> QED
      BY <2>2, <3>5 DEF m, n, u
  <2> QED
    BY <2>4, <2>5
<1>2. SessInv /\ [Next]_vars => [Full]_vars
  BY <1>1
<1> QED
  BY <1>2, SessInvHolds, PTL DEF Spec, EvictedOnlyWhenFull

(* The heap holds no more channels than an int counts: with 2^31 used      *)
(* channels, max_parallel - size() would wrap to a positive int again.     *)
HeapFitsInt == IsFiniteSet(Addr) /\ Cardinality(Addr) <= MaxInt

CacheFits ==
  IdleCells(chan) # {} =>
    Cardinality(IdleCells(chan)) + Cardinality(UsedCells(chan)) <= max_parallel

CacheInv == SessInv /\ CacheFits

LEMMA CacheInvInit == Init => CacheInv
<1> SUFFICES ASSUME Init PROVE CacheInv
  OBVIOUS
<1>1. SessInv
  BY SessInvInit
<1>2. IdleCells(chan) = {}
  BY DEF Init, IdleCells, Idle, Active, NoChannel
<1> QED
  BY <1>1, <1>2 DEF CacheInv, CacheFits

LEMMA FewerCells ==
  ASSUME NEW A, NEW B, IsFiniteSet(B), A \subseteq B
  PROVE  /\ IsFiniteSet(A) /\ Cardinality(A) \in Nat /\ Cardinality(B) \in Nat
         /\ Cardinality(A) <= Cardinality(B)
BY FS_Subset, FS_CardinalityType

LEMMA CacheInvStep ==
  ASSUME HeapFitsInt, CacheInv, [Next]_vars
  PROVE  CacheInv'
<1>1. SessInv /\ SessInv'
  BY SessInvStep DEF CacheInv
<1>2. PICK X \in SUBSET Addr : Drops(X) \/ Cuts(X)
  BY <1>1, CountsOfStep DEF CacheStep
<1>3. Counted /\ Counted'
  BY <1>1, CountsOfStep
<1>4. CASE Drops(X)
  <2>1. /\ IdleCells(chan') \subseteq IdleCells(chan)
        /\ UsedCells(chan') \subseteq UsedCells(chan)
        /\ max_parallel' = max_parallel
    BY <1>4 DEF Drops, IdleCells, UsedCells
  <2> DEFINE i == Cardinality(IdleCells(chan))
             u == Cardinality(UsedCells(chan))
             j == Cardinality(IdleCells(chan'))
             v == Cardinality(UsedCells(chan'))
  <2>2. i \in Nat /\ j \in Nat /\ j <= i
    BY <1>3, <2>1, FewerCells DEF Counted
  <2>3. u \in Nat /\ v \in Nat /\ v <= u
    BY <1>3, <2>1, FewerCells DEF Counted
  <2>4. max_parallel \in Int
    BY <1>3 DEF Counted
  <2>5. IdleCells(chan') # {} => i + u <= max_parallel
    BY <2>1 DEF CacheInv, CacheFits
  <2> HIDE DEF i, j, u, v
  <2>6. IdleCells(chan') # {} => j + v <= max_parallel'
    BY <2>1, <2>2, <2>3, <2>4, <2>5
  <2> QED
    BY <1>1, <2>6 DEF CacheInv, CacheFits, j, v
<1>5. CASE Cuts(X)
  <2> DEFINE m    == max_parallel'
             n    == Cardinality(IdleCells(chan'))
             u    == Cardinality(UsedCells(chan'))
             left == LeftSize(m, u)
  <2>1. m \in 0 .. Word - 1
    BY <1>3 DEF Counted
  <2>2. /\ n \in Nat /\ u \in Nat /\ left \in Int
        /\ n # 0 => left >= 1 /\ n <= left
    BY <1>5, <2>1, CutsLeave
  <2>3. u <= Cardinality(Addr) /\ Cardinality(Addr) \in Nat /\ Cardinality(Addr) <= MaxInt
    <3>1. UsedCells(chan') \subseteq Addr
      BY DEF UsedCells
    <3> QED
      BY <3>1, FewerCells DEF HeapFitsInt
  <2>4. IdleCells(chan') # {} => n # 0
    <3>1. IsFiniteSet(IdleCells(chan'))
      BY <1>3 DEF Counted
    <3> QED
      BY <3>1, FS_EmptySet
  <2> HIDE DEF m, n, u
  <2>5. /\ (u <= m /\ left >= 0 => left = m - u)
        /\ (u > m /\ u <= MaxInt => left < 0)
    BY <2>1, <2>2, RoomLeft
  <2>6. MaxInt \in Nat
    BY HalfWord
  <2> HIDE DEF left
  <2>7. n # 0 => n + u <= m
    BY <2>1, <2>2, <2>3, <2>5, <2>6
  <2> QED
    BY <1>1, <2>4, <2>7 DEF CacheInv, CacheFits, m, n, u
<1> QED
  BY <1>2, <1>4, <1>5

(* Every handler that adds a user, releases one or lowers max_parallel     *)
(* ends with check_parallel, and the others only take channels away: so    *)
(* between two handlers the unused channels never exceed the room that the *)
(* used ones leave under max_parallel.                                     *)
THEOREM CacheStaysWithinLimit ==
  ASSUME HeapFitsInt
  PROVE  Spec => []CacheWithinLimit
<1>1. CacheInv => CacheWithinLimit
  <2> SUFFICES ASSUME CacheInv, IdleAt # {}
               PROVE  Cardinality(IdleAt) + Cardinality(Users(World)) <= max_parallel
    BY DEF CacheWithinLimit
  <2>1. Counted
    BY CountsOfCells DEF CacheInv
  <2>2. IdleCells(chan) # {}
    <3>1. PICK i \in DOMAIN channels : Idle(chan[channels[i]])
      BY DEF IdleAt
    <3>2. channels \in Seq(Addr)
      BY SessInvParts DEF CacheInv, RefInv, TypeOK
    <3>3. channels[i] \in Addr
      BY <3>2, ElementOfSeq, LenProperties
    <3> QED
      BY <3>1, <3>3 DEF IdleCells
  <2> QED
    BY <2>1, <2>2 DEF Counted, CacheInv, CacheFits
<1>2. CacheInv /\ [Next]_vars => CacheInv'
  BY CacheInvStep
<1> QED
  BY <1>1, <1>2, CacheInvInit, PTL DEF Spec

---------------------------------------------------------------------------
(* The order of a sequence, and what keeps it *)

Before(s, x, y) == \E i, j \in DOMAIN s : i < j /\ s[i] = x /\ s[j] = y

LEMMA BeforeErase ==
  ASSUME NEW S, NEW s \in Seq(S), NEW gone, NEW x, NEW y, Before(Erase(s, gone), x, y)
  PROVE  Before(s, x, y) /\ x \notin gone /\ y \notin gone
<1> DEFINE K     == Kept(s, gone)
           at(n) == CHOOSE i \in K : RankIn(K, i) = n
           e     == Erase(s, gone)
<1>1. K \in SUBSET Nat /\ K \subseteq DOMAIN s /\ IsFiniteSet(K)
  <2>1. Len(s) \in Nat /\ DOMAIN s = 1 .. Len(s)
    BY LenProperties
  <2>2. K \subseteq 1 .. Len(s)
    BY <2>1 DEF Kept
  <2>3. IsFiniteSet(1 .. Len(s))
    BY <2>1, FS_Interval
  <2> QED
    BY <2>1, <2>2, <2>3, FS_Subset
<1>2. /\ Cardinality(K) \in Nat
      /\ \A i, j \in K : i < j => RankIn(K, i) < RankIn(K, j)
      /\ \A i \in K : RankIn(K, i) \in 1 .. Cardinality(K)
      /\ \A n \in 1 .. Cardinality(K) : \E i \in K : RankIn(K, i) = n
  BY <1>1, RankIsBijection
<1>3. \A n \in 1 .. Cardinality(K) : at(n) \in K /\ RankIn(K, at(n)) = n
  BY <1>2
<1>4. DOMAIN e = 1 .. Cardinality(K) /\ \A n \in 1 .. Cardinality(K) : e[n] = s[at(n)]
  BY DEF Erase
<1>5. PICK m \in DOMAIN e, n \in DOMAIN e : m < n /\ e[m] = x /\ e[n] = y
  BY DEF Before
<1> DEFINE i == at(m)
           j == at(n)
<1>6. /\ i \in K /\ j \in K /\ RankIn(K, i) = m /\ RankIn(K, j) = n
      /\ s[i] = x /\ s[j] = y
  BY <1>3, <1>4, <1>5
<1>7. s[i] \notin gone /\ s[j] \notin gone
  BY <1>6 DEF Kept
<1> HIDE DEF i, j, K
<1>8. i \in Nat /\ j \in Nat /\ i \in DOMAIN s /\ j \in DOMAIN s
  BY <1>1, <1>6
<1>9. m \in Nat /\ n \in Nat
  BY <1>2, <1>4
<1>10. i < j
  <2>1. CASE j < i
    <3>1. n < m
      BY <1>2, <1>6, <2>1
    <3> QED
      BY <1>5, <1>9, <3>1
  <2>2. CASE i = j
    BY <1>5, <1>6, <1>9, <2>2
  <2> QED
    BY <1>8, <2>1, <2>2
<1> QED
  BY <1>6, <1>7, <1>8, <1>10 DEF Before

LEMMA BeforeConcat ==
  ASSUME NEW S, NEW s \in Seq(S), NEW t \in Seq(S), NEW x, NEW y, Before(s \o t, x, y)
  PROVE  \/ Before(s, x, y)
         \/ x \in Range(s) /\ y \in Range(t)
         \/ Before(t, x, y)
<1> DEFINE u == s \o t
<1>1. /\ u \in Seq(S) /\ Len(u) = Len(s) + Len(t)
      /\ \A i \in 1 .. Len(s) + Len(t) : u[i] = IF i <= Len(s) THEN s[i] ELSE t[i - Len(s)]
  BY ConcatProperties
<1>2. /\ Len(s) \in Nat /\ DOMAIN s = 1 .. Len(s)
      /\ Len(t) \in Nat /\ DOMAIN t = 1 .. Len(t)
      /\ DOMAIN u = 1 .. Len(s) + Len(t)
  BY <1>1, LenProperties
<1>3. PICK i \in DOMAIN u, j \in DOMAIN u : i < j /\ u[i] = x /\ u[j] = y
  BY DEF Before
<1>4. CASE j <= Len(s)
  BY <1>1, <1>2, <1>3, <1>4 DEF Before
<1>5. CASE i <= Len(s) /\ ~ (j <= Len(s))
  <2>1. s[i] = x /\ i \in DOMAIN s
    BY <1>1, <1>2, <1>3, <1>5
  <2>2. t[j - Len(s)] = y /\ j - Len(s) \in DOMAIN t
    BY <1>1, <1>2, <1>3, <1>5
  <2> QED
    BY <2>1, <2>2 DEF Range
<1>6. CASE ~ (i <= Len(s))
  <2>1. /\ t[i - Len(s)] = x /\ i - Len(s) \in DOMAIN t
        /\ t[j - Len(s)] = y /\ j - Len(s) \in DOMAIN t
    BY <1>1, <1>2, <1>3, <1>6
  <2>2. i - Len(s) < j - Len(s)
    BY <1>2, <1>3
  <2> QED
    BY <2>1, <2>2 DEF Before
<1> QED
  BY <1>4, <1>5, <1>6

LEMMA BeforeAppend ==
  ASSUME NEW S, NEW s \in Seq(S), NEW z \in S, NEW x, NEW y,
         Before(Append(s, z), x, y), y # z
  PROVE  Before(s, x, y)
<1> DEFINE t == Append(s, z)
<1>1. /\ t \in Seq(S) /\ Len(t) = Len(s) + 1 /\ t[Len(s) + 1] = z
      /\ \A i \in 1 .. Len(s) : t[i] = s[i]
  BY AppendProperties
<1>2. Len(s) \in Nat /\ DOMAIN s = 1 .. Len(s) /\ DOMAIN t = 1 .. Len(s) + 1
  BY <1>1, LenProperties
<1>3. PICK i \in DOMAIN t, j \in DOMAIN t : i < j /\ t[i] = x /\ t[j] = y
  BY DEF Before
<1> HIDE DEF t
<1>4. j \in 1 .. Len(s) /\ i \in 1 .. Len(s)
  BY <1>1, <1>2, <1>3
<1> QED
  BY <1>1, <1>2, <1>3, <1>4 DEF Before

LEMMA BeforeSplit ==
  ASSUME NEW S, NEW s \in Seq(S), NEW n \in 0 .. Len(s), NEW x, NEW y,
         \/ Before(SubSeq(s, 1, n), x, y)
         \/ x \in Range(SubSeq(s, 1, n)) /\ y \in Range(SubSeq(s, n + 1, Len(s)))
         \/ Before(SubSeq(s, n + 1, Len(s)), x, y)
  PROVE  Before(s, x, y)
<1> DEFINE f == SubSeq(s, 1, n)
           t == SubSeq(s, n + 1, Len(s))
           L == Len(s)
<1>1. /\ L \in Nat /\ n \in Nat /\ n <= L /\ DOMAIN s = 1 .. L
      /\ \A i \in 1 .. L : s[i] \in S
  BY LenProperties, ElementOfSeq
<1>2. f \in Seq(S) /\ Len(f) = n /\ \A i \in 1 .. n : f[i] = s[i]
  BY <1>1, SubSeqProperties
<1>3. /\ t \in Seq(S) /\ Len(t) = L - n
      /\ \A i \in 1 .. L - n : t[i] = s[n + i]
  <2>1. \A i \in n + 1 .. L : s[i] \in S
    BY <1>1
  <2>2. /\ t \in Seq(S) /\ Len(t) = IF n + 1 <= L THEN L - (n + 1) + 1 ELSE 0
        /\ \A i \in 1 .. L - (n + 1) + 1 : t[i] = s[(n + 1) + i - 1]
    BY <1>1, <2>1, SubSeqProperties
  <2>3. /\ L - (n + 1) + 1 = L - n
        /\ (IF n + 1 <= L THEN L - n ELSE 0) = L - n
        /\ \A i \in 1 .. L - n : (n + 1) + i - 1 = n + i
    BY <1>1, ShiftedIndex
  <2> QED
    BY <2>2, <2>3
<1>4. DOMAIN f = 1 .. n /\ DOMAIN t = 1 .. L - n
  BY <1>2, <1>3, LenProperties
<1>5. Before(f, x, y) \/ (x \in Range(f) /\ y \in Range(t)) \/ Before(t, x, y)
  OBVIOUS
<1> HIDE DEF L, f, t
<1>6. CASE Before(f, x, y)
  <2>1. PICK i \in 1 .. n, j \in 1 .. n : i < j /\ f[i] = x /\ f[j] = y
    BY <1>4, <1>6 DEF Before
  <2>2. i \in DOMAIN s /\ j \in DOMAIN s /\ s[i] = x /\ s[j] = y
    BY <1>1, <1>2, <2>1
  <2> QED
    BY <2>1, <2>2 DEF Before
<1>7. CASE x \in Range(f) /\ y \in Range(t)
  <2>1. PICK i \in 1 .. n : f[i] = x
    BY <1>4, <1>7 DEF Range
  <2>2. PICK j \in 1 .. L - n : t[j] = y
    BY <1>4, <1>7 DEF Range
  <2>3. i \in DOMAIN s /\ s[i] = x /\ n + j \in DOMAIN s /\ s[n + j] = y /\ i < n + j
    BY <1>1, <1>2, <1>3, <2>1, <2>2
  <2> QED
    BY <2>3 DEF Before
<1>8. CASE Before(t, x, y)
  <2>1. PICK i \in 1 .. L - n, j \in 1 .. L - n : i < j /\ t[i] = x /\ t[j] = y
    BY <1>4, <1>8 DEF Before
  <2>2. /\ n + i \in DOMAIN s /\ n + j \in DOMAIN s /\ n + i < n + j
        /\ s[n + i] = x /\ s[n + j] = y
    BY <1>1, <1>3, <2>1
  <2> QED
    BY <2>2 DEF Before
<1> QED
  BY <1>5, <1>6, <1>7, <1>8

---------------------------------------------------------------------------
(* Unused channels in the order of their release *)

Fresh(ch) == \A a \in Addr : Idle(ch[a]) => ch[a].expire \in 1 .. IdleExpire

Sorted(w) ==
  \A x, y \in Addr :
    Idle(w.chan[x]) /\ Idle(w.chan[y]) /\ Before(w.channels, x, y)
      => w.chan[x].expire >= w.chan[y].expire

(* The unused channels of v were unused in w, with the same countdown and  *)
(* in the same order.                                                      *)
Thins(w, v) ==
  /\ \A a \in Addr : Idle(v.chan[a]) => /\ Idle(w.chan[a])
                                        /\ v.chan[a].expire = w.chan[a].expire
  /\ \A x, y \in Addr :
       Idle(v.chan[x]) /\ Idle(v.chan[y]) /\ Before(v.channels, x, y)
         => Before(w.channels, x, y)

LEMMA ThinsTransitive ==
  ASSUME NEW u, NEW v, NEW w, Thins(u, v), Thins(v, w)
  PROVE  Thins(u, w)
BY DEF Thins

LEMMA ThinsSorted ==
  ASSUME NEW w, NEW v, Thins(w, v)
  PROVE  /\ Sorted(w) => Sorted(v)
         /\ Fresh(w.chan) => Fresh(v.chan)
BY DEF Thins, Sorted, Fresh

LEMMA StopAllThins ==
  ASSUME NEW w, w \in WorldType, NEW S
  PROVE  Thins(w, StopAll(w, S))
<1> DEFINE z    == StopAll(w, S)
           gone == {a \in S : Deletable(w.chan[a])}
<1>1. z.channels = Erase(w.channels, gone)
  <2>1. StoppedFields(w, S, z)
    BY StopAllFields
  <2> HIDE DEF z
  <2> QED
    BY <2>1 DEF StoppedFields
<1>2. \A a \in Addr : Idle(z.chan[a]) => z.chan[a] = w.chan[a]
  BY StopAllCells DEF Idle
<1>3. w.channels \in Seq(Addr)
  BY DEF WorldType
<1> HIDE DEF z, gone
<1>4. \A x, y \in Addr : Before(z.channels, x, y) => Before(w.channels, x, y)
  BY <1>1, <1>3, BeforeErase
<1> QED
  BY <1>2, <1>4 DEF Thins, z

LEMMA CheckParallelThins ==
  ASSUME NEW w, w \in WorldType, NEW limit
  PROVE  Thins(w, CheckParallel(w, limit))
<1>1. PICK S : CheckParallel(w, limit) = StopAll(w, S)
  BY CheckParallelForm
<1> QED
  BY <1>1, StopAllThins

LEMMA ClearedThins ==
  ASSUME RefInv, NEW r
  PROVE  Thins(World, Cleared(r))
<1> DEFINE old == Matching(World, r)
           ch  == [a \in Addr |-> IF a \in old THEN [chan[a] EXCEPT !.expire = 0]
                                               ELSE chan[a]]
           u   == [World EXCEPT !.chan = ch]
           z   == Cleared(r)
<1>1. z = StopAll(u, old)
  BY DEF Cleared
<1>2. World \in WorldType /\ World.chan = chan /\ chan \in [Addr -> Channel]
  BY WorldIsOK DEF RefInv, TypeOK, World, WorldOK
<1>3. ch \in [Addr -> Channel]
  <2>1. \A x \in Channel : [x EXCEPT !.expire = 0] \in Channel
    BY ZeroFits DEF Channel
  <2> QED
    BY <1>2, <2>1
<1>4. /\ u \in WorldType /\ u.channels = World.channels
      /\ \A a \in Addr \ old : u.chan[a] = chan[a]
  <2> HIDE DEF old
  <2>1. \A a \in Addr \ old : ch[a] = chan[a]
    OBVIOUS
  <2> HIDE DEF ch
  <2> QED
    BY <1>2, <1>3, <2>1 DEF WorldType
<1> HIDE DEF u, old, z
<1>5. Thins(u, z)
  BY <1>1, <1>4, StopAllThins
<1>6. \A a \in Addr : Idle(z.chan[a]) => a \notin old
  BY <1>1, <1>4, StopAllCells DEF Idle
<1>7. Thins(World, z)
  BY <1>2, <1>4, <1>5, <1>6 DEF Thins
<1> QED
  BY <1>7 DEF z

LEMMA OpenedThins ==
  ASSUME NEW w, WorldOK(w), NEW c \in Call, NEW r \in Rid, NEW p \in Ports,
         NEW a \in Addr, NEW h \in Handle, w.chan[a].status = "free"
  PROVE  Thins(w, Opened(w, c, r, p, a, h))
<1> DEFINE z == Opened(w, c, r, p, a, h)
<1>1. z.chan = [w.chan EXCEPT ![a] = NewChannel(r, p, h, c)] /\ NewChannel(r, p, h, c).nref = 1
  BY OpenedOK
<1>2. z.channels = Append(w.channels, a)
  BY DEF Opened, WorldOK, WorldType
<1>3. w.chan \in [Addr -> Channel] /\ w.channels \in Seq(Addr)
  BY DEF WorldOK, WorldType
<1> HIDE DEF z
<1>4. ~ Idle(z.chan[a]) /\ \A b \in Addr \ {a} : z.chan[b] = w.chan[b]
  BY <1>1, <1>3 DEF Idle
<1>5. \A x, y \in Addr : y # a /\ Before(z.channels, x, y) => Before(w.channels, x, y)
  BY <1>2, <1>3, BeforeAppend
<1>6. Thins(w, z)
  BY <1>4, <1>5 DEF Thins
<1> QED
  BY <1>6 DEF z

LEMMA AttachedThins ==
  ASSUME CallInv, NEW c \in Call, NEW a \in Range(channels)
  PROVE  Thins(World, Attached(c, a)) /\ Attached(c, a) \in WorldType
<1> DEFINE z == Attached(c, a)
<1>1. /\ RefInv /\ World \in WorldType /\ World.chan = chan /\ World.channels = channels
      /\ a \in Addr /\ chan[a].nref \in Nat
  <2>1. RefInv /\ WorldOK(World) /\ World.chan = chan /\ World.channels = channels
    BY CallInvTypes DEF CallInv
  <2>2. channels \in Seq(Addr) /\ chan \in [Addr -> Channel]
    BY <2>1 DEF RefInv, TypeOK
  <2>3. a \in Addr
    BY <2>1 DEF WorldOK
  <2> QED
    BY <2>1, <2>2, <2>3 DEF WorldOK, Channel
<1>2. /\ z.chan[a].nref = chan[a].nref + 1 /\ WorldOK(z)
  BY <1>1, AttachedOK
<1>3. \A b \in Addr \ {a} : z.chan[b] = chan[b]
  BY <1>1, AttachedFields
<1>4. z.channels = channels
  BY <1>1 DEF Attached, World
<1> HIDE DEF z
<1>5. ~ Idle(z.chan[a])
  BY <1>1, <1>2 DEF Idle
<1>6. Thins(World, z)
  BY <1>1, <1>3, <1>4, <1>5 DEF Thins
<1> QED
  BY <1>2, <1>6 DEF z, WorldOK

(* What is released last has the longest to live, and goes to the front.   *)
LEMMA ToFrontSorts ==
  ASSUME NEW w, w \in WorldType, NEW v, v \in WorldType, NEW a \in Addr,
         Sorted(w), Fresh(w.chan), v.channels = w.channels,
         \A b \in Addr \ {a} : v.chan[b] = w.chan[b]
  PROVE  Sorted(ToFront(v, a)) /\ Fresh(ToFront(v, a).chan)
<1> DEFINE ch == [v.chan[a] EXCEPT !.expire = IdleExpire]
           e  == Erase(v.channels, {a})
           z  == ToFront(v, a)
<1>1. /\ v.chan \in [Addr -> Channel] /\ v.channels \in Seq(Addr) /\ v.chan[a] \in Channel
  BY DEF WorldType
<1>2. z.chan = [v.chan EXCEPT ![a] = ch] /\ z.channels = <<a>> \o e
  BY <1>1 DEF ToFront, WorldType
<1>3. ch.expire = IdleExpire
  BY <1>1 DEF Channel
<1> HIDE DEF ch, z
<1>4. z.chan[a].expire = IdleExpire /\ \A b \in Addr \ {a} : z.chan[b] = w.chan[b]
  BY <1>1, <1>2, <1>3
<1>5. IdleExpire \in 1 .. IdleExpire /\ IdleExpire \in Nat
  BY WidthAssumption
<1>6. Fresh(z.chan)
  BY <1>4, <1>5 DEF Fresh
<1>7. e \in Seq(Addr) /\ <<a>> \in Seq(Addr) /\ Range(e) = Range(v.channels) \ {a}
  BY <1>1, EraseIsSequence
<1>8. ASSUME NEW x \in Addr, NEW y \in Addr, Before(z.channels, x, y)
      PROVE  y # a /\ (x = a \/ Before(w.channels, x, y))
  <2> DEFINE d == <<a>>
  <2> HIDE DEF d, e
  <2>1. Before(d, x, y) \/ (x \in Range(d) /\ y \in Range(e)) \/ Before(e, x, y)
    <3>1. d \in Seq(Addr) /\ e \in Seq(Addr) /\ Before(d \o e, x, y)
      BY <1>2, <1>7, <1>8 DEF d
    <3> QED
      BY <3>1, BeforeConcat
  <2>2. ~ Before(d, x, y)
    BY DEF Before, d
  <2>3. CASE x \in Range(d) /\ y \in Range(e)
    BY <1>7, <2>3 DEF Range, d
  <2>4. CASE Before(e, x, y)
    <3>1. Before(v.channels, x, y) /\ y \notin {a}
      BY <1>1, <2>4, BeforeErase DEF e
    <3> QED
      BY <3>1
  <2> QED
    BY <2>1, <2>2, <2>3, <2>4
<1>9. ASSUME NEW x \in Addr, NEW y \in Addr, Idle(z.chan[x]), Idle(z.chan[y]),
             Before(z.channels, x, y)
      PROVE  z.chan[x].expire >= z.chan[y].expire
  <2>1. y # a /\ (x = a \/ Before(w.channels, x, y))
    BY <1>8, <1>9
  <2>2. z.chan[y] = w.chan[y] /\ Idle(w.chan[y])
    BY <1>4, <1>9, <2>1
  <2>3. CASE x = a
    <3>1. w.chan[y].expire \in 1 .. IdleExpire
      BY <2>2 DEF Fresh
    <3> QED
      BY <1>4, <1>5, <2>2, <2>3, <3>1
  <2>4. CASE x # a
    <3>1. z.chan[x] = w.chan[x] /\ Before(w.channels, x, y)
      BY <1>4, <2>1, <2>4
    <3> QED
      BY <1>9, <2>2, <3>1 DEF Sorted
  <2> QED
    BY <2>3, <2>4
<1>10. Sorted(z)
  BY <1>9 DEF Sorted
<1> QED
  BY <1>6, <1>10 DEF z

LEMMA ReleasedSorts ==
  ASSUME CallInv, Sorted(World), Fresh(chan), NEW c \in Call, handle[c].channel # NULL
  PROVE  /\ Sorted(Released(c)) /\ Fresh(Released(c).chan)
         /\ Released(c) \in WorldType
<1> DEFINE a  == handle[c].channel
           t  == handle[c].token
           v  == IF HasSlot(a, t) THEN Swapped(World, a, t) ELSE World
           n  == v.chan[a].nref - 1
           ch == [v.chan[a] EXCEPT !.nref = n]
           w  == [v EXCEPT !.chan = [v.chan EXCEPT ![a] = ch]]
           z  == Released(c)
<1>1. /\ RefInv /\ WorldOK(World) /\ World \in WorldType
      /\ World.chan = chan /\ World.channels = channels
  BY CallInvTypes DEF CallInv, WorldOK
<1>2. a \in Addr /\ t \in Nat /\ chan[a].nref \in Nat \ {0} /\ a \in Range(channels)
  <2>1. handle \in [Call -> UserHandle]
    BY <1>1 DEF RefInv, TypeOK
  <2>2. a \in Addr /\ t \in Nat
    BY <2>1 DEF UserHandle
  <2>3. chan[a].nref \in Nat \ {0}
    <3>1. c \in Holders(a) /\ chan[a].nref = Cardinality(Holders(a))
      BY <1>1, <2>2 DEF Holders, RefInv, RefCountExact
    <3>2. IsFiniteSet(Holders(a))
      BY DomainAssumption, FS_Subset DEF Holders
    <3> QED
      BY <3>1, <3>2, FS_EmptySet, FS_CardinalityType
  <2>4. a \in Range(channels)
    BY <1>1, <2>2, <2>3 DEF RefInv, VectorIsHeap
  <2> QED
    BY <2>2, <2>3, <2>4
<1>3. z \in WorldType
  <2> HIDE DEF a, z
  <2>1. a = handle[c].channel
    BY DEF a
  <2>2. WorldOK(Released(c))
    BY <1>1, <1>2, <2>1, ReleasedOK
  <2> QED
    BY <2>2 DEF WorldOK, z
<1>4. /\ v \in WorldType /\ v.channels = channels
      /\ \A b \in Addr \ {a} : v.chan[b] = chan[b]
  <2>1. CASE HasSlot(a, t)
    <3>1. t \in DOMAIN chan[a].call_backs
      <4>1. chan[a].call_backs \in Seq(Call \cup {NULL})
        BY <1>1, <1>2 DEF RefInv, TypeOK, Channel
      <4>2. t # 0 /\ t < Len(chan[a].call_backs) + 1
        BY <2>1 DEF HasSlot
      <4> HIDE DEF t, a
      <4>3. Len(chan[a].call_backs) \in Nat
            /\ DOMAIN chan[a].call_backs = 1 .. Len(chan[a].call_backs)
        BY <4>1, LenProperties
      <4> QED
        BY <1>2, <4>2, <4>3
    <3> HIDE DEF a, t
    <3>2. \A b \in Addr \ {a} : Swapped(World, a, t).chan[b] = chan[b]
      <4>1. a \in Addr
        BY <1>2
      <4> DEFINE u == Swapped(World, a, t)
      <4>2. /\ u.chan[a].call_backs = [chan[a].call_backs EXCEPT ![t] = NULL]
            /\ \A b \in Addr \ {a} : u.chan[b] = chan[b]
            /\ \A b \in Addr : /\ u.chan[b].status = chan[b].status
                               /\ u.chan[b].rid = chan[b].rid
            /\ u.posted = Post(posted, {chan[a].call_backs[t]}, Aborted)
        BY <3>1, <4>1, SwappedFields
      <4> QED
        BY <4>2
    <3>3. WorldOK(Swapped(World, a, t))
      BY <1>1, <1>2, <2>1, SwappedOK
    <3>4. Swapped(World, a, t).channels = channels
      BY <1>1 DEF Swapped, World
    <3> QED
      BY <2>1, <3>2, <3>3, <3>4 DEF WorldOK
  <2>2. CASE ~ HasSlot(a, t)
    BY <1>1, <2>2
  <2> QED
    BY <2>1, <2>2
<1>5. z = IF Idle(w.chan[a]) THEN ToFront(w, a) ELSE w
  <2>1. [v EXCEPT !.chan[a].nref = @ - 1] = w
    <3> HIDE DEF v, a
    <3> QED
      BY <1>2, <1>4 DEF WorldType
  <2>2. z = IF Idle([v EXCEPT !.chan[a].nref = @ - 1].chan[a])
            THEN ToFront([v EXCEPT !.chan[a].nref = @ - 1], a)
            ELSE [v EXCEPT !.chan[a].nref = @ - 1]
    BY DEF Released
  <2> HIDE DEF z, w, v, a
  <2> QED
    BY <2>1, <2>2
<1> HIDE DEF z, v, ch, a, t
<1>6. w.channels = channels /\ \A b \in Addr \ {a} : w.chan[b] = chan[b]
  BY <1>2, <1>4 DEF WorldType
<1> HIDE DEF w
<1>7. CASE Idle(w.chan[a])
  <2>1. w \in WorldType
    <3>1. n \in Nat /\ v.chan[a] \in Channel
      <4>1. v.chan[a] \in Channel
        BY <1>2, <1>4 DEF WorldType
      <4>2. SameRefs(World, v)
        <5>1. HasSlot(a, t) => v = Swapped(World, a, t)
          BY DEF v
        <5>2. ~ HasSlot(a, t) => v = World
          BY DEF v
        <5> QED
          BY <1>1, <1>2, <5>1, <5>2, SwappedOK DEF SameRefs
      <4>3. v.chan[a].nref = chan[a].nref
        BY <1>1, <1>2, <4>2 DEF SameRefs
      <4> QED
        BY <1>2, <4>1, <4>3
    <3> HIDE DEF n
    <3>2. ch \in Channel
      BY <3>1 DEF ch, Channel
    <3> QED
      BY <1>2, <1>4, <3>2 DEF w, WorldType
  <2>2. Sorted(ToFront(w, a)) /\ Fresh(ToFront(w, a).chan)
    BY <1>1, <1>2, <1>6, <2>1, ToFrontSorts
  <2> QED
    BY <1>3, <1>5, <1>7, <2>2 DEF z
<1>8. CASE ~ Idle(w.chan[a])
  <2>1. Thins(World, w)
    BY <1>1, <1>6, <1>8 DEF Thins
  <2>2. Sorted(w) /\ Fresh(w.chan)
    BY <1>1, <2>1, ThinsSorted
  <2> QED
    BY <1>3, <1>5, <1>8, <2>2 DEF z
<1> QED
  BY <1>7, <1>8

(* The channels before the first stopped one change places with those that *)
(* failed only, which are stopped.                                         *)
LEMMA PartitionedThins ==
  ASSUME RefInv, NEW front, front = SubSeq(channels, 1, WorkingEnd),
         NEW bad, bad \subseteq Range(front)
  PROVE  Thins(World, StopAll(Partitioned(front, bad), bad))
<1> DEFINE rest == SubSeq(channels, WorkingEnd + 1, Len(channels))
           good == Erase(front, bad)
           tail == Erase(front, Range(front) \ bad)
           g    == good \o tail
           p    == Partitioned(front, bad)
           z    == StopAll(p, bad)
<1>1. /\ channels \in Seq(Addr) /\ Distinct(channels) /\ WorkingEnd \in 0 .. Len(channels)
      /\ World.chan = chan /\ World.channels = channels
  BY WorkingEndRange DEF RefInv, TypeOK, VectorIsHeap, Distinct, World
<1>2. front \in Seq(Addr) /\ rest \in Seq(Addr)
  BY <1>1, SplitDistinct
<1>3. /\ good \in Seq(Addr) /\ Range(good) \subseteq Range(front)
      /\ tail \in Seq(Addr) /\ Range(tail) \subseteq bad
  <2>1. good \in Seq(Addr) /\ Range(good) = Range(front) \ bad
    BY <1>2, EraseIsSequence
  <2> DEFINE other == Range(front) \ bad
  <2> HIDE DEF other
  <2>2. Erase(front, other) \in Seq(Addr) /\ Range(Erase(front, other)) = Range(front) \ other
    BY <1>2, EraseIsSequence
  <2>3. tail = Erase(front, other)
    BY DEF other
  <2>4. Range(front) \ other \subseteq bad
    BY DEF other
  <2> HIDE DEF tail, good
  <2> QED
    BY <2>1, <2>2, <2>3, <2>4
<1>4. p.channels = g \o rest /\ p.chan = chan
  BY DEF Partitioned, World
<1>5. p \in WorldType
  BY PartitionedOK DEF WorldOK
<1> HIDE DEF p, z, g, good, tail, rest
<1>6. g \in Seq(Addr) /\ Range(g) = Range(good) \cup Range(tail)
  BY <1>3, ConcatProperties, RangeConcatenation DEF g
<1>7. Thins(p, z)
  BY <1>5, StopAllThins DEF z
<1>8. \A a \in Addr : Idle(z.chan[a]) => a \notin bad
  BY <1>5, StopAllCells DEF z, Idle
<1>9. ASSUME NEW x \in Addr \ bad, NEW y \in Addr \ bad, Before(p.channels, x, y)
      PROVE  Before(channels, x, y)
  <2>1. Before(g, x, y) \/ (x \in Range(g) /\ y \in Range(rest)) \/ Before(rest, x, y)
    BY <1>2, <1>4, <1>6, <1>9, BeforeConcat
  <2>2. ASSUME Before(g, x, y) PROVE Before(front, x, y)
    <3>1. \/ Before(good, x, y)
          \/ x \in Range(good) /\ y \in Range(tail)
          \/ Before(tail, x, y)
      BY <1>3, <2>2, BeforeConcat DEF g
    <3>2. ~ Before(tail, x, y)
      <4>1. Before(tail, x, y) => y \in Range(tail)
        BY DEF Before, Range
      <4> QED
        BY <1>3, <4>1
    <3>3. Before(good, x, y)
      BY <1>3, <3>1, <3>2
    <3> QED
      BY <1>2, <3>3, BeforeErase DEF good
  <2>3. x \in Range(g) => x \in Range(front)
    BY <1>3, <1>6
  <2>4. \/ Before(front, x, y)
        \/ x \in Range(front) /\ y \in Range(rest)
        \/ Before(rest, x, y)
    BY <2>1, <2>2, <2>3
  <2> QED
    BY <1>1, <2>4, BeforeSplit DEF rest
<1>10. Thins(World, z)
  BY <1>1, <1>4, <1>7, <1>8, <1>9 DEF Thins
<1> QED
  BY <1>10 DEF z, p

LEMMA TickedOnce ==
  ASSUME NEW x \in Channel, x.expire \in 1 .. IdleExpire
  PROVE  Ticked(x).expire = x.expire - 1
<1> DEFINE e == x.expire
<1>1. Word \in Nat \ {0} /\ IdleExpire \in 1 .. Word - 1
  BY WidthAssumption
<1>2. Ticked(x).expire = (e + Word - 1) % Word
  BY DEF Ticked, Channel
<1> HIDE DEF e
<1>3. e \in 1 .. IdleExpire
  BY DEF e
<1>4. e + Word - 1 = (e - 1) + Word /\ e - 1 \in 0 .. Word - 1
  BY <1>1, <1>3
<1>5. ((e - 1) + Word) % Word = e - 1
  BY <1>1, <1>4, ModWraps
<1> QED
  BY <1>2, <1>4, <1>5 DEF e

(* Every countdown loses one, so that the order stays; what reaches zero   *)
(* is stopped.                                                             *)
LEMMA ExpiredSorts ==
  ASSUME NEW w, WorldOK(w), Sorted(w), Fresh(w.chan)
  PROVE  LET z == Expired(Aged(w)) IN Sorted(z) /\ Fresh(z.chan)
<1> DEFINE v    == Aged(w)
           dead == {a \in Unused(v) : v.chan[a].expire = 0}
           z    == StopAll(v, dead)
<1>1. WorldOK(v) /\ SameRefs(w, v) /\ SameSide(w, v)
  BY AgedOK, AgedSame
<1>2. \A a \in Addr : v.chan[a] = IF a \in Unused(w) THEN Ticked(w.chan[a]) ELSE w.chan[a]
  BY DEF Aged, WorldOK, WorldType
<1>3. v.channels = w.channels /\ w.chan \in [Addr -> Channel]
  BY DEF Aged, WorldOK, WorldType
<1>4. z = Expired(v)
  BY DEF Expired
<1> HIDE DEF v
<1>5. ASSUME NEW a \in Addr, Idle(v.chan[a])
      PROVE  /\ Idle(w.chan[a]) /\ a \in Unused(v)
             /\ v.chan[a].expire = w.chan[a].expire - 1
             /\ w.chan[a].expire \in 1 .. IdleExpire
  <2>1. Idle(w.chan[a])
    BY <1>1, <1>5, SameSideActive DEF Idle, SameRefs
  <2>2. a \in Range(w.channels)
    BY <2>1, RunningListed DEF IdleCells
  <2>3. a \in Unused(w) /\ a \in Unused(v)
    BY <1>3, <1>5, <2>1, <2>2 DEF Unused, Idle
  <2>4. w.chan[a].expire \in 1 .. IdleExpire
    BY <2>1 DEF Fresh
  <2>5. v.chan[a] = Ticked(w.chan[a]) /\ w.chan[a] \in Channel
    BY <1>2, <1>3, <2>3
  <2>6. Ticked(w.chan[a]).expire = w.chan[a].expire - 1
    BY <2>4, <2>5, TickedOnce
  <2> QED
    BY <2>1, <2>3, <2>4, <2>5, <2>6
<1>6. IdleExpire \in Nat
  BY WidthAssumption
<1>7. Sorted(v)
  <2> SUFFICES ASSUME NEW x \in Addr, NEW y \in Addr, Idle(v.chan[x]), Idle(v.chan[y]),
                      Before(v.channels, x, y)
               PROVE  v.chan[x].expire >= v.chan[y].expire
    BY DEF Sorted
  <2>1. w.chan[x].expire >= w.chan[y].expire
    BY <1>3, <1>5 DEF Sorted
  <2> QED
    BY <1>5, <1>6, <2>1
<1>8. Thins(v, z)
  BY <1>1, StopAllThins DEF WorldOK
<1>9. \A a \in Addr : Idle(z.chan[a]) => a \notin dead
  BY <1>1, StopAllCells DEF WorldOK, Idle
<1> HIDE DEF z
<1>10. Fresh(z.chan)
  <2> SUFFICES ASSUME NEW a \in Addr, Idle(z.chan[a])
               PROVE  z.chan[a].expire \in 1 .. IdleExpire
    BY DEF Fresh
  <2>1. Idle(v.chan[a]) /\ z.chan[a].expire = v.chan[a].expire
    BY <1>8 DEF Thins
  <2>2. v.chan[a].expire # 0
    BY <1>5, <1>9, <2>1
  <2> QED
    BY <1>5, <1>6, <2>1, <2>2
<1>11. Sorted(z)
  BY <1>7, <1>8, ThinsSorted
<1> QED
  BY <1>4, <1>10, <1>11 DEF v

OrderOK == Sorted(World) /\ Fresh(chan)

LEMMA BecomeSorts ==
  ASSUME NEW z, Become(z), Sorted(z), Fresh(z.chan)
  PROVE  OrderOK'
<1>1. chan' = z.chan /\ channels' = z.channels
  BY DEF Become
<1>2. Fresh(chan)'
  BY <1>1 DEF Fresh
<1>3. World'.chan = chan' /\ World'.channels = channels'
  BY DEF World
<1>4. Sorted(World)'
  BY <1>1, <1>3 DEF Sorted
<1> QED
  BY <1>2, <1>4 DEF OrderOK

LEMMA ThinsOrder ==
  ASSUME SessInv, OrderOK, NEW z, Become(z), Thins(World, z)
  PROVE  OrderOK'
BY BecomeSorts, ThinsSorted, SessInvParts DEF OrderOK

LEMMA UnchangedOrder ==
  ASSUME OrderOK, UNCHANGED <<chan, channels>>
  PROVE  OrderOK'
<1>1. Fresh(chan)'
  BY DEF Fresh, OrderOK
<1>2. /\ World'.chan = World.chan /\ World'.channels = World.channels
  BY DEF World
<1>3. Sorted(World)'
  BY <1>2 DEF Sorted, OrderOK
<1> QED
  BY <1>1, <1>3 DEF OrderOK

(* check_parallel ends the handlers of the users.                          *)
LEMMA CheckParallelOrder ==
  ASSUME NEW w, w \in WorldType, Sorted(w), Fresh(w.chan), NEW m, Become(CheckParallel(w, m))
  PROVE  OrderOK'
BY CheckParallelThins, ThinsSorted, BecomeSorts

LEMMA StartSharedOrder ==
  ASSUME SessInv, OrderOK,
         NEW c \in Call, NEW r \in Rid, NEW p \in Ports, StartShared(c, r, p)
  PROVE  OrderOK'
<1>1. PICK a \in Matching(World, r) : Become(CheckParallel(Attached(c, a), max_parallel))
  BY DEF StartShared
<1> DEFINE w == Attached(c, a)
<1>2. a \in Range(channels)
  BY SessInvParts DEF Matching
<1>3. Thins(World, w) /\ w \in WorldType
  BY <1>2, SessInvParts, AttachedThins
<1> HIDE DEF w
<1>4. Sorted(w) /\ Fresh(w.chan)
  BY <1>3, SessInvParts, ThinsSorted DEF OrderOK
<1>5. Become(CheckParallel(w, max_parallel))
  BY <1>1 DEF w
<1> QED
  BY <1>3, <1>4, <1>5, CheckParallelOrder

LEMMA StopChannelOrder ==
  ASSUME SessInv, OrderOK, NEW c \in Call, StopChannel(c)
  PROVE  OrderOK'
<1> DEFINE w == Released(c)
<1>1. handle[c].channel # NULL /\ Become(CheckParallel(w, max_parallel))
  BY DEF StopChannel
<1>2. Sorted(w) /\ Fresh(w.chan) /\ w \in WorldType
  BY <1>1, SessInvParts, ReleasedSorts DEF OrderOK
<1> HIDE DEF w
<1> QED
  BY <1>1, <1>2, CheckParallelOrder

LEMMA StartNewOrder ==
  ASSUME SessInv, OrderOK,
         NEW c \in Call, NEW r \in Rid, NEW p \in Ports, StartNew(c, r, p)
  PROVE  OrderOK'
<1> DEFINE w == Cleared(r)
<1>1. \/ \E a \in Addr, h \in Handle :
           /\ w.chan[a].status = "free"
           /\ Become(CheckParallel(Opened(w, c, r, p, a, h), max_parallel))
      \/ Become([w EXCEPT !.posted = Post(@, {c}, Failed)])
  BY DEF StartNew
<1>2. WorldOK(w) /\ Thins(World, w)
  BY SessInvParts, ClearedOK, ClearedThins
<1> HIDE DEF w
<1>3. Sorted(w) /\ Fresh(w.chan)
  BY <1>2, SessInvParts, ThinsSorted DEF OrderOK
<1>4. ASSUME NEW a \in Addr, NEW h \in Handle, w.chan[a].status = "free",
             Become(CheckParallel(Opened(w, c, r, p, a, h), max_parallel))
      PROVE  OrderOK'
  <2> DEFINE o == Opened(w, c, r, p, a, h)
  <2>1. Thins(w, o) /\ WorldOK(o)
    BY <1>2, <1>4, OpenedThins, OpenedOK
  <2> HIDE DEF o
  <2>2. Sorted(o) /\ Fresh(o.chan)
    BY <1>3, <2>1, ThinsSorted
  <2>3. Become(CheckParallel(o, max_parallel)) /\ o \in WorldType
    BY <1>4, <2>1 DEF o, WorldOK
  <2> QED
    BY <2>2, <2>3, CheckParallelOrder
<1>5. CASE Become([w EXCEPT !.posted = Post(@, {c}, Failed)])
  <2> DEFINE z == [w EXCEPT !.posted = Post(@, {c}, Failed)]
  <2>1. z.chan = w.chan /\ z.channels = w.channels
    BY <1>2 DEF WorldOK, WorldType
  <2>2. Become(z)
    BY <1>5
  <2> HIDE DEF z
  <2>3. Sorted(z) /\ Fresh(z.chan)
    BY <1>3, <2>1 DEF Sorted
  <2> QED
    BY <2>2, <2>3, BecomeSorts
<1> QED
  BY <1>1, <1>4, <1>5

LEMMA HandleStartChannelOrder ==
  ASSUME SessInv, OrderOK, NEW a \in Addr, HandleStartChannel(a)
  PROVE  OrderOK'
<1> DEFINE z == Started(a, Head(done[a]))
<1>1. done[a] # <<>> /\ Become(z)
  BY DEF HandleStartChannel
<1>2. (\E v : Concludes(v, z, a)) \/ Continues(z, a)
  BY <1>1, StartedCells
<1> HIDE DEF z
<1>3. World.chan = chan /\ World.channels = channels
  BY SessInvParts
<1>4. ASSUME NEW v, Concludes(v, z, a)
      PROVE  Thins(World, z)
  <2>1. /\ z = StopAll(v, {a}) /\ v \in WorldType /\ v.channels = channels
        /\ \A b \in Addr \ {a} : v.chan[b] = chan[b]
        /\ ~ Active(v.chan[a])
    BY <1>4 DEF Concludes, WorldOK
  <2>2. Thins(v, z)
    BY <2>1, StopAllThins
  <2>3. Thins(World, v)
    BY <1>3, <2>1 DEF Thins, Idle
  <2> QED
    BY <2>2, <2>3, ThinsTransitive
<1>5. CASE Continues(z, a)
  <2>1. /\ z.channels = channels
        /\ \A b \in Addr \ {a} : z.chan[b] = chan[b]
        /\ Active(chan[a]) /\ z.chan[a].nref = chan[a].nref
        /\ z.chan[a].expire = chan[a].expire
    BY <1>5 DEF Continues
  <2>2. Thins(World, z)
    BY <1>3, <2>1 DEF Thins, Idle
  <2> QED
    BY <1>1, <2>2, ThinsOrder
<1> QED
  BY <1>1, <1>2, <1>4, <1>5, ThinsOrder

LEMMA HandleTimerOrder ==
  ASSUME SessInv, OrderOK, NEW failed \in SUBSET MayFail, HandleTimer(failed)
  PROVE  OrderOK'
<1> DEFINE front == SubSeq(channels, 1, WorkingEnd)
           bad   == {a \in Range(front) : chan[a].handle \in failed}
           p     == Partitioned(front, bad)
           w     == StopAll(p, bad)
           z     == Expired(Aged(w))
<1>1. Become(z)
  BY DEF HandleTimer
<1>2. bad \subseteq Range(front) /\ front = SubSeq(channels, 1, WorkingEnd)
  OBVIOUS
<1> HIDE DEF bad, front
<1>3. WorldOK(p) /\ bad \subseteq Range(p.channels) /\ Thins(World, w)
  BY <1>2, SessInvParts, PartitionedOK, PartitionedThins
<1> HIDE DEF p
<1>4. WorldOK(w)
  BY <1>3, StopAllOK
<1> HIDE DEF w
<1>5. Sorted(w) /\ Fresh(w.chan)
  BY <1>3, SessInvParts, ThinsSorted DEF OrderOK
<1>6. Sorted(z) /\ Fresh(z.chan)
  BY <1>4, <1>5, ExpiredSorts
<1> HIDE DEF z
<1> QED
  BY <1>1, <1>6, BecomeSorts

OrderInv == SessInv /\ OrderOK

LEMMA OrderInvInit == Init => OrderInv
<1> SUFFICES ASSUME Init PROVE OrderInv
  OBVIOUS
<1>1. \A a \in Addr : ~ Idle(chan[a])
  BY DEF Init, Idle, Active, NoChannel
<1>2. Sorted(World) /\ Fresh(chan)
  BY <1>1 DEF Sorted, Fresh, World
<1> QED
  BY <1>2, SessInvInit DEF OrderInv, OrderOK

LEMMA OrderInvStep == OrderInv /\ [Next]_vars => OrderInv'
<1> SUFFICES ASSUME SessInv, OrderOK, [Next]_vars
             PROVE  OrderOK'
  BY SessInvStep DEF OrderInv
<1>0. World \in WorldType
  BY SessInvParts DEF WorldOK
<1>1. CASE \E c \in Call : StartBadUrl(c) \/ StopChannel(c) \/ RunCallback(c)
  BY <1>1, StopChannelOrder, UnchangedOrder DEF StartBadUrl, RunCallback
<1>2. CASE \E c \in Call, r \in Rid, p \in Ports : StartNew(c, r, p) \/ StartShared(c, r, p)
  BY <1>2, StartNewOrder, StartSharedOrder
<1>3. CASE \E a \in Addr : HandleStartChannel(a)
  BY <1>3, HandleStartChannelOrder
<1>4. CASE \E h \in Handle : ModuleAnswers(h)
  BY <1>4, UnchangedOrder DEF ModuleAnswers
<1>5. CASE \E m \in MaxParallel : SetMaxParallel(m)
  BY <1>0, <1>5, CheckParallelThins, ThinsOrder DEF SetMaxParallel
<1>6. CASE \E failed \in SUBSET MayFail : HandleTimer(failed)
  BY <1>6, HandleTimerOrder
<1>7. CASE Shutdown
  BY <1>0, <1>7, StopAllThins, ThinsOrder DEF Shutdown
<1>8. CASE UNCHANGED vars
  BY <1>8, UnchangedOrder DEF vars
<1> QED
  BY <1>1, <1>2, <1>3, <1>4, <1>5, <1>6, <1>7, <1>8 DEF Next

(* stop_channel puts what it releases in front with a full countdown, the  *)
(* timer takes one from every countdown, and neither the partition of the  *)
(* failed channels nor the erasures swap two unused ones: check_parallel,  *)
(* which stops the deepest, evicts what was released first, and no         *)
(* countdown is found at zero, from where it would wrap.                   *)
THEOREM IdleStaysInOrder == Spec => []IdleInReleaseOrder
<1>1. OrderInv => IdleInReleaseOrder
  <2> SUFFICES ASSUME SessInv, OrderOK
               PROVE  IdleInReleaseOrder
    BY DEF OrderInv
  <2>1. channels \in Seq(Addr) /\ World.chan = chan /\ World.channels = channels
    BY SessInvParts DEF RefInv, TypeOK
  <2>2. \A i \in DOMAIN channels : channels[i] \in Addr
    BY <2>1, ElementOfSeq, LenProperties
  <2>3. \A i \in IdleAt : chan[channels[i]].expire \in 1 .. IdleExpire
    BY <2>2 DEF IdleAt, OrderOK, Fresh
  <2>4. ASSUME NEW i \in IdleAt, NEW j \in IdleAt, i < j
        PROVE  chan[channels[i]].expire >= chan[channels[j]].expire
    <3>1. Before(channels, channels[i], channels[j])
      BY <2>4 DEF Before, IdleAt
    <3> QED
      BY <2>1, <2>2, <3>1 DEF IdleAt, OrderOK, Sorted
  <2> QED
    BY <2>3, <2>4 DEF IdleInReleaseOrder
<1> QED
  BY <1>1, OrderInvInit, OrderInvStep, PTL DEF Spec

---------------------------------------------------------------------------
(* A channel in use stays the one it was *)

(* What runs in v ran in w, for the same rid and on the same ports.        *)
Remains(w, v) ==
  \A a \in Addr : Active(v.chan[a]) =>
    /\ Active(w.chan[a])
    /\ v.chan[a].rid = w.chan[a].rid /\ v.chan[a].ports = w.chan[a].ports
    /\ w.chan[a].status = "working" => v.chan[a].status = "working"

(* A cell with a user holds the same channel after a step as before, if it *)
(* still runs.                                                             *)
RunsOn ==
  \A a \in Addr : chan[a].nref > 0 /\ Active(chan'[a]) =>
    /\ Active(chan[a])
    /\ chan'[a].rid = chan[a].rid /\ chan'[a].ports = chan[a].ports
    /\ chan[a].status = "working" => chan'[a].status = "working"

LEMMA RemainsTransitive ==
  ASSUME NEW u, NEW v, NEW w, Remains(u, v), Remains(v, w)
  PROVE  Remains(u, w)
BY DEF Remains

LEMMA SameSideRemains ==
  ASSUME NEW w, NEW v, SameSide(w, v)
  PROVE  Remains(w, v)
BY DEF SameSide, SameChannel, Remains, Active

LEMMA StopAllRemains ==
  ASSUME NEW w, w \in WorldType, NEW S
  PROVE  Remains(w, StopAll(w, S))
<1>1. \A a \in Addr : Active(StopAll(w, S).chan[a]) => StopAll(w, S).chan[a] = w.chan[a]
  BY StopAllCells
<1> QED
  BY <1>1 DEF Remains

LEMMA CheckParallelRemains ==
  ASSUME NEW w, w \in WorldType, NEW limit
  PROVE  Remains(w, CheckParallel(w, limit))
<1>1. PICK S : CheckParallel(w, limit) = StopAll(w, S)
  BY CheckParallelForm
<1> QED
  BY <1>1, StopAllRemains

LEMMA RemainsRunsOn ==
  ASSUME SessInv, NEW z, Become(z), Remains(World, z)
  PROVE  RunsOn
BY SessInvParts DEF Become, Remains, RunsOn

LEMMA UnchangedRunsOn ==
  ASSUME UNCHANGED chan
  PROVE  RunsOn
BY DEF RunsOn

LEMMA CheckedRunsOn ==
  ASSUME SessInv, NEW w, WorldOK(w), Remains(World, w), NEW m, Become(CheckParallel(w, m))
  PROVE  RunsOn
<1>1. Remains(w, CheckParallel(w, m))
  BY CheckParallelRemains DEF WorldOK
<1> QED
  BY <1>1, RemainsTransitive, RemainsRunsOn

LEMMA StartSharedRunsOn ==
  ASSUME SessInv, NEW c \in Call, NEW r \in Rid, NEW p \in Ports, StartShared(c, r, p)
  PROVE  RunsOn
<1>1. PICK a \in Matching(World, r) : Become(CheckParallel(Attached(c, a), max_parallel))
  BY DEF StartShared
<1> DEFINE w == Attached(c, a)
<1>2. a \in Range(channels)
  BY SessInvParts DEF Matching
<1>3. WorldOK(w) /\ SameSide(World, w)
  BY <1>2, SessInvParts, AttachedOK, AttachedSame
<1> HIDE DEF w
<1>4. Remains(World, w)
  BY <1>3, SameSideRemains
<1>5. Become(CheckParallel(w, max_parallel))
  BY <1>1 DEF w
<1> QED
  BY <1>3, <1>4, <1>5, CheckedRunsOn

LEMMA StopChannelRunsOn ==
  ASSUME SessInv, NEW c \in Call, StopChannel(c)
  PROVE  RunsOn
<1> DEFINE a == handle[c].channel
           w == Released(c)
<1>1. a # NULL /\ Become(CheckParallel(w, max_parallel))
      /\ handle' = [handle EXCEPT ![c] = NoHandle]
  BY DEF StopChannel
<1>2. a \in Addr /\ chan[a].nref \in Nat \ {0}
  BY <1>1, SessInvParts, OneHolderLess
<1> HIDE DEF a
<1>3. a = handle[c].channel
  BY DEF a
<1>4. WorldOK(w) /\ SameSide(World, w)
  BY <1>2, <1>3, SessInvParts, ReleasedOK, ReleasedSame
<1> HIDE DEF w
<1>5. Remains(World, w)
  BY <1>4, SameSideRemains
<1> QED
  BY <1>1, <1>4, <1>5, CheckedRunsOn

LEMMA ClearedRemains ==
  ASSUME SessInv, NEW r
  PROVE  Remains(World, Cleared(r))
<1> DEFINE w == Cleared(r)
<1>1. PICK u : w = StopAll(u, Matching(World, r)) /\ WorldOK(u) /\ SameSide(World, u)
  BY SessInvParts, ClearedForm
<1> HIDE DEF w
<1>2. Remains(World, u)
  BY <1>1, SameSideRemains
<1>3. Remains(u, w)
  BY <1>1, StopAllRemains DEF WorldOK
<1>4. Remains(World, w)
  BY <1>2, <1>3, RemainsTransitive
<1> QED
  BY <1>4 DEF w

LEMMA StartNewRunsOn ==
  ASSUME SessInv, NEW c \in Call, NEW r \in Rid, NEW p \in Ports, StartNew(c, r, p)
  PROVE  RunsOn
<1> DEFINE w == Cleared(r)
<1>1. \/ \E a \in Addr, h \in Handle :
           /\ w.chan[a].status = "free"
           /\ Become(CheckParallel(Opened(w, c, r, p, a, h), max_parallel))
      \/ Become([w EXCEPT !.posted = Post(@, {c}, Failed)])
  BY DEF StartNew
<1>2. WorldOK(w) /\ SameRefs(World, w) /\ Remains(World, w)
  BY SessInvParts, ClearedOK, ClearedRemains
<1> HIDE DEF w
<1>3. ASSUME NEW a \in Addr, NEW h \in Handle, w.chan[a].status = "free",
             Become(CheckParallel(Opened(w, c, r, p, a, h), max_parallel))
      PROVE  RunsOn
  <2> DEFINE o == Opened(w, c, r, p, a, h)
             z == CheckParallel(o, max_parallel)
  <2>1. WorldOK(o) /\ o.chan = [w.chan EXCEPT ![a] = NewChannel(r, p, h, c)]
    BY <1>2, <1>3, OpenedOK
  <2> HIDE DEF o
  <2>2. Remains(o, z)
    BY <2>1, CheckParallelRemains DEF WorldOK
  <2> HIDE DEF z
  <2>3. \A b \in Addr \ {a} : o.chan[b] = w.chan[b]
    BY <1>2, <2>1 DEF WorldOK, WorldType
  <2>4. chan[a].nref = 0
    <3>1. w.chan[a].nref = 0
      BY <1>2, <1>3 DEF WorldOK
    <3> QED
      BY <1>2, <3>1, SessInvParts DEF SameRefs
  <2>5. chan' = z.chan
    BY <1>3 DEF Become, z, o
  <2>6. World.chan = chan
    BY SessInvParts
  <2> QED
    BY <1>2, <2>2, <2>3, <2>4, <2>5, <2>6 DEF Remains, RunsOn
<1>4. CASE Become([w EXCEPT !.posted = Post(@, {c}, Failed)])
  <2>1. chan' = w.chan
    BY <1>2, <1>4 DEF Become, WorldOK, WorldType
  <2> QED
    BY <1>2, <2>1, SessInvParts DEF Remains, RunsOn
<1> QED
  BY <1>1, <1>3, <1>4

LEMMA HandleStartChannelRunsOn ==
  ASSUME SessInv, NEW a \in Addr, HandleStartChannel(a)
  PROVE  RunsOn
<1> DEFINE z == Started(a, Head(done[a]))
<1>1. done[a] # <<>> /\ Become(z)
  BY DEF HandleStartChannel
<1>2. (\E v : Concludes(v, z, a)) \/ Continues(z, a)
  BY <1>1, StartedCells
<1> HIDE DEF z
<1>3. World.chan = chan
  BY SessInvParts
<1>4. ASSUME NEW v, Concludes(v, z, a)
      PROVE  Remains(World, z)
  <2>1. /\ z = StopAll(v, {a}) /\ v \in WorldType /\ ~ Active(v.chan[a])
        /\ \A b \in Addr \ {a} : v.chan[b] = chan[b]
    BY <1>4 DEF Concludes, WorldOK
  <2>2. Remains(v, z)
    BY <2>1, StopAllRemains
  <2>3. Remains(World, v)
    BY <1>3, <2>1 DEF Remains
  <2> QED
    BY <2>2, <2>3, RemainsTransitive
<1>5. CASE Continues(z, a)
  <2>1. Remains(World, z)
    BY <1>3, <1>5 DEF Remains, Continues
  <2> QED
    BY <1>1, <2>1, RemainsRunsOn
<1> QED
  BY <1>1, <1>2, <1>4, <1>5, RemainsRunsOn

LEMMA HandleTimerRunsOn ==
  ASSUME SessInv, NEW failed \in SUBSET MayFail, HandleTimer(failed)
  PROVE  RunsOn
<1> DEFINE front == SubSeq(channels, 1, WorkingEnd)
           bad   == {a \in Range(front) : chan[a].handle \in failed}
           p     == Partitioned(front, bad)
           w     == StopAll(p, bad)
           aged  == Aged(w)
           z     == Expired(aged)
<1>1. Become(z)
  BY DEF HandleTimer
<1>2. bad \subseteq Range(front) /\ front = SubSeq(channels, 1, WorkingEnd)
  OBVIOUS
<1> HIDE DEF bad, front
<1>3. WorldOK(p) /\ bad \subseteq Range(p.channels) /\ SameSide(World, p)
  BY <1>2, SessInvParts, PartitionedOK, PartitionedSame
<1> HIDE DEF p
<1>4. WorldOK(w) /\ Remains(p, w)
  BY <1>3, StopAllOK, StopAllRemains DEF WorldOK
<1> HIDE DEF w
<1>5. WorldOK(aged) /\ SameSide(w, aged)
  BY <1>4, AgedOK, AgedSame
<1> HIDE DEF aged
<1>6. Remains(aged, z)
  BY <1>5, StopAllRemains DEF Expired, WorldOK
<1> HIDE DEF z
<1>7. Remains(World, z)
  BY <1>3, <1>4, <1>5, <1>6, SameSideRemains, RemainsTransitive
<1> QED
  BY <1>1, <1>7, RemainsRunsOn

LEMMA RunsOnStep == SessInv /\ [Next]_vars => RunsOn
<1> SUFFICES ASSUME SessInv, [Next]_vars
             PROVE  RunsOn
  OBVIOUS
<1>0. WorldOK(World) /\ World \in WorldType /\ Remains(World, World)
  BY SessInvParts DEF WorldOK, Remains
<1>1. CASE \E c \in Call : StartBadUrl(c) \/ StopChannel(c) \/ RunCallback(c)
  BY <1>1, StopChannelRunsOn, UnchangedRunsOn DEF StartBadUrl, RunCallback
<1>2. CASE \E c \in Call, r \in Rid, p \in Ports : StartNew(c, r, p) \/ StartShared(c, r, p)
  BY <1>2, StartNewRunsOn, StartSharedRunsOn
<1>3. CASE \E a \in Addr : HandleStartChannel(a)
  BY <1>3, HandleStartChannelRunsOn
<1>4. CASE \E h \in Handle : ModuleAnswers(h)
  BY <1>4, UnchangedRunsOn DEF ModuleAnswers
<1>5. CASE \E m \in MaxParallel : SetMaxParallel(m)
  BY <1>0, <1>5, CheckedRunsOn DEF SetMaxParallel
<1>6. CASE \E failed \in SUBSET MayFail : HandleTimer(failed)
  BY <1>6, HandleTimerRunsOn
<1>7. CASE Shutdown
  BY <1>0, <1>7, StopAllRemains, RemainsRunsOn DEF Shutdown
<1>8. CASE UNCHANGED vars
  BY <1>8, UnchangedRunsOn DEF vars
<1> QED
  BY <1>1, <1>2, <1>3, <1>4, <1>5, <1>6, <1>7, <1>8 DEF Next

(* A channel that has a rid runs: one that ended has lost it.              *)
LEMMA RidRuns ==
  ASSUME SessInv, NEW a \in Addr, chan[a].rid # ""
  PROVE  Active(chan[a])
<1>1. CellsOK(chan)
  BY DEF SessInv, CallInv, CallsOK
<1> QED
  BY <1>1 DEF CellsOK, Active

(* A channel in use that nobody restarts, reports or shuts down stays what *)
(* it is as long as it has a user.                                         *)
LEMMA UsedStays ==
  ASSUME SessInv, [Next]_vars, NEW a \in Addr, Used(chan[a]), chan'[a].nref > 0,
         ~ (running /\ ~ running'), ~ Reported(a),
         \A c \in Call : want[c] = NULL /\ want'[c] = chan[a].rid => handle'[c].channel = a
  PROVE  /\ Used(chan'[a])
         /\ chan'[a].rid = chan[a].rid /\ chan'[a].ports = chan[a].ports
         /\ chan[a].status = "working" => chan'[a].status = "working"
<1>1. Used(chan'[a])
  BY KeptStep DEF KeptUnless
<1>2. chan[a].nref > 0 /\ Active(chan'[a])
  BY <1>1 DEF Used
<1> QED
  BY <1>1, <1>2, RunsOnStep DEF RunsOn

---------------------------------------------------------------------------
(* The channels and who holds them *)

(* A channel has a user as long as somebody holds its handle.              *)
LEMMA RefsAreHolders ==
  ASSUME SessInv, NEW a \in Addr
  PROVE  chan[a].nref \in Nat /\ (chan[a].nref > 0 <=> \E d \in Call : handle[d].channel = a)
<1>1. /\ chan[a].nref = Cardinality(Holders(a)) /\ IsFiniteSet(Holders(a))
      /\ chan[a].nref \in Nat
  BY SessInvParts, DomainAssumption, FS_Subset
     DEF RefInv, RefCountExact, TypeOK, Channel, Holders
<1>2. chan[a].nref = 0 <=> Holders(a) = {}
  BY <1>1, FS_EmptySet
<1> QED
  BY <1>1, <1>2 DEF Holders

RefsKnown ==
  \A a \in Addr : chan[a].nref > 0 <=> \E d \in Call : handle[d].channel = a

LEMMA RefsAreKnown == SessInv => RefsKnown
BY RefsAreHolders DEF RefsKnown

LEMMA RefsKnownStep ==
  ASSUME SessInv, SessInv'
  PROVE  RefsKnown /\ RefsKnown'
<1>1. SessInv' => RefsKnown'
  BY RefsAreKnown, PTL
<1> QED
  BY <1>1, RefsAreKnown

(* What runs has a rid.                                                    *)
LEMMA UsedHasRid ==
  ASSUME SessInv, NEW a \in Addr, Active(chan[a])
  PROVE  chan[a].rid # "" /\ chan[a].rid # NULL
<1>1. CallbackDue
  BY DEF SessInv, SessOK, Due, CallbackDue
<1>2. /\ chan[a] \in Channel /\ sess \in [Handle -> Session]
  BY SessInvParts DEF RefInv, TypeOK
<1>3. chan[a].handle \in Handle /\ sess[chan[a].handle].rid = chan[a].rid
  BY <1>1, <1>2 DEF CallbackDue, Channel
<1>4. sess[chan[a].handle].rid \in Rid \cup {NULL}
  BY <1>2, <1>3 DEF Session
<1>5. chan[a].rid \in Rid \cup {""}
  BY <1>2 DEF Channel
<1> QED
  BY <1>3, <1>4, <1>5, DomainAssumption

Same(a) == chan'[a].rid = chan[a].rid /\ chan'[a].ports = chan[a].ports

LEMMA SharedIsMatching ==
  ASSUME SessInv, NEW a \in Addr, chan[a].rid # ""
  PROVE  a \in Matching(World, chan[a].rid)
<1>1. Active(chan[a])
  BY RidRuns
<1>2. chan[a].status # "free"
  BY <1>1 DEF Active
<1>3. a \in Range(channels)
  BY <1>2, SessInvParts DEF RefInv, VectorIsHeap
<1> QED
  BY <1>3, SessInvParts DEF Matching

(* A start for a rid that runs already, on ports that need no change,      *)
(* shares its channel.                                                     *)
LEMMA StartSharesWhatRuns ==
  ASSUME SessInv, NEW c \in Call, NEW r \in Rid, NEW p \in Ports,
         StartNew(c, r, p) \/ StartShared(c, r, p),
         NEW a \in Addr, chan[a].rid = r, ~ Restarts(chan[a], p)
  PROVE  handle'[c].channel = a
<1>1. r # ""
  BY DomainAssumption
<1>2. a \in Matching(World, r)
  BY <1>1, SharedIsMatching
<1>3. ~ StartNew(c, r, p)
  BY <1>2 DEF StartNew
<1>4. PICK b \in Matching(World, r) : \E n :
           handle' = [handle EXCEPT ![c] = [channel |-> b, token |-> n]]
  BY <1>3 DEF StartShared
<1>5. b \in Addr /\ chan[b].rid = r
  <2>1. b \in Range(channels) /\ chan[b].rid = r
    BY SessInvParts DEF Matching
  <2> QED
    BY <2>1, SessInvParts DEF RefInv, VectorIsHeap
<1>6. b = a
  BY <1>1, <1>5 DEF SessInv, OneRid
<1>7. handle \in [Call -> UserHandle]
  BY SessInvParts DEF RefInv, TypeOK
<1> QED
  BY <1>4, <1>6, <1>7

(* What a start leaves: the caller's channel runs, for its rid, and on its *)
(* ports if it named both.  One that is starting is to call back.          *)
StartedFor(c, r, p, a, n) ==
  /\ handle' = [handle EXCEPT ![c] = [channel |-> a, token |-> n]]
  /\ Used(chan'[a]) /\ chan'[a].rid = r
  /\ p[1] # 0 /\ p[2] # 0 => chan'[a].ports = p
  /\ ~ StartNew(c, r, p) => chan[a].rid = r
  /\ chan'[a].status = "started" => n # 0

LEMMA StartGives ==
  ASSUME SessInv, NEW c \in Call, NEW r \in Rid, NEW p \in Ports,
         StartNew(c, r, p) \/ StartShared(c, r, p)
  PROVE  \/ StartNew(c, r, p) /\ handle' = handle
         \/ \E a \in Addr, n \in Nat : StartedFor(c, r, p, a, n)
<1>1. CASE StartNew(c, r, p) /\ handle' # handle
  <2> DEFINE w == Cleared(r)
  <2>1. PICK a \in Addr, h \in Handle :
             /\ w.chan[a].status = "free"
             /\ Become(CheckParallel(Opened(w, c, r, p, a, h), max_parallel))
             /\ handle' = [handle EXCEPT ![c] = [channel |-> a, token |-> 1]]
    BY <1>1 DEF StartNew
  <2>2. WorldOK(w)
    BY SessInvParts, ClearedOK
  <2> HIDE DEF w
  <2> DEFINE o == Opened(w, c, r, p, a, h)
             y == NewChannel(r, p, h, c)
  <2>3. WorldOK(o) /\ o.chan = [w.chan EXCEPT ![a] = y]
    BY <2>1, <2>2, OpenedOK
  <2>4. y.status = "started" /\ y.nref = 1 /\ y.rid = r /\ y.ports = p
    BY DEF NewChannel, NoChannel
  <2> HIDE DEF o, y
  <2>5. o.chan[a] = y
    BY <2>2, <2>3 DEF WorldOK, WorldType
  <2>6. CheckParallel(o, max_parallel).chan[a] = y
    <3>1. o.chan[a].nref # 0
      BY <2>4, <2>5
    <3>2. WorldOK(o)
      BY <2>3
    <3>3. CheckParallel(o, max_parallel).chan[a] = o.chan[a]
      BY <3>1, <3>2, CheckParallelSpares
    <3> QED
      BY <2>5, <3>3
  <2>7. chan'[a] = y
    BY <2>1, <2>6 DEF Become, o
  <2>8. Used(chan'[a]) /\ chan'[a].rid = r /\ chan'[a].ports = p
    BY <2>4, <2>7 DEF Used, Active
  <2>9. StartedFor(c, r, p, a, 1)
    BY <1>1, <2>1, <2>8 DEF StartedFor
  <2> QED
    BY <2>9
<1>2. CASE StartShared(c, r, p)
  <2>1. PICK a \in Matching(World, r) :
             /\ ~ Restarts(chan[a], p)
             /\ Become(CheckParallel(Attached(c, a), max_parallel))
             /\ handle' = [handle EXCEPT ![c] =
                  [channel |-> a,
                   token   |-> IF chan[a].status = "working" THEN 0
                               ELSE Len(chan[a].call_backs) + 1]]
    BY <1>2 DEF StartShared
  <2> DEFINE w == Attached(c, a)
             n == IF chan[a].status = "working" THEN 0 ELSE Len(chan[a].call_backs) + 1
  <2>2. a \in Range(channels) /\ chan[a].rid = r
    BY <2>1, SessInvParts DEF Matching
  <2>3. /\ WorldOK(w) /\ a \in Addr /\ w.chan[a].nref = chan[a].nref + 1
    BY <2>2, SessInvParts, AttachedOK
  <2>4. SameChannel(chan[a], w.chan[a])
    BY <2>3, SessInvParts, AttachedSame DEF SameSide
  <2>5. chan[a] \in Channel
    BY <2>3, SessInvParts DEF RefInv, TypeOK
  <2>6. n \in Nat /\ (chan[a].status = "started" => n # 0)
    <3>1. chan[a].call_backs \in Seq(Call \cup {NULL})
      BY <2>5 DEF Channel
    <3> QED
      BY <3>1, LenProperties
  <2> HIDE DEF w, n
  <2>7. w.chan[a].nref # 0 /\ w.chan[a].nref > 0
    <3>1. chan[a].nref \in Nat
      BY <2>5 DEF Channel
    <3> QED
      BY <2>3, <3>1
  <2>8. chan'[a] = w.chan[a]
    <3>1. CheckParallel(w, max_parallel).chan[a] = w.chan[a]
      BY <2>3, <2>7, CheckParallelSpares
    <3> QED
      BY <2>1, <3>1 DEF Become, w
  <2>9. Active(chan[a])
    <3>1. chan[a].rid # ""
      BY <2>2, DomainAssumption
    <3> QED
      BY <2>3, <3>1, RidRuns
  <2>10. /\ Used(chan'[a]) /\ chan'[a].rid = r /\ chan'[a].ports = chan[a].ports
         /\ chan'[a].status = chan[a].status
    BY <2>2, <2>3, <2>4, <2>7, <2>8, <2>9 DEF SameChannel, Used, Active
  <2>11. p[1] # 0 /\ p[2] # 0 => p = chan[a].ports
    BY <2>1 DEF Restarts
  <2>12. handle' = [handle EXCEPT ![c] = [channel |-> a, token |-> n]]
    BY <2>1 DEF n
  <2>13. StartedFor(c, r, p, a, n)
    BY <2>2, <2>6, <2>10, <2>11, <2>12 DEF StartedFor
  <2> QED
    BY <2>3, <2>6, <2>13
<1> QED
  BY <1>1, <1>2
=============================================================================
