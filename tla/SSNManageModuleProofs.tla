------------------------ MODULE SSNManageModuleProofs ------------------------
(***************************************************************************)
(* Proofs about SSNManageModule: it uses LiveManager as any user may, no   *)
(* handle is lost between its two vectors, and what a list asks for runs   *)
(* before, during and after the replacement of the list before.            *)
(***************************************************************************)
EXTENDS SSNManageModule, LiveManagerCacheProofs

(* How many entries of the list in force were handed to LiveManager.       *)
Reached == Len(list) - Len(todo)

(* What is left to do is the end of the list.                              *)
EntriesInOrder ==
  /\ list \in Seq(Entry) /\ todo \in Seq(Entry) /\ Len(todo) <= Len(list)
  /\ \A j \in DOMAIN todo : todo[j] = list[Reached + j]

VectorsOK ==
  /\ tempList \in Seq(Call) /\ channel_ \in Seq(Call)
  /\ Distinct(tempList) /\ Distinct(channel_)
  /\ Range(tempList) \cap Range(channel_) = {}
  /\ Open = Range(channel_) \cup Range(tempList)

ModuleInv ==
  /\ SessInv /\ EntriesInOrder /\ VectorsOK
  /\ busy \in BOOLEAN
  /\ ~ busy => todo = <<>> /\ tempList = <<>>

---------------------------------------------------------------------------
(* Invariants of the replacement *)

(* A channel that the list keeps as it is, and that it has reached, has a  *)
(* user among the calls of the new vector.                                 *)
HeldByNew ==
  busy => \A a \in Addr :
    /\ Used(chan[a]) /\ KeptOn(chan[a])
    /\ \E i \in 1 .. Reached : RidOf(list[i]) = chan[a].rid
    => \E c \in Range(tempList) : handle[c].channel = a

(* The calls that stand for the list in force.                             *)
InForce == IF busy THEN tempList ELSE channel_

(* No entry after i, of those that were reached, fixes the ports anew.     *)
LastReached(i, n) ==
  \A j \in i + 1 .. n :
    RidOf(list[j]) = RidOf(list[i]) => ~ Fixed(PortsOf(list[j]))

Plays(a, i, n) ==
  /\ Used(chan[a]) /\ chan[a].rid = RidOf(list[i])
  /\ Fixed(PortsOf(list[i])) /\ LastReached(i, n) => chan[a].ports = PortsOf(list[i])

ReachedRun ==
  running => \A i \in 1 .. Reached :
    RidOf(list[i]) \notin refused =>
      \E c \in Range(InForce) : \E a \in Addr :
        handle[c].channel = a /\ Plays(a, i, Reached)

---------------------------------------------------------------------------
(* Entries and vectors *)

LEMMA EntryFits ==
  ASSUME NEW e \in Entry
  PROVE  /\ RidOf(e) \in Rid \cup {""}
         /\ RidOf(e) # "" => RidOf(e) = e.rid /\ e.rid \in Rid
         /\ PortsOf(e) \in (0 .. PortWord - 1) \X (0 .. PortWord - 1)
         /\ PortsOf(e) \in Ports
<1>1. e.rid \in Rid /\ e.port \in Seq(Nat) /\ Len(e.port) \in {1, 2}
  BY DEF Entry
<1>2. RidOf(e) \in Rid \cup {""} /\ (RidOf(e) # "" => RidOf(e) = e.rid)
  BY <1>1 DEF RidOf
<1>3. e.port[1] \in Nat /\ e.port[Len(e.port)] \in Nat
  <2>1. 1 \in DOMAIN e.port /\ Len(e.port) \in DOMAIN e.port
    BY <1>1, LenProperties
  <2> QED
    BY <1>1, <2>1, ElementOfSeq
<1>4. /\ e.port[1] % PortWord \in 0 .. PortWord - 1
      /\ e.port[Len(e.port)] % PortWord \in 0 .. PortWord - 1
  <2>1. PortWord \in Nat \ {0}
    BY ListsAssumption
  <2>2. \A x \in Nat : x % PortWord \in 0 .. PortWord - 1
    BY <2>1, ModRange
  <2> QED
    BY <1>3, <2>2
<1>5. PortsOf(e) \in (0 .. PortWord - 1) \X (0 .. PortWord - 1)
  BY <1>4 DEF PortsOf
<1> QED
  BY <1>1, <1>2, <1>5, ListsAssumption

LEMMA TailDistinct ==
  ASSUME NEW S, NEW s \in Seq(S), s # <<>>, Distinct(s)
  PROVE  /\ Head(s) \in S /\ Head(s) \in Range(s)
         /\ Tail(s) \in Seq(S) /\ Distinct(Tail(s))
         /\ Range(Tail(s)) = Range(s) \ {Head(s)}
<1> DEFINE t == Tail(s)
<1>1. /\ Head(s) \in S /\ Head(s) = s[1]
      /\ t \in Seq(S) /\ Len(t) = Len(s) - 1
      /\ \A i \in 1 .. Len(t) : t[i] = s[i + 1]
  BY HeadTailProperties
<1>2. Len(s) \in Nat \ {0} /\ DOMAIN s = 1 .. Len(s) /\ DOMAIN t = 1 .. Len(s) - 1
  BY <1>1, LenProperties, EmptySeq
<1> HIDE DEF t
<1>3. Head(s) \in Range(s)
  BY <1>1, <1>2 DEF Range
<1>4. ASSUME NEW i \in DOMAIN t, NEW j \in DOMAIN t, t[i] = t[j]
      PROVE  i = j
  <2>1. i \in Int /\ j \in Int /\ i + 1 \in DOMAIN s /\ j + 1 \in DOMAIN s
    BY <1>2
  <2>2. s[i + 1] = s[j + 1]
    BY <1>1, <1>2, <1>4
  <2>3. i + 1 = j + 1
    BY <2>1, <2>2 DEF Distinct
  <2> QED
    BY <2>1, <2>3
<1>5. ASSUME NEW x \in Range(t)
      PROVE  x \in Range(s) \ {Head(s)}
  <2>1. PICK i \in DOMAIN t : x = t[i]
    BY <1>5 DEF Range
  <2>2. x = s[i + 1] /\ i + 1 \in DOMAIN s /\ i + 1 # 1 /\ 1 \in DOMAIN s
    BY <1>1, <1>2, <2>1
  <2> QED
    BY <1>1, <2>2 DEF Distinct, Range
<1>6. ASSUME NEW x \in Range(s) \ {Head(s)}
      PROVE  x \in Range(t)
  <2>1. PICK i \in DOMAIN s : x = s[i]
    BY <1>6 DEF Range
  <2>2. i # 1 /\ i - 1 \in DOMAIN t /\ x = t[i - 1]
    BY <1>1, <1>2, <1>6, <2>1
  <2> QED
    BY <2>2 DEF Range
<1> QED
  <2>1. Distinct(t)
    BY <1>4 DEF Distinct
  <2> QED
    BY <1>1, <1>3, <2>1, <1>5, <1>6 DEF t

LEMMA DistinctCount ==
  ASSUME NEW S, NEW s \in Seq(S), Distinct(s)
  PROVE  IsFiniteSet(Range(s)) /\ Cardinality(Range(s)) = Len(s)
<1> DEFINE X == Range(s)
           P == {i \in DOMAIN s : s[i] \in X}
<1>1. /\ IsFiniteSet(X)
      /\ Cardinality(P) = Cardinality(X)
  BY PositionsAreMembers
<1>2. DOMAIN s = 1 .. Len(s) /\ Len(s) \in Nat
  BY LenProperties
<1>3. P = 1 .. Len(s)
  BY <1>2 DEF Range
<1>4. Cardinality(1 .. Len(s)) = Len(s)
  BY <1>2, FS_Interval
<1> QED
  BY <1>1, <1>3, <1>4

---------------------------------------------------------------------------
(* SSNManageModule as a user of LiveManager *)

(* The next entry is the one of the list after those reached.              *)
LEMMA NextEntry ==
  ASSUME EntriesInOrder, todo # <<>>
  PROVE  /\ Head(todo) \in Entry /\ Head(todo) = list[Reached + 1]
         /\ Reached \in Nat /\ Reached + 1 \in DOMAIN list
         /\ list' = list /\ todo' = Tail(todo) =>
              EntriesInOrder' /\ Reached' = Reached + 1
<1>1. /\ list \in Seq(Entry) /\ todo \in Seq(Entry) /\ Len(todo) <= Len(list)
      /\ \A j \in DOMAIN todo : todo[j] = list[Reached + j]
  BY DEF EntriesInOrder
<1>2. /\ Head(todo) \in Entry /\ Head(todo) = todo[1]
      /\ Tail(todo) \in Seq(Entry) /\ Len(Tail(todo)) = Len(todo) - 1
      /\ \A i \in 1 .. Len(Tail(todo)) : Tail(todo)[i] = todo[i + 1]
  BY <1>1, HeadTailProperties
<1>3. /\ Len(todo) \in Nat \ {0} /\ Len(list) \in Nat
      /\ DOMAIN todo = 1 .. Len(todo) /\ DOMAIN list = 1 .. Len(list)
      /\ DOMAIN Tail(todo) = 1 .. Len(todo) - 1
  BY <1>1, <1>2, LenProperties, EmptySeq
<1>4. /\ Reached \in Nat /\ Reached + 1 \in DOMAIN list
      /\ Head(todo) = list[Reached + 1]
  BY <1>1, <1>2, <1>3 DEF Reached
<1>5. ASSUME list' = list, todo' = Tail(todo)
      PROVE  EntriesInOrder' /\ Reached' = Reached + 1
  <2>1. Reached' = Len(list) - Len(Tail(todo))
    BY <1>5 DEF Reached
  <2>2. Reached' = Reached + 1
    BY <1>2, <1>3, <2>1 DEF Reached
  <2>3. \A j \in DOMAIN Tail(todo) : Tail(todo)[j] = list[Reached + 1 + j]
    <3> SUFFICES ASSUME NEW j \in DOMAIN Tail(todo)
                 PROVE  Tail(todo)[j] = list[Reached + 1 + j]
      OBVIOUS
    <3>1. j + 1 \in DOMAIN todo /\ Tail(todo)[j] = todo[j + 1]
      BY <1>2, <1>3
    <3>2. Reached + (j + 1) = Reached + 1 + j
      BY <1>3, <1>4
    <3> QED
      BY <1>1, <3>1, <3>2
  <2>4. Len(Tail(todo)) <= Len(list)
    BY <1>1, <1>2, <1>3
  <2> QED
    BY <1>1, <1>2, <1>5, <2>2, <2>3, <2>4 DEF EntriesInOrder
<1> QED
  BY <1>2, <1>4, <1>5

LEMMA StartEntryIsStep ==
  ASSUME EntriesInOrder, StartEntry
  PROVE  Next
<1> DEFINE e == Head(todo)
<1>1. e \in Entry
  BY NextEntry DEF StartEntry
<1>2. PICK c \in Call :
        IF RidOf(e) = "" THEN StartBadUrl(c)
        ELSE StartNew(c, e.rid, PortsOf(e)) \/ StartShared(c, e.rid, PortsOf(e))
  BY DEF StartEntry, FreeCalls
<1> HIDE DEF e
<1>3. PortsOf(e) \in Ports /\ (RidOf(e) # "" => e.rid \in Rid)
  BY <1>1, EntryFits
<1> QED
  BY <1>2, <1>3 DEF Next

(* What the module does is, to LiveManager, a step of a user or no step.   *)
LEMMA SSNStepIsStep == EntriesInOrder /\ VectorsOK /\ [SSNNext]_allVars => [Next]_vars
<1> SUFFICES ASSUME EntriesInOrder, VectorsOK, [SSNNext]_allVars
             PROVE  [Next]_vars
  OBVIOUS
<1>1. CASE HandleFetchTimer \/ OnFetchChannels \/ SwapChannels \/ StopModule
  BY <1>1 DEF HandleFetchTimer, OnFetchChannels, SwapChannels, StopModule
<1>2. CASE StartEntry
  BY <1>2, StartEntryIsStep
<1>3. CASE ClearOldChannel
  <2>1. StopChannel(Head(channel_)) /\ channel_ # <<>>
    BY <1>3 DEF ClearOldChannel
  <2>2. Head(channel_) \in Call
    BY <2>1, TailDistinct DEF VectorsOK
  <2> QED
    BY <2>1, <2>2 DEF Next
<1>4. CASE Others
  BY <1>4 DEF Others, Next
<1>5. CASE UNCHANGED allVars
  BY <1>5 DEF allVars
<1> QED
  BY <1>1, <1>2, <1>3, <1>4, <1>5 DEF SSNNext

(* A caller that is refused keeps no handle; one that is not, holds a      *)
(* channel that runs what it asked for.                                    *)
Refuses(c, e) ==
  handle' = handle /\ tempList' = tempList /\ refused' = refused \cup {RidOf(e)}

Gives(c, e) ==
  \E a \in Addr, n \in Nat :
    /\ handle' = [handle EXCEPT ![c] = [channel |-> a, token |-> n]]
    /\ tempList' = Append(tempList, c) /\ refused' = refused
    /\ Used(chan'[a]) /\ chan'[a].rid = RidOf(e)
    /\ Fixed(PortsOf(e)) => chan'[a].ports = PortsOf(e)

(* Where the rid runs already and its ports need no change, the caller     *)
(* shares it.                                                              *)
Shares(c, e) ==
  \A a \in Addr :
    chan[a].rid = RidOf(e) /\ RidOf(e) # "" /\ ~ Restarts(chan[a], PortsOf(e)) =>
      handle'[c].channel = a

EntryStarted(c, e) ==
  /\ CanCall(c) /\ want' = [want EXCEPT ![c] = RidOf(e)] /\ running' = running
  /\ Refuses(c, e) \/ Gives(c, e)
  /\ Shares(c, e)

LEMMA StartEntryIs ==
  ASSUME ModuleInv, StartEntry
  PROVE  \E c \in Call : EntryStarted(c, Head(todo))
<1> DEFINE e == Head(todo)
           r == RidOf(e)
           p == PortsOf(e)
<1>1. e \in Entry
  BY NextEntry DEF StartEntry, ModuleInv
<1>2. PICK c \in Call :
        /\ CanCall(c)
        /\ IF r = "" THEN StartBadUrl(c)
           ELSE StartNew(c, e.rid, p) \/ StartShared(c, e.rid, p)
        /\ IF handle'[c].channel # NULL
           THEN tempList' = Append(tempList, c) /\ UNCHANGED refused
           ELSE refused' = refused \cup {r} /\ UNCHANGED tempList
  BY DEF StartEntry, FreeCalls
<1>3. /\ r \in Rid \cup {""} /\ (r # "" => r = e.rid /\ e.rid \in Rid) /\ p \in Ports
  BY <1>1, EntryFits
<1> HIDE DEF e, r, p
<1>4. SessInv /\ handle \in [Call -> UserHandle] /\ NULL \notin Addr
  BY SessInvParts, DomainAssumption DEF ModuleInv, RefInv, TypeOK
<1>5. CASE r = ""
  <2>1. handle' = handle /\ running' = running /\ want' = [want EXCEPT ![c] = r]
    BY <1>2, <1>5 DEF StartBadUrl
  <2>2. handle'[c].channel = NULL
    BY <1>2, <2>1 DEF CanCall
  <2>3. Refuses(c, e) /\ Shares(c, e)
    BY <1>2, <1>5, <2>1, <2>2 DEF Refuses, Shares, r
  <2> QED
    BY <1>2, <2>1, <2>3 DEF EntryStarted, r, e
<1>6. CASE r # ""
  <2>1. r \in Rid /\ (StartNew(c, r, p) \/ StartShared(c, r, p))
    BY <1>2, <1>3, <1>6
  <2>2. running' = running /\ want' = [want EXCEPT ![c] = r]
    BY <2>1 DEF StartNew, StartShared
  <2>3. Shares(c, e)
    BY <1>4, <1>3, <2>1, StartSharesWhatRuns DEF Shares, r, p
  <2>4. Refuses(c, e) \/ Gives(c, e)
    <3>1. CASE handle' = handle
      <4>1. handle'[c].channel = NULL
        BY <1>2, <3>1 DEF CanCall
      <4> QED
        BY <1>2, <3>1, <4>1 DEF Refuses, r
    <3>2. ASSUME NEW a \in Addr, NEW n \in Nat, StartedFor(c, r, p, a, n)
          PROVE  Gives(c, e)
      <4>1. handle' = [handle EXCEPT ![c] = [channel |-> a, token |-> n]]
        BY <3>2 DEF StartedFor
      <4>2. handle'[c].channel # NULL
        BY <1>4, <4>1
      <4> QED
        BY <1>2, <3>2, <4>1, <4>2 DEF StartedFor, Gives, Fixed, r, p
    <3>3. handle' = handle \/ \E a \in Addr, n \in Nat : StartedFor(c, r, p, a, n)
      BY <1>3, <1>4, <2>1, StartGives
    <3> QED
      BY <3>1, <3>2, <3>3
  <2> QED
    BY <1>2, <2>2, <2>3, <2>4 DEF EntryStarted, r, e
<1> QED
  BY <1>5, <1>6

(* What a call of stop_channel does to the handles and the old vector.     *)
LEMMA ClearIs ==
  ASSUME ModuleInv, ClearOldChannel
  PROVE  \E c \in Range(channel_) :
           /\ c \in Call /\ handle[c].channel # NULL
           /\ handle' = [handle EXCEPT ![c] = NoHandle]
           /\ running' = running /\ want' = want
           /\ channel_' \in Seq(Call) /\ Distinct(channel_')
           /\ Range(channel_') = Range(channel_) \ {c}
<1> DEFINE c == Head(channel_)
<1>1. channel_ # <<>> /\ StopChannel(c) /\ channel_' = Tail(channel_)
  BY DEF ClearOldChannel
<1>2. channel_ \in Seq(Call) /\ Distinct(channel_)
  BY DEF ModuleInv, VectorsOK
<1>3. /\ c \in Call /\ c \in Range(channel_)
      /\ channel_' \in Seq(Call) /\ Distinct(channel_')
      /\ Range(channel_') = Range(channel_) \ {c}
  BY <1>1, <1>2, TailDistinct
<1> HIDE DEF c
<1> QED
  BY <1>1, <1>3 DEF StopChannel

(* What else happens leaves the handles alone.                             *)
LEMMA OthersKeepHandles ==
  ASSUME Others
  PROVE  /\ handle' = handle /\ (running' => running)
         /\ UNCHANGED <<todo, list, tempList, channel_, busy, refused>> /\ ~ busy
<1>1. UNCHANGED <<todo, list, tempList, channel_, busy, refused>> /\ ~ busy
  BY DEF Others, Idling, ssnVars
<1>2. CASE \E c \in Call : RunCallback(c)
  BY <1>1, <1>2 DEF RunCallback
<1>3. CASE \E h \in Handle : ModuleAnswers(h)
  BY <1>1, <1>3 DEF ModuleAnswers
<1>4. CASE \E a \in Addr : HandleStartChannel(a)
  BY <1>1, <1>4 DEF HandleStartChannel
<1>5. CASE \E failed \in SUBSET MayFail : HandleTimer(failed)
  BY <1>1, <1>5 DEF HandleTimer
<1>6. CASE Shutdown
  BY <1>1, <1>6 DEF Shutdown
<1> QED
  BY <1>2, <1>3, <1>4, <1>5, <1>6 DEF Others

---------------------------------------------------------------------------
(* No handle is lost between the two vectors *)

LEMMA StartEntryVectors ==
  ASSUME ModuleInv, StartEntry
  PROVE  VectorsOK' /\ EntriesInOrder'
<1>1. busy /\ todo # <<>> /\ todo' = Tail(todo) /\ list' = list /\ channel_' = channel_
  BY DEF StartEntry
<1>2. EntriesInOrder'
  BY <1>1, NextEntry DEF ModuleInv
<1>3. PICK c \in Call : EntryStarted(c, Head(todo))
  BY StartEntryIs
<1>4. /\ handle \in [Call -> UserHandle] /\ NULL \notin Addr
      /\ handle[c].channel = NULL
  BY <1>3, SessInvParts, DomainAssumption
     DEF EntryStarted, CanCall, ModuleInv, RefInv, TypeOK
<1>5. VectorsOK
  BY DEF ModuleInv
<1>6. ASSUME Refuses(c, Head(todo))
      PROVE  VectorsOK'
  BY <1>1, <1>5, <1>6 DEF Refuses, VectorsOK, Open
<1>7. ASSUME Gives(c, Head(todo))
      PROVE  VectorsOK'
  <2>1. PICK a \in Addr, n \in Nat :
          /\ handle' = [handle EXCEPT ![c] = [channel |-> a, token |-> n]]
          /\ tempList' = Append(tempList, c)
    BY <1>7 DEF Gives
  <2>2. Open' = Open \cup {c} /\ c \notin Open
    BY <1>4, <2>1 DEF Open
  <2>3. c \notin Range(tempList) /\ c \notin Range(channel_)
    BY <1>5, <2>2 DEF VectorsOK
  <2>4. /\ tempList' \in Seq(Call) /\ Range(tempList') = Range(tempList) \cup {c}
        /\ Distinct(tempList')
    BY <1>5, <2>1, <2>3, AppendDistinct DEF VectorsOK
  <2>5. Range(tempList') \cap Range(channel_) = {}
    BY <1>5, <2>3, <2>4 DEF VectorsOK
  <2>6. Open' = Range(channel_) \cup Range(tempList')
    BY <1>5, <2>2, <2>4 DEF VectorsOK
  <2> QED
    BY <1>1, <1>5, <2>4, <2>5, <2>6 DEF VectorsOK
<1> QED
  BY <1>2, <1>3, <1>6, <1>7 DEF EntryStarted

LEMMA ClearOldChannelVectors ==
  ASSUME ModuleInv, ClearOldChannel
  PROVE  VectorsOK'
<1>1. VectorsOK /\ tempList' = tempList
  BY DEF ModuleInv, ClearOldChannel
<1>2. PICK c \in Range(channel_) :
        /\ c \in Call /\ handle' = [handle EXCEPT ![c] = NoHandle]
        /\ channel_' \in Seq(Call) /\ Distinct(channel_')
        /\ Range(channel_') = Range(channel_) \ {c}
  BY ClearIs
<1>3. handle \in [Call -> UserHandle]
  BY SessInvParts DEF ModuleInv, RefInv, TypeOK
<1>4. Open' = Open \ {c}
  BY <1>2, <1>3 DEF Open, NoHandle
<1>5. c \notin Range(tempList)
  BY <1>1, <1>2 DEF VectorsOK
<1> QED
  BY <1>1, <1>2, <1>4, <1>5 DEF VectorsOK

LEMMA NoEntries == Len(<<>>) = 0 /\ Range(<<>>) = {} /\ <<>> \in Seq(Call) /\ Distinct(<<>>)
BY EmptySeq DEF Range, Distinct

LEMMA ModuleInvInit == SSNInit => ModuleInv
<1> SUFFICES ASSUME SSNInit
             PROVE  ModuleInv
  OBVIOUS
<1>1. SessInv
  BY SessInvInit DEF SSNInit
<1>2. Open = {}
  BY DEF SSNInit, Init, Open, NoHandle
<1>3. VectorsOK
  BY <1>2, NoEntries DEF SSNInit, VectorsOK
<1>4. EntriesInOrder
  BY DEF SSNInit, EntriesInOrder
<1> QED
  BY <1>1, <1>3, <1>4 DEF ModuleInv, SSNInit

LEMMA ModuleInvStep == ModuleInv /\ [SSNNext]_allVars => ModuleInv'
<1> SUFFICES ASSUME ModuleInv, [SSNNext]_allVars
             PROVE  ModuleInv'
  OBVIOUS
<1>0. /\ SessInv /\ EntriesInOrder /\ VectorsOK /\ busy \in BOOLEAN
      /\ ~ busy => todo = <<>> /\ tempList = <<>>
  BY DEF ModuleInv
<1>1. SessInv'
  BY <1>0, SSNStepIsStep, SessInvStep
<1>2. CASE HandleFetchTimer \/ UNCHANGED allVars
  BY <1>0, <1>1, <1>2
     DEF HandleFetchTimer, allVars, vars, ssnVars, ModuleInv, EntriesInOrder, Reached,
         VectorsOK, Open
<1>3. CASE OnFetchChannels
  <2>1. PICK l \in Lists \cup {<<>>} : todo' = l /\ list' = l
    BY <1>3 DEF OnFetchChannels
  <2>2. l \in Seq(Entry)
    <3>1. CASE l = <<>>
      BY <3>1, EmptySeq
    <3>2. CASE l \in Lists
      BY <3>2, ListsAssumption
    <3> QED
      BY <3>1, <3>2
  <2>3. Len(l) \in Nat /\ DOMAIN l = 1 .. Len(l)
    BY <2>2, LenProperties
  <2>4. EntriesInOrder'
    BY <2>1, <2>2, <2>3 DEF EntriesInOrder, Reached
  <2>5. VectorsOK' /\ busy' = TRUE
    BY <1>0, <1>3 DEF OnFetchChannels, vars, VectorsOK, Open
  <2> QED
    BY <1>1, <2>4, <2>5 DEF ModuleInv
<1>4. CASE StartEntry
  BY <1>0, <1>1, <1>4, StartEntryVectors DEF StartEntry, ModuleInv
<1>5. CASE ClearOldChannel
  <2>1. EntriesInOrder' /\ busy' = TRUE
    BY <1>0, <1>5 DEF ClearOldChannel, Clears, EntriesInOrder, Reached
  <2> QED
    BY <1>1, <1>5, <2>1, ClearOldChannelVectors DEF ModuleInv
<1>6. CASE SwapChannels
  <2>1. EntriesInOrder' /\ todo' = <<>>
    BY <1>0, <1>6 DEF SwapChannels, Swaps, Clears, EntriesInOrder, Reached
  <2>2. VectorsOK'
    BY <1>0, <1>6, NoEntries DEF SwapChannels, Swaps, vars, VectorsOK, Open
  <2> QED
    BY <1>1, <1>6, <2>1, <2>2 DEF SwapChannels, ModuleInv
<1>7. CASE StopModule
  <2>1. list' = <<>> /\ todo' = <<>> /\ busy' = TRUE
    BY <1>0, <1>7 DEF StopModule
  <2>2. EntriesInOrder'
    BY <2>1 DEF EntriesInOrder
  <2>3. VectorsOK'
    BY <1>0, <1>7 DEF StopModule, vars, VectorsOK, Open
  <2> QED
    BY <1>1, <2>1, <2>2, <2>3 DEF ModuleInv
<1>8. CASE Others
  <2>1. /\ handle' = handle
        /\ UNCHANGED <<todo, list, tempList, channel_, busy, refused>>
    BY <1>8, OthersKeepHandles
  <2> QED
    BY <1>0, <1>1, <2>1 DEF ModuleInv, EntriesInOrder, Reached, VectorsOK, Open
<1> QED
  BY <1>2, <1>3, <1>4, <1>5, <1>6, <1>7, <1>8 DEF SSNNext

THEOREM ModuleInvHolds == SSNSpec => []ModuleInv
BY ModuleInvInit, ModuleInvStep, PTL DEF SSNSpec

(* SSNManageModule is a user of LiveManager like any other: every call it  *)
(* makes, and all that happens in between, is a behaviour of LiveManager,  *)
(* so that whatever holds of LiveManager holds under this module.          *)
THEOREM ModuleUsesManager == SSNSpec => Spec
<1>1. ModuleInv /\ [SSNNext]_allVars => [Next]_vars
  BY SSNStepIsStep DEF ModuleInv
<1>2. SSNInit => Init
  BY DEF SSNInit
<1> QED
  BY <1>1, <1>2, ModuleInvHolds, PTL DEF SSNSpec, Spec

(* The handles the module holds are those of its two vectors, each once:   *)
(* on_fetch_channels and ClearOldChannel lose none and stop none twice,    *)
(* whatever was refused, restarted or shared, or failed to be fetched.     *)
THEOREM NoHandleLost == SSNSpec => []HandlesOfOneList
<1>1. ModuleInv => HandlesOfOneList
  <2> SUFFICES ASSUME ModuleInv
               PROVE  HandlesOfOneList
    OBVIOUS
  <2> DEFINE S == Range(channel_)
             T == Range(tempList)
  <2>1. VectorsOK
    BY DEF ModuleInv
  <2>2. /\ IsFiniteSet(S) /\ Cardinality(S) = Len(channel_)
        /\ IsFiniteSet(T) /\ Cardinality(T) = Len(tempList)
    BY <2>1, DistinctCount DEF VectorsOK
  <2>3. Open = S \cup T /\ S \cap T = {}
    BY <2>1 DEF VectorsOK
  <2> HIDE DEF S, T
  <2>4. Cardinality(S \cup T) = Cardinality(S) + Cardinality(T)
    <3>1. Cardinality(S \cap T) = 0
      BY <2>3, FS_EmptySet
    <3>2. Cardinality(S) \in Nat /\ Cardinality(T) \in Nat
      BY <2>2, FS_CardinalityType
    <3>3. Cardinality(S \cup T) =
            Cardinality(S) + Cardinality(T) - Cardinality(S \cap T)
      BY <2>2, FS_Union
    <3> QED
      BY <3>1, <3>2, <3>3
  <2> QED
    BY <2>2, <2>3, <2>4 DEF HandlesOfOneList, S, T
<1> QED
  BY <1>1, ModuleInvHolds, PTL

---------------------------------------------------------------------------
(* Users and channels *)

LEMMA HandlesAfterEntry ==
  ASSUME ModuleInv, NEW c \in Call, NEW e, EntryStarted(c, e)
  PROVE  /\ \A d \in Call \ {c} : handle'[d] = handle[d]
         /\ Range(tempList) \subseteq Range(tempList')
         /\ handle'[c].channel # NULL => c \in Range(tempList')
<1>1. handle \in [Call -> UserHandle] /\ handle[c].channel = NULL
  BY SessInvParts DEF EntryStarted, CanCall, ModuleInv, RefInv, TypeOK
<1>2. CASE Refuses(c, e)
  BY <1>1, <1>2 DEF Refuses
<1>3. CASE Gives(c, e)
  <2>1. tempList \in Seq(Call)
    BY DEF ModuleInv, VectorsOK
  <2>2. tempList' = Append(tempList, c)
    BY <1>3 DEF Gives
  <2>3. Range(tempList') = Range(tempList) \cup {c}
    BY <2>1, <2>2, AppendDistinct
  <2> QED
    BY <1>1, <1>3, <2>3 DEF Gives
<1> QED
  BY <1>2, <1>3 DEF EntryStarted

(* An entry leaves a used channel alone unless it runs elsewhere then.     *)
LEMMA EntrySpares ==
  ASSUME ModuleInv, ModuleInv', [Next]_vars,
         NEW c \in Call, NEW e \in Entry, EntryStarted(c, e),
         NEW a \in Addr, Used(chan[a]),
         chan[a].rid = RidOf(e) => handle'[c].channel = a
  PROVE  Used(chan'[a]) /\ Same(a)
<1>1. SessInv /\ SessInv'
  BY DEF ModuleInv
<1>2. PICK d \in Call : handle[d].channel = a
  BY <1>1, RefsAreHolders DEF Used
<1>3. d # c
  BY <1>2, DomainAssumption DEF EntryStarted, CanCall
<1>4. handle'[d].channel = a
  BY <1>2, <1>3, HandlesAfterEntry
<1>5. chan'[a].nref > 0
  BY <1>1, <1>4, RefsKnownStep DEF RefsKnown
<1>6. want \in [Call -> Rid \cup {"", NULL}] /\ want[c] = NULL
      /\ want' = [want EXCEPT ![c] = RidOf(e)]
  BY <1>1, SessInvParts DEF RefInv, TypeOK, EntryStarted, CanCall
<1>7. RidOf(e) # NULL
  BY EntryFits, DomainAssumption
<1>8. ~ Reported(a)
  BY <1>6, <1>7 DEF Reported
<1>9. chan[a].rid # NULL
  BY <1>1, UsedHasRid DEF Used
<1>10. \A x \in Call : want[x] = NULL /\ want'[x] = chan[a].rid => handle'[x].channel = a
  BY <1>6, <1>9
<1>11. ~ (running /\ ~ running')
  BY DEF EntryStarted
<1> QED
  BY <1>1, <1>5, <1>8, <1>10, <1>11, UsedStays DEF Same

(* A call of stop_channel leaves the channels of the new vector alone.     *)
LEMMA ClearSpares ==
  ASSUME ModuleInv, ModuleInv', [Next]_vars, ClearOldChannel,
         NEW a \in Addr, Used(chan[a]),
         NEW d \in Range(tempList), handle[d].channel = a
  PROVE  Used(chan'[a]) /\ Same(a) /\ handle'[d].channel = a
<1>1. SessInv /\ SessInv' /\ VectorsOK
  BY DEF ModuleInv
<1>2. PICK c \in Range(channel_) :
        /\ c \in Call /\ handle[c].channel # NULL
        /\ handle' = [handle EXCEPT ![c] = NoHandle]
        /\ running' = running /\ want' = want
  BY ClearIs
<1>3. /\ d \in Call /\ d # c
  BY <1>1, <1>2 DEF VectorsOK, Range
<1>4. handle \in [Call -> UserHandle]
  BY <1>1, SessInvParts DEF RefInv, TypeOK
<1>5. handle'[d].channel = a /\ handle' # handle
  BY <1>2, <1>3, <1>4 DEF NoHandle
<1>6. chan'[a].nref > 0
  BY <1>1, <1>3, <1>5, RefsKnownStep DEF RefsKnown
<1>7. chan[a].rid # NULL
  BY <1>1, UsedHasRid DEF Used
<1>8. ~ Reported(a)
  BY <1>5 DEF Reported
<1> QED
  BY <1>1, <1>2, <1>5, <1>6, <1>7, <1>8, UsedStays DEF Same

---------------------------------------------------------------------------
(* What both lists name is used throughout *)

LEMMA KeptSame ==
  ASSUME NEW x, NEW y, x.rid = y.rid, x.ports = y.ports
  PROVE  KeptOn(x) <=> KeptOn(y)
BY DEF KeptOn, Restarts

LEMMA HeldByNewStep == ModuleInv /\ HeldByNew /\ [SSNNext]_allVars => HeldByNew'
<1> SUFFICES ASSUME ModuleInv, HeldByNew, [SSNNext]_allVars
             PROVE  HeldByNew'
  OBVIOUS
<1>0. /\ ModuleInv' /\ [Next]_vars /\ SessInv /\ SessInv' /\ EntriesInOrder
      /\ RefsKnown /\ RefsKnown' /\ RunsOn
  <2>1. ModuleInv'
    BY ModuleInvStep
  <2>2. SessInv /\ SessInv' /\ EntriesInOrder /\ [Next]_vars
    BY <2>1, SSNStepIsStep DEF ModuleInv
  <2> QED
    BY <2>1, <2>2, RefsKnownStep, RunsOnStep
<1>1. CASE ~ busy'
  BY <1>1 DEF HeldByNew
<1>2. CASE Reached' = 0
  BY <1>2 DEF HeldByNew
<1>3. CASE UNCHANGED allVars
  BY <1>3 DEF allVars, vars, ssnVars, HeldByNew, KeptOn, Reached
<1>4. CASE HandleFetchTimer \/ SwapChannels \/ Others
  <2>1. ~ busy'
    BY <1>4, OthersKeepHandles DEF HandleFetchTimer, SwapChannels
  <2> QED
    BY <1>1, <2>1
<1>5. CASE OnFetchChannels \/ StopModule
  <2>1. list' = todo' /\ list' \in Seq(Entry)
    BY <1>0, <1>5 DEF OnFetchChannels, StopModule, ModuleInv, EntriesInOrder
  <2>2. Reached' = 0
    BY <2>1, LenProperties DEF Reached
  <2> QED
    BY <1>2, <2>2
(* A channel used after a step that lists it was used before, or is new.   *)
<1>6. ASSUME NEW a \in Addr, Used(chan'[a]), list' = list,
             chan[a].nref > 0, KeptOn(chan[a])'
      PROVE  Used(chan[a]) /\ chan[a].rid = chan'[a].rid /\ KeptOn(chan[a])
  <2>1. Active(chan[a]) /\ chan[a].rid = chan'[a].rid /\ chan[a].ports = chan'[a].ports
    BY <1>0, <1>6 DEF RunsOn, Used
  <2>2. KeptOn(chan'[a])
    BY <1>6 DEF KeptOn
  <2> QED
    BY <1>6, <2>1, <2>2, KeptSame DEF Used
<1>7. CASE StartEntry
  <2> DEFINE e == Head(todo)
  <2>1. busy /\ list' = list /\ todo' = Tail(todo) /\ todo # <<>>
    BY <1>7 DEF StartEntry
  <2>2. /\ Reached \in Nat /\ Reached' = Reached + 1 /\ e = list[Reached + 1]
        /\ Reached + 1 \in DOMAIN list
    BY <1>0, <2>1, NextEntry
  <2>3. PICK c \in Call : EntryStarted(c, e)
    BY <1>7, StartEntryIs
  <2> HIDE DEF e
  <2>4. /\ \A d \in Call \ {c} : handle'[d] = handle[d]
        /\ Range(tempList) \subseteq Range(tempList')
        /\ handle'[c].channel # NULL => c \in Range(tempList')
        /\ handle[c].channel = NULL
    BY <2>3, HandlesAfterEntry DEF EntryStarted, CanCall
  <2> SUFFICES ASSUME NEW a \in Addr, Used(chan'[a]), KeptOn(chan[a])',
                      NEW i \in 1 .. Reached', RidOf(list[i]) = chan'[a].rid
               PROVE  \E d \in Range(tempList') : handle'[d].channel = a
    BY <2>1 DEF HeldByNew
  <2>5. a # NULL
    BY DomainAssumption
  <2>6. CASE ~ chan[a].nref > 0
    <3>1. PICK d \in Call : handle'[d].channel = a
      BY <1>0 DEF RefsKnown, Used
    <3>2. handle[d].channel # a
      BY <1>0, <2>6 DEF RefsKnown
    <3>3. d = c
      BY <2>4, <3>1, <3>2
    <3> QED
      BY <2>4, <2>5, <3>1, <3>3
  <2>7. CASE chan[a].nref > 0
    <3>1. Used(chan[a]) /\ chan[a].rid = RidOf(list[i]) /\ KeptOn(chan[a])
      BY <1>6, <2>1, <2>7
    <3>2. CASE i \in 1 .. Reached
      <4>1. PICK d \in Range(tempList) : handle[d].channel = a
        BY <2>1, <3>1, <3>2 DEF HeldByNew
      <4>2. d \in Call /\ d # c
        BY <2>4, <2>5, <4>1 DEF ModuleInv, VectorsOK, Range
      <4> QED
        BY <2>4, <4>1, <4>2
    <3>3. CASE i = Reached + 1
      <4>1. chan[a].rid = RidOf(e) /\ RidOf(e) # ""
        BY <1>0, <2>2, <3>1, <3>3, UsedHasRid DEF Used
      <4>2. ~ Restarts(chan[a], PortsOf(e))
        BY <2>2, <3>1, <4>1 DEF KeptOn
      <4>3. handle'[c].channel = a
        BY <2>3, <4>1, <4>2 DEF EntryStarted, Shares
      <4> QED
        BY <2>4, <2>5, <4>3
    <3> QED
      BY <2>2, <3>2, <3>3
  <2> QED
    BY <2>6, <2>7
<1>8. CASE ClearOldChannel
  <2>1. /\ busy /\ list' = list /\ todo' = todo /\ tempList' = tempList
    BY <1>8 DEF ClearOldChannel, Clears
  <2>2. Reached' = Reached
    BY <2>1 DEF Reached
  <2>3. PICK c \in Range(channel_) :
          c \in Call /\ handle' = [handle EXCEPT ![c] = NoHandle]
    BY <1>8, ClearIs
  <2> SUFFICES ASSUME NEW a \in Addr, Used(chan'[a]), KeptOn(chan[a])',
                      NEW i \in 1 .. Reached, RidOf(list[i]) = chan'[a].rid
               PROVE  \E d \in Range(tempList) : handle'[d].channel = a
    BY <2>1, <2>2 DEF HeldByNew
  <2>4. a # NULL /\ handle \in [Call -> UserHandle]
    BY <1>0, SessInvParts, DomainAssumption DEF RefInv, TypeOK
  <2>5. chan[a].nref > 0
    <3>1. PICK d \in Call : handle'[d].channel = a
      BY <1>0 DEF RefsKnown, Used
    <3>2. handle[d].channel = a
      BY <2>3, <2>4, <3>1 DEF NoHandle
    <3> QED
      BY <1>0, <3>2 DEF RefsKnown
  <2>6. Used(chan[a]) /\ chan[a].rid = RidOf(list[i]) /\ KeptOn(chan[a])
    BY <1>6, <2>1, <2>5
  <2>7. PICK d \in Range(tempList) : handle[d].channel = a
    BY <2>1, <2>6 DEF HeldByNew
  <2>8. handle'[d].channel = a
    BY <1>0, <1>8, <2>6, <2>7, ClearSpares
  <2> QED
    BY <2>7, <2>8
<1> QED
  BY <1>3, <1>4, <1>5, <1>7, <1>8 DEF SSNNext

LEMMA HeldByNewHolds == SSNSpec => []HeldByNew
<1>1. SSNInit => HeldByNew
  BY DEF SSNInit, HeldByNew
<1> QED
  BY <1>1, ModuleInvHolds, HeldByNewStep, PTL DEF SSNSpec

KeepsListed(a) == busy /\ Used(chan[a]) /\ KeptOn(chan[a]) => Used(chan'[a])

LEMMA KeepsListedStep ==
  ASSUME ModuleInv, HeldByNew, [SSNNext]_allVars, NEW a \in Addr
  PROVE  KeepsListed(a)
<1> SUFFICES ASSUME busy, Used(chan[a]), KeptOn(chan[a])
             PROVE  Used(chan'[a])
  BY DEF KeepsListed
<1>0. ModuleInv' /\ [Next]_vars /\ SessInv /\ EntriesInOrder
  BY ModuleInvStep, SSNStepIsStep DEF ModuleInv
<1>1. CASE UNCHANGED vars
  BY <1>1 DEF vars
<1>2. CASE StartEntry
  <2> DEFINE e == Head(todo)
  <2>1. todo # <<>>
    BY <1>2 DEF StartEntry
  <2>2. e \in Entry /\ e = list[Reached + 1] /\ Reached + 1 \in DOMAIN list
    BY <1>0, <2>1, NextEntry
  <2>3. PICK c \in Call : EntryStarted(c, e)
    BY <1>2, StartEntryIs
  <2> HIDE DEF e
  <2>4. chan[a].rid # ""
    BY <1>0, UsedHasRid DEF Used
  <2>5. chan[a].rid = RidOf(e) => ~ Restarts(chan[a], PortsOf(e))
    BY <2>2 DEF KeptOn
  <2>6. chan[a].rid = RidOf(e) => handle'[c].channel = a
    BY <2>3, <2>4, <2>5 DEF EntryStarted, Shares
  <2> QED
    BY <1>0, <2>2, <2>3, <2>6, EntrySpares
<1>3. CASE ClearOldChannel
  <2>1. Len(todo) = 0
    BY <1>3 DEF ClearOldChannel, Clears
  <2>2. 1 .. Reached = DOMAIN list
    BY <1>0, <2>1, LenProperties DEF EntriesInOrder, Reached
  <2>3. PICK d \in Range(tempList) : handle[d].channel = a
    BY <2>2 DEF HeldByNew, KeptOn
  <2> QED
    BY <1>0, <1>3, <2>3, ClearSpares
<1>4. CASE HandleFetchTimer \/ SwapChannels \/ OnFetchChannels \/ StopModule
  BY <1>1, <1>4 DEF HandleFetchTimer, SwapChannels, OnFetchChannels, StopModule
<1>5. CASE Others
  BY <1>5, OthersKeepHandles
<1>6. CASE UNCHANGED allVars
  BY <1>1, <1>6 DEF allVars
<1> QED
  BY <1>2, <1>3, <1>4, <1>5, <1>6 DEF SSNNext

(* A list replaces another without a break: what is used when the new list *)
(* comes in, and named by it on ports it runs on, is used at every step of *)
(* on_fetch_channels, since the new calls are made before the old ones are *)
(* stopped.  The live module may refuse and report what it likes.          *)
THEOREM ListedStaysUsed == SSNSpec => ListedKeepsRunning
<1>1. ModuleInv /\ HeldByNew /\ [SSNNext]_allVars => [\A a \in Addr : KeepsListed(a)]_allVars
  BY KeepsListedStep
<1> QED
  BY <1>1, ModuleInvHolds, HeldByNewHolds, PTL DEF SSNSpec, ListedKeepsRunning, KeepsListed

---------------------------------------------------------------------------
(* What the list in force asks for runs *)

LEMMA OthersAskNothing ==
  ASSUME SessInv, Others, NEW x \in Call, want[x] = NULL
  PROVE  want'[x] = NULL
<1>0. want \in [Call -> Rid \cup {"", NULL}]
  BY SessInvParts DEF RefInv, TypeOK
<1>1. CASE \E c \in Call : RunCallback(c)
  BY <1>0, <1>1 DEF RunCallback
<1>2. CASE \E h \in Handle : ModuleAnswers(h)
  BY <1>2 DEF ModuleAnswers
<1>3. CASE \E a \in Addr : HandleStartChannel(a)
  BY <1>3 DEF HandleStartChannel
<1>4. CASE \E failed \in SUBSET MayFail : HandleTimer(failed)
  BY <1>4 DEF HandleTimer
<1>5. CASE Shutdown
  BY <1>5 DEF Shutdown
<1> QED
  BY <1>1, <1>2, <1>3, <1>4, <1>5 DEF Others

(* Between two lists, what is used goes on while LiveManager runs and the  *)
(* live module reports no failure.                                         *)
LEMMA OthersSpare ==
  ASSUME MayFail = {}, ModuleInv, ModuleInv', [Next]_vars, Others, running',
         NEW a \in Addr, Used(chan[a])
  PROVE  Used(chan'[a]) /\ Same(a)
<1>1. SessInv /\ SessInv' /\ RefsKnown /\ RefsKnown'
  BY RefsKnownStep DEF ModuleInv
<1>2. handle' = handle /\ running
  BY OthersKeepHandles
<1>3. chan'[a].nref > 0
  BY <1>1, <1>2 DEF RefsKnown, Used
<1>4. ~ Reported(a)
  BY DEF Reported
<1>5. chan[a].rid # NULL
  BY <1>1, UsedHasRid DEF Used
<1>6. \A c \in Call : want[c] = NULL /\ want'[c] = chan[a].rid => handle'[c].channel = a
  BY <1>1, <1>5, OthersAskNothing
<1> QED
  BY <1>1, <1>2, <1>3, <1>4, <1>6, UsedStays DEF Same

Served(i) ==
  RidOf(list[i]) \notin refused =>
    \E c \in Range(InForce) : \E a \in Addr :
      handle[c].channel = a /\ Plays(a, i, Reached)

LEMMA StartEntryServes ==
  ASSUME ModuleInv, ModuleInv', [Next]_vars, ReachedRun, StartEntry, running',
         NEW i \in 1 .. Reached'
  PROVE  Served(i)'
<1> DEFINE e == Head(todo)
<1>1. busy /\ busy' /\ list' = list /\ todo' = Tail(todo) /\ todo # <<>>
  BY DEF StartEntry
<1>2. /\ Reached \in Nat /\ Reached' = Reached + 1 /\ e = list[Reached + 1] /\ e \in Entry
  BY <1>1, NextEntry DEF ModuleInv
<1>3. PICK c \in Call : EntryStarted(c, e)
  BY StartEntryIs
<1> HIDE DEF e
<1>4. /\ \A d \in Call \ {c} : handle'[d] = handle[d]
      /\ Range(tempList) \subseteq Range(tempList')
      /\ handle'[c].channel # NULL => c \in Range(tempList')
      /\ handle[c].channel = NULL
  BY <1>3, HandlesAfterEntry DEF EntryStarted, CanCall
<1>5. refused \subseteq refused' /\ running
  BY <1>3 DEF EntryStarted, Refuses, Gives
<1>6. /\ NULL \notin Addr /\ SessInv /\ handle \in [Call -> UserHandle]
      /\ \A d \in Range(tempList) : d \in Call
  <2>1. NULL \notin Addr /\ SessInv
    BY DomainAssumption DEF ModuleInv
  <2>2. handle \in [Call -> UserHandle]
    BY <2>1, SessInvParts DEF RefInv, TypeOK
  <2>3. \A d \in Range(tempList) : d \in Call
    BY DEF ModuleInv, VectorsOK, Range
  <2> QED
    BY <2>1, <2>2, <2>3
<1> DEFINE Goal(d, a) ==
      /\ handle'[d].channel = a /\ Used(chan'[a]) /\ chan'[a].rid = RidOf(list[i])
      /\ Fixed(PortsOf(list[i])) /\ LastReached(i, Reached + 1) =>
           chan'[a].ports = PortsOf(list[i])
<1> SUFFICES ASSUME RidOf(list[i]) \notin refused'
             PROVE  \E d \in Range(tempList') : \E a \in Addr : Goal(d, a)
  BY <1>1, <1>2 DEF Served, InForce, Plays, LastReached
(* An entry reached before has its channel.                                *)
<1>7. ASSUME i \in 1 .. Reached
      PROVE  \E d \in Range(tempList) : \E b \in Addr :
               handle[d].channel = b /\ Plays(b, i, Reached)
  BY <1>1, <1>5, <1>7 DEF ReachedRun, InForce
<1>8. CASE RidOf(list[i]) = RidOf(e)
  <2>1. Gives(c, e)
    BY <1>3, <1>8 DEF EntryStarted, Refuses
  <2>2. PICK a \in Addr : \E n \in Nat :
          /\ handle' = [handle EXCEPT ![c] = [channel |-> a, token |-> n]]
          /\ Used(chan'[a]) /\ chan'[a].rid = RidOf(e)
          /\ Fixed(PortsOf(e)) => chan'[a].ports = PortsOf(e)
    BY <2>1 DEF Gives
  <2>3. handle'[c].channel = a
    BY <1>6, <2>2
  <2>4. c \in Range(tempList')
    BY <1>4, <1>6, <2>3
  <2>5. ASSUME Fixed(PortsOf(list[i])), LastReached(i, Reached + 1)
        PROVE  chan'[a].ports = PortsOf(list[i])
    <3>1. CASE i = Reached + 1
      BY <1>2, <2>2, <2>5, <3>1
    <3>2. CASE i \in 1 .. Reached
      <4>1. PICK d \in Range(tempList), b \in Addr :
              handle[d].channel = b /\ Plays(b, i, Reached)
        BY <1>7, <3>2
      <4>2. LastReached(i, Reached) /\ ~ Fixed(PortsOf(e))
        <5>1. Reached + 1 \in i + 1 .. Reached + 1
          BY <1>2, <3>2
        <5>2. \A j \in i + 1 .. Reached : j \in i + 1 .. Reached + 1
          BY <1>2, <3>2
        <5> QED
          BY <1>2, <1>8, <2>5, <5>1, <5>2 DEF LastReached
      <4>3. /\ Used(chan[b]) /\ chan[b].rid = RidOf(e)
            /\ chan[b].ports = PortsOf(list[i])
        BY <1>8, <2>5, <4>1, <4>2 DEF Plays
      <4>4. RidOf(e) # ""
        BY <1>6, <4>3, UsedHasRid DEF Used
      <4>5. ~ Restarts(chan[b], PortsOf(e))
        BY <4>2 DEF Fixed, Restarts
      <4>6. handle'[c].channel = b
        BY <1>3, <4>3, <4>4, <4>5 DEF EntryStarted, Shares
      <4>7. Same(b)
        BY <1>2, <1>3, <4>3, <4>6, EntrySpares
      <4> QED
        BY <2>3, <4>3, <4>6, <4>7 DEF Same
    <3> QED
      BY <1>2, <3>1, <3>2
  <2>6. Goal(c, a)
    BY <1>8, <2>2, <2>3, <2>5
  <2> QED
    BY <2>4, <2>6
<1>9. CASE RidOf(list[i]) # RidOf(e)
  <2>1. i \in 1 .. Reached
    BY <1>2, <1>9
  <2>2. PICK d \in Range(tempList), b \in Addr :
          handle[d].channel = b /\ Plays(b, i, Reached)
    BY <1>7, <2>1
  <2>3. d # c /\ d \in Call /\ d \in Range(tempList')
    BY <1>4, <1>6, <2>2
  <2>4. Used(chan[b]) /\ chan[b].rid = RidOf(list[i])
    BY <2>2 DEF Plays
  <2>5. Used(chan'[b]) /\ Same(b)
    BY <1>2, <1>3, <1>9, <2>4, EntrySpares
  <2>6. LastReached(i, Reached + 1) => LastReached(i, Reached)
    <3>1. \A j \in i + 1 .. Reached : j \in i + 1 .. Reached + 1
      BY <1>2, <2>1
    <3> QED
      BY <3>1 DEF LastReached
  <2>7. handle'[d].channel = b
    BY <1>4, <2>2, <2>3
  <2>8. Goal(d, b)
    BY <2>2, <2>4, <2>5, <2>6, <2>7 DEF Plays, Same
  <2> QED
    BY <2>3, <2>8
<1> QED
  BY <1>8, <1>9

(* A step that keeps the list, and each channel in use, keeps it served.   *)
LEMMA ServedKept ==
  ASSUME UNCHANGED <<list, todo, refused>>, NEW i \in 1 .. Reached, Served(i),
         \A c \in Range(InForce) : \A a \in Addr :
           handle[c].channel = a /\ Used(chan[a]) =>
             c \in Range(InForce') /\ handle'[c].channel = a /\ Used(chan'[a]) /\ Same(a)
  PROVE  Served(i)'
<1>1. Reached' = Reached
  BY DEF Reached
<1> SUFFICES ASSUME RidOf(list[i]) \notin refused
             PROVE  \E c \in Range(InForce') : \E a \in Addr :
                      handle'[c].channel = a /\ Plays(a, i, Reached)'
  BY DEF Served
<1>2. PICK c \in Range(InForce), a \in Addr :
        handle[c].channel = a /\ Plays(a, i, Reached)
  BY DEF Served
<1>3. c \in Range(InForce') /\ handle'[c].channel = a /\ Used(chan'[a]) /\ Same(a)
  BY <1>2 DEF Plays
<1>4. Plays(a, i, Reached)'
  BY <1>1, <1>2, <1>3 DEF Plays, LastReached, Same
<1> QED
  BY <1>3, <1>4

LEMMA ReachedRunStep ==
  ASSUME MayFail = {}, ModuleInv, ReachedRun, [SSNNext]_allVars
  PROVE  ReachedRun'
<1>0. ModuleInv' /\ [Next]_vars /\ SessInv
  BY ModuleInvStep, SSNStepIsStep DEF ModuleInv
<1> SUFFICES ASSUME running', NEW i \in 1 .. Reached'
             PROVE  Served(i)'
  BY DEF ReachedRun, Served
<1>1. CASE Reached' = 0
  BY <1>1
<1>2. CASE StartEntry
  BY <1>0, <1>2, StartEntryServes
<1>3. CASE OnFetchChannels \/ StopModule
  <2>1. list' = todo' /\ list' \in Seq(Entry)
    BY <1>0, <1>3 DEF OnFetchChannels, StopModule, ModuleInv, EntriesInOrder
  <2>2. Reached' = 0
    BY <2>1, LenProperties DEF Reached
  <2> QED
    BY <1>1, <2>2
(* The other steps keep the list.                                          *)
<1>4. ASSUME UNCHANGED <<list, todo, refused>>, running
      PROVE  i \in 1 .. Reached /\ Served(i)
  BY <1>4 DEF Reached, ReachedRun, Served
<1>5. CASE HandleFetchTimer \/ SwapChannels \/ UNCHANGED allVars
  <2>1. UNCHANGED <<vars, list, todo, refused>> /\ InForce' = InForce
    BY <1>5 DEF HandleFetchTimer, SwapChannels, Swaps, Clears, allVars, ssnVars, InForce
  <2> QED
    BY <1>4, <2>1, ServedKept DEF vars, Same
<1>6. CASE ClearOldChannel
  <2>1. /\ UNCHANGED <<list, todo, refused, tempList, busy>> /\ busy /\ running
    BY <1>6, ClearIs DEF ClearOldChannel, Clears
  <2>2. InForce = tempList /\ InForce' = tempList
    BY <2>1 DEF InForce
  <2>3. \A c \in Range(tempList) : \A a \in Addr :
          handle[c].channel = a /\ Used(chan[a]) =>
            handle'[c].channel = a /\ Used(chan'[a]) /\ Same(a)
    BY <1>0, <1>6, ClearSpares
  <2> QED
    BY <1>4, <2>1, <2>2, <2>3, ServedKept
<1>7. CASE Others
  <2>1. /\ UNCHANGED <<list, todo, refused, tempList, channel_, busy, handle>> /\ running
    BY <1>7, OthersKeepHandles
  <2>2. InForce' = InForce
    BY <2>1 DEF InForce
  <2>3. \A a \in Addr : Used(chan[a]) => Used(chan'[a]) /\ Same(a)
    BY <1>0, <1>7, OthersSpare
  <2> QED
    BY <1>4, <2>1, <2>2, <2>3, ServedKept
<1> QED
  BY <1>2, <1>3, <1>5, <1>6, <1>7 DEF SSNNext

(* Between two lists and while LiveManager runs, each channel the list in  *)
(* force asks for has a user, on the ports the list says last, unless      *)
(* LiveManager refused it.  A failure reported for a running channel ends  *)
(* it until the next list, so that none is assumed.                        *)
THEOREM ListRuns ==
  ASSUME MayFail = {}
  PROVE  SSNSpec => []RunsTheList
<1>1. SSNInit => ReachedRun
  BY LenProperties DEF SSNInit, ReachedRun, Reached
<1>2. ModuleInv /\ ReachedRun /\ [SSNNext]_allVars => ReachedRun'
  BY ReachedRunStep
<1>3. ModuleInv /\ ReachedRun => RunsTheList
  <2> SUFFICES ASSUME ModuleInv, ReachedRun, ~ busy, running,
                      NEW i \in DOMAIN list, RidOf(list[i]) \notin refused
               PROVE  \E a \in Addr :
                        /\ Used(chan[a]) /\ chan[a].rid = RidOf(list[i])
                        /\ Fixed(PortsOf(list[i])) /\ Last(list, i) =>
                             chan[a].ports = PortsOf(list[i])
    BY DEF RunsTheList
  <2>1. todo = <<>> /\ list \in Seq(Entry)
    BY DEF ModuleInv, EntriesInOrder
  <2>2. Reached = Len(list) /\ i \in 1 .. Reached
    BY <2>1, LenProperties DEF Reached
  <2>3. PICK a \in Addr : Plays(a, i, Reached)
    BY <2>2 DEF ReachedRun
  <2> QED
    BY <2>2, <2>3 DEF Plays, LastReached, Last
<1> QED
  BY <1>1, <1>2, <1>3, ModuleInvHolds, PTL DEF SSNSpec

=============================================================================
