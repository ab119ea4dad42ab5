--------------------------- MODULE LiveProxyProofs ---------------------------
(***************************************************************************)
(* Proofs about LiveProxy on top of LiveManager: the proxies use           *)
(* LiveManager only in ways its own specification allows, so that what is  *)
(* proved of LiveManager holds under them, and they leave nothing behind.  *)
(***************************************************************************)
EXTENDS LiveProxy, LiveManagerCacheProofs

(* Every step of the proxies and of what runs with them is a step of       *)
(* LiveManager, or does not touch it.                                      *)
LEMMA ProxyStepIsStep == [ProxyNext]_allVars => [Next]_vars
<1> SUFFICES ASSUME [ProxyNext]_allVars
             PROVE  Next \/ UNCHANGED vars
  BY Zenon
<1>1. CASE UNCHANGED allVars
  BY <1>1, Zenon DEF allVars
<1>2. ASSUME NEW c \in Call, Accept(c) \/ Leave(c)
      PROVE  UNCHANGED vars
  BY <1>2, Zenon DEF Accept, Leave
<1>3. ASSUME NEW c \in Call, OnReceiveRequestHead(c)
      PROVE  Next
  <2>1. CASE StartBadUrl(c)
    BY <2>1, Zenon DEF Next
  <2>2. CASE \E r \in Rid : StartNew(c, r, NoPorts) \/ StartShared(c, r, NoPorts)
    BY <2>2, PortsAssumption, Zenon DEF Next
  <2> QED
    BY <1>3, <2>1, <2>2, Zenon DEF OnReceiveRequestHead
<1>4. ASSUME NEW c \in Call, OnChannelReady(c)
      PROVE  Next
  BY <1>4, Zenon DEF OnChannelReady, Next
<1>5. ASSUME NEW c \in Call, OnBrokenPipe(c) \/ OnFinish(c)
      PROVE  Next \/ UNCHANGED vars
  BY <1>5, Zenon DEF OnBrokenPipe, OnFinish, StopHandle, Next
<1>6. ASSUME NEW h \in Handle, Answered(h)
      PROVE  Next
  BY <1>6, Zenon DEF Answered, Next
<1>7. ASSUME NEW a \in Addr, Resolve(a)
      PROVE  Next
  BY <1>7, Zenon DEF Resolve, Next
<1>8. CASE Timer \/ End
  BY <1>8, Zenon DEF Timer, End, Next
<1>9. CASE Stop
  BY <1>9, Zenon DEF Stop
<1> QED
  BY <1>1, <1>2, <1>3, <1>4, <1>5, <1>6, <1>7, <1>8, <1>9, Zenon DEF ProxyNext

(* LiveManager under its proxies behaves as LiveManager alone may.         *)
THEOREM ProxyUsesManager == ProxySpec => Spec
<1>1. ProxyInit => Init
  BY DEF ProxyInit
<1> QED
  BY <1>1, ProxyStepIsStep, PTL DEF ProxySpec, Spec

---------------------------------------------------------------------------
(* What an action does to the handles and to what is waited for *)

LEMMA StartEffect ==
  ASSUME TypeOK, NEW c \in Call, NEW r \in Rid, NEW p,
         StartNew(c, r, p) \/ StartShared(c, r, p)
  PROVE  /\ want' = [want EXCEPT ![c] = r]
         /\ \A d \in Call \ {c} : handle'[d] = handle[d]
<1>1. want' = [want EXCEPT ![c] = r]
  BY Zenon DEF StartNew, StartShared
<1>2. UNCHANGED handle \/ \E v : handle' = [handle EXCEPT ![c] = v]
  BY Zenon DEF StartNew, StartShared
<1> QED
  BY <1>1, <1>2 DEF TypeOK

LEMMA StopEffect ==
  ASSUME TypeOK, NEW c \in Call, StopHandle(c)
  PROVE  /\ want' = want
         /\ handle'[c].channel = NULL
         /\ \A d \in Call \ {c} : handle'[d] = handle[d]
<1>1. CASE StopChannel(c)
  <2>1. want' = want /\ handle' = [handle EXCEPT ![c] = NoHandle]
    BY <1>1, Zenon DEF StopChannel
  <2> QED
    BY <2>1 DEF TypeOK, NoHandle
<1>2. CASE handle[c].channel = NULL /\ UNCHANGED vars
  BY <1>2 DEF vars
<1> QED
  BY <1>1, <1>2, Zenon DEF StopHandle

(* The variables of the proxies keep their types.                          *)
ProxyTypes ==
  /\ conn \in [Call -> {"closed", "idle", "waiting", "serving", "failed"}]
  /\ asked \in [Call -> Rid \cup {NULL}]
  /\ broken \subseteq Call
  /\ listening \in BOOLEAN

LeftOver(c) ==
  /\ conn[c] \in {"closed", "idle"} => handle[c].channel = NULL /\ c \notin broken
  /\ conn[c] = "waiting" <=> want[c] # NULL

LEMMA ProxyTypesStep ==
  ASSUME ProxyTypes, [ProxyNext]_allVars
  PROVE  ProxyTypes'
<1>1. CASE UNCHANGED allVars
  BY <1>1 DEF allVars, proxyVars, ProxyTypes
<1>2. ASSUME NEW c \in Call, Accept(c) \/ Leave(c) PROVE ProxyTypes'
  BY <1>2 DEF Accept, Leave, ProxyTypes
<1>3. ASSUME NEW c \in Call, OnReceiveRequestHead(c) PROVE ProxyTypes'
  BY <1>3 DEF OnReceiveRequestHead, ProxyTypes
<1>4. ASSUME NEW c \in Call, OnChannelReady(c) PROVE ProxyTypes'
  BY <1>4 DEF OnChannelReady, ProxyTypes
<1>5. ASSUME NEW c \in Call, OnBrokenPipe(c) PROVE ProxyTypes'
  BY <1>5 DEF OnBrokenPipe, ProxyTypes
<1>6. ASSUME NEW c \in Call, OnFinish(c) PROVE ProxyTypes'
  BY <1>6 DEF OnFinish, ProxyTypes
<1>7. CASE Stop
  BY <1>7 DEF Stop, ProxyTypes
<1>8. CASE UNCHANGED proxyVars
  BY <1>8 DEF proxyVars, ProxyTypes
<1> QED
  BY <1>1, <1>2, <1>3, <1>4, <1>5, <1>6, <1>7, <1>8, Zenon
    DEF ProxyNext, Answered, Resolve, Timer, End

LEMMA LeftOverStep ==
  ASSUME TypeOK, ProxyTypes, [ProxyNext]_allVars, \A c \in Call : LeftOver(c), NEW d \in Call
  PROVE  LeftOver(d)'
<1>0. LeftOver(d)
  OBVIOUS
<1>1. CASE UNCHANGED allVars
  BY <1>0, <1>1 DEF allVars, vars, proxyVars, LeftOver
<1>2. ASSUME NEW c \in Call, Accept(c) \/ Leave(c) PROVE LeftOver(d)'
  BY <1>0, <1>2 DEF Accept, Leave, ProxyTypes, LeftOver, vars
<1>3. ASSUME NEW c \in Call, OnReceiveRequestHead(c) PROVE LeftOver(d)'
  <2>1. /\ conn' = [conn EXCEPT ![c] = "waiting"] /\ broken' = broken
        /\ \E r \in Rid \cup {""} : want' = [want EXCEPT ![c] = r]
        /\ \A e \in Call \ {c} : handle'[e] = handle[e]
    <3>1. CASE StartBadUrl(c)
      BY <1>3, <3>1 DEF OnReceiveRequestHead, StartBadUrl
    <3>2. ASSUME NEW r \in Rid, StartNew(c, r, NoPorts) \/ StartShared(c, r, NoPorts)
          PROVE  /\ want' = [want EXCEPT ![c] = r]
                 /\ \A e \in Call \ {c} : handle'[e] = handle[e]
      BY <3>2, StartEffect
    <3> QED
      BY <1>3, <3>1, <3>2, Zenon DEF OnReceiveRequestHead
  <2>2. /\ conn'[c] = "waiting" /\ want'[c] # NULL
        /\ \A e \in Call \ {c} : conn'[e] = conn[e] /\ want'[e] = want[e]
    <3>1. PICK r \in Rid \cup {""} : want' = [want EXCEPT ![c] = r]
      BY <2>1
    <3>2. r # NULL
      BY DomainAssumption, Zenon
    <3>3. want \in [Call -> Rid \cup {"", NULL}]
      BY DEF TypeOK
    <3> QED
      BY <2>1, <3>1, <3>2, <3>3 DEF ProxyTypes
  <2>3. CASE d = c
    BY <2>2, <2>3 DEF LeftOver
  <2>4. CASE d # c
    BY <1>0, <2>1, <2>2, <2>4 DEF LeftOver
  <2> QED
    BY <2>3, <2>4
<1>4. ASSUME NEW c \in Call, OnChannelReady(c) PROVE LeftOver(d)'
  BY <1>0, <1>4 DEF OnChannelReady, RunCallback, TypeOK, ProxyTypes, LeftOver
<1>5. ASSUME NEW c \in Call, OnBrokenPipe(c) PROVE LeftOver(d)'
  <2>1. /\ want' = want /\ handle'[c].channel = NULL
        /\ \A e \in Call \ {c} : handle'[e] = handle[e]
    BY <1>5, StopEffect DEF OnBrokenPipe
  <2> QED
    BY <1>0, <1>5, <2>1 DEF OnBrokenPipe, ProxyTypes, LeftOver
<1>6. ASSUME NEW c \in Call, OnFinish(c) PROVE LeftOver(d)'
  <2>1. /\ want' = want /\ handle'[c].channel = NULL
        /\ \A e \in Call \ {c} : handle'[e] = handle[e]
    BY <1>6, StopEffect DEF OnFinish
  <2> QED
    BY <1>0, <1>6, <2>1 DEF OnFinish, Finishes, ProxyTypes, LeftOver
<1>7. CASE Stop
  BY <1>0, <1>7 DEF Stop, vars, LeftOver
<1>8. ASSUME UNCHANGED <<proxyVars, handle, want>> PROVE LeftOver(d)'
  BY <1>0, <1>8 DEF proxyVars, LeftOver
<1>9. ASSUME NEW h \in Handle, Answered(h) PROVE LeftOver(d)'
  BY <1>8, <1>9, Zenon DEF Answered, ModuleAnswers
<1>10. ASSUME NEW a \in Addr, Resolve(a) PROVE LeftOver(d)'
  BY <1>8, <1>10, Zenon DEF Resolve, HandleStartChannel
<1>11. CASE Timer \/ End
  BY <1>8, <1>11, Zenon DEF Timer, End, HandleTimer, Shutdown
<1> QED
  BY <1>1, <1>2, <1>3, <1>4, <1>5, <1>6, <1>7, <1>9, <1>10, <1>11, Zenon DEF ProxyNext

---------------------------------------------------------------------------
(* The theorems *)

ProxyInv == SessInv /\ ProxyTypes /\ \A c \in Call : LeftOver(c)

(* LiveManager's invariant and those of the proxies hold together.         *)
THEOREM ProxyInvHolds == ProxySpec => []ProxyInv
<1>1. ProxyInit => ProxyInv
  <2> SUFFICES ASSUME ProxyInit
               PROVE  ProxyInv
    OBVIOUS
  <2>1. SessInv
    BY SessInvInit DEF ProxyInit
  <2>2. ProxyTypes
    BY DEF ProxyInit, ProxyTypes
  <2>3. \A c \in Call : LeftOver(c)
    BY DEF ProxyInit, Init, NoHandle, LeftOver
  <2> QED
    BY <2>1, <2>2, <2>3 DEF ProxyInv
<1>2. ProxyInv /\ [ProxyNext]_allVars => ProxyInv'
  <2> SUFFICES ASSUME ProxyInv, [ProxyNext]_allVars
               PROVE  ProxyInv'
    OBVIOUS
  <2>1. SessInv'
    BY ProxyStepIsStep, SessInvStep DEF ProxyInv
  <2>2. ProxyTypes'
    BY ProxyTypesStep DEF ProxyInv
  <2>3. ASSUME NEW d \in Call PROVE LeftOver(d)'
    BY LeftOverStep, SessInvParts DEF ProxyInv, RefInv
  <2> QED
    BY <2>1, <2>2, <2>3 DEF ProxyInv
<1> QED
  BY <1>1, <1>2, PTL DEF ProxySpec

(* Every variable keeps its type.                                          *)
THEOREM ProxyTypeCorrect == ProxySpec => []ProxyTypeOK
<1>1. ProxyInv => ProxyTypeOK
  BY SessInvParts DEF ProxyInv, ProxyTypes, ProxyTypeOK, RefInv
<1> QED
  BY <1>1, ProxyInvHolds, PTL

(* A Proxy reads its next request, or is deleted, with no handle and no    *)
(* callback left; and a callback finds a Proxy that waits for it.          *)
THEOREM NothingIsLeftOver == ProxySpec => []NothingLeftOver
<1>1. ProxyInv => NothingLeftOver
  BY DEF ProxyInv, LeftOver, NothingLeftOver
<1> QED
  BY <1>1, ProxyInvHolds, PTL

(* So a request never finds the handle of the last one in its way: what    *)
(* LiveManager's model asks of a caller before it starts, a Proxy keeps.   *)
THEOREM RequestsMayStart ==
  ProxySpec => [](\A c \in Call : conn[c] = "idle" => CanCall(c))
<1>1. ProxyInv => \A c \in Call : conn[c] = "idle" => CanCall(c)
  BY DEF ProxyInv, LeftOver, CanCall
<1> QED
  BY <1>1, ProxyInvHolds, PTL

---------------------------------------------------------------------------
(* What a client watches *)

(* A client that is there has a channel that runs for it, whose callback   *)
(* it waits for in a slot while it starts; or it was refused.              *)
Granted(c, a) ==
  /\ Used(chan[a]) /\ chan[a].rid = asked[c]
  /\ chan[a].status = "started" => handle[c].token # 0
  /\ conn[c] = "serving" => chan[a].status = "working"

Denied(c) ==
  /\ conn[c] = "waiting" /\ handle[c].channel = NULL
  /\ posted[c] # <<>> /\ Head(posted[c]).ec # "ok"

Watches(c) ==
  running /\ c \notin broken /\ conn[c] \in {"waiting", "serving"} =>
    Denied(c) \/ \E a \in Addr : handle[c].channel = a /\ Granted(c, a)

LEMMA NotReported ==
  ASSUME MayFail = {}, NEW a
  PROVE  ~ Reported(a)
BY DEF Reported

(* A proxy names no ports, so that its start shares what runs: no step     *)
(* takes a channel of its rid away from another client.                    *)
LEMMA WantedIsShared ==
  ASSUME SessInv, [ProxyNext]_allVars, NEW a \in Addr, Used(chan[a]),
         NEW d \in Call, want[d] = NULL, want'[d] = chan[a].rid
  PROVE  handle'[d].channel = a
<1>0. chan[a].rid # "" /\ chan[a].rid # NULL
  BY UsedHasRid DEF Used
<1>1. want \in [Call -> Rid \cup {"", NULL}] /\ want' # want
  BY <1>0, SessInvParts DEF RefInv, TypeOK
<1>2. ASSUME NEW c \in Call, NEW r \in Rid, StartNew(c, r, NoPorts) \/ StartShared(c, r, NoPorts)
      PROVE  handle'[d].channel = a
  <2>1. want' = [want EXCEPT ![c] = r]
    BY <1>2 DEF StartNew, StartShared
  <2>2. c = d /\ chan[a].rid = r
    BY <1>0, <1>1, <2>1
  <2>3. ~ Restarts(chan[a], NoPorts)
    BY DEF Restarts, NoPorts
  <2> QED
    BY <1>2, <2>2, <2>3, PortsAssumption, StartSharesWhatRuns
<1>3. ASSUME NEW c \in Call, StartBadUrl(c)
      PROVE  FALSE
  BY <1>0, <1>1, <1>3 DEF StartBadUrl
<1>4. ASSUME NEW c \in Call, RunCallback(c)
      PROVE  FALSE
  BY <1>0, <1>1, <1>4 DEF RunCallback
<1>5. ASSUME NEW c \in Call, OnReceiveRequestHead(c)
      PROVE  handle'[d].channel = a
  BY <1>2, <1>3, <1>5 DEF OnReceiveRequestHead
<1>6. ASSUME want' = want
      PROVE  FALSE
  BY <1>1, <1>6
<1>7. ASSUME NEW c \in Call, Accept(c) \/ Leave(c) \/ OnBrokenPipe(c) \/ OnFinish(c)
      PROVE  FALSE
  <2>1. CASE Accept(c) \/ Leave(c)
    BY <1>6, <2>1 DEF Accept, Leave, vars
  <2>2. CASE OnBrokenPipe(c) \/ OnFinish(c)
    BY <1>6, <2>2, StopEffect, SessInvParts DEF OnBrokenPipe, OnFinish, RefInv
  <2> QED
    BY <1>7, <2>1, <2>2
<1>8. CASE \E h \in Handle : Answered(h)
  BY <1>6, <1>8 DEF Answered, ModuleAnswers
<1>9. CASE \E b \in Addr : Resolve(b)
  BY <1>6, <1>9 DEF Resolve, HandleStartChannel
<1>10. CASE Timer \/ End
  BY <1>6, <1>10 DEF Timer, End, HandleTimer, Shutdown
<1>11. CASE Stop \/ UNCHANGED allVars
  BY <1>6, <1>11 DEF Stop, allVars, vars
<1> QED
  BY <1>4, <1>5, <1>7, <1>8, <1>9, <1>10, <1>11 DEF ProxyNext, OnChannelReady

(* A channel somebody holds on to goes on while LiveManager runs.          *)
LEMMA HeldGoesOn ==
  ASSUME MayFail = {}, SessInv, SessInv', [ProxyNext]_allVars, running => running',
         NEW a \in Addr, Used(chan[a]), NEW d \in Call, handle'[d].channel = a
  PROVE  /\ Used(chan'[a]) /\ Same(a)
         /\ chan[a].status = "working" => chan'[a].status = "working"
<1>1. chan'[a].nref > 0
  BY RefsKnownStep DEF RefsKnown
<1>2. \A c \in Call : want[c] = NULL /\ want'[c] = chan[a].rid => handle'[c].channel = a
  BY WantedIsShared
<1> QED
  BY <1>1, <1>2, NotReported, ProxyStepIsStep, UsedStays DEF Same

(* What a step of another leaves of a client that stays as it is.          *)
LEMMA StaysWatching ==
  ASSUME MayFail = {}, ProxyInv, ProxyInv', [ProxyNext]_allVars, NEW d \in Call, Watches(d),
         conn'[d] = conn[d], asked'[d] = asked[d], handle'[d] = handle[d],
         d \in broken => d \in broken', running' => running
  PROVE  Watches(d)'
<1> SUFFICES ASSUME running', d \notin broken', conn'[d] \in {"waiting", "serving"}
             PROVE  Denied(d)' \/ \E a \in Addr : handle'[d].channel = a /\ Granted(d, a)'
  BY DEF Watches
<1>0. SessInv /\ SessInv' /\ LeftOver(d) /\ LeftOver(d)' /\ CallInv
  BY SessInvParts DEF ProxyInv
<1>1. ASSUME NEW a \in Addr, handle[d].channel = a, Granted(d, a)
      PROVE  handle'[d].channel = a /\ Granted(d, a)'
  <2>1. /\ Used(chan'[a]) /\ Same(a)
        /\ chan[a].status = "working" => chan'[a].status = "working"
    BY <1>0, <1>1, HeldGoesOn DEF Granted
  <2>2. chan'[a].status = "started" => chan[a].status = "started"
    BY <1>1, <2>1 DEF Granted, Used, Active
  <2> QED
    BY <1>1, <2>1, <2>2 DEF Granted, Same
<1>2. CASE Denied(d)
  <2>1. want[d] # NULL /\ want'[d] # NULL
    BY <1>0, <1>2 DEF LeftOver, Denied
  <2>2. Left(d) \/ Begun(d) \/ Ended(d) \/ Ran(d)
    BY <1>0, ProxyStepIsStep, CallStepIs DEF CallStep
  <2>3. posted'[d] = posted[d]
    BY <1>2, <2>1, <2>2 DEF Denied, Left, Begun, Ended, Ran, Posts
  <2> QED
    BY <1>2, <2>3 DEF Denied
<1> QED
  BY <1>1, <1>2 DEF Watches

(* The channel a call back is for runs: the caller is out of its slot.     *)
LEMMA CalledBackWorks ==
  ASSUME ProxyInv, NEW c \in Call, conn[c] = "waiting", posted[c] # <<>>,
         NEW a \in Addr, handle[c].channel = a, Granted(c, a)
  PROVE  chan[a].status = "working"
<1> SUFFICES ASSUME chan[a].status = "started"
             PROVE  FALSE
  BY DEF Granted, Used, Active
<1>1. /\ CallsOK(chan, posted, handle, want) /\ want[c] # NULL /\ NULL \notin Addr
      /\ chan \in [Addr -> Channel] /\ handle \in [Call -> UserHandle]
  <2>1. CallInv
    BY SessInvParts DEF ProxyInv
  <2> QED
    BY <2>1, CallInvTypes, DomainAssumption DEF ProxyInv, LeftOver, CallInv
<1>2. Slots(chan, handle, c) = chan[a].call_backs
  BY <1>1 DEF Slots
<1>3. /\ chan[a].call_backs \in Seq(Call \cup {NULL})
      /\ handle[c].token \in Nat \ {0}
      /\ handle[c].token <= Len(chan[a].call_backs)
  BY <1>1 DEF CallsOK, TokensOld, Channel, UserHandle, Granted
<1>4. InSlot(chan, handle, c)
  BY <1>2, <1>3, LenProperties DEF InSlot
<1>5. InOnePlace(chan, posted, handle, want, c)
  BY <1>1 DEF CallsOK
<1> QED
  BY <1>1, <1>4, <1>5 DEF InOnePlace

LEMMA RefusalIsPosted ==
  ASSUME SessInv, NEW c \in Call,
         \/ StartBadUrl(c)
         \/ \E r \in Rid, p \in Ports : StartNew(c, r, p) /\ handle' = handle
  PROVE  posted'[c] # <<>> /\ Head(posted'[c]).ec # "ok"
<1>1. /\ CallInv /\ CallsOK(chan, posted, handle, want)
      /\ posted \in [Call -> Seq(Answer)] /\ handle \in [Call -> UserHandle]
  BY SessInvParts, CallInvTypes DEF CallInv
<1>2. want[c] = NULL /\ handle[c].channel = NULL
  BY DEF StartBadUrl, StartNew, CanCall
<1>3. posted[c] = <<>>
  BY <1>1, <1>2 DEF CallsOK, InOnePlace
<1>4. \E q \in [Call -> Seq(Answer)] : q[c] = <<>> /\ posted' = Post(q, {c}, Failed)
  <2>1. CASE StartBadUrl(c)
    BY <1>1, <1>3, <2>1 DEF StartBadUrl
  <2>2. ASSUME NEW r \in Rid, NEW p \in Ports, StartNew(c, r, p), handle' = handle
        PROVE  \E q \in [Call -> Seq(Answer)] : q[c] = <<>> /\ posted' = Post(q, {c}, Failed)
    <3> DEFINE w == Cleared(r)
    <3>1. ~ \E a \in Addr, h \in Handle : handle' = [handle EXCEPT ![c] = [channel |-> a, token |-> 1]]
      <4> SUFFICES ASSUME NEW a \in Addr, NEW h \in Handle,
                          handle' = [handle EXCEPT ![c] = [channel |-> a, token |-> 1]]
                   PROVE  FALSE
        OBVIOUS
      <4>1. handle'[c].channel = a
        BY <1>1
      <4>2. handle'[c].channel = NULL
        BY <1>2, <2>2
      <4> QED
        BY <4>1, <4>2, DomainAssumption
    <3>2. Become([w EXCEPT !.posted = Post(@, {c}, Failed)])
      BY <2>2, <3>1 DEF StartNew
    <3>3. WorldOK(w) /\ PostsTo(posted, w.posted, want)
      BY <1>1, SessInvParts, ClearedOK, ClearedKeeps, CallInvTypes DEF Keeps
    <3> HIDE DEF w
    <3>4. w \in WorldType /\ w.posted \in [Call -> Seq(Answer)]
      BY <3>3 DEF WorldOK, WorldType
    <3>5. posted' = Post(w.posted, {c}, Failed)
      BY <3>2, <3>4 DEF Become, WorldType
    <3>6. w.posted[c] = <<>>
      BY <1>2, <1>3, <3>3 DEF PostsTo, Posts
    <3> QED
      BY <3>4, <3>5, <3>6
  <2> QED
    BY <2>1, <2>2
<1>5. posted'[c] = Append(<<>>, Failed)
  BY <1>4 DEF Post
<1>6. Append(<<>>, Failed) # <<>> /\ Head(Append(<<>>, Failed)) = Failed
  OBVIOUS
<1> QED
  BY <1>5, <1>6 DEF Failed

LEMMA RequestWatches ==
  ASSUME ProxyInv, NEW c \in Call, OnReceiveRequestHead(c)
  PROVE  Watches(c)'
<1>0. SessInv /\ conn'[c] = "waiting" /\ handle \in [Call -> UserHandle]
      /\ asked \in [Call -> Rid \cup {NULL}]
  BY SessInvParts DEF ProxyInv, ProxyTypes, OnReceiveRequestHead, RefInv, TypeOK
<1>1. ASSUME handle'[c].channel = NULL, posted'[c] # <<>>, Head(posted'[c]).ec # "ok"
      PROVE  Watches(c)'
  BY <1>0, <1>1 DEF Watches, Denied
<1>2. CASE StartBadUrl(c)
  <2>1. handle'[c].channel = NULL
    BY <1>2 DEF StartBadUrl, CanCall
  <2>2. posted'[c] # <<>> /\ Head(posted'[c]).ec # "ok"
    BY <1>0, <1>2, RefusalIsPosted
  <2> QED
    BY <1>1, <2>1, <2>2
<1>3. ASSUME NEW r \in Rid, StartNew(c, r, NoPorts) \/ StartShared(c, r, NoPorts),
             asked' = [asked EXCEPT ![c] = r]
      PROVE  Watches(c)'
  <2>1. CASE StartNew(c, r, NoPorts) /\ handle' = handle
    <3>1. handle'[c].channel = NULL
      BY <2>1 DEF StartNew, CanCall
    <3>2. posted'[c] # <<>> /\ Head(posted'[c]).ec # "ok"
      BY <1>0, <2>1, PortsAssumption, RefusalIsPosted
    <3> QED
      BY <1>1, <3>1, <3>2
  <2>2. ASSUME NEW a \in Addr, NEW n \in Nat, StartedFor(c, r, NoPorts, a, n)
        PROVE  Watches(c)'
    <3>1. handle'[c] = [channel |-> a, token |-> n] /\ asked'[c] = r
      BY <1>0, <1>3, <2>2 DEF StartedFor
    <3>2. Granted(c, a)'
      BY <1>0, <2>2, <3>1 DEF StartedFor, Granted
    <3> QED
      BY <3>1, <3>2 DEF Watches
  <2> QED
    BY <1>0, <1>3, <2>1, <2>2, PortsAssumption, StartGives
<1> QED
  BY <1>2, <1>3 DEF OnReceiveRequestHead

LEMMA CallbackWatches ==
  ASSUME ProxyInv, NEW c \in Call, Watches(c), OnChannelReady(c)
  PROVE  Watches(c)'
<1>1. /\ posted[c] # <<>> /\ UNCHANGED <<chan, running, handle, asked, broken>>
      /\ conn'[c] = IF Head(posted[c]).ec = "ok" THEN "serving" ELSE "failed"
  BY DEF OnChannelReady, RunCallback, ProxyInv, ProxyTypes
<1>2. conn[c] = "waiting"
  <2>1. CallsOK(chan, posted, handle, want) /\ LeftOver(c)
    BY SessInvParts DEF ProxyInv, CallInv
  <2> QED
    BY <1>1, <2>1 DEF CallsOK, InOnePlace, LeftOver
<1> SUFFICES ASSUME running, c \notin broken, Head(posted[c]).ec = "ok"
             PROVE  \E a \in Addr : handle[c].channel = a /\ Granted(c, a)'
  BY <1>1 DEF Watches
<1>3. PICK a \in Addr : handle[c].channel = a /\ Granted(c, a)
  BY <1>2 DEF Watches, Denied
<1>4. chan[a].status = "working"
  BY <1>1, <1>2, <1>3, CalledBackWorks
<1> QED
  BY <1>1, <1>3, <1>4 DEF Granted

(* No step, its own or another's, takes away what a client watches.        *)
LEMMA WatchesStep ==
  ASSUME MayFail = {}, ProxyInv, ProxyInv', [ProxyNext]_allVars, NEW d \in Call, Watches(d)
  PROVE  Watches(d)'
<1>0. /\ SessInv /\ TypeOK /\ handle \in [Call -> UserHandle]
      /\ conn \in [Call -> {"closed", "idle", "waiting", "serving", "failed"}]
      /\ asked \in [Call -> Rid \cup {NULL}]
  <2>1. SessInv /\ ProxyTypes
    BY DEF ProxyInv
  <2>2. TypeOK
    BY <2>1, SessInvParts DEF RefInv
  <2> QED
    BY <2>1, <2>2 DEF ProxyTypes, TypeOK
<1>1. ASSUME NEW c \in Call, c # d, Accept(c) \/ Leave(c)
      PROVE  Watches(d)'
  <2>1. /\ conn'[d] = conn[d] /\ asked' = asked /\ handle' = handle /\ broken' = broken
        /\ running' = running
    BY <1>0, <1>1 DEF Accept, Leave, vars
  <2> QED
    BY <2>1, StaysWatching
<1>2. ASSUME NEW c \in Call, c # d, OnReceiveRequestHead(c)
      PROVE  Watches(d)'
  <2>1. conn'[d] = conn[d] /\ broken' = broken
    BY <1>0, <1>2 DEF OnReceiveRequestHead
  <2>2. CASE StartBadUrl(c) /\ asked' = asked
    BY <2>1, <2>2, StaysWatching DEF StartBadUrl
  <2>3. ASSUME NEW r \in Rid, StartNew(c, r, NoPorts) \/ StartShared(c, r, NoPorts),
               asked' = [asked EXCEPT ![c] = r]
        PROVE  Watches(d)'
    <3>1. handle'[d] = handle[d]
      BY <1>0, <1>2, <2>3, StartEffect
    <3>2. asked'[d] = asked[d] /\ running' = running
      BY <1>0, <1>2, <2>3 DEF StartNew, StartShared
    <3> QED
      BY <2>1, <3>1, <3>2, StaysWatching
  <2> QED
    BY <1>2, <2>2, <2>3 DEF OnReceiveRequestHead
<1>3. ASSUME NEW c \in Call, c # d, OnChannelReady(c)
      PROVE  Watches(d)'
  <2>1. /\ conn'[d] = conn[d] /\ asked' = asked /\ handle' = handle /\ broken' = broken
        /\ running' = running
    BY <1>0, <1>3 DEF OnChannelReady, RunCallback
  <2> QED
    BY <2>1, StaysWatching
<1>4. ASSUME NEW c \in Call, c # d, OnBrokenPipe(c) \/ OnFinish(c)
      PROVE  Watches(d)'
  <2>1. StopHandle(c)
    BY <1>4 DEF OnBrokenPipe, OnFinish
  <2>2. handle'[d] = handle[d] /\ running' = running
    BY <1>0, <1>4, <2>1, StopEffect DEF StopHandle, StopChannel, vars
  <2>3. /\ conn'[d] = conn[d] /\ asked'[d] = asked[d] /\ (d \in broken => d \in broken')
    BY <1>0, <1>4 DEF OnBrokenPipe, OnFinish
  <2> QED
    BY <2>2, <2>3, StaysWatching
<1>5. ASSUME Accept(d) \/ Leave(d) \/ OnBrokenPipe(d) \/ OnFinish(d)
      PROVE  Watches(d)'
  <2>1. CASE Accept(d) \/ Leave(d) \/ OnFinish(d)
    <3>1. conn'[d] \in {"idle", "closed"}
      BY <1>0, <2>1 DEF Accept, Leave, OnFinish
    <3> QED
      BY <3>1 DEF Watches
  <2>2. CASE OnBrokenPipe(d)
    BY <2>2 DEF OnBrokenPipe, Watches
  <2> QED
    BY <1>5, <2>1, <2>2
<1>6. ASSUME UNCHANGED <<conn, asked, broken, handle>>, running' => running
      PROVE  Watches(d)'
  BY <1>6, StaysWatching
<1>7. CASE \E h \in Handle : Answered(h)
  BY <1>6, <1>7 DEF Answered, ModuleAnswers, proxyVars
<1>8. CASE \E a \in Addr : Resolve(a)
  BY <1>6, <1>8 DEF Resolve, HandleStartChannel, proxyVars
<1>9. CASE Timer \/ End
  BY <1>6, <1>9 DEF Timer, End, HandleTimer, Shutdown, proxyVars
<1>10. CASE Stop \/ UNCHANGED allVars
  BY <1>6, <1>10 DEF Stop, allVars, vars, proxyVars
<1> QED
  BY <1>1, <1>2, <1>3, <1>4, <1>5, <1>7, <1>8, <1>9, <1>10, RequestWatches, CallbackWatches
     DEF ProxyNext

(* While a client is served, its channel plays what it asked for: neither  *)
(* the timer nor an eviction nor another client's start or stop ends it.   *)
(* A failure the live module reports does, so that none is assumed.        *)
THEOREM ServedClientsWatch ==
  ASSUME MayFail = {}
  PROVE  ProxySpec => []ServedKeepsPlaying
<1> DEFINE All == \A c \in Call : Watches(c)
<1>1. ProxyInit => All
  BY DEF ProxyInit, Watches
<1>2. ProxyInv /\ ProxyInv' /\ All /\ [ProxyNext]_allVars => All'
  BY WatchesStep
<1>3. All => ServedKeepsPlaying
  BY DomainAssumption DEF Watches, Denied, Granted, ServedKeepsPlaying
<1> QED
  BY <1>1, <1>2, <1>3, ProxyInvHolds, PTL DEF ProxySpec
=============================================================================
