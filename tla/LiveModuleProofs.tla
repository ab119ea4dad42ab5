-------------------------- MODULE LiveModuleProofs --------------------------
(***************************************************************************)
(* Proofs about LiveModule for every set of owners, cells and handles of   *)
(* the SDK: the safety invariants, and that it implements StartContract.   *)
(***************************************************************************)
EXTENDS LiveModule, TLAPS

Running(a) == chan[a].handle # NULL

(* A report is owed, or posted, for a start that was accepted and is not   *)
(* answered, or was stopped before it was.                                 *)
Due(a) == a \in channels /\ (Running(a) => chan[a].call_back # NULL)

(* The owner's start has no answer yet.                                    *)
Pending(o) == handle[o] # NULL /\ chan[handle[o]].call_back = o

(* Owners, allocated channels and sessions of the SDK pair up.             *)
Heap ==
  /\ \A a \in Cell : a \notin channels => ~ Running(a)
  /\ \A a \in Cell : ~ Running(a) => chan[a].call_back = NULL
  /\ \A a \in Cell : Running(a) => sdk[chan[a].handle].st # "free"
  /\ \A a \in Cell : Running(a) => \E o \in Owner : handle[o] = a
  /\ \A a, b \in Cell : Running(a) /\ chan[a].handle = chan[b].handle => a = b
  /\ \A o \in Owner : handle[o] # NULL =>
       Running(handle[o]) /\ chan[handle[o]].call_back \in {o, NULL}
  /\ \A o1, o2 \in Owner : handle[o1] = handle[o2] /\ handle[o1] # NULL => o1 = o2
  /\ \A h \in SdkHandle : sdk[h].st # "free" => \E a \in Cell : chan[a].handle = h

(* What the SDK owes a cell, and what was posted for it.                   *)
Owes(a)     == Due(a) /\ hooks[a] = <<chan[a].handle>> /\ inner[a] = <<>>
Reported(a) == /\ Due(a) /\ hooks[a] = <<>>
               /\ \E e \in {"ok", "failed"} :
                    /\ inner[a] = <<e>>
                    /\ e = "ok" /\ Running(a) => sdk[chan[a].handle].st = "ready"
Quiet(a)    == ~ Due(a) /\ hooks[a] = <<>> /\ inner[a] = <<>>

Reports == \A a \in Cell : Owes(a) \/ Reported(a) \/ Quiet(a)

(* What an owner waits for.                                                *)
Waits(o) == /\ Pending(o) /\ posted[o] = <<>>
            /\ want[o] \in Rid /\ want[o] = sdk[chan[handle[o]].handle].rid
Posted(o) == /\ ~ Pending(o) /\ want[o] # NULL
             /\ \E m \in Answer : posted[o] = <<m>> /\ (m.ec = "ok" => m.url = want[o])
Idle(o) == ~ Pending(o) /\ posted[o] = <<>> /\ want[o] = NULL

Answers == \A o \in Owner : Waits(o) \/ Posted(o) \/ Idle(o)

Inv == TypeOK /\ Heap /\ Reports /\ Answers

LEMMA OneElement ==
  ASSUME NEW S, NEW x \in S
  PROVE  /\ Append(<<>>, x) = <<x>> /\ Tail(<<x>>) = <<>> /\ Head(<<x>>) = x
         /\ <<x>> \in Seq(S) /\ <<x>> # <<>> /\ Len(<<x>>) = 1
OBVIOUS

LEMMA InvInit == Init => Inv
<1> SUFFICES ASSUME Init
             PROVE  Inv
  OBVIOUS
<1> USE ConstantsAssumption DEF Init, Blank, NoSession
<1>1. TypeOK
  <2>1. Blank \in Channel /\ NoSession \in Session
    BY DEF Channel, Session
  <2>2. /\ <<>> \in Seq(SdkHandle \cup {NULL}) /\ <<>> \in Seq({"ok", "failed"})
        /\ <<>> \in Seq(Answer)
    OBVIOUS
  <2> QED
    BY <2>1, <2>2 DEF TypeOK
<1>2. Heap
  BY DEF Heap, Running
<1>3. Reports
  BY DEF Reports, Quiet, Due
<1>4. Answers
  BY DEF Answers, Idle, Pending
<1> QED
  BY <1>1, <1>2, <1>3, <1>4 DEF Inv

---------------------------------------------------------------------------
(* The actions *)

LEMMA StartStep ==
  ASSUME Inv, NEW o \in Owner, NEW r \in Rid, StartChannel(o, r)
  PROVE  Inv'
<1> USE ConstantsAssumption
<1>1. PICK a \in Cell \ channels, h \in SdkHandle :
        /\ sdk[h].st = "free"
        /\ channels' = channels \cup {a}
        /\ chan' = [chan EXCEPT ![a] = [handle |-> h, call_back |-> o]]
        /\ sdk' = [sdk EXCEPT ![h] = [st |-> "starting", rid |-> r]]
        /\ hooks' = Send(hooks, a, h)
        /\ handle' = [handle EXCEPT ![o] = a]
  BY DEF StartChannel
<1>2. /\ want' = [want EXCEPT ![o] = r] /\ want[o] = NULL /\ handle[o] = NULL
      /\ UNCHANGED <<lib, asserted, inner, posted>>
  BY DEF StartChannel, CanStart
<1>3. Quiet(a)
  BY DEF Inv, Reports, Owes, Reported, Due
<1>4. hooks' = [hooks EXCEPT ![a] = <<h>>]
  BY <1>1, <1>3, OneElement DEF Quiet, Send
<1>5. TypeOK'
  BY <1>1, <1>2, <1>4, OneElement DEF Inv, TypeOK, Channel, Session
<1>6. Heap'
  BY <1>1, <1>2 DEF Inv, TypeOK, Heap, Running, Channel, Session
<1>7. Reports'
  <2> SUFFICES ASSUME NEW b \in Cell
               PROVE  (Owes(b) \/ Reported(b) \/ Quiet(b))'
    BY DEF Reports
  <2>1. CASE b = a
    BY <1>1, <1>2, <1>3, <1>4, <2>1 DEF Inv, TypeOK, Owes, Due, Running, Quiet
  <2>2. CASE b # a
    <3>1. /\ chan'[b] = chan[b] /\ hooks'[b] = hooks[b] /\ inner'[b] = inner[b]
          /\ b \in channels' <=> b \in channels
      BY <1>1, <1>2, <1>4, <2>2 DEF Inv, TypeOK
    <3>2. Running(b) => sdk'[chan[b].handle] = sdk[chan[b].handle]
      BY <1>1 DEF Inv, TypeOK, Heap, Running, Channel
    <3> QED
      BY <3>1, <3>2 DEF Inv, Reports, Owes, Reported, Quiet, Due, Running
  <2> QED
    BY <2>1, <2>2
<1>8. Answers'
  <2> SUFFICES ASSUME NEW x \in Owner
               PROVE  (Waits(x) \/ Posted(x) \/ Idle(x))'
    BY DEF Answers
  <2>1. CASE x = o
    <3>1. Idle(o)
      BY <1>2 DEF Inv, Answers, Waits, Posted
    <3> QED
      BY <1>1, <1>2, <2>1, <3>1 DEF Inv, TypeOK, Waits, Pending, Idle
  <2>2. CASE x # o
    <3>1. handle'[x] = handle[x] /\ posted'[x] = posted[x] /\ want'[x] = want[x]
      BY <1>1, <1>2, <2>2 DEF Inv, TypeOK
    <3>2. handle[x] # NULL => /\ handle[x] \in Cell /\ chan'[handle[x]] = chan[handle[x]]
                              /\ sdk'[chan[handle[x]].handle] = sdk[chan[handle[x]].handle]
      BY <1>1 DEF Inv, TypeOK, Heap, Running, Channel
    <3> QED
      BY <3>1, <3>2 DEF Inv, Answers, Waits, Posted, Idle, Pending
  <2> QED
    BY <2>1, <2>2
<1> QED
  BY <1>5, <1>6, <1>7, <1>8 DEF Inv

(* The session is closed in the SDK, and what it owes no longer names it.  *)
LEMMA ClosedSession ==
  ASSUME Inv, NEW a \in Cell, Running(a), SdkStopped(chan[a].handle)
  PROVE  /\ sdk' = [sdk EXCEPT ![chan[a].handle] = NoSession]
         /\ hooks' = [hooks EXCEPT ![a] = IF hooks[a] = <<>> THEN <<>> ELSE <<NULL>>]
<1> DEFINE h == chan[a].handle
<1>1. sdk' = [sdk EXCEPT ![h] = NoSession]
  BY DEF SdkStopped
<1>2. hooks' = [b \in Cell |-> [k \in DOMAIN hooks[b] |->
                 IF hooks[b][k] = h THEN NULL ELSE hooks[b][k]]]
  BY DEF SdkStopped
<1>3. ASSUME NEW b \in Cell
      PROVE  hooks'[b] = IF b = a THEN IF hooks[a] = <<>> THEN <<>> ELSE <<NULL>> ELSE hooks[b]
  <2>1. hooks[b] = <<>> \/ hooks[b] = <<chan[b].handle>>
    BY DEF Inv, Reports, Owes, Reported, Quiet
  <2>2. CASE hooks[b] = <<>>
    BY <1>2, <2>2
  <2>3. CASE hooks[b] = <<chan[b].handle>> /\ b = a
    BY <1>2, <2>3
  <2>4. CASE hooks[b] = <<chan[b].handle>> /\ b # a
    <3>1. chan[b].handle # h
      BY <2>4 DEF Inv, Heap
    <3> QED
      BY <1>2, <2>4, <3>1
  <2> QED
    BY <2>1, <2>2, <2>3, <2>4
<1> QED
  BY <1>1, <1>2, <1>3 DEF Inv, TypeOK

LEMMA StopStep ==
  ASSUME Inv, NEW o \in Owner, StopChannel(o)
  PROVE  Inv'
<1> USE ConstantsAssumption
<1> DEFINE a == handle[o]
           h == chan[a].handle
<1>1. /\ a \in Cell /\ Running(a) /\ h \in SdkHandle /\ a \in channels
      /\ chan[a].call_back \in {o, NULL}
  BY DEF StopChannel, Inv, Heap, TypeOK, Channel, Running
<1>2. /\ sdk' = [sdk EXCEPT ![h] = NoSession]
      /\ hooks' = [hooks EXCEPT ![a] = IF hooks[a] = <<>> THEN <<>> ELSE <<NULL>>]
  BY <1>1, ClosedSession DEF StopChannel
<1>3. /\ chan' = [chan EXCEPT ![a] = Blank]
      /\ channels' = IF chan[a].call_back = NULL THEN channels \ {a} ELSE channels
      /\ posted' = IF chan[a].call_back = NULL THEN posted
                   ELSE [posted EXCEPT ![o] = Append(@, Aborted)]
  BY <1>1 DEF StopChannel, Answered, Delete, Detach, Send
<1>4. handle' = [handle EXCEPT ![o] = NULL] /\ UNCHANGED <<lib, asserted, inner, want>>
  BY DEF StopChannel
<1>5. /\ chan[a].call_back = o => Waits(o)
      /\ chan[a].call_back = NULL => Posted(o) \/ Idle(o)
      /\ chan[a].call_back = NULL <=> ~ Due(a)
  BY <1>1 DEF Inv, Answers, Waits, Posted, Idle, Pending, Due
<1>6. /\ chan[a].call_back # NULL => posted' = [posted EXCEPT ![o] = <<Aborted>>]
      /\ Aborted \in Answer
  BY <1>1, <1>3, <1>5, OneElement DEF Waits, Aborted, Answer
<1>7. TypeOK'
  <2>1. Blank \in Channel /\ NoSession \in Session
    BY DEF Channel, Session, Blank, NoSession
  <2>2. hooks'[a] \in Seq(SdkHandle \cup {NULL})
    BY <1>1, <1>2, OneElement DEF Inv, TypeOK
  <2>3. posted' \in [Owner -> Seq(Answer)]
    BY <1>1, <1>3, <1>6, OneElement DEF Inv, TypeOK
  <2> QED
    BY <1>1, <1>2, <1>3, <1>4, <2>1, <2>2, <2>3 DEF Inv, TypeOK
<1>8. Heap'
  BY <1>1, <1>2, <1>3, <1>4 DEF Inv, TypeOK, Heap, Running, Channel, Session, Blank, NoSession
<1>9. Reports'
  <2> SUFFICES ASSUME NEW b \in Cell
               PROVE  (Owes(b) \/ Reported(b) \/ Quiet(b))'
    BY DEF Reports
  <2>1. CASE b = a
    BY <1>1, <1>2, <1>3, <1>4, <1>5, <2>1
      DEF Inv, TypeOK, Reports, Owes, Reported, Quiet, Due, Running, Blank
  <2>2. CASE b # a
    <3>1. /\ chan'[b] = chan[b] /\ hooks'[b] = hooks[b] /\ inner'[b] = inner[b]
          /\ b \in channels' <=> b \in channels
      BY <1>1, <1>2, <1>3, <1>4, <2>2 DEF Inv, TypeOK
    <3>2. Running(b) => sdk'[chan[b].handle] = sdk[chan[b].handle]
      BY <1>1, <1>2, <2>2 DEF Inv, TypeOK, Heap, Running, Channel
    <3> QED
      BY <3>1, <3>2 DEF Inv, Reports, Owes, Reported, Quiet, Due, Running
  <2> QED
    BY <2>1, <2>2
<1>10. Answers'
  <2> SUFFICES ASSUME NEW x \in Owner
               PROVE  (Waits(x) \/ Posted(x) \/ Idle(x))'
    BY DEF Answers
  <2>1. CASE x = o /\ chan[a].call_back = NULL
    BY <1>3, <1>4, <1>5, <2>1 DEF Inv, TypeOK, Posted, Idle, Pending
  <2>2. CASE x = o /\ chan[a].call_back # NULL
    <3>1. /\ handle'[o] = NULL /\ posted'[o] = <<Aborted>> /\ want'[o] \in Rid
      BY <1>1, <1>4, <1>5, <1>6, <2>2 DEF Inv, TypeOK, Waits
    <3> QED
      BY <1>6, <2>2, <3>1 DEF Posted, Pending, Aborted
  <2>3. CASE x # o
    <3>1. handle'[x] = handle[x] /\ posted'[x] = posted[x] /\ want'[x] = want[x]
      BY <1>3, <1>4, <2>3 DEF Inv, TypeOK
    <3>2. handle[x] # NULL => /\ handle[x] \in Cell /\ chan'[handle[x]] = chan[handle[x]]
                              /\ sdk'[chan[handle[x]].handle] = sdk[chan[handle[x]].handle]
      BY <1>1, <1>2, <1>3, <2>3 DEF Inv, TypeOK, Heap, Running, Channel
    <3> QED
      BY <3>1, <3>2 DEF Inv, Answers, Waits, Posted, Idle, Pending
  <2> QED
    BY <2>1, <2>2, <2>3
<1> QED
  BY <1>7, <1>8, <1>9, <1>10 DEF Inv

LEMMA SdkReportsStep ==
  ASSUME Inv, NEW a \in Cell, SdkReports(a)
  PROVE  Inv'
<1> USE ConstantsAssumption
<1>1. Owes(a)
  BY DEF SdkReports, Inv, Reports, Reported, Quiet
<1>2. hooks' = [hooks EXCEPT ![a] = <<>>]
  BY <1>1 DEF SdkReports, Owes
<1>3. PICK e \in {"ok", "failed"} :
        /\ inner' = [inner EXCEPT ![a] = <<e>>]
        /\ sdk' = IF e = "ok" /\ Running(a) THEN [sdk EXCEPT ![chan[a].handle].st = "ready"] ELSE sdk
  BY <1>1 DEF SdkReports, Owes, Send, Running
<1>4. UNCHANGED <<lib, asserted, channels, chan, posted, handle, want>>
  BY DEF SdkReports
<1>5. TypeOK'
  <2>1. sdk' \in [SdkHandle -> Session]
    <3>1. sdk \in [SdkHandle -> Session]
      BY DEF Inv, TypeOK
    <3>2. \A x \in Session : [x EXCEPT !.st = "ready"] \in Session
      BY DEF Session
    <3> QED
      BY <1>3, <3>1, <3>2
  <2>2. hooks' \in [Cell -> Seq(SdkHandle \cup {NULL})] /\ inner' \in [Cell -> Seq({"ok", "failed"})]
    BY <1>2, <1>3, OneElement DEF Inv, TypeOK
  <2> QED
    BY <1>4, <2>1, <2>2 DEF Inv, TypeOK
<1>6. \A h \in SdkHandle : sdk'[h].rid = sdk[h].rid /\ (sdk'[h].st = "free" <=> sdk[h].st = "free")
  BY <1>1, <1>3 DEF Inv, TypeOK, Session, Channel, Running, Heap
<1>7. Heap'
  <2>1. \A b \in Cell : Running(b) => chan[b].handle \in SdkHandle
    BY DEF Inv, TypeOK, Channel, Running
  <2>2. \A b \in Cell : Running(b) => sdk'[chan[b].handle].st # "free"
    BY <1>6, <2>1 DEF Inv, Heap
  <2>3. \A h \in SdkHandle : sdk'[h].st # "free" => \E b \in Cell : chan[b].handle = h
    BY <1>6 DEF Inv, Heap
  <2> QED
    BY <1>4, <2>2, <2>3 DEF Inv, Heap, Running
<1>8. Reports'
  <2> SUFFICES ASSUME NEW b \in Cell
               PROVE  (Owes(b) \/ Reported(b) \/ Quiet(b))'
    BY DEF Reports
  <2>1. CASE b = a
    <3>1. Running(a) => chan[a].handle \in SdkHandle
      BY DEF Running, Inv, TypeOK, Channel
    <3>2. e = "ok" /\ Running(a) => sdk'[chan[a].handle].st = "ready"
      BY <1>3, <3>1 DEF Inv, TypeOK, Session
    <3> QED
      BY <1>1, <1>2, <1>3, <1>4, <2>1, <3>2 DEF Inv, TypeOK, Owes, Reported, Due, Running
  <2>2. CASE b # a
    <3>1. hooks'[b] = hooks[b] /\ inner'[b] = inner[b]
      BY <1>2, <1>3, <2>2 DEF Inv, TypeOK
    <3>2. Running(b) => sdk'[chan[b].handle] = sdk[chan[b].handle]
      BY <1>3, <2>2 DEF Inv, TypeOK, Heap, Running, Channel
    <3> QED
      BY <1>4, <3>1, <3>2 DEF Inv, Reports, Owes, Reported, Quiet, Due, Running
  <2> QED
    BY <2>1, <2>2
<1>9. Answers'
  <2> SUFFICES ASSUME NEW x \in Owner
               PROVE  (Waits(x) \/ Posted(x) \/ Idle(x))'
    BY DEF Answers
  <2>1. Pending(x) => chan[handle[x]].handle \in SdkHandle
    BY DEF Pending, Inv, Heap, TypeOK, Channel, Running
  <2> QED
    BY <1>4, <1>6, <2>1 DEF Inv, Answers, Waits, Posted, Idle, Pending
<1> QED
  BY <1>5, <1>7, <1>8, <1>9 DEF Inv

LEMMA HandleCallBackStep ==
  ASSUME Inv, NEW a \in Cell, HandleCallBack(a)
  PROVE  Inv'
<1> USE ConstantsAssumption
<1>1. PICK e \in {"ok", "failed"} :
        /\ Due(a) /\ hooks[a] = <<>> /\ inner[a] = <<e>>
        /\ e = "ok" /\ Running(a) => sdk[chan[a].handle].st = "ready"
  BY DEF HandleCallBack, Inv, Reports, Owes, Reported, Quiet
<1>2. inner' = [inner EXCEPT ![a] = <<>>] /\ Head(inner[a]) = e
  BY <1>1 DEF HandleCallBack
<1>3. UNCHANGED <<lib, asserted, sdk, hooks, handle, want>>
  BY DEF HandleCallBack
<1>4. CASE ~ Running(a)
  <2>1. chan[a].call_back = NULL
    BY <1>4 DEF Inv, Heap
  <2>2. channels' = channels \ {a} /\ chan' = [chan EXCEPT ![a] = Blank] /\ posted' = posted
    BY <2>1 DEF HandleCallBack, Answered, Delete
  <2>3. TypeOK'
    BY <1>2, <1>3, <2>2, OneElement DEF Inv, TypeOK, Channel, Blank
  <2>4. \A b \in Cell : chan'[b].handle = chan[b].handle /\ chan'[b].call_back = chan[b].call_back
    BY <1>4, <2>1, <2>2 DEF Inv, TypeOK, Running, Blank
  <2>5. Heap'
    BY <1>3, <1>4, <2>2, <2>4 DEF Inv, TypeOK, Heap, Running
  <2>6. Reports'
    <3> SUFFICES ASSUME NEW b \in Cell
                 PROVE  (Owes(b) \/ Reported(b) \/ Quiet(b))'
      BY DEF Reports
    <3>1. CASE b = a
      BY <1>1, <1>2, <1>3, <2>2, <3>1 DEF Inv, TypeOK, Quiet, Due
    <3>2. CASE b # a
      <4>1. inner'[b] = inner[b] /\ (b \in channels' <=> b \in channels)
        BY <1>2, <2>2, <3>2 DEF Inv, TypeOK
      <4> QED
        BY <1>3, <2>4, <4>1 DEF Inv, Reports, Owes, Reported, Quiet, Due, Running
    <3> QED
      BY <3>1, <3>2
  <2>7. Answers'
    <3> SUFFICES ASSUME NEW x \in Owner
                 PROVE  (Waits(x) \/ Posted(x) \/ Idle(x))'
      BY DEF Answers
    <3>1. handle[x] # NULL => handle[x] \in Cell
      BY DEF Inv, TypeOK
    <3> QED
      BY <1>3, <2>2, <2>4, <3>1 DEF Inv, Answers, Waits, Posted, Idle, Pending
  <2> QED
    BY <2>3, <2>5, <2>6, <2>7 DEF Inv
<1>5. CASE Running(a)
  <2>1. PICK o \in Owner : handle[o] = a
    BY <1>5 DEF Inv, Heap
  <2>2. chan[a].call_back = o /\ handle[o] # NULL
    BY <1>1, <1>5, <2>1 DEF Inv, Heap, Due
  <2> DEFINE m == [ec |-> e, url |-> IF e = "ok" THEN sdk[chan[a].handle].rid ELSE NULL]
  <2>3. Waits(o)
    BY <2>1, <2>2 DEF Inv, Answers, Posted, Idle, Pending
  <2>4. posted' = [posted EXCEPT ![o] = <<m>>]
    BY <1>1, <1>2, <1>5, <2>2, <2>3, OneElement
      DEF HandleCallBack, Answered, UrlOf, Send, Waits, Inv, TypeOK
  <2>5. chan' = [chan EXCEPT ![a].call_back = NULL] /\ channels' = channels
    BY <2>2 DEF HandleCallBack, Answered
  <2>6. m \in Answer /\ (m.ec = "ok" => m.url = want[o])
    BY <2>1, <2>3 DEF Waits, Answer
  <2>7. TypeOK'
    BY <1>2, <1>3, <2>4, <2>5, <2>6, OneElement DEF Inv, TypeOK, Channel
  <2>8. /\ \A b \in Cell : chan'[b].handle = chan[b].handle
        /\ \A b \in Cell \ {a} : chan'[b].call_back = chan[b].call_back
        /\ chan'[a].call_back = NULL
    BY <2>5 DEF Inv, TypeOK, Channel
  <2>9. Heap'
    BY <1>3, <1>5, <2>1, <2>5, <2>8 DEF Inv, TypeOK, Heap, Running
  <2>10. Reports'
    <3> SUFFICES ASSUME NEW b \in Cell
                 PROVE  (Owes(b) \/ Reported(b) \/ Quiet(b))'
      BY DEF Reports
    <3>1. CASE b = a
      BY <1>1, <1>2, <1>3, <1>5, <2>8, <3>1 DEF Inv, TypeOK, Quiet, Due, Running
    <3>2. CASE b # a
      <4>1. inner'[b] = inner[b]
        BY <1>2, <3>2 DEF Inv, TypeOK
      <4> QED
        BY <1>3, <2>5, <2>8, <3>2, <4>1 DEF Inv, Reports, Owes, Reported, Quiet, Due, Running
    <3> QED
      BY <3>1, <3>2
  <2>11. Answers'
    <3> SUFFICES ASSUME NEW x \in Owner
                 PROVE  (Waits(x) \/ Posted(x) \/ Idle(x))'
      BY DEF Answers
    <3>1. CASE x = o
      <4>1. posted'[o] = <<m>> /\ want'[o] # NULL /\ want'[o] = want[o] /\ handle'[o] = a
        BY <1>3, <2>1, <2>3, <2>4 DEF Inv, TypeOK, Waits
      <4>2. ~ Pending(o)'
        BY <2>8, <4>1 DEF Pending
      <4> QED
        BY <2>6, <3>1, <4>1, <4>2 DEF Posted
    <3>2. CASE x # o
      <4>1. posted'[x] = posted[x] /\ handle[x] # a
        BY <2>1, <2>2, <2>4, <3>2 DEF Inv, TypeOK, Heap
      <4>2. handle[x] # NULL => handle[x] \in Cell \ {a}
        BY <4>1 DEF Inv, TypeOK
      <4> QED
        BY <1>3, <2>8, <4>1, <4>2 DEF Inv, Answers, Waits, Posted, Idle, Pending
    <3> QED
      BY <3>1, <3>2
  <2> QED
    BY <2>7, <2>9, <2>10, <2>11 DEF Inv
<1> QED
  BY <1>4, <1>5

LEMMA RunCallbackStep ==
  ASSUME Inv, NEW o \in Owner, RunCallback(o)
  PROVE  Inv'
<1> USE ConstantsAssumption
<1>1. UNCHANGED <<lib, asserted, channels, chan, sdk, hooks, inner, handle>>
  BY DEF RunCallback
<1>2. Posted(o)
  BY DEF RunCallback, Inv, Answers, Waits, Idle
<1>3. posted' = [posted EXCEPT ![o] = <<>>] /\ want' = [want EXCEPT ![o] = NULL]
  BY <1>2, OneElement DEF RunCallback, Posted
<1>4. TypeOK'
  BY <1>1, <1>3, OneElement DEF Inv, TypeOK
<1>5. Heap' /\ Reports'
  BY <1>1 DEF Inv, Heap, Reports, Owes, Reported, Quiet, Due, Running
<1>6. Answers'
  BY <1>1, <1>2, <1>3 DEF Inv, TypeOK, Answers, Waits, Posted, Idle, Pending
<1> QED
  BY <1>4, <1>5, <1>6 DEF Inv

(* The library, and an assert reached, are of no account to the rest.      *)
LEMMA OtherStep ==
  ASSUME Inv, \/ Startup \/ Shutdown \/ UNCHANGED vars
              \/ \E o \in Owner : StartRefused(o)
  PROVE  Inv'
<1>1. /\ UNCHANGED <<channels, chan, sdk, hooks, inner, posted, handle, want>>
      /\ lib' \in Library \cup {"down", "cleaned"} /\ asserted' \in BOOLEAN
  BY ConstantsAssumption DEF Startup, Shutdown, StartRefused, vars, Inv, TypeOK, Library
<1>2. TypeOK'
  BY <1>1 DEF Inv, TypeOK
<1>3. Heap' /\ Reports' /\ Answers'
  BY <1>1 DEF Inv, Heap, Reports, Owes, Reported, Quiet, Due, Running, Answers, Waits,
    Posted, Idle, Pending
<1> QED
  BY <1>2, <1>3 DEF Inv

LEMMA InvStep == Inv /\ [Next]_vars => Inv'
BY StartStep, StopStep, SdkReportsStep, HandleCallBackStep, RunCallbackStep, OtherStep, Zenon
  DEF Next

---------------------------------------------------------------------------
(* The theorems *)

(* The invariants hold together in every state LiveModule reaches.         *)
THEOREM InvHolds == Spec => []Inv
BY InvInit, InvStep, PTL DEF Spec

(* Every variable keeps its type; a success comes with a url.              *)
THEOREM TypeCorrect == Spec => []TypeOK
<1>1. Inv => TypeOK
  BY DEF Inv
<1> QED
  BY <1>1, InvHolds, PTL

(* Exactly one report, made or posted, is outstanding for the channels     *)
(* that need one, so no report reaches a deleted channel, or another one   *)
(* in its cell.                                                            *)
THEOREM OneReport == Spec => []ReportOutstanding
<1>1. Inv => ReportOutstanding
  <2> SUFFICES ASSUME Inv, NEW a \in Cell
               PROVE  Len(hooks[a]) + Len(inner[a]) = IF Due(a) THEN 1 ELSE 0
    BY DEF ReportOutstanding, Answered, Due, Running
  <2>1. Owes(a) \/ Reported(a) \/ Quiet(a)
    BY DEF Inv, Reports
  <2>2. Len(<<>>) = 0 /\ \A x : Len(<<x>>) = 1
    OBVIOUS
  <2>3. CASE Owes(a)
    BY <2>2, <2>3 DEF Owes
  <2>4. CASE Reported(a)
    BY <2>2, <2>4 DEF Reported
  <2>5. CASE Quiet(a)
    BY <2>2, <2>5 DEF Quiet
  <2> QED
    BY <2>1, <2>3, <2>4, <2>5
<1> QED
  BY <1>1, InvHolds, PTL

(* No session of the SDK is left playing without an owner who can stop it. *)
THEOREM SessionsAreStoppable == Spec => []SessionsStoppable
<1>1. Inv => SessionsStoppable
  <2> SUFFICES ASSUME Inv
               PROVE  SessionsStoppable
    OBVIOUS
  <2>1. ASSUME NEW h \in SdkHandle, sdk[h].st # "free"
        PROVE  \E o \in Owner : handle[o] # NULL /\ chan[handle[o]].handle = h
    <3>1. PICK a \in Cell : chan[a].handle = h /\ Running(a)
      BY <2>1, ConstantsAssumption DEF Inv, Heap, Running
    <3>2. PICK o \in Owner : handle[o] = a
      BY <3>1 DEF Inv, Heap
    <3> QED
      BY <3>1, <3>2, ConstantsAssumption
  <2>2. ASSUME NEW o \in Owner, handle[o] # NULL
        PROVE  /\ handle[o] \in channels /\ chan[handle[o]].handle # NULL
               /\ sdk[chan[handle[o]].handle].st # "free"
               /\ chan[handle[o]].call_back \in {o, NULL}
    BY <2>2 DEF Inv, TypeOK, Heap, Running
  <2> QED
    BY <2>1, <2>2 DEF SessionsStoppable
<1> QED
  BY <1>1, InvHolds, PTL

(* A success carries the url of what its owner asked for, although cells   *)
(* and handles are used again while reports are on their way.              *)
THEOREM ServedAsAsked == Spec => []ServedWhatAsked
<1>1. Inv => ServedWhatAsked
  BY DEF Inv, Answers, Waits, Posted, Idle, ServedWhatAsked
<1> QED
  BY <1>1, InvHolds, PTL

---------------------------------------------------------------------------
(* The contract *)

LEMMA ContractInit == Init => Contract!Init
<1> SUFFICES ASSUME Init
             PROVE  Contract!Init
  OBVIOUS
<1>1. \A o \in Owner : Phase(o) = "none" /\ (handle[o] # NULL) = FALSE
  BY DEF Init, Phase
<1> QED
  BY <1>1, Zenon DEF Contract!Init

(* How the two variables of the contract move for one owner.               *)
Moved(o, p, q, before, after) ==
  /\ Phase(o) = p /\ Phase(o)' = q
  /\ (handle[o] # NULL) = before /\ (handle'[o] # NULL) = after

LEMMA MovedIsMoves ==
  ASSUME NEW o \in Owner, NEW p, NEW q, NEW before \in BOOLEAN, NEW after \in BOOLEAN,
         Moved(o, p, q, before, after)
  PROVE  Contract!Moves(o, p, q, before, after)
BY DEF Moved, Contract!Moves

Stayed(o) == Phase(o)' = Phase(o) /\ (handle'[o] # NULL) = (handle[o] # NULL)

LEMMA StayedIsStill ==
  ASSUME NEW o \in Owner, Stayed(o)
  PROVE  Contract!Still(o)
BY DEF Stayed, Contract!Still

(* The state of an owner is one of three, and tells its phase.             *)
LEMMA PhaseOf ==
  ASSUME Inv, NEW o \in Owner
  PROVE  /\ Waits(o) => Phase(o) = "due" /\ handle[o] # NULL
         /\ Posted(o) => Phase(o) = "posted"
         /\ Idle(o) => Phase(o) = "none"
         /\ Waits(o) \/ Posted(o) \/ Idle(o)
BY ConstantsAssumption, OneElement DEF Inv, Answers, Waits, Posted, Idle, Pending, Phase

(* Each step of LiveModule is, for each owner, a step of the contract.     *)
LEMMA OwnerStep ==
  ASSUME Inv, [Next]_vars, NEW o \in Owner
  PROVE  \/ Stayed(o)
         \/ Moved(o, "none", "due", FALSE, TRUE)
         \/ Moved(o, "due", "posted", TRUE, TRUE)
         \/ Moved(o, "due", "posted", TRUE, FALSE)
         \/ \E p \in {"none", "posted"} : Moved(o, p, p, TRUE, FALSE)
         \/ \E b \in BOOLEAN : Moved(o, "posted", "none", b, b)
<1> USE ConstantsAssumption
<1>0. Inv'
  BY InvStep
<1>1. ASSUME NEW x \in Owner, NEW r \in Rid, StartChannel(x, r)
      PROVE  Stayed(o) \/ Moved(o, "none", "due", FALSE, TRUE)
  <2>1. /\ posted' = posted /\ want' = [want EXCEPT ![x] = r] /\ want[x] = NULL /\ handle[x] = NULL
        /\ \E a \in Cell : handle' = [handle EXCEPT ![x] = a]
    BY <1>1 DEF StartChannel, CanStart
  <2>2. CASE o = x
    <3>1. Idle(o)
      BY <2>1, <2>2 DEF Inv, Answers, Waits, Posted
    <3>2. posted'[o] = <<>> /\ want'[o] # NULL /\ handle'[o] # NULL
      BY <2>1, <2>2, <3>1 DEF Inv, TypeOK, Idle
    <3> QED
      BY <2>1, <2>2, <3>1, <3>2 DEF Moved, Phase, Idle
  <2>3. CASE o # x
    BY <2>1, <2>3 DEF Inv, TypeOK, Stayed, Phase
  <2> QED
    BY <2>2, <2>3
<1>2. ASSUME NEW x \in Owner, StopChannel(x)
      PROVE  \/ Stayed(o)
             \/ Moved(o, "due", "posted", TRUE, FALSE)
             \/ \E p \in {"none", "posted"} : Moved(o, p, p, TRUE, FALSE)
  <2>1. /\ handle[x] # NULL /\ handle' = [handle EXCEPT ![x] = NULL] /\ want' = want
        /\ chan[handle[x]].call_back \in {x, NULL}
        /\ \/ chan[handle[x]].call_back = NULL /\ posted' = posted
           \/ /\ chan[handle[x]].call_back = x
              /\ posted' = [posted EXCEPT ![x] = Append(@, Aborted)]
    BY <1>2 DEF StopChannel, Answered, Send, Inv, Heap
  <2>2. CASE o # x
    BY <2>1, <2>2 DEF Inv, TypeOK, Stayed, Phase
  <2>3. CASE o = x /\ chan[handle[x]].call_back = NULL
    <3>1. Posted(o) \/ Idle(o)
      BY <2>3 DEF Inv, Answers, Waits, Pending
    <3> QED
      BY <2>1, <2>3, <3>1, PhaseOf DEF Inv, TypeOK, Moved, Phase
  <2>4. CASE o = x /\ chan[handle[x]].call_back = x
    <3>1. Waits(o)
      BY <2>1, <2>4 DEF Inv, Answers, Posted, Idle, Pending
    <3>2. posted'[o] = <<Aborted>>
      BY <2>1, <2>4, <3>1, OneElement DEF Inv, TypeOK, Waits
    <3> QED
      BY <2>1, <2>4, <3>1, <3>2, PhaseOf, OneElement DEF Inv, TypeOK, Moved, Phase
  <2> QED
    BY <2>1, <2>2, <2>3, <2>4
<1>3. ASSUME NEW x \in Owner, RunCallback(x)
      PROVE  Stayed(o) \/ \E b \in BOOLEAN : Moved(o, "posted", "none", b, b)
  <2>1. /\ posted[x] # <<>> /\ posted' = [posted EXCEPT ![x] = Tail(@)]
        /\ want' = [want EXCEPT ![x] = NULL] /\ handle' = handle
    BY <1>3 DEF RunCallback
  <2>2. CASE o # x
    BY <2>1, <2>2 DEF Inv, TypeOK, Stayed, Phase
  <2>3. CASE o = x
    <3>1. Posted(o)
      BY <2>1, <2>3 DEF Inv, Answers, Waits, Idle
    <3>2. posted'[o] = <<>> /\ want'[o] = NULL
      BY <2>1, <2>3, <3>1, OneElement DEF Inv, TypeOK, Posted
    <3> QED
      BY <2>1, <3>1, <3>2, PhaseOf DEF Moved, Phase
  <2> QED
    BY <2>2, <2>3
<1>4. ASSUME NEW a \in Cell, HandleCallBack(a)
      PROVE  Stayed(o) \/ Moved(o, "due", "posted", TRUE, TRUE)
  <2>1. /\ handle' = handle /\ want' = want
        /\ \/ posted' = posted
           \/ \E m : posted' = [posted EXCEPT ![chan[a].call_back] = Append(@, m)]
    BY <1>4 DEF HandleCallBack, Send
  <2>2. CASE posted'[o] = posted[o]
    BY <2>1, <2>2 DEF Stayed, Phase
  <2>3. CASE posted'[o] # posted[o]
    <3>1. chan[a].call_back = o
      BY <2>1, <2>3 DEF Inv, TypeOK
    <3>2. Running(a)
      BY <3>1 DEF Inv, Heap
    <3>3. Pending(o)
      BY <3>1, <3>2 DEF Inv, Heap, Pending
    <3>4. Waits(o)
      BY <3>3 DEF Inv, Answers, Posted, Idle
    <3>5. posted'[o] # <<>>
      BY <2>3, <3>4 DEF Waits
    <3> QED
      BY <2>1, <3>4, <3>5, PhaseOf DEF Moved, Phase
  <2> QED
    BY <2>2, <2>3
<1>5. ASSUME UNCHANGED <<posted, want, handle>> PROVE Stayed(o)
  BY <1>5 DEF Stayed, Phase
<1>6. CASE \/ Startup \/ Shutdown \/ UNCHANGED vars
          \/ \E x \in Owner : StartRefused(x)
          \/ \E a \in Cell : SdkReports(a)
  BY <1>5, <1>6, Zenon DEF Startup, Shutdown, StartRefused, SdkReports, vars
<1> QED
  BY <1>1, <1>2, <1>3, <1>4, <1>6, Zenon DEF Next

LEMMA ContractStep ==
  ASSUME Inv, [Next]_vars
  PROVE  Contract!Next
<1>1. ASSUME NEW o \in Owner PROVE Contract!Step(o) \/ Contract!Still(o)
  BY OwnerStep, MovedIsMoves, StayedIsStill, Zenon
    DEF Contract!Step, Contract!Start, Contract!Answer, Contract!Stop, Contract!Run
<1>2. \A o \in Owner : Phase(o)' \in Contract!Phase
  BY DEF Phase, Contract!Phase
<1> QED
  BY <1>1, <1>2 DEF Contract!Next

(* LiveModule keeps the contract: each start is answered once, and by its  *)
(* own stop at the latest, however the reports of the SDK cross the stops. *)
THEOREM ContractKept == Spec => KeepsContract
<1>1. Inv /\ [Next]_vars => [Contract!Next]_(Contract!vars)
  BY ContractStep
<1> QED
  BY <1>1, ContractInit, InvHolds, PTL DEF Spec, KeepsContract, Contract!Spec
=============================================================================
