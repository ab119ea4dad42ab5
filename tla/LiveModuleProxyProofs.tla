----------------------- MODULE LiveModuleProxyProofs -----------------------
(***************************************************************************)
(* Proofs about LiveModuleProxy for every set of owners and of slots: the  *)
(* safety invariants, and that it implements StartContract.                *)
(***************************************************************************)
EXTENDS LiveModuleProxy, TLAPS

(* A start waits for its callback in exactly one place: the channel its    *)
(* owner may still stop, or the io_service.                                *)
Pending(o) == handle[o] # NULL /\ call_back[handle[o]] = o

CallBackOwed ==
  /\ \A p \in Proc : call_back[p] # NULL => handle[call_back[p]] = p
  /\ \A o \in Owner :
       /\ Pending(o) => o \in waiting
       /\ posted[o] = IF o \in waiting /\ ~ Pending(o) THEN 1 ELSE 0

LEMMA NextCases ==
  ASSUME [Next]_vars
  PROVE  \/ UNCHANGED vars
         \/ \E o \in Owner : StartChannel(o)
         \/ \E o \in Owner : StopChannel(o)
         \/ \E o \in Owner : RunCallback(o)
         \/ \E p \in Proc : HandleStartChannel(p)
         \/ CheckChannels
         \/ ParentEnds
         \/ \E p \in Proc : ChildNext(p)
BY Zenon DEF Next, ParentNext, StartRefused

---------------------------------------------------------------------------
(* Types *)

LEMMA TypeInit == Init => TypeOK
BY NullAssumption DEF Init, TypeOK

LEMMA TypeStep ==
  ASSUME TypeOK, [Next]_vars
  PROVE  TypeOK'
<1> USE NullAssumption
<1>1. CASE UNCHANGED vars
  BY <1>1 DEF TypeOK, vars, parentVars, socketVars
<1>2. ASSUME NEW o \in Owner, StartChannel(o) PROVE TypeOK'
  BY <1>2 DEF TypeOK, StartChannel, Forked, Live, Serving
<1>3. ASSUME NEW o \in Owner, StopChannel(o) PROVE TypeOK'
  BY <1>3 DEF TypeOK, StopChannel, SendsStop, Delete, PostCallBack, Post
<1>4. ASSUME NEW o \in Owner, RunCallback(o) PROVE TypeOK'
  BY <1>4 DEF TypeOK, RunCallback, socketVars
<1>5. ASSUME NEW p \in Proc, HandleStartChannel(p) PROVE TypeOK'
  BY <1>5 DEF TypeOK, HandleStartChannel, Received, Delete, PostCallBack, Post
<1>6. CASE CheckChannels
  BY <1>6 DEF TypeOK, CheckChannels, parentVars, socketVars
<1>7. CASE ParentEnds
  BY <1>7 DEF TypeOK, ParentEnds, parentVars, socketVars
<1>8. ASSUME NEW p \in Proc, ChildNext(p) PROVE TypeOK'
  BY <1>8 DEF TypeOK, ChildNext, ChildStarts, ChildAnswers, HandleStopChannel, ChildExits,
    ChildCrashes, Exit, SendsAnswer, Live, Serving, parentVars
<1> QED
  BY <1>1, <1>2, <1>3, <1>4, <1>5, <1>6, <1>7, <1>8, NextCases

---------------------------------------------------------------------------
(* The heap *)

LEMMA FreedInit == Init => FreedOnce
BY NullAssumption DEF Init, FreedOnce

LEMMA FreedStep ==
  ASSUME TypeOK, FreedOnce, [Next]_vars
  PROVE  FreedOnce'
<1> USE NullAssumption
<1>1. CASE UNCHANGED vars
  BY <1>1 DEF FreedOnce, vars, parentVars, socketVars
<1>2. ASSUME NEW o \in Owner, StartChannel(o) PROVE FreedOnce'
  BY <1>2 DEF TypeOK, FreedOnce, StartChannel
<1>3. ASSUME NEW o \in Owner, StopChannel(o) PROVE FreedOnce'
  BY <1>3 DEF TypeOK, FreedOnce, StopChannel, Answered, Delete, PostCallBack
<1>4. ASSUME NEW o \in Owner, RunCallback(o) PROVE FreedOnce'
  BY <1>4 DEF FreedOnce, RunCallback
<1>5. ASSUME NEW p \in Proc, HandleStartChannel(p) PROVE FreedOnce'
  BY <1>5 DEF TypeOK, FreedOnce, HandleStartChannel, Answered, Delete, PostCallBack
<1>6. CASE CheckChannels
  BY <1>6 DEF FreedOnce, CheckChannels, parentVars
<1>7. CASE ParentEnds
  BY <1>7 DEF FreedOnce, ParentEnds, parentVars
<1>8. ASSUME NEW p \in Proc, ChildNext(p) PROVE FreedOnce'
  BY <1>8 DEF FreedOnce, ChildNext, ChildStarts, ChildAnswers, HandleStopChannel,
    ChildExits, ChildCrashes, parentVars
<1> QED
  BY <1>1, <1>2, <1>3, <1>4, <1>5, <1>6, <1>7, <1>8, NextCases

---------------------------------------------------------------------------
(* The children *)

LEMMA StoppableInit == Init => ChildStoppable
BY DEF Init, ChildStoppable, Serving

LEMMA StoppableStep ==
  ASSUME TypeOK, FreedOnce, ChildStoppable, [Next]_vars
  PROVE  ChildStoppable'
<1> USE NullAssumption
<1>1. CASE UNCHANGED vars
  BY <1>1 DEF ChildStoppable, vars, parentVars, socketVars
<1>2. ASSUME NEW o \in Owner, StartChannel(o) PROVE ChildStoppable'
  BY <1>2 DEF TypeOK, ChildStoppable, StartChannel
<1>3. ASSUME NEW o \in Owner, StopChannel(o) PROVE ChildStoppable'
  BY <1>3 DEF TypeOK, FreedOnce, ChildStoppable, StopChannel, SendsStop, Alive, Live
<1>4. ASSUME NEW o \in Owner, RunCallback(o) PROVE ChildStoppable'
  BY <1>4 DEF ChildStoppable, RunCallback, socketVars
<1>5. ASSUME NEW p \in Proc, HandleStartChannel(p) PROVE ChildStoppable'
  BY <1>5 DEF ChildStoppable, HandleStartChannel
<1>6. CASE CheckChannels
  BY <1>6 DEF TypeOK, ChildStoppable, CheckChannels, parentVars, socketVars, Serving
<1>7. CASE ParentEnds
  BY <1>7 DEF ChildStoppable, ParentEnds
<1>8. ASSUME NEW p \in Proc, ChildNext(p) PROVE ChildStoppable'
  <2>1. CASE ChildStarts(p)
    BY <2>1 DEF TypeOK, ChildStoppable, ChildStarts, Serving, parentVars
  <2>2. CASE ChildAnswers(p)
    BY <2>2 DEF TypeOK, ChildStoppable, ChildAnswers, Serving, parentVars
  <2>3. CASE HandleStopChannel(p)
    BY <2>3 DEF TypeOK, ChildStoppable, HandleStopChannel, StopHandled, Serving, parentVars
  <2>4. CASE ChildExits(p) \/ ChildCrashes(p)
    BY <2>4 DEF TypeOK, ChildStoppable, ChildExits, ChildCrashes, Exit, Serving, parentVars
  <2> QED
    BY <1>8, <2>1, <2>2, <2>3, <2>4 DEF ChildNext
<1> QED
  BY <1>1, <1>2, <1>3, <1>4, <1>5, <1>6, <1>7, <1>8, NextCases

LEMMA AnsweredInit == Init => AnsweredOnce
BY DEF Init, AnsweredOnce

LEMMA AnsweredStep ==
  ASSUME TypeOK, FreedOnce, AnsweredOnce, [Next]_vars
  PROVE  AnsweredOnce'
<1> USE NullAssumption
<1>1. CASE UNCHANGED vars
  BY <1>1 DEF AnsweredOnce, vars, parentVars, socketVars
<1>2. ASSUME NEW o \in Owner, StartChannel(o) PROVE AnsweredOnce'
  BY <1>2 DEF TypeOK, AnsweredOnce, StartChannel
<1>3. ASSUME NEW o \in Owner, StopChannel(o) PROVE AnsweredOnce'
  BY <1>3 DEF TypeOK, AnsweredOnce, StopChannel, Delete, PostCallBack
<1>4. ASSUME NEW o \in Owner, RunCallback(o) PROVE AnsweredOnce'
  BY <1>4 DEF AnsweredOnce, RunCallback, socketVars
<1>5. ASSUME NEW p \in Proc, HandleStartChannel(p) PROVE AnsweredOnce'
  BY <1>5 DEF TypeOK, FreedOnce, AnsweredOnce, HandleStartChannel, Received, Ended, Alive,
    Live, Serving, Delete, PostCallBack
<1>6. CASE CheckChannels
  BY <1>6 DEF TypeOK, AnsweredOnce, CheckChannels, parentVars, socketVars
<1>7. CASE ParentEnds
  BY <1>7 DEF TypeOK, AnsweredOnce, ParentEnds, parentVars, socketVars
<1>8. ASSUME NEW p \in Proc, ChildNext(p) PROVE AnsweredOnce'
  <2>1. CASE ChildStarts(p)
    BY <2>1 DEF TypeOK, AnsweredOnce, ChildStarts, SendsAnswer, parentVars
  <2>2. CASE ChildAnswers(p)
    BY <2>2 DEF TypeOK, AnsweredOnce, ChildAnswers, SendsAnswer, parentVars
  <2>3. CASE HandleStopChannel(p)
    BY <2>3 DEF TypeOK, AnsweredOnce, HandleStopChannel, StopHandled, parentVars
  <2>4. CASE ChildExits(p) \/ ChildCrashes(p)
    BY <2>4 DEF TypeOK, AnsweredOnce, ChildExits, ChildCrashes, Exit, parentVars
  <2> QED
    BY <1>8, <2>1, <2>2, <2>3, <2>4 DEF ChildNext
<1> QED
  BY <1>1, <1>2, <1>3, <1>4, <1>5, <1>6, <1>7, <1>8, NextCases

---------------------------------------------------------------------------
(* The callbacks *)

LEMMA OwedInit == Init => CallBackOwed
BY NullAssumption DEF Init, CallBackOwed, Pending

LEMMA OwedStep ==
  ASSUME TypeOK, FreedOnce, CallBackOwed, [Next]_vars
  PROVE  CallBackOwed'
<1> USE NullAssumption
<1>1. CASE UNCHANGED vars
  BY <1>1 DEF CallBackOwed, Pending, vars, parentVars, socketVars
<1>2. ASSUME NEW o \in Owner, StartChannel(o) PROVE CallBackOwed'
  BY <1>2 DEF TypeOK, FreedOnce, CallBackOwed, Pending, StartChannel
<1>3. ASSUME NEW o \in Owner, StopChannel(o) PROVE CallBackOwed'
  BY <1>3 DEF TypeOK, FreedOnce, CallBackOwed, Pending, StopChannel, Answered, Delete,
    PostCallBack, Post
<1>4. ASSUME NEW o \in Owner, RunCallback(o) PROVE CallBackOwed'
  BY <1>4 DEF TypeOK, CallBackOwed, Pending, RunCallback
<1>5. ASSUME NEW p \in Proc, HandleStartChannel(p) PROVE CallBackOwed'
  BY <1>5 DEF TypeOK, FreedOnce, CallBackOwed, Pending, HandleStartChannel, Answered,
    Delete, PostCallBack, Post
<1>6. CASE CheckChannels
  BY <1>6 DEF CallBackOwed, Pending, CheckChannels, parentVars
<1>7. CASE ParentEnds
  BY <1>7 DEF CallBackOwed, Pending, ParentEnds, parentVars
<1>8. ASSUME NEW p \in Proc, ChildNext(p) PROVE CallBackOwed'
  BY <1>8 DEF CallBackOwed, Pending, ChildNext, ChildStarts, ChildAnswers,
    HandleStopChannel, ChildExits, ChildCrashes, parentVars
<1> QED
  BY <1>1, <1>2, <1>3, <1>4, <1>5, <1>6, <1>7, <1>8, NextCases

---------------------------------------------------------------------------
(* The theorems *)

Inv == TypeOK /\ FreedOnce /\ ChildStoppable /\ AnsweredOnce /\ CallBackOwed

(* The invariants hold together in every state the parent and its children *)
(* reach.                                                                  *)
THEOREM InvHolds == Spec => []Inv
<1>1. Init => Inv
  BY TypeInit, FreedInit, StoppableInit, AnsweredInit, OwedInit DEF Inv
<1>2. Inv /\ [Next]_vars => Inv'
  BY TypeStep, FreedStep, StoppableStep, AnsweredStep, OwedStep DEF Inv
<1> QED
  BY <1>1, <1>2, PTL DEF Spec

(* No channel is freed twice, early, or never.                             *)
THEOREM ChannelsFreedOnce == Spec => []FreedOnce
<1>1. Inv => FreedOnce
  BY DEF Inv
<1> QED
  BY <1>1, InvHolds, PTL

(* A child at work can be stopped or has been told to, wherever the stop   *)
(* crossed its start and its answer.                                       *)
THEOREM ChildrenStoppable == Spec => []ChildStoppable
<1>1. Inv => ChildStoppable
  BY DEF Inv
<1> QED
  BY <1>1, InvHolds, PTL

(* A child never sends what its parent no longer reads.                    *)
THEOREM ChildrenAnswerOnce == Spec => []AnsweredOnce
<1>1. Inv => AnsweredOnce
  BY DEF Inv
<1> QED
  BY <1>1, InvHolds, PTL

---------------------------------------------------------------------------
(* The contract *)

LEMMA ContractInit == Init => Contract!Init
<1> SUFFICES ASSUME Init
             PROVE  Contract!Init
  OBVIOUS
<1>1. \A o \in Owner : Phase(o) = "none" /\ (handle[o] # NULL) = FALSE
  BY DEF Init, Phase
<1> QED
  BY <1>1, Zenon DEF Contract!Init

(* How the two variables of the contract move for one owner.               *)
Moved(o, p, q, before, after) ==
  /\ Phase(o) = p /\ Phase(o)' = q
  /\ (handle[o] # NULL) = before /\ (handle'[o] # NULL) = after

LEMMA MovedIsMoves ==
  ASSUME NEW o \in Owner, NEW p, NEW q, NEW before \in BOOLEAN, NEW after \in BOOLEAN,
         Moved(o, p, q, before, after)
  PROVE  Contract!Moves(o, p, q, before, after)
BY DEF Moved, Contract!Moves

Stayed(o) == Phase(o)' = Phase(o) /\ (handle'[o] # NULL) = (handle[o] # NULL)

LEMMA StayedIsStill ==
  ASSUME NEW o \in Owner, Stayed(o)
  PROVE  Contract!Still(o)
BY DEF Stayed, Contract!Still

(* Each step of the proxy is, for each owner, a step of the contract.      *)
LEMMA OwnerStep ==
  ASSUME Inv, [Next]_vars, NEW o \in Owner
  PROVE  \/ Stayed(o)
         \/ Moved(o, "none", "due", FALSE, TRUE)
         \/ Moved(o, "due", "posted", TRUE, TRUE)
         \/ Moved(o, "due", "posted", TRUE, FALSE)
         \/ \E p \in {"none", "posted"} : Moved(o, p, p, TRUE, FALSE)
         \/ \E b \in BOOLEAN : Moved(o, "posted", "none", b, b)
<1> USE NullAssumption DEF Inv
<1>1. CASE UNCHANGED vars
  BY <1>1 DEF Stayed, Phase, vars, parentVars, socketVars
<1>2. ASSUME NEW x \in Owner, StartChannel(x)
      PROVE  Stayed(o) \/ Moved(o, "none", "due", FALSE, TRUE)
  BY <1>2 DEF Stayed, Moved, Phase, TypeOK, CallBackOwed, StartChannel
<1>3. ASSUME NEW x \in Owner, StopChannel(x)
      PROVE  \/ Stayed(o)
             \/ Moved(o, "due", "posted", TRUE, FALSE)
             \/ \E p \in {"none", "posted"} : Moved(o, p, p, TRUE, FALSE)
  <2>1. CASE o # x
    <3>1. posted'[o] = posted[o]
      BY <1>3, <2>1 DEF TypeOK, FreedOnce, StopChannel, Answered, PostCallBack, Post
    <3>2. handle'[o] = handle[o] /\ waiting' = waiting
      BY <1>3, <2>1 DEF TypeOK, StopChannel
    <3> QED
      BY <3>1, <3>2 DEF Stayed, Phase
  <2>2. CASE o = x /\ Answered(handle[x])
    BY <1>3, <2>2 DEF Moved, Phase, TypeOK, CallBackOwed, Pending, StopChannel, Answered
  <2>3. CASE o = x /\ ~ Answered(handle[x])
    BY <1>3, <2>3 DEF Moved, Phase, TypeOK, FreedOnce, CallBackOwed, Pending, StopChannel,
      Answered, PostCallBack, Post
  <2> QED
    BY <2>1, <2>2, <2>3
<1>4. ASSUME NEW x \in Owner, RunCallback(x)
      PROVE  Stayed(o) \/ \E b \in BOOLEAN : Moved(o, "posted", "none", b, b)
  BY <1>4 DEF Stayed, Moved, Phase, TypeOK, CallBackOwed, RunCallback
<1>5. ASSUME NEW p \in Proc, HandleStartChannel(p)
      PROVE  Stayed(o) \/ Moved(o, "due", "posted", TRUE, TRUE)
  BY <1>5 DEF Stayed, Moved, Phase, TypeOK, CallBackOwed, Pending, HandleStartChannel,
    Answered, Delete, PostCallBack, Post
<1>6. CASE CheckChannels
  BY <1>6 DEF Stayed, Phase, CheckChannels, parentVars
<1>7. CASE ParentEnds
  BY <1>7 DEF Stayed, Phase, ParentEnds, parentVars
<1>8. ASSUME NEW p \in Proc, ChildNext(p) PROVE Stayed(o)
  BY <1>8 DEF Stayed, Phase, ChildNext, ChildStarts, ChildAnswers, HandleStopChannel,
    ChildExits, ChildCrashes, parentVars
<1> QED
  BY <1>1, <1>2, <1>3, <1>4, <1>5, <1>6, <1>7, <1>8, NextCases

LEMMA ContractStep ==
  ASSUME Inv, [Next]_vars
  PROVE  Contract!Next
<1>1. ASSUME NEW o \in Owner PROVE Contract!Step(o) \/ Contract!Still(o)
  BY OwnerStep, MovedIsMoves, StayedIsStill, Zenon
    DEF Contract!Step, Contract!Start, Contract!Answer, Contract!Stop, Contract!Run
<1>2. \A o \in Owner : Phase(o)' \in Contract!Phase
  BY DEF Phase, Contract!Phase
<1> QED
  BY <1>1, <1>2 DEF Contract!Next

(* The proxy keeps the contract that LiveModule keeps: for each owner, a   *)
(* start is answered once, and by its own stop at the latest, whatever the *)
(* children do and wherever they end.                                      *)
THEOREM ContractKept == Spec => KeepsContract
<1>1. Inv /\ [Next]_vars => [Contract!Next]_(Contract!vars)
  BY ContractStep
<1> QED
  BY <1>1, ContractInit, InvHolds, PTL DEF Spec, KeepsContract, Contract!Spec
=============================================================================
