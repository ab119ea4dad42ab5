--------------------------- MODULE LiveModuleProxy ---------------------------
(***************************************************************************)
(* LiveModuleProxy, the live module of the multi-process build: a child    *)
(* process for each channel, at the other end of a pair of sockets.  The   *)
(* parent reads the answer of the start once and never reads again; the    *)
(* child waits for a stop message, or for the end of its socket.           *)
(*                                                                         *)
(* A fork copies every socket the parent has open.  The child closes its   *)
(* copy of the parent's end of its own pair, not those of the pairs before *)
(* it, so the end of a socket is only seen when the last copy is gone.     *)
(*                                                                         *)
(* A slot of Proc stands for a channel, its pair of sockets and its child. *)
(* What an answer says is left out: nothing here depends on it.            *)
(***************************************************************************)
EXTENDS Integers, FiniteSets

CONSTANTS
  Owner,  (* the callbacks starts are made with: LiveManager's channels    *)
  Proc,   (* slots for a channel and its child, used again                 *)
  NULL

ASSUME NullAssumption == NULL \notin Owner /\ NULL \notin Proc

VARIABLES
  up,        (* the parent runs                                            *)
  heap,      (* channels allocated in the parent, their sockets open       *)
  call_back, (* Channel::call_back, by slot                                *)
  reading,   (* channels whose read of the answer is pending               *)
  child,     (* what each child is doing                                   *)
  answers,   (* messages on their way from each child                      *)
  told,      (* children with a stop message in their socket               *)
  copies,    (* later children that hold a copy of the parent's end        *)
  posted,    (* callbacks posted to the io_service, by owner               *)
  handle,    (* the channel each owner may stop                            *)
  waiting    (* owners whose callback has not run                          *)

parentVars == <<heap, call_back, reading, posted, handle, waiting>>
socketVars == <<answers, told, copies>>
vars == <<up, child, parentVars, socketVars>>

(* "stopping": the start was stopped before its callback ran; "leaving":   *)
(* nothing is left to do but to exit.                                      *)
Serving == {"booting", "starting", "serving"}
Live    == Serving \cup {"stopping", "leaving"}

Alive(p) == child[p] \in Live

---------------------------------------------------------------------------
(* The parent *)

Post(o) == posted' = [posted EXCEPT ![o] = @ + 1]

(* delete channel: its destructor closes the socket.                       *)
Delete(p) == heap' = heap \ {p} /\ UNCHANGED call_back

(* The callback is swapped out and posted.                                 *)
PostCallBack(p) ==
  /\ Post(call_back[p])
  /\ call_back' = [call_back EXCEPT ![p] = NULL]
  /\ UNCHANGED heap

(* The new child has a copy of every parent's end that is open, and closes *)
(* that of its own pair.                                                   *)
ForkedOwnToo(p) ==                                               (* a mutant *)
  [q \in Proc |-> IF q \in heap \cup {p} THEN copies[q] \cup {p} ELSE copies[q]]
Forked(p) ==
  [q \in Proc |-> CASE q = p -> {} [] q \in heap -> copies[q] \cup {p} [] OTHER -> copies[q]]

StartChannel(o) ==
  /\ up /\ o \notin waiting /\ handle[o] = NULL
  /\ \E p \in Proc \ heap :
       /\ child[p] = "none"
       /\ heap' = heap \cup {p}
       /\ call_back' = [call_back EXCEPT ![p] = o]
       /\ reading' = reading \cup {p}
       /\ child' = [child EXCEPT ![p] = "booting"]
       /\ copies' = Forked(p)
       /\ answers' = [answers EXCEPT ![p] = 0]
       /\ handle' = [handle EXCEPT ![o] = p]
  /\ waiting' = waiting \cup {o}
  /\ UNCHANGED <<up, told, posted>>

(* fork fails: the channel is deleted and the caller gets NULL.            *)
StartRefused(o) ==
  /\ up /\ o \notin waiting /\ handle[o] = NULL
  /\ UNCHANGED vars

SendsIfUnanswered(p) ==                                          (* a mutant *)
  told' = IF Alive(p) /\ call_back[p] # NULL THEN told \cup {p} ELSE told
(* The parent's send; its error is ignored when the child has ended.       *)
SendsStop(p) == told' = IF Alive(p) THEN told \cup {p} ELSE told

AnsweredAlways(p) == TRUE                                        (* a mutant *)
AnsweredNever(p) == FALSE                                        (* a mutant *)
Answered(p) == call_back[p] = NULL

StopChannel(o) ==
  /\ up /\ handle[o] # NULL
  /\ SendsStop(handle[o])
  /\ IF Answered(handle[o]) THEN Delete(handle[o]) /\ UNCHANGED posted
                            ELSE PostCallBack(handle[o])
  /\ handle' = [handle EXCEPT ![o] = NULL]
  /\ UNCHANGED <<up, child, reading, answers, copies, waiting>>

(* The parent closes its copy of the child's end, and nobody else has one. *)
EndedUnseen(p) == FALSE                                          (* a mutant *)
Ended(p) == ~ Alive(p)

Received(n) == IF n > 0 THEN n - 1 ELSE n

(* handle_parent_read_some, with a message or with the end of the socket,  *)
(* and the handle_start_channel it calls.                                  *)
HandleStartChannel(p) ==
  /\ up /\ p \in reading
  /\ answers[p] > 0 \/ Ended(p)
  /\ answers' = [answers EXCEPT ![p] = Received(@)]
  /\ reading' = reading \ {p}
  /\ IF Answered(p) THEN Delete(p) /\ UNCHANGED posted ELSE PostCallBack(p)
  /\ UNCHANGED <<up, child, told, copies, handle, waiting>>

RunCallback(o) ==
  /\ up /\ posted[o] > 0
  /\ posted' = [posted EXCEPT ![o] = @ - 1]
  /\ waiting' = waiting \ {o}
  /\ UNCHANGED <<up, child, heap, call_back, reading, handle, socketVars>>

(* Every child that ended is reaped; channels_ is empty, so that none of   *)
(* them is reported as failed.                                             *)
CheckChannels ==
  /\ up /\ \E p \in Proc : child[p] = "zombie"
  /\ child' = [p \in Proc |-> IF child[p] = "zombie" THEN "none" ELSE child[p]]
  /\ UNCHANGED <<up, parentVars, socketVars>>

(* The parent exits or crashes; what it did not reap, init does.           *)
ParentEnds ==
  /\ up /\ up' = FALSE
  /\ child' = [p \in Proc |-> IF child[p] = "zombie" THEN "none" ELSE child[p]]
  /\ UNCHANGED <<parentVars, socketVars>>

---------------------------------------------------------------------------
(* A child *)

(* Its end is closed, with what it had not read, and its copies with it.   *)
Exit(p) ==
  /\ child' = [child EXCEPT ![p] = IF up THEN "zombie" ELSE "none"]
  /\ told' = told \ {p}
  /\ copies' = [q \in Proc |-> IF q = p THEN {} ELSE copies[q] \ {p}]

(* A message is lost once the parent has closed its end.                   *)
SendsAnswer(p) ==
  answers' = IF up /\ p \in heap THEN [answers EXCEPT ![p] = @ + 1] ELSE answers

(* The daemon is started, the start accepted, the stop message waited for; *)
(* or one of them failed, and the child says so and leaves.                *)
ChildStarts(p) ==
  /\ child[p] = "booting"
  /\ \/ child' = [child EXCEPT ![p] = "starting"] /\ UNCHANGED answers
     \/ child' = [child EXCEPT ![p] = "leaving"] /\ SendsAnswer(p)
  /\ UNCHANGED <<up, parentVars, told, copies>>

(* Channel::handle_start_channel, the callback of LiveModule; after a stop *)
(* it runs only if the loop gets to it before it ends.                     *)
ChildAnswersAnyTime(p) ==                                         (* a mutant *)
  /\ child[p] \in {"starting", "serving"}
  /\ child' = [child EXCEPT ![p] = "serving"]
  /\ SendsAnswer(p)
  /\ UNCHANGED <<up, parentVars, told, copies>>
ChildAnswers(p) ==
  /\ \/ child[p] = "starting" /\ child' = [child EXCEPT ![p] = "serving"]
     \/ child[p] = "stopping" /\ child' = [child EXCEPT ![p] = "leaving"]
  /\ SendsAnswer(p)
  /\ UNCHANGED <<up, parentVars, told, copies>>

(* No copy of the parent's end is open any more.                           *)
ParentGone(p) == ~ (up /\ p \in heap) /\ copies[p] = {}

StopHandledServing(p, state) == child[p] = "serving" /\ state = "leaving"   (* a mutant *)
StopHandled(p, state) ==
  \/ child[p] = "starting" /\ state = "stopping"
  \/ child[p] = "serving"  /\ state = "leaving"

(* handle_child_read_some: a stop message or the end of the socket.        *)
HandleStopChannel(p) ==
  /\ p \in told \/ ParentGone(p)
  /\ \E state \in Live : StopHandled(p, state) /\ child' = [child EXCEPT ![p] = state]
  /\ told' = told \ {p}
  /\ UNCHANGED <<up, parentVars, answers, copies>>

ChildExits(p) ==
  /\ child[p] \in {"stopping", "leaving"}
  /\ Exit(p)
  /\ UNCHANGED <<up, parentVars, answers>>

ChildCrashes(p) ==
  /\ child[p] \in Serving
  /\ Exit(p)
  /\ UNCHANGED <<up, parentVars, answers>>

---------------------------------------------------------------------------
Init ==
  /\ up = TRUE
  /\ heap = {} /\ reading = {} /\ told = {} /\ waiting = {}
  /\ call_back = [p \in Proc |-> NULL]
  /\ child = [p \in Proc |-> "none"]
  /\ answers = [p \in Proc |-> 0]
  /\ copies = [p \in Proc |-> {}]
  /\ posted = [o \in Owner |-> 0]
  /\ handle = [o \in Owner |-> NULL]

ParentNext ==
  \/ \E o \in Owner : StartChannel(o) \/ StartRefused(o) \/ StopChannel(o) \/ RunCallback(o)
  \/ \E p \in Proc : HandleStartChannel(p)
  \/ CheckChannels \/ ParentEnds

ChildNext(p) ==
  \/ ChildStarts(p) \/ ChildAnswers(p) \/ HandleStopChannel(p)
  \/ ChildExits(p) \/ ChildCrashes(p)

Next == ParentNext \/ \E p \in Proc : ChildNext(p)

Spec == Init /\ [][Next]_vars

(* The parent's event loop runs the handlers that are ready, the timer of  *)
(* LiveManager, which calls check_channels, among them.                    *)
ParentFairness ==
  /\ \A o \in Owner : WF_vars(RunCallback(o))
  /\ \A p \in Proc : WF_vars(HandleStartChannel(p))
  /\ WF_vars(CheckChannels)

(* A child starts its daemon, and its event loop runs the handler of the   *)
(* stop message and then ends.  That the SDK answers is not assumed.       *)
ChildFairness ==
  \A p \in Proc : /\ WF_vars(ChildStarts(p))
                  /\ WF_vars(HandleStopChannel(p))
                  /\ WF_vars(ChildExits(p))

ParentSpec == Spec /\ ParentFairness

---------------------------------------------------------------------------
(* Every variable holds values of its type.                                *)
TypeOK ==
  /\ up \in BOOLEAN
  /\ heap \subseteq Proc /\ reading \subseteq Proc /\ told \subseteq Proc
  /\ waiting \subseteq Owner
  /\ call_back \in [Proc -> Owner \cup {NULL}]
  /\ child \in [Proc -> Live \cup {"none", "zombie"}]
  /\ answers \in [Proc -> Nat]
  /\ copies \in [Proc -> SUBSET Proc]
  /\ posted \in [Owner -> Nat]
  /\ handle \in [Owner -> Proc \cup {NULL}]

(* The pointer that a pending read and a caller's handle hold is that of   *)
(* an allocated channel, a channel is freed by its owner's stop or by its  *)
(* read but never by both, and none is left that neither will free.        *)
FreedOnce ==
  /\ reading \subseteq heap
  /\ \A o \in Owner : handle[o] # NULL =>
       handle[o] \in heap /\ call_back[handle[o]] \in {o, NULL}
  /\ \A o1, o2 \in Owner : handle[o1] = handle[o2] /\ handle[o1] # NULL => o1 = o2
  /\ \A p \in heap :
       \/ \E o \in Owner : handle[o] = p /\ (p \in reading <=> call_back[p] = o)
       \/ p \in reading /\ call_back[p] = NULL /\ \A o \in Owner : handle[o] # p

(* No child plays on unnoticed: while the parent runs, a child at work     *)
(* belongs to a channel somebody can still stop, or has the stop message   *)
(* in its socket, wherever the stop crossed its start and its answer.      *)
ChildStoppable ==
  \A p \in Proc : up /\ child[p] \in Serving =>
    p \in told \/ \E o \in Owner : handle[o] = p

(* The parent reads one message of each child, so there must not be two,   *)
(* and none when the parent no longer reads.                               *)
AnsweredOnce ==
  \A p \in heap : answers[p] + (IF child[p] \in {"booting", "starting", "stopping"} THEN 1 ELSE 0)
                    <= IF p \in reading THEN 1 ELSE 0

(* A start whose child has ended is answered by the event loop alone, and  *)
(* so is one that was stopped, whatever the other children do.  Assumes    *)
(* ParentSpec.                                                             *)
EndIsAnswer ==
  \A o \in Owner :
    (o \in waiting /\ (handle[o] = NULL \/ ~ Alive(handle[o]))) ~> (o \notin waiting \/ ~ up)

(* A child that was told to stop ends and is reaped, also when it had not  *)
(* started, was answering, or crashes.  Assumes ParentSpec.                *)
ToldChildEnds ==
  ChildFairness => \A p \in Proc : p \in told ~> (child[p] = "none" \/ ~ up)

(* When the parent ends, all of its children do, although the later ones   *)
(* hold the sockets of the earlier ones open.  Assumes ParentSpec.         *)
OrphansEnd == ChildFairness => (~ up ~> \A p \in Proc : child[p] = "none")

---------------------------------------------------------------------------
Phase(o) == IF posted[o] > 0 THEN "posted" ELSE IF o \in waiting THEN "due" ELSE "none"

Contract == INSTANCE StartContract WITH
  AtOnce <- FALSE,
  phase <- [o \in Owner |-> Phase(o)],
  open  <- [o \in Owner |-> handle[o] # NULL]

(* The proxy keeps the contract LiveModule keeps: each start is answered   *)
(* once, at the latest by its own stop, whatever its child does.           *)
KeepsContract == Contract!Spec
=============================================================================
