--------------------------- MODULE StartContract ---------------------------
(***************************************************************************)
(* What an asynchronous start_channel / stop_channel pair promises to the  *)
(* one who calls it.  The same interface appears twice in live_worker:     *)
(* LiveModule (or LiveModuleProxy) offers it to LiveManager, and           *)
(* LiveManager offers it to its own users, the HTTP proxies and            *)
(* SSNManageModule.  An owner is one bound call_back_func.                 *)
(***************************************************************************)
CONSTANTS
  Owner,
  AtOnce  (* TRUE if a start may be answered within the call that makes it *)

VARIABLES
  phase,  (* "none": no answer is owed; "due": a start is not answered     *)
          (* yet; "posted": the callback is queued on the io_service.      *)
  open    (* TRUE while the owner holds a handle it may still stop.        *)

vars == <<phase, open>>

Phase == {"none", "due", "posted"}

TypeOK ==
  /\ phase \in [Owner -> Phase]
  /\ open  \in [Owner -> BOOLEAN]

Init ==
  /\ phase = [o \in Owner |-> "none"]
  /\ open  = [o \in Owner |-> FALSE]

Moves(o, p, q, before, after) ==
  /\ phase[o] = p    /\ phase'[o] = q
  /\ open[o] = before /\ open'[o] = after

(* A start is accepted and answered later.  One side only, LiveManager     *)
(* towards its users, also answers at once: from what is already running,  *)
(* or with a failure and no handle.  A live module never does: what it     *)
(* posts to an owner that is owed nothing is a second answer.              *)
Start(o) ==
  \/ Moves(o, "none", "due", FALSE, TRUE)
  \/ AtOnce /\ \E b \in BOOLEAN : Moves(o, "none", "posted", FALSE, b)

Answer(o) == Moves(o, "due", "posted", TRUE, TRUE)

(* Stopping closes the handle and leaves no answer due: an unanswered      *)
(* start is answered by the stop itself.                                   *)
Stop(o) ==
  \/ Moves(o, "due", "posted", TRUE, FALSE)
  \/ \E p \in {"none", "posted"} : Moves(o, p, p, TRUE, FALSE)

(* The handle is stopped and the same owner starts again within one        *)
(* handler, its previous callback having run.                              *)
StopThenStart(o) == Moves(o, "none", "due", TRUE, TRUE)

Run(o) == \E b \in BOOLEAN : Moves(o, "posted", "none", b, b)

Still(o) == phase'[o] = phase[o] /\ open'[o] = open[o]

Step(o) == Start(o) \/ Answer(o) \/ Stop(o) \/ StopThenStart(o) \/ Run(o)

(* One handler of the event loop may serve several owners.                 *)
Next ==
  /\ phase' \in [Owner -> Phase]
  /\ open'  \in [Owner -> BOOLEAN]
  /\ \A o \in Owner : Step(o) \/ Still(o)

Spec == Init /\ [][Next]_vars
=============================================================================
