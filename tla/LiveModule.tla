----------------------------- MODULE LiveModule -----------------------------
(***************************************************************************)
(* LiveModule: one channel for each start accepted by the live SDK.  The   *)
(* SDK reports from a thread of its own, so a report is posted and handled *)
(* later: it can cross a stop, and a channel that was stopped stays        *)
(* allocated until its report has come in.                                 *)
(*                                                                         *)
(* The SDK is not in the repository.  What LiveModule relies on is stated  *)
(* in SdkReports: one report for each accepted start, stopped or not.      *)
(***************************************************************************)
EXTENDS Integers, Sequences, FiniteSets

CONSTANTS
  Owner,     (* the callbacks starts are made with: LiveManager's channels *)
  Rid,       (* what a url asks for                                        *)
  Cell,      (* heap cells a Channel can be allocated in, and reused       *)
  SdkHandle, (* handles the SDK gives out, and reuses                      *)
  Libraries, (* what startup may find: a subset of Library                 *)
  NULL

Library == {"loaded", "absent", "refused"}

ASSUME ConstantsAssumption ==
  /\ NULL \notin Owner /\ NULL \notin Rid /\ NULL \notin Cell /\ NULL \notin SdkHandle
  /\ Libraries \subseteq Library

VARIABLES
  lib,      (* "down", what startup found, or "cleaned"                    *)
  asserted, (* an assert(false) of LiveInterface was reached               *)
  channels, (* channels_: the allocated cells                              *)
  chan,     (* what each cell holds                                        *)
  sdk,      (* the SDK's sessions                                          *)
  hooks,    (* reports the SDK owes a cell: of which session, if it runs   *)
  inner,    (* handle_call_back_innner calls posted for each cell          *)
  posted,   (* callbacks posted to the io_service, by owner                *)
  handle,   (* the channel each owner may stop                             *)
  want      (* what an owner waits for, or NULL                            *)

vars == <<lib, asserted, channels, chan, sdk, hooks, inner, posted, handle, want>>

---------------------------------------------------------------------------
Answer  == [ec : {"ok"}, url : Rid] \cup [ec : {"failed", "aborted"}, url : {NULL}]
Channel == [handle : SdkHandle \cup {NULL}, call_back : Owner \cup {NULL}]
Session == [st : {"free", "starting", "ready"}, rid : Rid \cup {NULL}]

Blank   == [handle |-> NULL, call_back |-> NULL]
NoSession == [st |-> "free", rid |-> NULL]
Aborted == [ec |-> "aborted", url |-> NULL]

Send(mail, who, m) == [mail EXCEPT ![who] = Append(@, m)]

(* erase from channels_, and delete.                                       *)
Delete(a) ==
  /\ channels' = channels \ {a}
  /\ chan' = [chan EXCEPT ![a] = Blank]

---------------------------------------------------------------------------
(* A missing library is no error; any other failure stops the daemon.      *)
Startup ==
  /\ lib = "down"
  /\ lib' \in Libraries
  /\ UNCHANGED <<asserted, channels, chan, sdk, hooks, inner, posted, handle, want>>

(* The daemon stops the modules that use this one before it.               *)
Shutdown ==
  /\ lib \in {"loaded", "absent"}
  /\ \A o \in Owner : handle[o] = NULL
  /\ lib' = "cleaned"
  /\ asserted' = (asserted \/ lib = "absent")
  /\ UNCHANGED <<channels, chan, sdk, hooks, inner, posted, handle, want>>

(* A user starts again once its last callback has run.                     *)
CanStart(o) == lib \in {"loaded", "absent"} /\ want[o] = NULL /\ handle[o] = NULL

StartChannel(o, r) ==
  /\ CanStart(o)
  /\ lib = "loaded"
  /\ \E a \in Cell \ channels, h \in SdkHandle :
       /\ sdk[h].st = "free"
       /\ channels' = channels \cup {a}
       /\ chan' = [chan EXCEPT ![a] = [handle |-> h, call_back |-> o]]
       /\ sdk' = [sdk EXCEPT ![h] = [st |-> "starting", rid |-> r]]
       /\ hooks' = Send(hooks, a, h)
       /\ handle' = [handle EXCEPT ![o] = a]
  /\ want' = [want EXCEPT ![o] = r]
  /\ UNCHANGED <<lib, asserted, inner, posted>>

(* The SDK gives NULL, or there is no SDK: the caller gets NULL.           *)
StartRefused(o) ==
  /\ CanStart(o)
  /\ asserted' = (asserted \/ lib = "absent")
  /\ UNCHANGED <<lib, channels, chan, sdk, hooks, inner, posted, handle, want>>

AnsweredAlways(ch) == TRUE                                        (* a mutant *)
AnsweredNever(ch) == FALSE                                        (* a mutant *)
Answered(ch) == ch.call_back = NULL

SdkStoppedNot(h) == UNCHANGED <<sdk, hooks>>                      (* a mutant *)
SdkStopped(h) ==
  /\ sdk' = [sdk EXCEPT ![h] = NoSession]
  /\ hooks' = [a \in Cell |-> [k \in DOMAIN hooks[a] |->
                 IF hooks[a][k] = h THEN NULL ELSE hooks[a][k]]]

(* The channel waits for its report, with no handle and no callback.       *)
DetachAndDelete(a) == Delete(a)                                   (* a mutant *)
Detach(a) == chan' = [chan EXCEPT ![a] = Blank] /\ UNCHANGED channels

StopChannel(o) ==
  LET a == handle[o] IN
  /\ a # NULL
  /\ SdkStopped(chan[a].handle)
  /\ IF Answered(chan[a])
     THEN Delete(a) /\ UNCHANGED posted
     ELSE /\ posted' = Send(posted, chan[a].call_back, Aborted)
          /\ Detach(a)
  /\ handle' = [handle EXCEPT ![o] = NULL]
  /\ UNCHANGED <<lib, asserted, inner, want>>
(* A thread of the SDK runs call_back_hook, which posts the report; once   *)
(* for each start, and also when the channel has been stopped meanwhile.   *)
SdkReports(a) ==
  /\ lib = "loaded" /\ hooks[a] # <<>>
  /\ hooks' = [hooks EXCEPT ![a] = Tail(@)]
  /\ LET h == Head(hooks[a]) IN
     \/ /\ inner' = Send(inner, a, "ok")
        /\ sdk' = IF h = NULL THEN sdk ELSE [sdk EXCEPT ![h].st = "ready"]
     \/ /\ inner' = Send(inner, a, "failed")
        /\ UNCHANGED sdk
  /\ UNCHANGED <<lib, asserted, channels, chan, posted, handle, want>>

(* The port get_channel_status returns is that of a session that plays.    *)
UrlOf(h) == IF sdk[h].st = "ready" THEN sdk[h].rid ELSE NULL

(* handle_call_back_innner of the channel that was in cell a: the answer   *)
(* of a start, or, after a stop, the end of the channel.                   *)
HandleCallBack(a) ==
  /\ inner[a] # <<>>
  /\ inner' = [inner EXCEPT ![a] = Tail(@)]
  /\ IF Answered(chan[a])
     THEN Delete(a) /\ UNCHANGED posted
     ELSE LET ec  == Head(inner[a])
              url == IF ec = "ok" THEN UrlOf(chan[a].handle) ELSE NULL
          IN  /\ posted' = Send(posted, chan[a].call_back, [ec |-> ec, url |-> url])
              /\ chan' = [chan EXCEPT ![a].call_back = NULL]
              /\ UNCHANGED channels
  /\ UNCHANGED <<lib, asserted, sdk, hooks, handle, want>>

(* The owner's callback runs.                                              *)
RunCallback(o) ==
  /\ posted[o] # <<>>
  /\ posted' = [posted EXCEPT ![o] = Tail(@)]
  /\ want' = [want EXCEPT ![o] = NULL]
  /\ UNCHANGED <<lib, asserted, channels, chan, sdk, hooks, inner, handle>>

---------------------------------------------------------------------------
Init ==
  /\ lib = "down" /\ asserted = FALSE
  /\ channels = {}
  /\ chan = [a \in Cell |-> Blank]
  /\ sdk = [h \in SdkHandle |-> NoSession]
  /\ hooks = [a \in Cell |-> <<>>]
  /\ inner = [a \in Cell |-> <<>>]
  /\ posted = [o \in Owner |-> <<>>]
  /\ handle = [o \in Owner |-> NULL]
  /\ want = [o \in Owner |-> NULL]

Next ==
  \/ Startup \/ Shutdown
  \/ \E o \in Owner, r \in Rid : StartChannel(o, r)
  \/ \E o \in Owner : StartRefused(o) \/ StopChannel(o) \/ RunCallback(o)
  \/ \E a \in Cell : SdkReports(a) \/ HandleCallBack(a)

Spec == Init /\ [][Next]_vars

(* The event loop runs what is posted to it, and the SDK reports.          *)
FairSpec ==
  /\ Spec
  /\ \A o \in Owner : WF_vars(RunCallback(o))
  /\ \A a \in Cell : WF_vars(HandleCallBack(a)) /\ WF_vars(SdkReports(a))

---------------------------------------------------------------------------
(* Every variable holds values of the types it stands for, and a success   *)
(* comes with a url.                                                       *)
TypeOK ==
  /\ lib \in Library \cup {"down", "cleaned"}
  /\ asserted \in BOOLEAN
  /\ channels \subseteq Cell
  /\ chan \in [Cell -> Channel]
  /\ sdk \in [SdkHandle -> Session]
  /\ hooks \in [Cell -> Seq(SdkHandle \cup {NULL})]
  /\ inner \in [Cell -> Seq({"ok", "failed"})]
  /\ posted \in [Owner -> Seq(Answer)]
  /\ handle \in [Owner -> Cell \cup {NULL}]
  /\ want \in [Owner -> Rid \cup {NULL}]

(* One report, made or posted, is outstanding exactly for the channels     *)
(* that are not answered or that were stopped before they were.  So the    *)
(* pointer the SDK and the io_service hold is never that of a deleted      *)
(* channel, nor of another one allocated in its place, and no channel is   *)
(* deleted twice.                                                          *)
ReportOutstanding ==
  \A a \in Cell :
    LET running  == chan[a].handle # NULL
        expected == a \in channels /\ (running => ~ Answered(chan[a]))
    IN  Len(hooks[a]) + Len(inner[a]) = IF expected THEN 1 ELSE 0

(* Sessions of the SDK and running channels pair up, and each running      *)
(* channel is one its owner can still stop: no session is left playing.    *)
SessionsStoppable ==
  /\ \A h \in SdkHandle : sdk[h].st # "free" =>
       \E o \in Owner : handle[o] # NULL /\ chan[handle[o]].handle = h
  /\ \A o \in Owner : handle[o] # NULL =>
       /\ handle[o] \in channels /\ chan[handle[o]].handle # NULL
       /\ sdk[chan[handle[o]].handle].st # "free"
       /\ chan[handle[o]].call_back \in {o, NULL}

(* A success posted to an owner carries the url of a session that plays    *)
(* what the owner asked for, although reports cross stops and cells and    *)
(* handles are used again.                                                 *)
ServedWhatAsked ==
  \A o \in Owner : \A k \in DOMAIN posted[o] :
    posted[o][k].ec = "ok" => posted[o][k].url = want[o]

(* LiveInterface asserts that its functions are there when they are used.  *)
InterfacePresent == ~ asserted

(* A channel that was stopped is deleted in the end, unless the SDK is     *)
(* cleaned up first.  Assumes FairSpec.                                    *)
StoppedIsDeleted ==
  \A a \in Cell :
    (a \in channels /\ chan[a].handle = NULL)
      ~> (a \notin channels \/ chan[a].handle # NULL \/ lib = "cleaned")

---------------------------------------------------------------------------
Phase(o) == IF posted[o] # <<>> THEN "posted"
            ELSE IF want[o] = NULL THEN "none" ELSE "due"

Contract == INSTANCE StartContract WITH
  AtOnce <- FALSE,
  phase <- [o \in Owner |-> Phase(o)],
  open  <- [o \in Owner |-> handle[o] # NULL]

(* Each start is answered once, at the latest by its own stop, and an      *)
(* owner that is owed nothing is answered nothing.                         *)
KeepsContract == Contract!Spec
=============================================================================
