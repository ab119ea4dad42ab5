------------------------------ MODULE LiveProxy ------------------------------
(***************************************************************************)
(* LiveProxy on top of LiveManager: each connection of an HTTP client is a *)
(* Proxy, which starts a channel for its request, waits for the callback,  *)
(* and stops the channel when the pipe breaks and when the request ends.   *)
(*                                                                         *)
(* HttpProxy and ServerManager are not in the repository.  What is assumed *)
(* of them: a connection has one request at a time; on_finish comes once   *)
(* for each request, after resp was called and after on_error; the Proxy   *)
(* is deleted, or reads the next request, after that.                      *)
(***************************************************************************)
EXTENDS LiveManager

VARIABLES
  conn,     (* what the connection of each call slot is doing              *)
  asked,    (* the rid of its request, or NULL                             *)
  broken,   (* connections whose on_broken_pipe was called                 *)
  listening (* ProxyManager accepts connections                            *)

proxyVars == <<conn, asked, broken, listening>>
allVars   == <<vars, proxyVars>>

NoPorts == <<0, 0>>   (* start_channel(url, call_back) passes no ports *)

ASSUME PortsAssumption == NoPorts \in Ports

(* The ServerManager accepts a client and makes a Proxy.                   *)
Accept(c) ==
  /\ listening /\ conn[c] = "closed"
  /\ conn' = [conn EXCEPT ![c] = "idle"]
  /\ UNCHANGED <<vars, asked, broken, listening>>

OnReceiveRequestHead(c) ==
  /\ listening /\ conn[c] = "idle"
  /\ conn' = [conn EXCEPT ![c] = "waiting"]
  /\ \/ StartBadUrl(c) /\ UNCHANGED asked
     \/ \E r \in Rid : /\ StartNew(c, r, NoPorts) \/ StartShared(c, r, NoPorts)
                       /\ asked' = [asked EXCEPT ![c] = r]
  /\ UNCHANGED <<broken, listening>>

(* resp(ec, true) goes on to the server of the channel, or fails.          *)
OnChannelReady(c) ==
  /\ RunCallback(c)
  /\ conn' = [conn EXCEPT ![c] = IF Head(posted[c]).ec = "ok" THEN "serving" ELSE "failed"]
  /\ UNCHANGED <<asked, broken, listening>>

(* stop_channel(channel_): the handle is passed by reference and cleared,  *)
(* so that the second of two stops does nothing.                           *)
StopNothing(c) == UNCHANGED vars                                  (* a mutant *)
StopHandle(c) == StopChannel(c) \/ (handle[c].channel = NULL /\ UNCHANGED vars)

OnBrokenPipe(c) ==
  /\ conn[c] \in {"waiting", "serving", "failed"} /\ c \notin broken
  /\ StopHandle(c)
  /\ broken' = broken \cup {c}
  /\ UNCHANGED <<conn, asked, listening>>

FinishesWaiting(c) == conn[c] \in {"waiting", "serving", "failed"} (* a mutant *)
Finishes(c) == conn[c] \in {"serving", "failed"}

(* on_finish; a connection that still works is read again.                 *)
OnFinish(c) ==
  /\ Finishes(c)
  /\ StopHandle(c)
  /\ \E next \in IF conn[c] = "failed" \/ c \in broken THEN {"closed"}
                 ELSE {"idle", "closed"} :
       conn' = [conn EXCEPT ![c] = next]
  /\ asked' = [asked EXCEPT ![c] = NULL]
  /\ broken' = broken \ {c}
  /\ UNCHANGED listening

(* The client leaves between two requests, or ProxyManager cancelled it.   *)
Leave(c) ==
  /\ conn[c] = "idle"
  /\ conn' = [conn EXCEPT ![c] = "closed"]
  /\ UNCHANGED <<vars, asked, broken, listening>>

(* ProxyManager::stop, by the daemon's end or the on_error that posts it.  *)
Stop ==
  /\ listening /\ listening' = FALSE
  /\ UNCHANGED <<vars, conn, asked, broken>>

(* What LiveManager does on its own; the daemon shuts it down after the    *)
(* LiveProxy that uses it.                                                 *)
Timer == (\E failed \in SUBSET MayFail : HandleTimer(failed)) /\ UNCHANGED proxyVars
Answered(h) == ModuleAnswers(h) /\ UNCHANGED proxyVars
Resolve(a) == HandleStartChannel(a) /\ UNCHANGED proxyVars
End == ~ listening /\ Shutdown /\ UNCHANGED proxyVars

---------------------------------------------------------------------------
ProxyInit ==
  /\ Init
  /\ conn = [c \in Call |-> "closed"]
  /\ asked = [c \in Call |-> NULL]
  /\ broken = {}
  /\ listening = TRUE

ProxyNext ==
  \/ \E c \in Call : \/ Accept(c) \/ OnReceiveRequestHead(c) \/ OnChannelReady(c)
                     \/ OnBrokenPipe(c) \/ OnFinish(c) \/ Leave(c)
  \/ \E h \in Handle : Answered(h)
  \/ \E a \in Addr : Resolve(a)
  \/ Timer \/ Stop \/ End

ProxySpec == ProxyInit /\ [][ProxyNext]_allVars

(* The event loop runs what is posted and the timer, and HttpProxy ends a  *)
(* request that failed or whose client is gone.  The SDK may be silent.    *)
LoopsFair ==
  /\ \A c \in Call : /\ WF_allVars(OnChannelReady(c))
                     /\ WF_allVars((conn[c] = "failed" \/ c \in broken) /\ OnFinish(c))
  /\ \A a \in Addr : WF_allVars(Resolve(a))
  /\ WF_allVars(Timer)

ProxyLoopSpec == ProxySpec /\ LoopsFair

---------------------------------------------------------------------------
(* Every variable holds values of its type.                                *)
ProxyTypeOK ==
  /\ TypeOK
  /\ conn \in [Call -> {"closed", "idle", "waiting", "serving", "failed"}]
  /\ asked \in [Call -> Rid \cup {NULL}]
  /\ broken \subseteq Call
  /\ listening \in BOOLEAN

(* A Proxy reads its next request, or is deleted, with nothing of the last *)
(* one left: no handle that would be overwritten and its reference leaked, *)
(* and no callback on its way to the raw pointer.  A callback comes to a   *)
(* Proxy that waits for it, and to no other.                               *)
NothingLeftOver ==
  \A c \in Call :
    /\ conn[c] \in {"closed", "idle"} => handle[c].channel = NULL /\ c \notin broken
    /\ conn[c] = "waiting" <=> want[c] # NULL

(* While a client is served, it holds a channel that plays what it asked   *)
(* for: no timer, eviction, or other client's stop ends it, unless the     *)
(* live module reports a failure.                                          *)
ServedKeepsPlaying ==
  \A c \in Call : conn[c] = "serving" /\ c \notin broken /\ running =>
    /\ handle[c].channel # NULL
    /\ chan[handle[c].channel].status = "working"
    /\ chan[handle[c].channel].rid = asked[c]

(* A client that leaves at any point of its request is forgotten by the    *)
(* event loop alone, although its Proxy must outlive the callback it waits *)
(* for, and the SDK may never answer.  Assumes ProxyLoopSpec.              *)
BrokenIsForgotten == \A c \in Call : c \in broken ~> c \notin broken

(* When nobody watches, the sessions of the SDK end: those unused, those   *)
(* whose client left before the answer, and all of them at the shutdown.   *)
(* Assumes ProxyLoopSpec.                                                  *)
SessionsDrain ==
  (\A c \in Call : conn[c] = "closed")
    ~> \/ \E c \in Call : conn[c] # "closed"
       \/ \A h \in Handle : sess[h].st = "free"

(* If the SDK answers, each request is passed on or refused.  Assumes      *)
(* ProxyLoopSpec.                                                          *)
RequestAnswered ==
  (\A h \in Handle : WF_allVars(Answered(h))) =>
    \A c \in Call : conn[c] = "waiting" ~> conn[c] # "waiting"
=============================================================================
