---------------------------- MODULE LiveManager ----------------------------
(***************************************************************************)
(* LiveManager: channels shared between callers, counted by reference,     *)
(* kept for a while after the last release, and evicted when more than     *)
(* max_parallel of them would run.  One io_service thread executes every   *)
(* handler, so a handler is one action; the interleaving is that of the    *)
(* posted callbacks, the timer, the callers and the live module.           *)
(*                                                                         *)
(* A handler runs several helpers in a row (stop one channel, open the     *)
(* next, check_parallel), so the helpers map a World, the record of the    *)
(* variables they touch, to a World.                                       *)
(***************************************************************************)
EXTENDS Integers, Sequences, FiniteSets, Functions

CONSTANTS
  Call,        (* slots for calls of start_channel by the users            *)
  Rid,         (* non-empty channel ids found in a url                     *)
  Ports,       (* the <<tcp_port, udp_port>> pairs callers pass            *)
  Addr,        (* heap cells a Channel can be allocated in, and reused     *)
  Handle,      (* handles the live module can give out, and reuse          *)
  MaxParallel, (* values of max_parallel_, truncated to an int's width     *)
  MayFail,     (* handles check_channels may report as failed              *)
  IdleExpire,  (* timer ticks an unused channel is kept: 10                *)
  Word,        (* 2^32: width of expire and of the int counters            *)
  MaxSlots,    (* bound: callback slots a starting channel may fill        *)
  NULL

ASSUME DomainAssumption ==
  /\ "" \notin Rid /\ NULL \notin Rid /\ NULL # ""
  /\ NULL \notin Call /\ NULL \notin Addr /\ NULL \notin Handle
  /\ IsFiniteSet(Call)
  /\ Ports \subseteq Nat \X Nat
  /\ MayFail \subseteq Handle

ASSUME WidthAssumption ==
  /\ Word \in Nat \ {0} /\ IdleExpire \in 1 .. Word - 1
  /\ MaxParallel \subseteq 0 .. Word - 1 /\ MaxParallel # {}
  /\ MaxSlots \in Nat \ {0}

VARIABLES
  chan,         (* the heap: what each cell of Addr holds                  *)
  channels,     (* channels_, the vector of pointers, front first          *)
  max_parallel, (* max_parallel_                                           *)
  running,      (* get_daemon().is_started()                               *)
  sess,         (* the live module's sessions, by handle                   *)
  done,         (* handle_start_channel calls posted to each channel       *)
  posted,       (* user callbacks posted to the io_service, by call        *)
  handle,       (* the ChannelHandle each user keeps                       *)
  want          (* the rid of a call whose callback has not run, or NULL   *)

vars == <<chan, channels, max_parallel, running, sess, done, posted, handle, want>>

---------------------------------------------------------------------------
(* Data *)

Ec     == {"ok", "failed", "aborted"}
Answer == [ec : Ec, url : Rid \cup {NULL}]   (* a url stands for the rid it streams *)

Failed  == [ec |-> "failed",  url |-> NULL]
Aborted == [ec |-> "aborted", url |-> NULL]

Status == {"free", "started", "working", "cancel", "stopped"}

Channel ==
  [status : Status, rid : Rid \cup {""}, ports : Nat \X Nat, nref : Nat,
   expire : 0 .. Word - 1, handle : Handle \cup {NULL}, ec : Ec,
   url : Rid \cup {NULL}, call_backs : Seq(Call \cup {NULL})]

NoChannel ==
  [status |-> "free", rid |-> "", ports |-> <<0, 0>>, nref |-> 0, expire |-> 0,
   handle |-> NULL, ec |-> "ok", url |-> NULL, call_backs |-> <<>>]

NewChannel(r, p, h, c) ==
  [NoChannel EXCEPT !.status = "started", !.rid = r, !.ports = p, !.nref = 1,
                    !.handle = h, !.call_backs = <<c>>]

Session   == [st : {"free", "starting", "answered", "misused"},
              owner : Addr \cup {NULL}, rid : Rid \cup {NULL}]
NoSession == [st |-> "free", owner |-> NULL, rid |-> NULL]
Misused   == [st |-> "misused", owner |-> NULL, rid |-> NULL]

UserHandle == [channel : Addr \cup {NULL}, token : Nat]
NoHandle   == [channel |-> NULL, token |-> 0]

Active(ch)  == ch.status \in {"started", "working"}
Stopped(ch) == ch.status \in {"cancel", "stopped"}       (* find_channel_stopped *)
Used(ch)    == Active(ch) /\ ch.nref > 0                 (* find_channel_working *)
Idle(ch)    == Active(ch) /\ ch.nref = 0

World == [chan |-> chan, channels |-> channels, sess |-> sess,
          done |-> done, posted |-> posted]

Become(world) ==
  \E w \in {world} :
    /\ chan' = w.chan /\ channels' = w.channels
    /\ sess' = w.sess /\ done' = w.done /\ posted' = w.posted

Post(mail, who, m) ==
  [x \in DOMAIN mail |-> IF x \in who THEN Append(mail[x], m) ELSE mail[x]]

(* What is left of s once the entries in gone are erased, in order.  The   *)
(* n-th survivor is named by its rank so that proofs need no recursion.    *)
Kept(s, gone) == {i \in DOMAIN s : s[i] \notin gone}
RankIn(K, i)  == Cardinality({j \in K : j <= i})
Erase(s, gone) ==
  LET K == Kept(s, gone)
  IN  [n \in 1 .. Cardinality(K) |-> s[CHOOSE i \in K : RankIn(K, i) = n]]

---------------------------------------------------------------------------
(* The live module, as LiveManager sees it *)

(* The handle of the channel in cell a is open, and was given to it.       *)
MayStop(w, a) == w.chan[a].handle \in Handle /\ w.sess[w.chan[a].handle].owner = a

(* live_module_.stop_channel for each channel of A, on the handle it kept: *)
(* a start that is not answered yet is answered with operation_aborted.    *)
(* One call on NULL, on a handle already stopped or on one that another    *)
(* channel was given since, and the live module may do anything.           *)
CloseSessions(w, A) ==
  LET H    == {w.chan[a].handle : a \in A}
      owed == {a \in A : w.sess[w.chan[a].handle].st = "starting"}
  IN  IF \A a \in A : MayStop(w, a)
      THEN [w EXCEPT !.sess = [h \in Handle |-> IF h \in H THEN NoSession ELSE w.sess[h]],
                     !.done = Post(w.done, owed, Aborted)]
      ELSE [w EXCEPT !.sess = [h \in Handle |-> Misused]]

(* The SDK reports the outcome of a start.                                 *)
ModuleAnswers(h) ==
  /\ sess[h].st = "starting"
  /\ sess' = [sess EXCEPT ![h].st = "answered"]
  /\ \E m \in {Failed, [ec |-> "ok", url |-> sess[h].rid]} :
        done' = Post(done, {sess[h].owner}, m)
  /\ UNCHANGED <<chan, channels, max_parallel, running, posted, handle, want>>

---------------------------------------------------------------------------
(* Helpers of LiveManager *)

RespondedKeepsSlots(w, a, m) ==                                  (* a mutant *)
  [w EXCEPT !.chan[a].ec = m.ec, !.chan[a].url = m.url,
            !.posted = Post(@, Range(w.chan[a].call_backs), m)]

(* response_channel: every waiting callback is posted with m.              *)
Responded(w, a, m) ==
  [w EXCEPT !.chan[a].ec = m.ec, !.chan[a].url = m.url, !.chan[a].call_backs = <<>>,
            !.posted = Post(@, Range(w.chan[a].call_backs), m)]

(* The private stop_channel closes what runs, and deletes what nobody uses *)
(* once its callback has run.                                              *)
ClosedKeepsRid(ch, st) == [ch EXCEPT !.status = st, !.handle = NULL]   (* a mutant *)
Closed(ch, st) == [ch EXCEPT !.status = st, !.handle = NULL, !.rid = ""]

DeletableEarly(ch) == ch.nref = 0                                (* a mutant *)
Deletable(ch) == ch.status \in {"working", "stopped"} /\ ch.nref = 0

StopOne(ch) ==
  CASE Deletable(ch) -> NoChannel
    [] ch.status = "started" ->
         [Closed(ch, "cancel") EXCEPT !.ec = "aborted", !.url = NULL, !.call_backs = <<>>]
    [] ch.status = "working" /\ ch.nref > 0 -> Closed(ch, "stopped")
    [] OTHER -> ch

Waiting(w, S) ==
  UNION {Range(w.chan[a].call_backs) : a \in {b \in S : w.chan[b].status = "started"}}

RunningAny(w, S) == S                                             (* a mutant *)
RunningWorking(w, S) == {a \in S : w.chan[a].status = "working"}  (* a mutant *)
Running(w, S) == {a \in S : Active(w.chan[a])}

(* The private stop_channel on every channel of S, and the removal of the  *)
(* NULLs it leaves in channels_, which follows every such loop.            *)
StopAll(w, S) ==
  [CloseSessions(w, Running(w, S)) EXCEPT
     !.chan     = [a \in Addr |-> IF a \in S THEN StopOne(w.chan[a]) ELSE w.chan[a]],
     !.channels = Erase(w.channels, {a \in S : Deletable(w.chan[a])}),
     !.posted   = Post(w.posted, Waiting(w, S), Aborted)]

MaxInt   == (Word - 1) \div 2
ToInt(x) == IF x <= MaxInt THEN x ELSE x - Word

(* limit - users is computed as a size_t: it never tests below zero, it    *)
(* wraps, and the assignment to an int makes it negative again.            *)
LeftSizeOfAll(limit, users) == ToInt(limit)                       (* a mutant *)
LeftSizeShort(limit, users) == ToInt((limit - users - 1) % Word)  (* a mutant *)
LeftSize(limit, users) == ToInt((limit - users) % Word)

Users(w) == {i \in DOMAIN w.channels : Used(w.chan[w.channels[i]])}

(* iFindCount when the loop of check_parallel has passed position i.       *)
IdleUpTo(w, i) == Cardinality({j \in 1 .. i : Idle(w.chan[w.channels[j]])})

(* check_parallel: the deepest unused channels over the limit are stopped, *)
(* with every unused one that is already stopped.                          *)
CheckParallel(w, limit) ==
  LET left  == LeftSize(limit, Cardinality(Users(w)))
      evict == {i \in DOMAIN w.channels :
                  /\ w.chan[w.channels[i]].nref = 0
                  /\ \/ Stopped(w.chan[w.channels[i]])
                     \/ IdleUpTo(w, i) > left}
  IN  StopAll(w, {w.channels[i] : i \in evict})

---------------------------------------------------------------------------
(* Calls of the users *)

Matching(w, r) == {a \in Range(w.channels) : w.chan[a].rid = r}

Restarts(ch, p) == p[1] # 0 /\ p[2] # 0 /\ p # ch.ports

CanCall(c) == want[c] = NULL /\ handle[c].channel = NULL

(* A url with no channel id in it.                                         *)
StartBadUrl(c) ==
  /\ CanCall(c)
  /\ want' = [want EXCEPT ![c] = ""]
  /\ posted' = Post(posted, {c}, Failed)
  /\ UNCHANGED <<chan, channels, max_parallel, running, sess, done, handle>>

(* The world once a channel of rid r that runs on other ports is stopped.  *)
Cleared(r) ==
  LET old == Matching(World, r)
  IN  StopAll([World EXCEPT !.chan = [a \in Addr |->
                 IF a \in old THEN [chan[a] EXCEPT !.expire = 0] ELSE chan[a]]], old)

(* Cell a is allocated and live_module_.start_channel gives handle h.      *)
Opened(w, c, r, p, a, h) ==
  [w EXCEPT !.chan[a]  = NewChannel(r, p, h, c),
            !.channels = Append(@, a),
            !.sess[h]  = [st |-> "starting", owner |-> a, rid |-> r]]

StartNew(c, r, p) ==
  /\ CanCall(c)
  /\ \A a \in Matching(World, r) : Restarts(chan[a], p)
  /\ want' = [want EXCEPT ![c] = r]
  /\ LET w == Cleared(r) IN
     \/ \E a \in Addr, h \in Handle :
          /\ w.chan[a].status = "free" /\ w.sess[h].st = "free"
          /\ Become(CheckParallel(Opened(w, c, r, p, a, h), max_parallel))
          /\ handle' = [handle EXCEPT ![c] = [channel |-> a, token |-> 1]]
     \/ /\ Become([w EXCEPT !.posted = Post(@, {c}, Failed)])   (* it gave NULL *)
        /\ UNCHANGED handle
  /\ UNCHANGED <<max_parallel, running>>

RefOnce(ch) == [ch EXCEPT !.expire = 0, !.nref = 1]               (* a mutant *)
Ref(ch) == [ch EXCEPT !.expire = 0, !.nref = @ + 1]

(* The answer that is already there is posted; else the callback waits.    *)
Attached(c, a) ==
  LET w == [World EXCEPT !.chan[a] = Ref(@)]
  IN  IF chan[a].status = "working"
      THEN [w EXCEPT !.posted = Post(@, {c}, [ec |-> chan[a].ec, url |-> chan[a].url])]
      ELSE [w EXCEPT !.chan[a].call_backs = Append(@, c)]

StartShared(c, r, p) ==
  /\ CanCall(c)
  /\ want' = [want EXCEPT ![c] = r]
  /\ \E a \in Matching(World, r) :
       /\ ~ Restarts(chan[a], p)
       /\ Len(chan[a].call_backs) < MaxSlots
       /\ Become(CheckParallel(Attached(c, a), max_parallel))
       /\ handle' = [handle EXCEPT ![c] =
            [channel |-> a,
             token   |-> IF chan[a].status = "working" THEN 0
                         ELSE Len(chan[a].call_backs) + 1]]
  /\ UNCHANGED <<max_parallel, running>>

(* stop_channel of a user's handle: its callback is swapped out of its     *)
(* slot and posted, the reference dropped, and a channel nobody uses moved *)
(* to the front.                                                           *)
HasSlotBelow(a, t) == t # 0 /\ t < Len(chan[a].call_backs)        (* a mutant *)
HasSlot(a, t) == t # 0 /\ t < Len(chan[a].call_backs) + 1

Swapped(w, a, t) ==
  [w EXCEPT !.chan[a].call_backs[t] = NULL,
            !.posted = Post(@, {w.chan[a].call_backs[t]}, Aborted)]

ToFrontTwice(w, a) ==                                             (* a mutant *)
  [w EXCEPT !.chan[a].expire = IdleExpire, !.channels = <<a>> \o @]
ToBack(w, a) == [w EXCEPT !.chan[a].expire = IdleExpire]          (* a mutant *)
ToFront(w, a) ==
  [w EXCEPT !.chan[a].expire = IdleExpire, !.channels = <<a>> \o Erase(@, {a})]

Released(c) ==
  LET a == handle[c].channel
      t == handle[c].token
      w == [(IF HasSlot(a, t) THEN Swapped(World, a, t) ELSE World)
              EXCEPT !.chan[a].nref = @ - 1]
  IN  IF Idle(w.chan[a]) THEN ToFront(w, a) ELSE w

StopChannel(c) ==
  /\ handle[c].channel # NULL
  /\ Become(CheckParallel(Released(c), max_parallel))
  /\ handle' = [handle EXCEPT ![c] = NoHandle]
  /\ UNCHANGED <<max_parallel, running, want>>

SetMaxParallel(m) ==
  /\ m # max_parallel
  /\ max_parallel' = m
  /\ Become(CheckParallel(World, m))
  /\ UNCHANGED <<running, handle, want>>

---------------------------------------------------------------------------
(* Handlers run by the io_service *)

(* handle_start_channel of the channel that was in cell a.                 *)
ResolvedLeft(w, a) == [w EXCEPT !.chan[a].status = "stopped"]     (* a mutant *)
ResolvedNever(w, a) == w                                          (* a mutant *)
Resolved(w, a) == StopAll([w EXCEPT !.chan[a].status = "stopped"], {a})

Started(a, m) ==
  LET w == [World EXCEPT !.done[a] = Tail(@)]
  IN  CASE a \notin Range(channels) -> w           (* already deleted *)
        [] a \in Range(channels) /\ chan[a].status = "cancel" -> Resolved(w, a)
        [] OTHER -> Responded([w EXCEPT !.chan[a].status = "working"], a, m)

HandleStartChannel(a) ==
  /\ done[a] # <<>>
  /\ Become(Started(a, Head(done[a])))
  /\ UNCHANGED <<max_parallel, running, handle, want>>

(* check_channels is matched against the channels before the first stopped *)
(* one only, which are partitioned: those that did not fail, then those    *)
(* that did and will be stopped.                                           *)
WorkingEnd ==
  Cardinality({i \in DOMAIN channels : \A j \in 1 .. i : Active(chan[channels[j]])})

Partitioned(front, bad) ==
  [World EXCEPT !.channels = Erase(front, bad) \o Erase(front, Range(front) \ bad)
                               \o SubSeq(channels, WorkingEnd + 1, Len(channels))]

(* --expire on every unused channel, in 32 bits; those at zero are stopped. *)
UnusedAll(w) == Range(w.channels)                                 (* a mutant *)
UnusedWorking(w) ==                                               (* a mutant *)
  {a \in Range(w.channels) : w.chan[a].nref = 0 /\ w.chan[a].status = "working"}
Unused(w) == {a \in Range(w.channels) : w.chan[a].nref = 0}

TickedSigned(ch) == [ch EXCEPT !.expire = @ - 1]                  (* a mutant *)
Ticked(ch) == [ch EXCEPT !.expire = (@ + Word - 1) % Word]

Aged(w) ==
  [w EXCEPT !.chan = [a \in Addr |->
     IF a \in Unused(w) THEN Ticked(w.chan[a]) ELSE w.chan[a]]]

Expired(w) == StopAll(w, {a \in Unused(w) : w.chan[a].expire = 0})

HandleTimer(failed) ==
  /\ running
  /\ failed \subseteq {h \in MayFail : sess[h].st # "free"}
  /\ \E front \in {SubSeq(channels, 1, WorkingEnd)} :
     \E bad \in {{a \in Range(front) : chan[a].handle \in failed}} :
     \E w \in {StopAll(Partitioned(front, bad), bad)} :
     \E aged \in {Aged(w)} : Become(Expired(aged))
  /\ UNCHANGED <<max_parallel, running, handle, want>>

Shutdown ==
  /\ running
  /\ running' = FALSE
  /\ Become(StopAll(World, Range(channels)))
  /\ UNCHANGED <<max_parallel, handle, want>>

(* A user's callback runs.                                                 *)
RunCallback(c) ==
  /\ posted[c] # <<>>
  /\ posted' = [posted EXCEPT ![c] = Tail(@)]
  /\ want' = [want EXCEPT ![c] = NULL]
  /\ UNCHANGED <<chan, channels, max_parallel, running, sess, done, handle>>

---------------------------------------------------------------------------
Init ==
  /\ chan = [a \in Addr |-> NoChannel]
  /\ channels = <<>>
  /\ max_parallel \in MaxParallel
  /\ running = TRUE
  /\ sess = [h \in Handle |-> NoSession]
  /\ done = [a \in Addr |-> <<>>]
  /\ posted = [c \in Call |-> <<>>]
  /\ handle = [c \in Call |-> NoHandle]
  /\ want = [c \in Call |-> NULL]

Next ==
  \/ \E c \in Call : StartBadUrl(c) \/ StopChannel(c) \/ RunCallback(c)
  \/ \E c \in Call, r \in Rid, p \in Ports : StartNew(c, r, p) \/ StartShared(c, r, p)
  \/ \E a \in Addr : HandleStartChannel(a)
  \/ \E h \in Handle : ModuleAnswers(h)
  \/ \E m \in MaxParallel : SetMaxParallel(m)
  \/ \E failed \in SUBSET MayFail : HandleTimer(failed)
  \/ Shutdown

Spec == Init /\ [][Next]_vars

(* The event loop runs every handler posted to it.                         *)
LoopFairness ==
  /\ \A c \in Call : WF_vars(RunCallback(c))
  /\ \A a \in Addr : WF_vars(HandleStartChannel(a))

(* The timer that startup arms, and handle_timer arms again, fires.        *)
TimerFairness == WF_vars(\E failed \in SUBSET MayFail : HandleTimer(failed))

(* The live module answers a start it accepted.                            *)
ModuleFairness == \A h \in Handle : WF_vars(ModuleAnswers(h))

LoopSpec == Spec /\ LoopFairness

---------------------------------------------------------------------------
(* Safety *)

(* Every variable holds values of the C++ types it stands for; nref in     *)
(* particular never drops below zero.                                      *)
TypeOK ==
  /\ chan \in [Addr -> Channel]
  /\ channels \in Seq(Addr)
  /\ max_parallel \in MaxParallel
  /\ running \in BOOLEAN
  /\ sess \in [Handle -> Session]
  /\ done \in [Addr -> Seq(Answer)]
  /\ posted \in [Call -> Seq(Answer)]
  /\ handle \in [Call -> UserHandle]
  /\ want \in [Call -> Rid \cup {"", NULL}]

(* channels_ lists every allocated channel once and nothing deleted: no    *)
(* handler reaches freed memory through it and none leaks out of it.       *)
VectorIsHeap ==
  /\ \A i, j \in DOMAIN channels : channels[i] = channels[j] => i = j
  /\ Range(channels) = {a \in Addr : chan[a].status # "free"}

Holders(a) == {c \in Call : handle[c].channel = a}

(* nref counts exactly the handles the users still hold, so a handle never *)
(* points to a deleted channel and the assert in stop_channel never fires. *)
RefCountExact == \A a \in Addr : chan[a].nref = Cardinality(Holders(a))

(* A channel whose callback has run and that has no user is gone: stopped  *)
(* channels do not pile up behind check_parallel and handle_start_channel. *)
StoppedHasUser == \A a \in Addr : chan[a].status = "stopped" => chan[a].nref > 0

(* The session a channel holds is open and is its own, and exactly one     *)
(* callback of the live module is outstanding while the channel needs one  *)
(* (started, cancel), none otherwise.  This is what makes the lookup by    *)
(* address in handle_start_channel safe when cells are reused.             *)
CallbackDue ==
  \A a \in Addr :
    LET ch == chan[a] IN
    /\ Active(ch) => /\ ch.handle # NULL
                     /\ sess[ch.handle].owner = a
                     /\ sess[ch.handle].rid = ch.rid
    /\ ch.status = "started" =>
         \/ sess[ch.handle].st = "starting" /\ done[a] = <<>>
         \/ sess[ch.handle].st = "answered" /\ Len(done[a]) = 1
    /\ ch.status = "working" => sess[ch.handle].st = "answered" /\ done[a] = <<>>
    /\ ch.status = "cancel" => ch.handle = NULL /\ Len(done[a]) = 1
    /\ ch.status \in {"stopped", "free"} => ch.handle = NULL /\ done[a] = <<>>

(* No session of the live module is left open without a channel that will  *)
(* stop it.                                                                *)
SessionsOwned ==
  \A h \in Handle : sess[h].st # "free" =>
     sess[h].owner \in Addr /\ chan[sess[h].owner].handle = h

(* A call is owed its callback in exactly one place: the slot of the       *)
(* channel its token names, or the queue of the io_service.  A token that  *)
(* still names a slot names the caller's own, so that stop_channel never   *)
(* takes the callback of somebody else, nor an empty one.                  *)
CallbackOnce ==
  /\ \A c \in Call :
       LET a     == handle[c].channel
           slots == IF a = NULL THEN <<>> ELSE chan[a].call_backs
           inSlot == handle[c].token \in DOMAIN slots
       IN  /\ inSlot => slots[handle[c].token] = c
           /\ IF want[c] = NULL THEN posted[c] = <<>> /\ ~ inSlot
              ELSE \/ Len(posted[c]) = 1 /\ ~ inSlot
                   \/ posted[c] = <<>> /\ inSlot
  /\ \A a \in Addr : \A k \in DOMAIN chan[a].call_backs :
       chan[a].call_backs[k] # NULL =>
         handle[chan[a].call_backs[k]] = [channel |-> a, token |-> k]

(* Two channels never run the same rid, whatever was restarted on other    *)
(* ports or cancelled before.                                              *)
OneChannelPerRid ==
  \A a, b \in Range(channels) :
     chan[a].rid = chan[b].rid /\ chan[a].rid # "" => a = b

(* A success handed to a caller carries the url of the rid it asked for.   *)
ServedWhatAsked ==
  \A c \in Call : \A k \in DOMAIN posted[c] :
     posted[c][k].ec = "ok" => posted[c][k].url = want[c]

IdleAt == {i \in DOMAIN channels : Idle(chan[channels[i]])}

(* Between two handlers, unused channels are kept only within the room     *)
(* that the used ones leave under max_parallel.                            *)
CacheWithinLimit ==
  IdleAt # {} => Cardinality(IdleAt) + Cardinality(Users(World)) <= max_parallel

(* An unused channel has at most IdleExpire ticks to live, its countdown   *)
(* never wraps, and the vector keeps the last released ones in front, so   *)
(* that check_parallel evicts what was released first.                     *)
IdleInReleaseOrder ==
  /\ \A i \in IdleAt : chan[channels[i]].expire \in 1 .. IdleExpire
  /\ \A i, j \in IdleAt : i < j => chan[channels[i]].expire >= chan[channels[j]].expire

---------------------------------------------------------------------------
(* What a step may never do *)

(* The timer may have found a's channel failed: no caller did anything.    *)
Reported(a) ==
  chan[a].handle \in MayFail /\ UNCHANGED <<max_parallel, handle, want>>

(* A channel somebody keeps using is stopped only by a start on other      *)
(* ports, a reported failure or the shutdown: neither the release of       *)
(* another user, nor max_parallel, nor the expiry of others ends it.       *)
UsersKeepChannel ==
  [][\A a \in Addr :
       Used(chan[a]) /\ ~ Used(chan'[a]) /\ chan'[a].nref > 0 =>
         \/ running /\ ~ running'
         \/ \E c \in Call : /\ want[c] = NULL /\ want'[c] = chan[a].rid
                            /\ handle'[c].channel # a
         \/ Reported(a)]_vars

(* Only a full cache is cut: when a step takes away an unused channel that *)
(* was not due to expire, what is left fills max_parallel, if that number  *)
(* fits an int (a config of -1 turns the whole cache off).                 *)
EvictedOnlyWhenFull ==
  [][\A a \in Addr :
       Idle(chan[a]) /\ ~ Active(chan'[a]) /\ max_parallel' <= MaxInt =>
         \/ chan[a].expire = 1
         \/ running /\ ~ running'
         \/ \E c \in Call : want[c] = NULL /\ want'[c] = chan[a].rid
         \/ Reported(a)
         \/ Cardinality(IdleAt') + Cardinality(Users(World)') >= max_parallel']_vars

---------------------------------------------------------------------------
(* The contract of StartContract, on both sides of LiveManager *)

UserPhase(c) == IF posted[c] # <<>> THEN "posted"
                ELSE IF want[c] = NULL THEN "none" ELSE "due"

UserSide == INSTANCE StartContract WITH
  Owner <- Call,  AtOnce <- TRUE,
  phase <- [c \in Call |-> UserPhase(c)],
  open  <- [c \in Call |-> handle[c].channel # NULL]

(* A misused live module is in no phase of the contract.                   *)
ModulePhase(a) ==
  CASE \E h \in Handle : sess[h].st = "misused" -> "misused"
    [] OTHER ->
         IF done[a] # <<>> THEN "posted"
         ELSE IF \E h \in Handle : sess[h].st = "starting" /\ sess[h].owner = a
              THEN "due" ELSE "none"

ModuleSide == INSTANCE StartContract WITH
  Owner <- Addr,  AtOnce <- FALSE,
  phase <- [a \in Addr |-> ModulePhase(a)],
  open  <- [a \in Addr |-> \E h \in Handle : sess[h].st # "free" /\ sess[h].owner = a]

(* LiveManager offers its users the contract: each start is answered once, *)
(* and at the latest by its own stop.                                      *)
KeepsContract == UserSide!Spec

(* LiveManager keeps to the contract with the live module: the handle it   *)
(* stops is open and the channel's own, so that no handle is stopped twice *)
(* nor after it was given out again, and it starts in no cell whose last   *)
(* callback is outstanding.                                                *)
UsesContract == ModuleSide!Spec

---------------------------------------------------------------------------
(* Liveness.  Every property assumes LoopSpec and states what it assumes   *)
(* besides.                                                                *)

(* If the live module answers its starts, every call's callback runs, with *)
(* no help from the timer.                                                 *)
EveryCallAnswered ==
  ModuleFairness => \A c \in Call : want[c] # NULL ~> want[c] = NULL

(* Whatever the live module does, a call given up by its caller is         *)
(* answered by the event loop alone.                                       *)
StoppedCallAnswered ==
  \A c \in Call : (want[c] # NULL /\ handle[c].channel = NULL) ~> want[c] = NULL

(* A cancelled channel leaves that state, whatever the live module does:   *)
(* the last callback it waits for was posted when it was cancelled.        *)
CancelResolved == \A a \in Addr : chan[a].status = "cancel" ~> chan[a].status # "cancel"

(* While the daemon runs and its timer fires, an unused channel finds a    *)
(* user or is stopped, whatever the live module does.                      *)
IdleReclaimed ==
  TimerFairness =>
    \A a \in Addr : (running /\ Idle(chan[a])) ~> (~ running \/ ~ Idle(chan[a]))
=============================================================================
