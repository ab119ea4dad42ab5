---------------------- MODULE LiveManagerSessionProofs ----------------------
(***************************************************************************)
(* Proofs about LiveManager as a user of the live module: which session    *)
(* and which callback every channel is owed, and that LiveManager keeps    *)
(* StartContract towards the live module.                                  *)
(*                                                                         *)
(* The lemmas speak of a heap ch, the sessions ss of the live module and   *)
(* the callbacks dn it posted, so that they apply to what one helper hands *)
(* to the next as well as to the variables.                                *)
(***************************************************************************)
EXTENDS LiveManagerCallbackProofs

(* What the live module owes to the channel x of cell a, q being the       *)
(* callbacks it posted to it.                                              *)
Due(x, a, ss, q) ==
  /\ Active(x) => /\ x.handle # NULL
                  /\ ss[x.handle].owner = a
                  /\ ss[x.handle].rid = x.rid
  /\ x.status = "started" =>
       \/ ss[x.handle].st = "starting" /\ q = <<>>
       \/ ss[x.handle].st = "answered" /\ Len(q) = 1
  /\ x.status = "working" => ss[x.handle].st = "answered" /\ q = <<>>
  /\ x.status = "cancel" => x.handle = NULL /\ Len(q) = 1
  /\ x.status \in {"stopped", "free"} => x.handle = NULL /\ q = <<>>

Owned(ch, ss) ==
  \A h \in Handle : ss[h].st # "free" =>
    ss[h].owner \in Addr /\ ch[ss[h].owner].handle = h

SessOK(ch, ss, dn) ==
  /\ \A a \in Addr : Due(ch[a], a, ss, dn[a])
  /\ Owned(ch, ss)

(* A channel as the live module sees it: what its owner is owed, and       *)
(* whether it holds a handle.                                              *)
PhaseOf(x, q) ==
  IF q # <<>> THEN "posted" ELSE IF x.status = "started" THEN "due" ELSE "none"

(* Nothing happens to the channel x, which becomes y, or it is stopped.    *)
Shuts(x, q, y, r) ==
  \/ PhaseOf(y, r) = PhaseOf(x, q) /\ (Active(y) <=> Active(x))
  \/ /\ Active(x) /\ ~ Active(y)
     /\ PhaseOf(y, r) = IF PhaseOf(x, q) = "none" THEN "none" ELSE "posted"

ShutsAll(w, v) == \A a \in Addr : Shuts(w.chan[a], w.done[a], v.chan[a], v.done[a])

SideOK(w) == SessOK(w.chan, w.sess, w.done)

LEMMA ShutsTransitive ==
  ASSUME NEW w, NEW v, NEW z, ShutsAll(w, v), ShutsAll(v, z)
  PROVE  ShutsAll(w, z)
BY DEF ShutsAll, Shuts

---------------------------------------------------------------------------
(* Stopping channels *)

LEMMA StopOneSide ==
  ASSUME NEW x \in Channel
  PROVE  /\ x.status = "started" => StopOne(x).status = "cancel" /\ StopOne(x).handle = NULL
         /\ x.status = "working" =>
              StopOne(x).status \in {"stopped", "free"} /\ StopOne(x).handle = NULL
         /\ x.status = "stopped" =>
              \/ StopOne(x) = x
              \/ StopOne(x).status = "free" /\ StopOne(x).handle = NULL
         /\ x.status \in {"cancel", "free"} => StopOne(x) = x
<1>1. NoChannel.status = "free" /\ NoChannel.handle = NULL
  BY DEF NoChannel
<1>2. Closed(x, "stopped").status = "stopped" /\ Closed(x, "stopped").handle = NULL
  BY DEF Closed, Channel
<1>3. ASSUME x.status = "started"
      PROVE  StopOne(x).status = "cancel" /\ StopOne(x).handle = NULL
  <2>1. StopOne(x) =
          [Closed(x, "cancel") EXCEPT !.ec = "aborted", !.url = NULL, !.call_backs = <<>>]
    BY <1>3 DEF StopOne, Deletable
  <2> QED
    BY <2>1 DEF Closed, Channel
<1> QED
  BY <1>1, <1>2, <1>3, StopOneForms DEF Deletable

(* One channel that is stopped: a start that is not answered yet is        *)
(* answered with operation_aborted.                                        *)
LEMMA StoppedCell ==
  ASSUME NEW x \in Channel, NEW a, NEW ss, NEW q \in Seq(Answer), Due(x, a, ss, q), NEW ss2,
         NEW q2, q2 = IF x.status = "started" /\ ss[x.handle].st = "starting"
                      THEN Append(q, Aborted) ELSE q
  PROVE  Due(StopOne(x), a, ss2, q2) /\ Shuts(x, q, StopOne(x), q2)
<1> DEFINE y == StopOne(x)
<1>1. x.status \in {"free", "started", "working", "cancel", "stopped"}
  BY DEF Channel, Status
<1>2. CASE x.status = "started"
  <2>1. y.status = "cancel" /\ y.handle = NULL
    BY <1>2, StopOneSide
  <2>2. Len(q2) = 1
    BY <1>2, OneAppended DEF Due
  <2>3. q2 # <<>>
    BY <2>2
  <2> HIDE DEF y
  <2> QED
    BY <1>2, <2>1, <2>2, <2>3 DEF Due, Shuts, PhaseOf, Active, y
<1>3. CASE x.status = "working"
  <2>1. y.status \in {"stopped", "free"} /\ y.handle = NULL
    BY <1>3, StopOneSide
  <2>2. q2 = <<>> /\ q = <<>>
    BY <1>3 DEF Due
  <2> HIDE DEF y
  <2> QED
    BY <1>3, <2>1, <2>2 DEF Due, Shuts, PhaseOf, Active, y
<1>4. CASE x.status = "stopped"
  <2>1. y = x \/ (y.status = "free" /\ y.handle = NULL)
    BY <1>4, StopOneSide
  <2>2. q2 = <<>> /\ q = <<>> /\ x.handle = NULL
    BY <1>4 DEF Due
  <2> HIDE DEF y
  <2> QED
    BY <1>4, <2>1, <2>2 DEF Due, Shuts, PhaseOf, Active, y
<1>5. CASE x.status \in {"cancel", "free"}
  <2>1. y = x /\ q2 = q
    BY <1>5, StopOneSide
  <2> HIDE DEF y
  <2> QED
    BY <1>5, <2>1 DEF Due, Shuts, Active, y
<1> QED
  BY <1>1, <1>2, <1>3, <1>4, <1>5

(* The handles that are closed when the channels S are stopped, and who is *)
(* owed an answer then.                                                    *)
ClosedHandles(w, S) == {w.chan[a].handle : a \in Running(w, S)}
OwedOwners(w, S) == {a \in Running(w, S) : w.sess[w.chan[a].handle].st = "starting"}

(* What stopping them does whether or not the live module is misused.      *)
StoppedFields(w, S, z) ==
  /\ z.chan = [a \in Addr |-> IF a \in S THEN StopOne(w.chan[a]) ELSE w.chan[a]]
  /\ z.channels = Erase(w.channels, {a \in S : Deletable(w.chan[a])})
  /\ z.posted = Post(w.posted, Waiting(w, S), Aborted)
  /\ \A a \in Addr : z.done[a] = w.done[a] \/ z.done[a] = Append(w.done[a], Aborted)

(* What it does to a live module that is not.                              *)
StoppedSessions(w, S, z) ==
  /\ z.sess = [h \in Handle |-> IF h \in ClosedHandles(w, S) THEN NoSession ELSE w.sess[h]]
  /\ z.done = Post(w.done, OwedOwners(w, S), Aborted)

LEMMA StopAllFields ==
  ASSUME NEW w, w \in WorldType, NEW S
  PROVE  /\ StoppedFields(w, S, StopAll(w, S))
         /\ (\A a \in Running(w, S) : MayStop(w, a)) => StoppedSessions(w, S, StopAll(w, S))
<1> DEFINE H    == ClosedHandles(w, S)
           owed == OwedOwners(w, S)
           c    == CloseSessions(w, Running(w, S))
           s    == [h \in Handle |-> IF h \in H THEN NoSession ELSE w.sess[h]]
           d    == Post(w.done, owed, Aborted)
           ch   == [a \in Addr |-> IF a \in S THEN StopOne(w.chan[a]) ELSE w.chan[a]]
           v    == Erase(w.channels, {a \in S : Deletable(w.chan[a])})
           p    == Post(w.posted, Waiting(w, S), Aborted)
           z    == StopAll(w, S)
<1>1. c \in WorldType
  BY CloseSessionsType
<1>2. /\ c.done = d \/ c.done = w.done
      /\ (\A a \in Running(w, S) : MayStop(w, a)) => c.sess = s /\ c.done = d
  BY DEF CloseSessions, WorldType, OwedOwners, ClosedHandles
<1>3. z = [c EXCEPT !.chan = ch, !.channels = v, !.posted = p]
  BY DEF StopAll
<1>4. \A a \in Addr : d[a] = w.done[a] \/ d[a] = Append(w.done[a], Aborted)
  BY DEF Post, WorldType
<1> HIDE DEF c, s, d, ch, v, p, z
<1>5. z.chan = ch /\ z.channels = v /\ z.posted = p /\ z.sess = c.sess /\ z.done = c.done
  BY <1>1, <1>3 DEF WorldType
<1>6. StoppedFields(w, S, z)
  BY <1>2, <1>4, <1>5 DEF StoppedFields, ch, v, p
<1>7. ASSUME \A a \in Running(w, S) : MayStop(w, a)
      PROVE  StoppedSessions(w, S, z)
  BY <1>2, <1>5, <1>7 DEF StoppedSessions, s, d
<1> QED
  BY <1>6, <1>7 DEF z

(* A channel that is owed what Due says holds a session of its own: the    *)
(* live module is not misused by a stop of it.                             *)
LEMMA DueMayStop ==
  ASSUME NEW w, w \in WorldType, SideOK(w), NEW S, S \subseteq Addr
  PROVE  \A a \in Running(w, S) : MayStop(w, a)
<1> SUFFICES ASSUME NEW a \in Running(w, S)
             PROVE  MayStop(w, a)
  OBVIOUS
<1>1. a \in Addr /\ Active(w.chan[a])
  BY DEF Running
<1>2. w.chan[a].handle # NULL /\ w.sess[w.chan[a].handle].owner = a
  BY <1>1 DEF SideOK, SessOK, Due
<1>3. w.chan[a] \in Channel
  BY <1>1 DEF WorldType
<1> QED
  BY <1>2, <1>3 DEF MayStop, Channel

(* stop_channel closes the sessions of what it stops and no other.         *)
LEMMA StopAllSide ==
  ASSUME NEW w, WorldOK(w), SideOK(w), NEW S, S \subseteq Range(w.channels)
  PROVE  SideOK(StopAll(w, S)) /\ ShutsAll(w, StopAll(w, S))
<1> DEFINE H    == ClosedHandles(w, S)
           owed == OwedOwners(w, S)
           z    == StopAll(w, S)
<1>1. /\ w \in WorldType /\ w.chan \in [Addr -> Channel] /\ w.sess \in [Handle -> Session]
      /\ w.done \in [Addr -> Seq(Answer)] /\ S \subseteq Addr /\ NULL \notin Handle
  BY DomainAssumption DEF WorldOK, WorldType
<1>2. /\ z.chan = [a \in Addr |-> IF a \in S THEN StopOne(w.chan[a]) ELSE w.chan[a]]
      /\ z.sess = [h \in Handle |-> IF h \in H THEN NoSession ELSE w.sess[h]]
      /\ z.done = Post(w.done, owed, Aborted)
  <2>1. StoppedFields(w, S, z) /\ StoppedSessions(w, S, z)
    BY <1>1, DueMayStop, StopAllFields
  <2> HIDE DEF z
  <2> QED
    BY <2>1 DEF StoppedFields, StoppedSessions
<1>3. ASSUME NEW a \in Addr, Active(w.chan[a])
      PROVE  /\ w.chan[a].handle \in Handle /\ w.sess[w.chan[a].handle].owner = a
             /\ w.chan[a].handle \in H <=> a \in S
             /\ w.sess[w.chan[a].handle].st # "free"
  <2>1. w.chan[a].handle # NULL /\ w.sess[w.chan[a].handle].owner = a
    BY <1>3 DEF SideOK, SessOK, Due
  <2>2. w.chan[a].handle \in Handle
    BY <1>1, <2>1 DEF Channel
  <2>3. ASSUME w.chan[a].handle \in H PROVE a \in S
    <3>1. PICK b \in S : Active(w.chan[b]) /\ w.chan[b].handle = w.chan[a].handle
      BY <2>3 DEF Running, ClosedHandles
    <3>2. w.sess[w.chan[b].handle].owner = b
      BY <1>1, <3>1 DEF SideOK, SessOK, Due
    <3> QED
      BY <2>1, <3>1, <3>2
  <2>4. w.sess[w.chan[a].handle].st # "free"
    BY <1>3 DEF SideOK, SessOK, Due, Active
  <2> QED
    BY <1>3, <2>1, <2>2, <2>3, <2>4 DEF Running, ClosedHandles
<1>4. ASSUME NEW a \in Addr
      PROVE  a \in owed <=> /\ a \in S /\ w.chan[a].status = "started"
                            /\ w.sess[w.chan[a].handle].st = "starting"
  <2>1. ASSUME a \in owed
        PROVE  /\ a \in S /\ w.chan[a].status = "started"
               /\ w.sess[w.chan[a].handle].st = "starting"
    <3>1. a \in S /\ Active(w.chan[a]) /\ w.sess[w.chan[a].handle].st = "starting"
      BY <2>1 DEF OwedOwners, Running
    <3>2. w.chan[a].status # "working"
      BY <3>1 DEF SideOK, SessOK, Due
    <3> QED
      BY <3>1, <3>2 DEF Active
  <2>2. ASSUME a \in S, w.chan[a].status = "started", w.sess[w.chan[a].handle].st = "starting"
        PROVE  a \in owed
    <3>1. Active(w.chan[a])
      BY <2>2 DEF Active
    <3> QED
      BY <2>2, <3>1 DEF OwedOwners, Running
  <2> QED
    BY <2>1, <2>2
<1>5. \A a \in Addr : z.done[a] = IF a \in owed THEN Append(w.done[a], Aborted) ELSE w.done[a]
  BY <1>1, <1>2 DEF Post
<1> HIDE DEF owed, H, z
<1>6. ASSUME NEW a \in Addr
      PROVE  /\ Due(z.chan[a], a, z.sess, z.done[a])
             /\ Shuts(w.chan[a], w.done[a], z.chan[a], z.done[a])
  <2>0. Due(w.chan[a], a, w.sess, w.done[a]) /\ w.chan[a] \in Channel /\ w.done[a] \in Seq(Answer)
    BY <1>1 DEF SideOK, SessOK
  <2>1. CASE a \in S
    <3> DEFINE x  == w.chan[a]
               q  == w.done[a]
               s2 == z.sess
               q2 == z.done[a]
    <3>1. z.chan[a] = StopOne(x)
      BY <1>2, <2>1
    <3>2. q2 = IF x.status = "started" /\ w.sess[x.handle].st = "starting"
               THEN Append(q, Aborted) ELSE q
      BY <1>4, <1>5, <2>1
    <3>3. x \in Channel /\ q \in Seq(Answer) /\ Due(x, a, w.sess, q)
      BY <2>0
    <3> HIDE DEF x, q, q2, s2
    <3>4. Due(StopOne(x), a, s2, q2) /\ Shuts(x, q, StopOne(x), q2)
      BY <3>2, <3>3, StoppedCell
    <3> QED
      BY <3>1, <3>4 DEF x, q, q2, s2
  <2>2. CASE a \notin S
    <3>1. z.chan[a] = w.chan[a] /\ z.done[a] = w.done[a]
      BY <1>2, <1>4, <1>5, <2>2
    <3>2. Active(w.chan[a]) => z.sess[w.chan[a].handle] = w.sess[w.chan[a].handle]
      BY <1>2, <1>3, <2>2
    <3> QED
      BY <2>0, <3>1, <3>2 DEF Due, Shuts, Active
  <2> QED
    BY <2>1, <2>2
<1>7. ASSUME NEW h \in Handle, z.sess[h].st # "free"
      PROVE  z.sess[h].owner \in Addr /\ z.chan[z.sess[h].owner].handle = h
  <2>1. h \notin H /\ z.sess[h] = w.sess[h]
    BY <1>2, <1>7 DEF NoSession
  <2> DEFINE b == w.sess[h].owner
  <2>2. b \in Addr /\ w.chan[b].handle = h
    BY <1>7, <2>1 DEF SideOK, SessOK, Owned
  <2>3. Active(w.chan[b])
    <3>1. w.chan[b].status \in {"free", "started", "working", "cancel", "stopped"}
      BY <1>1, <2>2 DEF Channel, Status
    <3>2. w.chan[b].status \notin {"cancel", "stopped", "free"}
      BY <1>1, <2>2 DEF SideOK, SessOK, Due
    <3> QED
      BY <3>1, <3>2 DEF Active
  <2>4. b \notin S
    BY <1>3, <2>1, <2>2, <2>3
  <2> QED
    BY <1>2, <2>1, <2>2, <2>4
<1> QED
  BY <1>6, <1>7 DEF SideOK, SessOK, Owned, ShutsAll, z

---------------------------------------------------------------------------
(* The other helpers *)

(* The rids of channels are never changed, only dropped.                   *)
RidsShrink(ch, ch2) == \A a \in Addr : ch2[a].rid \in {ch[a].rid, ""}

Passes(w, v) == SideOK(v) /\ ShutsAll(w, v) /\ RidsShrink(w.chan, v.chan)

LEMMA PassesTransitive ==
  ASSUME NEW w, NEW v, NEW z, Passes(w, v), Passes(v, z)
  PROVE  Passes(w, z)
<1>1. ShutsAll(w, z)
  BY ShutsTransitive DEF Passes
<1>2. RidsShrink(w.chan, z.chan)
  BY DEF Passes, RidsShrink
<1> QED
  BY <1>1, <1>2 DEF Passes

LEMMA StopAllPasses ==
  ASSUME NEW w, WorldOK(w), SideOK(w), NEW S, S \subseteq Range(w.channels)
  PROVE  Passes(w, StopAll(w, S))
<1> DEFINE z == StopAll(w, S)
<1>1. w \in WorldType /\ w.chan \in [Addr -> Channel]
  BY DEF WorldOK, WorldType
<1>2. SideOK(z) /\ ShutsAll(w, z)
  BY StopAllSide
<1>3. z.chan = [a \in Addr |-> IF a \in S THEN StopOne(w.chan[a]) ELSE w.chan[a]]
  <2>1. StoppedFields(w, S, z)
    BY <1>1, StopAllFields
  <2> HIDE DEF z
  <2> QED
    BY <2>1 DEF StoppedFields
<1>4. \A x \in Channel : StopOne(x).rid \in {x.rid, ""}
  <2>1. NoChannel.rid = "" /\ \A x \in Channel : Closed(x, "stopped").rid = ""
    BY DEF NoChannel, Closed, Channel
  <2> SUFFICES ASSUME NEW x \in Channel
               PROVE  StopOne(x).rid \in {x.rid, ""}
    OBVIOUS
  <2> QED
    BY <2>1, StopOneForms
<1> HIDE DEF z
<1>5. RidsShrink(w.chan, z.chan)
  BY <1>1, <1>3, <1>4 DEF RidsShrink
<1> QED
  BY <1>2, <1>5 DEF Passes, z

LEMMA CheckParallelForm ==
  ASSUME NEW w, w \in WorldType, NEW limit
  PROVE  \E S \in SUBSET Range(w.channels) :
           /\ CheckParallel(w, limit) = StopAll(w, S)
           /\ \A a \in S : w.chan[a].nref = 0
           /\ \A a \in Range(w.channels) :
                w.chan[a].status = "stopped" /\ w.chan[a].nref = 0 => a \in S
<1> DEFINE left  == LeftSize(limit, Cardinality(Users(w)))
           evict == {i \in DOMAIN w.channels :
                       /\ w.chan[w.channels[i]].nref = 0
                       /\ \/ Stopped(w.chan[w.channels[i]])
                          \/ IdleUpTo(w, i) > left}
           S     == {w.channels[i] : i \in evict}
<1>1. CheckParallel(w, limit) = StopAll(w, S)
  BY DEF CheckParallel
<1>2. S \subseteq Range(w.channels) /\ \A a \in S : w.chan[a].nref = 0
  BY DEF Range
<1>3. ASSUME NEW a \in Range(w.channels), w.chan[a].status = "stopped", w.chan[a].nref = 0
      PROVE  a \in S
  <2>1. PICK i \in DOMAIN w.channels : w.channels[i] = a
    BY DEF Range
  <2>2. i \in evict
    BY <1>3, <2>1 DEF Stopped
  <2> QED
    BY <2>1, <2>2
<1> HIDE DEF S
<1> QED
  BY <1>1, <1>2, <1>3

LEMMA CheckParallelPasses ==
  ASSUME NEW w, WorldOK(w), SideOK(w), NEW limit
  PROVE  Passes(w, CheckParallel(w, limit))
<1>1. PICK S \in SUBSET Range(w.channels) : CheckParallel(w, limit) = StopAll(w, S)
  BY CheckParallelForm DEF WorldOK
<1> QED
  BY <1>1, StopAllPasses

(* check_parallel leaves a channel alone that somebody uses.               *)
LEMMA CheckParallelSpares ==
  ASSUME NEW w, WorldOK(w), NEW limit, NEW a \in Addr, w.chan[a].nref # 0
  PROVE  CheckParallel(w, limit).chan[a] = w.chan[a]
<1>1. w \in WorldType
  BY DEF WorldOK
<1>2. PICK S \in SUBSET Range(w.channels) :
           /\ CheckParallel(w, limit) = StopAll(w, S)
           /\ \A b \in S : w.chan[b].nref = 0
  BY <1>1, CheckParallelForm
<1>3. StoppedFields(w, S, StopAll(w, S))
  BY <1>1, StopAllFields
<1>4. StopAll(w, S).chan = [b \in Addr |-> IF b \in S THEN StopOne(w.chan[b]) ELSE w.chan[b]]
  BY <1>3 DEF StoppedFields
<1> QED
  BY <1>2, <1>4

(* What the live module and the callers' answers depend on is left alone.  *)
SameChannel(x, y) ==
  /\ y.status = x.status /\ y.rid = x.rid /\ y.handle = x.handle
  /\ y.ec = x.ec /\ y.url = x.url /\ y.ports = x.ports

SameSide(w, v) ==
  /\ \A a \in Addr : SameChannel(w.chan[a], v.chan[a])
  /\ v.sess = w.sess /\ v.done = w.done

LEMMA SameSidePasses ==
  ASSUME NEW w, NEW v, SideOK(w), SameSide(w, v)
  PROVE  Passes(w, v)
<1>1. SideOK(v)
  BY DEF SideOK, SessOK, Due, Owned, SameSide, SameChannel, Active
<1>2. ShutsAll(w, v)
  BY DEF ShutsAll, Shuts, PhaseOf, SameSide, SameChannel, Active
<1>3. RidsShrink(w.chan, v.chan)
  BY DEF RidsShrink, SameSide, SameChannel
<1> QED
  BY <1>1, <1>2, <1>3 DEF Passes

(* start_channel first resets the countdown of what it will stop.          *)
LEMMA ClearedForm ==
  ASSUME RefInv, NEW r
  PROVE  \E u : /\ Cleared(r) = StopAll(u, Matching(World, r))
                /\ WorldOK(u) /\ SameSide(World, u) /\ SameRefs(World, u)
                /\ u.posted = posted /\ u.channels = channels
                /\ \A a \in Addr : u.chan[a].call_backs = chan[a].call_backs
<1> DEFINE old == Matching(World, r)
           ch  == [a \in Addr |-> IF a \in old THEN [chan[a] EXCEPT !.expire = 0]
                                               ELSE chan[a]]
           u   == [World EXCEPT !.chan = ch]
<1>1. Cleared(r) = StopAll(u, old)
  BY DEF Cleared
<1>2. chan \in [Addr -> Channel] /\ WorldOK(World) /\ World.chan = chan
  BY WorldIsOK DEF RefInv, TypeOK, World
<1>3. \A x \in Channel : LET y == [x EXCEPT !.expire = 0] IN
        /\ y \in Channel /\ y.nref = x.nref
        /\ y.call_backs = x.call_backs /\ SameChannel(x, y)
  BY ZeroFits DEF Channel, SameChannel
<1>4. /\ ch \in [Addr -> Channel]
      /\ \A a \in Addr : /\ SameChannel(chan[a], ch[a]) /\ ch[a].nref = chan[a].nref
                         /\ ch[a].call_backs = chan[a].call_backs
  <2>1. \A x \in Channel : SameChannel(x, x)
    BY DEF SameChannel
  <2> QED
    BY <1>2, <1>3, <2>1
<1> HIDE DEF ch
<1>5. /\ u.chan = ch /\ u.channels = channels /\ u.posted = posted
      /\ u.sess = World.sess /\ u.done = World.done
  BY DEF World
<1>6. u \in WorldType
  BY <1>2, <1>4 DEF WorldOK, WorldType
<1> HIDE DEF u
<1>7. World.channels = channels
  BY DEF World
<1>8. WorldOK(u)
  BY <1>2, <1>4, <1>5, <1>6, <1>7 DEF WorldOK, SameChannel
<1>9. SameSide(World, u) /\ SameRefs(World, u)
  BY <1>2, <1>4, <1>5 DEF SameSide, SameRefs
<1> QED
  BY <1>1, <1>4, <1>5, <1>8, <1>9

LEMMA AgedSame ==
  ASSUME NEW w, WorldOK(w)
  PROVE  /\ SameSide(w, Aged(w)) /\ Aged(w).posted = w.posted
         /\ \A a \in Addr : Aged(w).chan[a].call_backs = w.chan[a].call_backs
<1> DEFINE ch == [a \in Addr |-> IF a \in Unused(w) THEN Ticked(w.chan[a]) ELSE w.chan[a]]
<1>1. w \in WorldType /\ w.chan \in [Addr -> Channel]
  BY DEF WorldOK, WorldType
<1>2. \A x \in Channel : /\ SameChannel(x, Ticked(x)) /\ SameChannel(x, x)
                         /\ Ticked(x).call_backs = x.call_backs
  BY DEF Ticked, Channel, SameChannel
<1>3. \A a \in Addr : /\ SameChannel(w.chan[a], ch[a])
                      /\ ch[a].call_backs = w.chan[a].call_backs
  BY <1>1, <1>2
<1>4. Aged(w) = [w EXCEPT !.chan = ch]
  BY DEF Aged
<1> HIDE DEF ch
<1>5. /\ Aged(w).chan = ch /\ Aged(w).posted = w.posted
      /\ Aged(w).sess = w.sess /\ Aged(w).done = w.done
  BY <1>1, <1>4 DEF WorldType
<1> QED
  BY <1>3, <1>5 DEF SameSide

LEMMA PartitionedSame ==
  ASSUME NEW front, NEW bad
  PROVE  SameSide(World, Partitioned(front, bad))
BY DEF Partitioned, World, SameSide, SameChannel

LEMMA AttachedSame ==
  ASSUME RefInv, NEW c \in Call, NEW a \in Addr
  PROVE  /\ SameSide(World, Attached(c, a))
         /\ chan[a].status = "working" =>
              Attached(c, a).posted = Post(posted, {c}, [ec |-> chan[a].ec, url |-> chan[a].url])
<1> DEFINE ch  == Ref(chan[a])
           w   == [World EXCEPT !.chan[a] = ch]
           ans == [ec |-> chan[a].ec, url |-> chan[a].url]
           ch2 == [ch EXCEPT !.call_backs = Append(ch.call_backs, c)]
           z   == Attached(c, a)
<1>1. /\ World.chan = chan /\ World.posted = posted /\ chan \in [Addr -> Channel]
      /\ World.sess = sess /\ World.done = done
  BY DEF RefInv, TypeOK, World
<1>2. SameChannel(chan[a], ch) /\ SameChannel(chan[a], ch2) /\ \A x : SameChannel(x, x)
  <2> DEFINE n == chan[a].nref + 1
             s == Append(ch.call_backs, c)
  <2>1. ch = [chan[a] EXCEPT !.expire = 0, !.nref = n] /\ ch2 = [ch EXCEPT !.call_backs = s]
    BY DEF Ref
  <2>2. \A x : SameChannel(x, x)
    BY DEF SameChannel
  <2> HIDE DEF n, s, ch, ch2
  <2> DEFINE x == chan[a]
  <2>3. x \in Channel
    BY <1>1
  <2> HIDE DEF x
  <2>4. /\ ch.status = x.status /\ ch.rid = x.rid /\ ch.handle = x.handle
        /\ ch.ec = x.ec /\ ch.url = x.url /\ ch.ports = x.ports
    BY <2>1, <2>3 DEF Channel, x
  <2>5. /\ ch2.status = x.status /\ ch2.rid = x.rid /\ ch2.handle = x.handle
        /\ ch2.ec = x.ec /\ ch2.url = x.url /\ ch2.ports = x.ports
    BY <2>1, <2>3, <2>4 DEF Channel, x
  <2>6. SameChannel(chan[a], ch) /\ SameChannel(chan[a], ch2)
    BY <2>4, <2>5 DEF SameChannel, x
  <2> QED
    BY <2>2, <2>6
<1>3. w = [World EXCEPT !.chan = [chan EXCEPT ![a] = ch]]
  BY <1>1
<1> HIDE DEF ch
<1>4. /\ w.chan = [chan EXCEPT ![a] = ch] /\ w.posted = posted
      /\ w.sess = sess /\ w.done = done
  BY <1>3 DEF World
<1>5. CASE chan[a].status = "working"
  <2> DEFINE p1 == Post(posted, {c}, ans)
  <2>1. z = [w EXCEPT !.posted = p1]
    BY <1>1, <1>4, <1>5 DEF Attached, ch
  <2> HIDE DEF p1
  <2>2. /\ z.chan = [chan EXCEPT ![a] = ch] /\ z.posted = p1
        /\ z.sess = sess /\ z.done = done
    BY <1>3, <2>1 DEF World
  <2>3. \A b \in Addr : SameChannel(chan[b], z.chan[b])
    BY <1>1, <1>2, <2>2
  <2> QED
    BY <1>1, <2>2, <2>3 DEF SameSide, p1
<1>6. CASE chan[a].status # "working"
  <2>1. z = [w EXCEPT !.chan[a].call_backs = Append(@, c)]
    BY <1>1, <1>6 DEF Attached, ch
  <2>2. z = [World EXCEPT !.chan = [chan EXCEPT ![a] = ch2]]
    <3>1. [w EXCEPT !.chan[a].call_backs = Append(@, c)] =
            [w EXCEPT !.chan = [w.chan EXCEPT ![a] =
               [w.chan[a] EXCEPT !.call_backs = Append(w.chan[a].call_backs, c)]]]
      BY <1>3 DEF World
    <3>2. w.chan[a] = ch
      BY <1>1, <1>4
    <3>3. [w.chan EXCEPT ![a] = ch2] = [chan EXCEPT ![a] = ch2]
      BY <1>1, <1>4
    <3>4. z = [w EXCEPT !.chan = [chan EXCEPT ![a] = ch2]]
      BY <2>1, <3>1, <3>2, <3>3
    <3> HIDE DEF ch2, z
    <3> QED
      BY <1>3, <3>4 DEF World
  <2> HIDE DEF ch2, z
  <2>3. z.chan = [chan EXCEPT ![a] = ch2] /\ z.sess = sess /\ z.done = done
    BY <2>2 DEF World
  <2>4. \A b \in Addr : SameChannel(chan[b], z.chan[b])
    BY <1>1, <1>2, <2>3
  <2> QED
    BY <1>1, <1>6, <2>3, <2>4 DEF SameSide, z
<1> QED
  BY <1>5, <1>6

LEMMA SlotsApart ==
  ASSUME NEW x \in Channel, NEW cbs
  PROVE  SameChannel(x, [x EXCEPT !.call_backs = cbs])
BY DEF Channel, SameChannel

LEMMA SwappedSame ==
  ASSUME RefInv, NEW a \in Addr, NEW t
  PROVE  SameSide(World, Swapped(World, a, t))
<1> DEFINE cbs == [chan[a].call_backs EXCEPT ![t] = NULL]
           ch  == [chan[a] EXCEPT !.call_backs = cbs]
           v   == Swapped(World, a, t)
<1>1. /\ World.chan = chan /\ World.posted = posted /\ chan \in [Addr -> Channel]
      /\ World.sess = sess /\ World.done = done
  BY DEF RefInv, TypeOK, World
<1>2. v = [World EXCEPT !.chan = [chan EXCEPT ![a] = ch],
                        !.posted = Post(posted, {chan[a].call_backs[t]}, Aborted)]
  BY <1>1 DEF Swapped, Channel
<1>3. SameChannel(chan[a], ch) /\ \A x : SameChannel(x, x)
  <2>1. SameChannel(chan[a], ch)
    <3> HIDE DEF cbs
    <3>1. chan[a] \in Channel
      BY <1>1
    <3> QED
      BY <3>1, SlotsApart
  <2>2. \A x : SameChannel(x, x)
    BY DEF SameChannel
  <2> QED
    BY <2>1, <2>2
<1> HIDE DEF v, ch
<1>4. v.chan = [chan EXCEPT ![a] = ch] /\ v.sess = sess /\ v.done = done
  BY <1>2 DEF World
<1>5. \A b \in Addr : SameChannel(chan[b], v.chan[b])
  BY <1>1, <1>3, <1>4
<1> QED
  BY <1>1, <1>4, <1>5 DEF SameSide, v

LEMMA UnreferencedSame ==
  ASSUME NEW v \in WorldType, NEW a \in Addr, NEW z,
         z = [v EXCEPT !.chan[a].nref = @ - 1] \/
         z = ToFront([v EXCEPT !.chan[a].nref = @ - 1], a)
  PROVE  SameSide(v, z)
<1> DEFINE n  == v.chan[a].nref - 1
           c1 == [v.chan[a] EXCEPT !.nref = n]
           u  == [v EXCEPT !.chan = [v.chan EXCEPT ![a] = c1]]
           c2 == [c1 EXCEPT !.expire = IdleExpire]
<1>1. v.chan \in [Addr -> Channel] /\ v.chan[a] \in Channel
  BY DEF WorldType
<1>2. [v EXCEPT !.chan[a].nref = @ - 1] = u
  BY <1>1 DEF WorldType
<1>3. /\ SameChannel(v.chan[a], c1) /\ SameChannel(v.chan[a], c2)
      /\ \A x : SameChannel(x, x)
  <2> HIDE DEF n
  <2> QED
    BY <1>1 DEF Channel, SameChannel
<1> HIDE DEF c1
<1>4. u.chan = [v.chan EXCEPT ![a] = c1] /\ u.sess = v.sess /\ u.done = v.done
  BY DEF WorldType
<1>5. CASE z = [v EXCEPT !.chan[a].nref = @ - 1]
  <2>1. z.chan = [v.chan EXCEPT ![a] = c1] /\ z.sess = v.sess /\ z.done = v.done
    BY <1>2, <1>4, <1>5
  <2> QED
    BY <1>1, <1>3, <2>1 DEF SameSide
<1>6. CASE z = ToFront([v EXCEPT !.chan[a].nref = @ - 1], a)
  <2>1. z = ToFront(u, a)
    BY <1>2, <1>6
  <2>2. u.chan[a] = c1
    BY <1>1, <1>4
  <2>3. /\ z.chan = [u.chan EXCEPT ![a] = [u.chan[a] EXCEPT !.expire = IdleExpire]]
        /\ z.sess = u.sess /\ z.done = u.done
    BY <2>1 DEF ToFront, WorldType
  <2> HIDE DEF u
  <2>4. z.chan = [u.chan EXCEPT ![a] = c2]
    BY <2>2, <2>3
  <2> HIDE DEF c2
  <2>5. z.chan = [v.chan EXCEPT ![a] = c2] /\ z.sess = v.sess /\ z.done = v.done
    BY <1>1, <1>4, <2>3, <2>4
  <2> QED
    BY <1>1, <1>3, <2>5 DEF SameSide
<1> QED
  BY <1>5, <1>6

LEMMA SameSideTransitive ==
  ASSUME NEW w, NEW v, NEW z, SameSide(w, v), SameSide(v, z)
  PROVE  SameSide(w, z)
BY DEF SameSide, SameChannel

LEMMA ReleasedSame ==
  ASSUME RefInv, NEW c \in Call, NEW a \in Addr, a = handle[c].channel,
         chan[a].nref \in Nat \ {0}
  PROVE  SameSide(World, Released(c))
<1> DEFINE t == handle[c].token
           v == IF HasSlot(a, t) THEN Swapped(World, a, t) ELSE World
<1>1. a \in Range(channels) /\ t \in Nat
  BY DEF RefInv, VectorIsHeap, TypeOK, UserHandle
<1>2. v \in WorldType /\ SameSide(World, v)
  <2>1. WorldOK(World) /\ SameSide(World, World)
    BY WorldIsOK DEF SameSide, SameChannel
  <2> QED
    BY <1>1, <2>1, SwappedOK, SwappedSame DEF WorldOK
<1>3. \/ Released(c) = [v EXCEPT !.chan[a].nref = @ - 1]
      \/ Released(c) = ToFront([v EXCEPT !.chan[a].nref = @ - 1], a)
  BY DEF Released, v
<1> HIDE DEF v
<1> QED
  BY <1>2, <1>3, UnreferencedSame, SameSideTransitive

---------------------------------------------------------------------------
(* handle_start_channel *)

(* The callback of the live module runs.                                   *)
Runs(x, q, y, r) ==
  PhaseOf(x, q) = "posted" /\ PhaseOf(y, r) = "none" /\ (Active(y) <=> Active(x))

(* A channel whose callback has run has a user.                            *)
NoneLeft(ch) == \A a \in Addr : ch[a].status = "stopped" => ch[a].nref # 0

LEMMA StopAllLeaves ==
  ASSUME NEW w, WorldOK(w), NEW S, NEW a \in Addr,
         StopAll(w, S).chan[a].status = "stopped", StopAll(w, S).chan[a].nref = 0
  PROVE  a \notin S /\ w.chan[a].status = "stopped" /\ w.chan[a].nref = 0
<1> DEFINE z == StopAll(w, S)
           x == w.chan[a]
<1>1. w \in WorldType /\ x \in Channel
  BY DEF WorldOK, WorldType
<1>2. z.chan[a] = IF a \in S THEN StopOne(x) ELSE x
  <2>1. StoppedFields(w, S, z)
    BY <1>1, StopAllFields
  <2> HIDE DEF z
  <2> QED
    BY <2>1 DEF StoppedFields
<1>3. StopOne(x).status = "stopped" => StopOne(x).nref # 0
  <2> HIDE DEF x
  <2>1. StopOne(x).nref = x.nref
    BY <1>1, StopOneType
  <2>2. CASE Deletable(x)
    <3>1. StopOne(x) = NoChannel
      BY <1>1, <2>2, StopOneForms
    <3>2. NoChannel.status = "free"
      BY DEF NoChannel
    <3> QED
      BY <3>1, <3>2
  <2>3. CASE ~ Deletable(x) /\ x.status \in {"working", "stopped"}
    BY <2>1, <2>3 DEF Deletable
  <2>4. CASE x.status \notin {"working", "stopped"}
    <3>1. x.status \in {"started", "cancel", "free"}
      BY <1>1, <2>4 DEF Channel, Status
    <3>2. StopOne(x).status \in {"cancel", "free"}
      BY <1>1, <3>1, StopOneSide
    <3> QED
      BY <3>2
  <2> QED
    BY <2>2, <2>3, <2>4
<1> QED
  BY <1>2, <1>3

LEMMA StopAllLeft ==
  ASSUME NEW w, WorldOK(w), NEW S, NoneLeft(w.chan)
  PROVE  NoneLeft(StopAll(w, S).chan)
BY StopAllLeaves DEF NoneLeft

LEMMA CheckParallelLeft ==
  ASSUME NEW w, WorldOK(w), NEW limit
  PROVE  NoneLeft(CheckParallel(w, limit).chan)
<1>1. w \in WorldType
  BY DEF WorldOK
<1>2. PICK S \in SUBSET Range(w.channels) :
           /\ CheckParallel(w, limit) = StopAll(w, S)
           /\ \A a \in Range(w.channels) :
                w.chan[a].status = "stopped" /\ w.chan[a].nref = 0 => a \in S
  BY <1>1, CheckParallelForm
<1>3. \A a \in Addr : w.chan[a].status = "stopped" => a \in Range(w.channels)
  BY DEF WorldOK
<1> QED
  BY <1>2, <1>3, StopAllLeaves DEF NoneLeft

LEMMA SameSideLeft ==
  ASSUME NEW w, NEW v, NoneLeft(w.chan), SameSide(w, v), SameRefs(w, v)
  PROVE  NoneLeft(v.chan)
BY DEF NoneLeft, SameSide, SameChannel, SameRefs

(* The callback that runs on channel a leaves the others alone.            *)
OneRuns(a, z) ==
  /\ SideOK(z) /\ RidsShrink(chan, z.chan) /\ NoneLeft(z.chan)
  /\ \A b \in Addr \ {a} : Shuts(chan[b], done[b], z.chan[b], z.done[b])
  /\ Runs(chan[a], done[a], z.chan[a], z.done[a])

LEMMA StartedSide ==
  ASSUME RefInv, SessOK(chan, sess, done), NoneLeft(chan), NEW a \in Addr, done[a] # <<>>
  PROVE  OneRuns(a, Started(a, Head(done[a])))
<1> DEFINE m == Head(done[a])
           x == chan[a]
           d == [done EXCEPT ![a] = <<>>]
           w == [World EXCEPT !.done = d]
           z == Started(a, m)
<1>1. /\ chan \in [Addr -> Channel] /\ done \in [Addr -> Seq(Answer)]
      /\ sess \in [Handle -> Session] /\ x \in Channel /\ NULL \notin Handle
  BY DomainAssumption DEF RefInv, TypeOK
<1>2. Due(x, a, sess, done[a])
  BY DEF SessOK
<1>3. /\ Len(done[a]) = 1
      /\ \/ x.status = "cancel" /\ x.handle = NULL
         \/ x.status = "started" /\ sess[x.handle].st = "answered"
  <2>1. x.status \in {"free", "started", "working", "cancel", "stopped"}
    BY <1>1 DEF Channel, Status
  <2> QED
    BY <1>2, <2>1 DEF Due
<1>4. Tail(done[a]) = <<>> /\ d \in [Addr -> Seq(Answer)] /\ m \in Answer
  <2>1. done[a] \in Seq(Answer) /\ <<>> \in Seq(Answer)
    BY <1>1
  <2> QED
    BY <1>1, <1>3, <2>1, TailOfOne, HeadTailProperties
<1>5. [World EXCEPT !.done[a] = Tail(@)] = w
  BY <1>4 DEF World
<1>6. /\ WorldOK(World) /\ World.chan = chan /\ World.channels = channels
      /\ World.sess = sess /\ World.done = done
  BY WorldIsOK DEF World
<1>7. /\ w \in WorldType /\ w.chan = chan /\ w.channels = channels
      /\ w.sess = sess /\ w.done = d
  BY <1>4, <1>6 DEF WorldOK, WorldType
<1>8. a \in Range(channels)
  BY <1>3 DEF RefInv, VectorIsHeap
<1> HIDE DEF w, m
<1>9. WorldOK(w)
  BY <1>6, <1>7 DEF WorldOK
<1>10. PhaseOf(x, done[a]) = "posted"
  BY DEF PhaseOf
<1>11. d[a] = <<>> /\ \A b \in Addr \ {a} : d[b] = done[b]
  BY <1>1
<1>12. CASE x.status = "cancel"
  <2> DEFINE y == [x EXCEPT !.status = "stopped"]
             v == [w EXCEPT !.chan[a].status = "stopped"]
  <2>1. z = StopAll(v, {a})
    BY <1>5, <1>8, <1>12 DEF Started, Resolved
  <2>2. v.chan = [chan EXCEPT ![a] = y] /\ v.sess = sess /\ v.done = d
    BY <1>7, StatusFields
  <2>3. y.status = "stopped" /\ y.handle = NULL /\ y.rid = x.rid /\ y.nref = x.nref
    BY <1>1, <1>3, <1>12 DEF Channel
  <2>4. WorldOK(v) /\ {a} \subseteq Range(v.channels)
    <3>1. a \in Range(w.channels) /\ "stopped" \in Status \ {"free"}
      BY <1>7, <1>8 DEF Status
    <3> QED
      BY <1>9, <3>1, PutStatusOK
  <2> HIDE DEF v, y, x, d
  <2>5. v.chan[a] = y /\ \A b \in Addr \ {a} : v.chan[b] = chan[b]
    BY <1>1, <2>2
  <2>6. SideOK(v)
    <3>1. \A b \in Addr \ {a} : Due(v.chan[b], b, v.sess, v.done[b])
      BY <1>11, <2>2, <2>5 DEF SessOK
    <3>2. Due(v.chan[a], a, v.sess, v.done[a])
      BY <1>11, <2>2, <2>3, <2>5 DEF Due, Active
    <3>3. \A b \in Addr : v.chan[b].handle = chan[b].handle
      BY <1>3, <1>12, <2>3, <2>5 DEF x
    <3>4. Owned(v.chan, v.sess)
      BY <2>2, <3>3 DEF SessOK, Owned
    <3> QED
      BY <3>1, <3>2, <3>4 DEF SideOK, SessOK
  <2>7. Passes(v, z)
    BY <2>1, <2>4, <2>6, StopAllPasses
  <2>8. RidsShrink(chan, z.chan)
    BY <2>3, <2>5, <2>7 DEF Passes, RidsShrink, x
  <2>9. NoneLeft(z.chan)
    <3> SUFFICES ASSUME NEW b \in Addr, z.chan[b].status = "stopped", z.chan[b].nref = 0
                 PROVE  FALSE
      BY DEF NoneLeft
    <3>1. b \notin {a} /\ v.chan[b].status = "stopped" /\ v.chan[b].nref = 0
      BY <2>1, <2>4, StopAllLeaves
    <3> QED
      BY <2>5, <3>1 DEF NoneLeft
  <2>10. \A b \in Addr \ {a} : Shuts(chan[b], done[b], z.chan[b], z.done[b])
    BY <1>11, <2>2, <2>5, <2>7 DEF Passes, ShutsAll
  <2>11. Runs(x, done[a], z.chan[a], z.done[a])
    <3>1. PhaseOf(v.chan[a], v.done[a]) = "none" /\ ~ Active(v.chan[a]) /\ ~ Active(x)
      BY <1>11, <1>12, <2>2, <2>3, <2>5 DEF PhaseOf, Active
    <3>2. Shuts(v.chan[a], v.done[a], z.chan[a], z.done[a])
      BY <2>7 DEF Passes, ShutsAll
    <3> QED
      BY <1>10, <3>1, <3>2 DEF Runs, Shuts
  <2> QED
    BY <2>7, <2>8, <2>9, <2>10, <2>11 DEF Passes, OneRuns, x, m
<1>13. CASE x.status = "started"
  <2> DEFINE y1 == [x EXCEPT !.status = "working"]
             y  == [y1 EXCEPT !.ec = m.ec, !.url = m.url, !.call_backs = <<>>]
             v  == [w EXCEPT !.chan[a].status = "working"]
  <2>1. z = Responded(v, a, m)
    BY <1>5, <1>8, <1>13 DEF Started
  <2>2. v.chan = [chan EXCEPT ![a] = y1] /\ v.sess = sess /\ v.done = d
    BY <1>7, StatusFields
  <2>3. v \in WorldType
    <3>1. a \in Range(w.channels) /\ "working" \in Status \ {"free"}
      BY <1>7, <1>8 DEF Status
    <3> QED
      BY <1>9, <3>1, PutStatusOK DEF WorldOK
  <2>4. /\ y.status = "working" /\ y.handle = x.handle /\ y.rid = x.rid
    BY <1>1 DEF Channel
  <2> HIDE DEF v, y1, z
  <2>5. v.chan[a] = y1 /\ \A b \in Addr \ {a} : v.chan[b] = chan[b]
    BY <1>1, <2>2
  <2>6. /\ z.chan = [v.chan EXCEPT ![a] =
              [v.chan[a] EXCEPT !.ec = m.ec, !.url = m.url, !.call_backs = <<>>]]
        /\ z.sess = v.sess /\ z.done = v.done
    <3>1. Responded(v, a, m).sess = v.sess /\ Responded(v, a, m).done = v.done
      BY <2>3 DEF Responded, WorldType
    <3> QED
      BY <2>1, <2>3, <3>1, RespondedFields
  <2>7. z.chan[a] = y /\ \A b \in Addr \ {a} : z.chan[b] = chan[b]
    BY <2>3, <2>5, <2>6 DEF WorldType
  <2>8. z.sess = sess /\ z.done = d
    BY <2>2, <2>6
  <2> HIDE DEF y, x, d
  <2>9. SideOK(z)
    <3>1. \A b \in Addr \ {a} : Due(z.chan[b], b, z.sess, z.done[b])
      BY <1>11, <2>7, <2>8 DEF SessOK
    <3>2. Due(z.chan[a], a, z.sess, z.done[a])
      BY <1>2, <1>3, <1>11, <1>13, <2>4, <2>7, <2>8 DEF Due, Active
    <3>3. \A b \in Addr : z.chan[b].handle = chan[b].handle
      BY <2>4, <2>7 DEF x
    <3>4. Owned(z.chan, z.sess)
      BY <2>8, <3>3 DEF SessOK, Owned
    <3> QED
      BY <3>1, <3>2, <3>4 DEF SideOK, SessOK
  <2>10. RidsShrink(chan, z.chan)
    BY <2>4, <2>7 DEF RidsShrink, x
  <2>11. NoneLeft(z.chan)
    BY <2>4, <2>7 DEF NoneLeft
  <2>12. \A b \in Addr \ {a} : Shuts(chan[b], done[b], z.chan[b], z.done[b])
    BY <1>11, <2>7, <2>8 DEF Shuts
  <2>13. Runs(x, done[a], z.chan[a], z.done[a])
    BY <1>10, <1>11, <1>13, <2>4, <2>7, <2>8 DEF Runs, PhaseOf, Active
  <2> QED
    BY <2>9, <2>10, <2>11, <2>12, <2>13 DEF OneRuns, x, z, m
<1> QED
  BY <1>3, <1>12, <1>13

---------------------------------------------------------------------------
(* What a step does to a channel *)

OneRid(ch) == \A a, b \in Addr : ch[a].rid = ch[b].rid /\ ch[a].rid # "" => a = b

SessInv ==
  /\ CallInv
  /\ SessOK(chan, sess, done)
  /\ NoneLeft(chan)
  /\ OneRid(chan)

(* A start is accepted for a cell that owes no callback; what ran there    *)
(* before was stopped in the same handler.                                 *)
Opens(x, q, y, r) == PhaseOf(x, q) = "none" /\ PhaseOf(y, r) = "due" /\ Active(y)

Answers(x, q, y, r) ==
  PhaseOf(x, q) = "due" /\ PhaseOf(y, r) = "posted" /\ Active(x) /\ Active(y)

CellSteps(x, q, y, r) ==
  Shuts(x, q, y, r) \/ Opens(x, q, y, r) \/ Answers(x, q, y, r) \/ Runs(x, q, y, r)

SideStep ==
  /\ SessOK(chan', sess', done') /\ NoneLeft(chan') /\ OneRid(chan')
  /\ \A a \in Addr : CellSteps(chan[a], done[a], chan'[a], done'[a])

LEMMA RidsStayApart ==
  ASSUME NEW ch, NEW ch2, OneRid(ch), RidsShrink(ch, ch2)
  PROVE  OneRid(ch2)
BY DEF OneRid, RidsShrink

LEMMA SessInvParts ==
  ASSUME SessInv
  PROVE  /\ CallInv /\ RefInv /\ WorldOK(World) /\ SideOK(World)
         /\ World.chan = chan /\ World.sess = sess /\ World.done = done
         /\ World.channels = channels
BY CallInvTypes DEF SessInv, CallInv, SideOK, World

LEMMA QuietSide ==
  ASSUME SessInv, NEW w, Passes(World, w), NoneLeft(w.chan), Become(w)
  PROVE  SideStep
<1>1. chan' = w.chan /\ sess' = w.sess /\ done' = w.done
  BY DEF Become
<1>2. World.chan = chan /\ World.done = done
  BY DEF World
<1>3. OneRid(w.chan)
  BY <1>2, RidsStayApart DEF SessInv, Passes
<1> QED
  BY <1>1, <1>2, <1>3 DEF Passes, ShutsAll, SideOK, SideStep, CellSteps

LEMMA UnchangedSide ==
  ASSUME SessInv, UNCHANGED <<chan, sess, done>>
  PROVE  SideStep
BY DEF SessInv, SideStep, CellSteps, Shuts

LEMMA SetMaxParallelSide ==
  ASSUME SessInv, NEW m \in MaxParallel, SetMaxParallel(m)
  PROVE  SideStep
BY SessInvParts, CheckParallelPasses, CheckParallelLeft, QuietSide DEF SetMaxParallel

LEMMA ShutdownSide ==
  ASSUME SessInv, Shutdown
  PROVE  SideStep
<1> DEFINE z == StopAll(World, Range(channels))
<1>1. Passes(World, z)
  BY SessInvParts, StopAllPasses
<1>2. NoneLeft(z.chan)
  BY SessInvParts, StopAllLeft DEF SessInv
<1>3. Become(z)
  BY DEF Shutdown
<1> HIDE DEF z
<1> QED
  BY <1>1, <1>2, <1>3, QuietSide

LEMMA HandleTimerSide ==
  ASSUME SessInv, NEW failed, HandleTimer(failed)
  PROVE  SideStep
<1> DEFINE front == SubSeq(channels, 1, WorkingEnd)
           bad   == {a \in Range(front) : chan[a].handle \in failed}
           p     == Partitioned(front, bad)
           w     == StopAll(p, bad)
           aged  == Aged(w)
           dead  == {a \in Unused(aged) : aged.chan[a].expire = 0}
<1>1. Become(Expired(aged))
  BY DEF HandleTimer
<1>2. WorldOK(p) /\ SameRefs(World, p) /\ bad \subseteq Range(p.channels)
  <2>1. bad \subseteq Range(front)
    OBVIOUS
  <2> HIDE DEF bad
  <2> QED
    BY <2>1, PartitionedOK, SessInvParts
<1>3. SameSide(World, p)
  BY PartitionedSame
<1> HIDE DEF p, bad
<1>4. Passes(World, p) /\ NoneLeft(p.chan)
  BY <1>2, <1>3, SessInvParts, SameSidePasses, SameSideLeft DEF SessInv
<1>5. WorldOK(w) /\ Passes(p, w) /\ NoneLeft(w.chan)
  BY <1>2, <1>4, StopAllOK, StopAllPasses, StopAllLeft DEF Passes
<1> HIDE DEF w
<1>6. WorldOK(aged) /\ SameRefs(w, aged) /\ SameSide(w, aged)
  BY <1>5, AgedOK, AgedSame
<1>7. Passes(w, aged) /\ NoneLeft(aged.chan)
  BY <1>5, <1>6, SameSidePasses, SameSideLeft DEF Passes
<1> HIDE DEF aged
<1>8. dead \subseteq Range(aged.channels) /\ Expired(aged) = StopAll(aged, dead)
  BY DEF Unused, Expired
<1> HIDE DEF dead
<1>9. Passes(aged, Expired(aged)) /\ NoneLeft(Expired(aged).chan)
  BY <1>6, <1>7, <1>8, StopAllPasses, StopAllLeft DEF Passes
<1>10. Passes(World, Expired(aged))
  BY <1>4, <1>5, <1>7, <1>9, PassesTransitive
<1> QED
  BY <1>1, <1>9, <1>10, QuietSide

LEMMA StopChannelSide ==
  ASSUME SessInv, NEW c \in Call, StopChannel(c)
  PROVE  SideStep
<1> DEFINE a == handle[c].channel
           w == Released(c)
           z == CheckParallel(w, max_parallel)
<1>1. a # NULL /\ Become(z) /\ handle' = [handle EXCEPT ![c] = NoHandle]
  BY DEF StopChannel
<1>2. a \in Addr /\ chan[a].nref \in Nat \ {0}
  BY <1>1, SessInvParts, OneHolderLess
<1> HIDE DEF a
<1>3. a = handle[c].channel
  BY DEF a
<1>4. WorldOK(w) /\ SameSide(World, w)
  BY <1>2, <1>3, SessInvParts, ReleasedOK, ReleasedSame
<1> HIDE DEF w
<1>5. Passes(World, w)
  BY <1>4, SessInvParts, SameSidePasses
<1>6. Passes(w, z) /\ NoneLeft(z.chan)
  BY <1>4, <1>5, CheckParallelPasses, CheckParallelLeft DEF Passes
<1> HIDE DEF z
<1> QED
  BY <1>1, <1>5, <1>6, PassesTransitive, QuietSide

LEMMA StartSharedSide ==
  ASSUME SessInv, NEW c \in Call, NEW r \in Rid, NEW p \in Ports, StartShared(c, r, p)
  PROVE  SideStep
<1>1. PICK a \in Matching(World, r) : Become(CheckParallel(Attached(c, a), max_parallel))
  BY DEF StartShared
<1> DEFINE w == Attached(c, a)
           z == CheckParallel(w, max_parallel)
<1>2. a \in Range(channels)
  BY SessInvParts DEF Matching
<1>3. WorldOK(w) /\ SameSide(World, w)
  BY <1>2, SessInvParts, AttachedOK, AttachedSame
<1> HIDE DEF w
<1>4. Passes(World, w)
  BY <1>3, SessInvParts, SameSidePasses
<1>5. Passes(w, z) /\ NoneLeft(z.chan)
  BY <1>3, <1>4, CheckParallelPasses, CheckParallelLeft DEF Passes
<1>6. Become(z)
  BY <1>1 DEF w
<1> HIDE DEF z
<1> QED
  BY <1>4, <1>5, <1>6, PassesTransitive, QuietSide

LEMMA HandleStartChannelSide ==
  ASSUME SessInv, NEW a \in Addr, HandleStartChannel(a)
  PROVE  SideStep
<1> DEFINE z == Started(a, Head(done[a]))
<1>1. done[a] # <<>> /\ Become(z)
  BY DEF HandleStartChannel
<1>2. OneRuns(a, z)
  BY <1>1, SessInvParts, StartedSide DEF SessInv
<1> HIDE DEF z
<1>3. chan' = z.chan /\ sess' = z.sess /\ done' = z.done
  BY <1>1 DEF Become
<1>4. OneRid(z.chan)
  BY <1>2, RidsStayApart DEF OneRuns, SessInv
<1> QED
  BY <1>2, <1>3, <1>4 DEF OneRuns, SideStep, SideOK, CellSteps

LEMMA ModuleAnswersSide ==
  ASSUME SessInv, NEW h \in Handle, ModuleAnswers(h)
  PROVE  SideStep
<1> DEFINE a == sess[h].owner
<1>1. PICK m : /\ sess[h].st = "starting" /\ sess' = [sess EXCEPT ![h].st = "answered"]
               /\ done' = Post(done, {a}, m) /\ chan' = chan
  BY DEF ModuleAnswers
<1>2. /\ chan \in [Addr -> Channel] /\ done \in [Addr -> Seq(Answer)]
      /\ sess \in [Handle -> Session] /\ NULL \notin Handle
  BY DomainAssumption DEF SessInv, CallInv, RefInv, TypeOK
<1>3. a \in Addr /\ chan[a].handle = h
  BY <1>1 DEF SessInv, SessOK, Owned
<1> HIDE DEF a
<1>4. \A b \in Addr : Due(chan[b], b, sess, done[b])
  BY DEF SessInv, SessOK
<1>5. chan[a].status = "started" /\ done[a] = <<>>
  <2>1. chan[a].status \in {"free", "started", "working", "cancel", "stopped"}
    BY <1>2, <1>3 DEF Channel, Status
  <2> QED
    BY <1>1, <1>2, <1>3, <1>4, <2>1 DEF Due
<1>6. done'[a] = Append(<<>>, m) /\ \A b \in Addr \ {a} : done'[b] = done[b]
  BY <1>1, <1>2, <1>3, <1>5 DEF Post
<1>7. Len(done'[a]) = 1 /\ done'[a] # <<>>
  BY <1>6, OneAppended
<1>8. /\ \A g \in Handle \ {h} : sess'[g] = sess[g]
      /\ sess'[h].owner = sess[h].owner /\ sess'[h].rid = sess[h].rid
      /\ sess'[h].st = "answered"
  BY <1>1, <1>2 DEF Session
<1>9. \A b \in Addr \ {a} : chan[b].handle # h \/ ~ Active(chan[b])
  BY <1>3, <1>4, <1>5 DEF Due, Active
<1>10. Due(chan[a], a, sess', done'[a])
  BY <1>3, <1>4, <1>5, <1>7, <1>8 DEF Due, Active
<1>11. ASSUME NEW b \in Addr \ {a} PROVE Due(chan[b], b, sess', done'[b])
  <2>1. Due(chan[b], b, sess, done[b]) /\ chan[b].handle \in Handle \cup {NULL}
    BY <1>2, <1>4 DEF Channel
  <2>2. Active(chan[b]) => sess'[chan[b].handle] = sess[chan[b].handle]
    BY <1>8, <1>9, <2>1 DEF Due
  <2> QED
    BY <1>6, <2>1, <2>2 DEF Due, Active
<1>12. Owned(chan, sess')
  <2> SUFFICES ASSUME NEW g \in Handle, sess'[g].st # "free"
               PROVE  sess'[g].owner \in Addr /\ chan[sess'[g].owner].handle = g
    BY DEF Owned
  <2>1. sess[g].st # "free" /\ sess'[g].owner = sess[g].owner
    BY <1>1, <1>8
  <2> QED
    BY <2>1 DEF SessInv, SessOK, Owned
<1>13. Answers(chan[a], done[a], chan'[a], done'[a])
  BY <1>1, <1>5, <1>7 DEF Answers, PhaseOf, Active
<1>14. \A b \in Addr \ {a} : Shuts(chan[b], done[b], chan'[b], done'[b])
  BY <1>1, <1>6 DEF Shuts
<1>15. SessOK(chan', sess', done')
  BY <1>1, <1>10, <1>11, <1>12 DEF SessOK
<1> QED
  BY <1>1, <1>13, <1>14, <1>15 DEF SideStep, CellSteps, SessInv

---------------------------------------------------------------------------
(* A start *)

(* After the channels of rid r are stopped, none has it.                   *)
LEMMA ClearedSide ==
  ASSUME SessInv, NEW r \in Rid
  PROVE  /\ Passes(World, Cleared(r)) /\ NoneLeft(Cleared(r).chan)
         /\ \A a \in Addr : Cleared(r).chan[a].rid # r
<1> DEFINE old == Matching(World, r)
           z   == Cleared(r)
<1>1. PICK u : /\ z = StopAll(u, old)
               /\ WorldOK(u) /\ SameSide(World, u) /\ SameRefs(World, u)
               /\ u.posted = posted /\ u.channels = channels
               /\ \A a \in Addr : u.chan[a].call_backs = chan[a].call_backs
  BY SessInvParts, ClearedForm
<1> HIDE DEF z
<1>2. Passes(World, u) /\ NoneLeft(u.chan)
  BY <1>1, SessInvParts, SameSidePasses, SameSideLeft DEF SessInv
<1>3. old \subseteq Range(u.channels)
  BY <1>1, SessInvParts DEF Matching
<1> HIDE DEF old
<1>4. Passes(u, z) /\ NoneLeft(z.chan)
  BY <1>1, <1>2, <1>3, StopAllPasses, StopAllLeft DEF Passes
<1>5. ASSUME NEW a \in Addr PROVE z.chan[a].rid # r
  <2>1. u \in WorldType /\ u.chan \in [Addr -> Channel] /\ r # ""
    BY <1>1, DomainAssumption DEF WorldOK, WorldType
  <2>2. z.chan = [b \in Addr |-> IF b \in old THEN StopOne(u.chan[b]) ELSE u.chan[b]]
    <3>1. StoppedFields(u, old, z)
      BY <1>1, <2>1, StopAllFields
    <3> QED
      BY <3>1 DEF StoppedFields
  <2>3. CellsOK(chan) /\ SameChannel(chan[a], u.chan[a])
    BY <1>1, SessInvParts DEF SessInv, CallInv, CallsOK, SameSide
  <2>4. CASE a \in old
    <3> DEFINE x == u.chan[a]
    <3>1. x \in Channel /\ StopOne(x).status = StopOne(x).status
      BY <2>1
    <3>2. x.status \notin {"started", "working"} => x.rid = ""
      BY <2>3 DEF CellsOK, SameChannel
    <3>3. x.status # "started" => x.call_backs = <<>>
      BY <1>1, <2>3 DEF CellsOK, SameChannel
    <3> HIDE DEF x
    <3>4. StopOne(x).rid = ""
      BY <3>1, <3>2, <3>3, StopOneCells
    <3> QED
      BY <2>1, <2>2, <2>4, <3>4 DEF x
  <2>5. CASE a \notin old
    <3>1. z.chan[a] = u.chan[a]
      BY <2>2, <2>5
    <3>2. u.chan[a].rid = chan[a].rid
      BY <2>3 DEF SameChannel
    <3>3. a \in Range(channels) => chan[a].rid # r
      BY <2>5, SessInvParts DEF old, Matching
    <3>4. a \notin Range(channels) => chan[a].rid = ""
      BY <2>3, SessInvParts DEF CellsOK, RefInv, VectorIsHeap
    <3> QED
      BY <2>1, <3>1, <3>2, <3>3, <3>4
  <2> QED
    BY <2>4, <2>5
<1> QED
  BY <1>2, <1>4, <1>5, PassesTransitive DEF z

LEMMA OpenedSide ==
  ASSUME NEW w, WorldOK(w), SideOK(w), NEW c \in Call, NEW r \in Rid, NEW p \in Ports,
         NEW a \in Addr, NEW h \in Handle, w.chan[a].status = "free", w.sess[h].st = "free"
  PROVE  LET o == Opened(w, c, r, p, a, h) IN
         /\ SideOK(o) /\ Active(o.chan[a]) /\ o.chan[a].rid = r /\ o.chan[a].nref = 1
         /\ w.done[a] = <<>> /\ PhaseOf(o.chan[a], o.done[a]) = "due"
         /\ \A b \in Addr \ {a} : o.chan[b] = w.chan[b] /\ o.done[b] = w.done[b]
<1> DEFINE n == NewChannel(r, p, h, c)
           o == Opened(w, c, r, p, a, h)
           s == [st |-> "starting", owner |-> a, rid |-> r]
<1>1. /\ w \in WorldType /\ w.chan \in [Addr -> Channel] /\ w.sess \in [Handle -> Session]
      /\ NULL \notin Handle
  BY DomainAssumption DEF WorldOK, WorldType
<1>2. /\ n.status = "started" /\ n.handle = h /\ n.rid = r /\ n.nref = 1
  BY DEF NewChannel, NoChannel
<1>3. o.chan = [w.chan EXCEPT ![a] = n] /\ o.sess = [w.sess EXCEPT ![h] = s] /\ o.done = w.done
  BY <1>1 DEF Opened, WorldType
<1>4. s.st = "starting" /\ s.owner = a /\ s.rid = r
  OBVIOUS
<1> HIDE DEF n, o, s
<1>5. o.chan[a] = n /\ \A b \in Addr \ {a} : o.chan[b] = w.chan[b]
  BY <1>1, <1>3
<1>6. o.sess[h] = s /\ \A g \in Handle \ {h} : o.sess[g] = w.sess[g]
  BY <1>1, <1>3
<1>7. w.done[a] = <<>> /\ w.chan[a].handle = NULL
  BY DEF SideOK, SessOK, Due
<1>8. Due(o.chan[a], a, o.sess, o.done[a])
  BY <1>1, <1>2, <1>3, <1>4, <1>5, <1>6, <1>7 DEF Due, Active
<1>9. ASSUME NEW b \in Addr \ {a} PROVE Due(o.chan[b], b, o.sess, o.done[b])
  <2>1. Due(w.chan[b], b, w.sess, w.done[b]) /\ w.chan[b].handle \in Handle \cup {NULL}
    BY <1>1 DEF SideOK, SessOK, Channel
  <2>2. Active(w.chan[b]) => w.chan[b].handle # h
    BY <2>1 DEF Due, Active
  <2>3. Active(w.chan[b]) => o.sess[w.chan[b].handle] = w.sess[w.chan[b].handle]
    BY <1>6, <2>1, <2>2 DEF Due
  <2> QED
    BY <1>3, <1>5, <2>1, <2>3 DEF Due, Active
<1>10. Owned(o.chan, o.sess)
  <2> SUFFICES ASSUME NEW g \in Handle, o.sess[g].st # "free"
               PROVE  o.sess[g].owner \in Addr /\ o.chan[o.sess[g].owner].handle = g
    BY DEF Owned
  <2>1. CASE g = h
    BY <1>2, <1>4, <1>5, <1>6, <2>1
  <2>2. CASE g # h
    <3>1. w.sess[g].owner \in Addr /\ w.chan[w.sess[g].owner].handle = g
      BY <1>6, <2>2 DEF SideOK, SessOK, Owned
    <3>2. w.sess[g].owner # a
      BY <1>1, <1>7, <3>1
    <3> QED
      BY <1>5, <1>6, <2>2, <3>1, <3>2
  <2> QED
    BY <2>1, <2>2
<1>11. SideOK(o)
  BY <1>8, <1>9, <1>10 DEF SideOK, SessOK
<1> QED
  BY <1>2, <1>3, <1>5, <1>7, <1>11 DEF PhaseOf, Active, o

LEMMA StartNewSide ==
  ASSUME SessInv, NEW c \in Call, NEW r \in Rid, NEW p \in Ports, StartNew(c, r, p)
  PROVE  SideStep
<1> DEFINE w == Cleared(r)
<1>1. /\ Passes(World, w) /\ NoneLeft(w.chan) /\ \A a \in Addr : w.chan[a].rid # r
      /\ WorldOK(w) /\ OneRid(w.chan)
  <2>1. Passes(World, w) /\ WorldOK(w)
    BY ClearedSide, ClearedOK, SessInvParts
  <2> HIDE DEF w
  <2>2. OneRid(w.chan)
    BY <2>1, SessInvParts, RidsStayApart DEF Passes, SessInv
  <2> QED
    BY <2>1, <2>2, ClearedSide DEF w
<1>2. CASE \E a \in Addr, h \in Handle :
             /\ w.chan[a].status = "free" /\ w.sess[h].st = "free"
             /\ Become(CheckParallel(Opened(w, c, r, p, a, h), max_parallel))
  <2>1. PICK a \in Addr, h \in Handle :
             /\ w.chan[a].status = "free" /\ w.sess[h].st = "free"
             /\ Become(CheckParallel(Opened(w, c, r, p, a, h), max_parallel))
    BY <1>2
  <2> DEFINE o == Opened(w, c, r, p, a, h)
             z == CheckParallel(o, max_parallel)
  <2> HIDE DEF w
  <2>2. /\ SideOK(o) /\ Active(o.chan[a]) /\ o.chan[a].rid = r /\ o.chan[a].nref = 1
        /\ w.done[a] = <<>> /\ PhaseOf(o.chan[a], o.done[a]) = "due"
        /\ \A b \in Addr \ {a} : o.chan[b] = w.chan[b] /\ o.done[b] = w.done[b]
    BY <1>1, <2>1, OpenedSide DEF Passes
  <2>3. WorldOK(o)
    BY <1>1, <2>1, OpenedOK
  <2>4. Become(z)
    BY <2>1
  <2> HIDE DEF o
  <2>5. Passes(o, z) /\ NoneLeft(z.chan) /\ z.chan[a] = o.chan[a]
    BY <2>2, <2>3, CheckParallelPasses, CheckParallelLeft, CheckParallelSpares
  <2>6. chan' = z.chan /\ sess' = z.sess /\ done' = z.done
    BY <2>4 DEF Become
  <2> HIDE DEF z
  <2>7. OneRid(o.chan)
    <3> SUFFICES ASSUME NEW x \in Addr, NEW y \in Addr, x # y,
                        o.chan[x].rid = o.chan[y].rid, o.chan[x].rid # ""
                 PROVE  FALSE
      BY DEF OneRid
    <3>1. \A b \in Addr \ {a} : o.chan[b].rid = w.chan[b].rid /\ w.chan[b].rid # r
      BY <1>1, <2>2
    <3>2. x # a /\ y # a
      BY <2>2, <3>1
    <3> QED
      BY <1>1, <3>1, <3>2 DEF OneRid
  <2>8. OneRid(z.chan)
    BY <2>5, <2>7, RidsStayApart DEF Passes
  <2>9. Opens(chan[a], done[a], z.chan[a], z.done[a])
    <3>1. PhaseOf(w.chan[a], w.done[a]) = "none"
      BY <2>1, <2>2 DEF PhaseOf
    <3>2. Shuts(chan[a], done[a], w.chan[a], w.done[a])
      BY <1>1, SessInvParts DEF Passes, ShutsAll
    <3>3. PhaseOf(chan[a], done[a]) = "none"
      BY <3>1, <3>2 DEF Shuts
    <3>4. Shuts(o.chan[a], o.done[a], z.chan[a], z.done[a])
      BY <2>5 DEF Passes, ShutsAll
    <3>5. PhaseOf(z.chan[a], z.done[a]) = "due" /\ Active(z.chan[a])
      BY <2>2, <2>5, <3>4 DEF Shuts
    <3> QED
      BY <3>3, <3>5 DEF Opens
  <2>10. ASSUME NEW b \in Addr \ {a} PROVE Shuts(chan[b], done[b], z.chan[b], z.done[b])
    <3>1. Shuts(chan[b], done[b], w.chan[b], w.done[b])
      BY <1>1, SessInvParts DEF Passes, ShutsAll
    <3>2. Shuts(w.chan[b], w.done[b], z.chan[b], z.done[b])
      BY <2>2, <2>5 DEF Passes, ShutsAll
    <3> QED
      BY <3>1, <3>2 DEF Shuts
  <2> QED
    BY <2>5, <2>6, <2>8, <2>9, <2>10 DEF SideStep, CellSteps, Passes, SideOK
<1>3. CASE Become([w EXCEPT !.posted = Post(@, {c}, Failed)])
  <2> DEFINE z == [w EXCEPT !.posted = Post(@, {c}, Failed)]
  <2> HIDE DEF w
  <2>1. z.chan = w.chan /\ z.sess = w.sess /\ z.done = w.done
    BY <1>1 DEF WorldOK, WorldType
  <2>2. Become(z)
    BY <1>3
  <2> HIDE DEF z
  <2>3. Passes(World, z) /\ NoneLeft(z.chan)
    BY <1>1, <2>1 DEF Passes, SideOK, ShutsAll
  <2> QED
    BY <2>2, <2>3, QuietSide
<1> QED
  BY <1>2, <1>3 DEF StartNew

---------------------------------------------------------------------------
(* The theorems *)

LEMMA SessInvInit == Init => SessInv
<1> SUFFICES ASSUME Init
             PROVE  SessInv
  OBVIOUS
<1>1. CallInv
  BY CallInvInit
<1>2. /\ \A a \in Addr : /\ chan[a].status = "free" /\ chan[a].rid = ""
                         /\ chan[a].handle = NULL /\ done[a] = <<>>
      /\ \A h \in Handle : sess[h].st = "free"
  BY DEF Init, NoChannel, NoSession
<1>3. SessOK(chan, sess, done) /\ NoneLeft(chan) /\ OneRid(chan)
  BY <1>2 DEF SessOK, Due, Owned, Active, NoneLeft, OneRid
<1> QED
  BY <1>1, <1>3 DEF SessInv

LEMMA SideStepIs == SessInv /\ [Next]_vars => SideStep
<1> SUFFICES ASSUME SessInv, [Next]_vars
             PROVE  SideStep
  OBVIOUS
<1>1. CASE \E c \in Call : StartBadUrl(c) \/ StopChannel(c) \/ RunCallback(c)
  BY <1>1, StopChannelSide, UnchangedSide DEF StartBadUrl, RunCallback
<1>2. CASE \E c \in Call, r \in Rid, p \in Ports : StartNew(c, r, p) \/ StartShared(c, r, p)
  BY <1>2, StartNewSide, StartSharedSide
<1>3. CASE \E a \in Addr : HandleStartChannel(a)
  BY <1>3, HandleStartChannelSide
<1>4. CASE \E h \in Handle : ModuleAnswers(h)
  BY <1>4, ModuleAnswersSide
<1>5. CASE \E m \in MaxParallel : SetMaxParallel(m)
  BY <1>5, SetMaxParallelSide
<1>6. CASE \E failed \in SUBSET MayFail : HandleTimer(failed)
  BY <1>6, HandleTimerSide
<1>7. CASE Shutdown
  BY <1>7, ShutdownSide
<1>8. CASE UNCHANGED vars
  BY <1>8, UnchangedSide DEF vars
<1> QED
  BY <1>1, <1>2, <1>3, <1>4, <1>5, <1>6, <1>7, <1>8 DEF Next

LEMMA SessInvStep == SessInv /\ [Next]_vars => SessInv'
<1> SUFFICES ASSUME SessInv, [Next]_vars
             PROVE  SessInv'
  OBVIOUS
<1>1. CallInv'
  BY CallInvStep DEF SessInv
<1>2. SideStep
  BY SideStepIs
<1> QED
  BY <1>1, <1>2 DEF SideStep, SessInv

(* Sessions, callbacks and rids are in order after every handler.          *)
THEOREM SessInvHolds == Spec => []SessInv
BY SessInvInit, SessInvStep, PTL DEF Spec

(* A channel that runs holds a session of its own, and exactly one         *)
(* callback of the live module is outstanding while a start or a cancelled *)
(* start needs it, none otherwise.  So handle_start_channel, which looks a *)
(* channel up by its address, never answers another channel that was       *)
(* allocated in the same cell.                                             *)
THEOREM CallbackAlwaysDue == Spec => []CallbackDue
<1>1. SessInv => CallbackDue
  BY DEF SessInv, SessOK, Due, CallbackDue
<1> QED
  BY <1>1, SessInvHolds, PTL

(* No handler closes a channel and forgets its session: whatever is open   *)
(* in the live module belongs to a channel that still holds its handle.    *)
THEOREM SessionsStayOwned == Spec => []SessionsOwned
<1>1. SessInv => SessionsOwned
  BY DEF SessInv, SessOK, Owned, SessionsOwned
<1> QED
  BY <1>1, SessInvHolds, PTL

(* A stopped channel lives as long as somebody holds a handle to it and no *)
(* longer: check_parallel and handle_start_channel delete the others.      *)
THEOREM StoppedChannelsUsed == Spec => []StoppedHasUser
<1>1. SessInv => StoppedHasUser
  <2> SUFFICES ASSUME SessInv, NEW a \in Addr, chan[a].status = "stopped"
               PROVE  chan[a].nref > 0
    BY DEF StoppedHasUser
  <2>1. chan[a].nref \in Nat
    BY SessInvParts DEF RefInv, TypeOK, Channel
  <2>2. chan[a].nref # 0
    BY DEF SessInv, NoneLeft
  <2> QED
    BY <2>1, <2>2
<1> QED
  BY <1>1, SessInvHolds, PTL

(* start_channel finds what runs a rid or stops it before it opens another *)
(* channel for it, so no two channels ever run the same rid.               *)
THEOREM RidsRunOnce == Spec => []OneChannelPerRid
<1>1. SessInv => OneChannelPerRid
  BY SessInvParts DEF SessInv, OneRid, OneChannelPerRid, RefInv, VectorIsHeap
<1> QED
  BY <1>1, SessInvHolds, PTL

---------------------------------------------------------------------------
(* The contract with the live module *)

HasSession(a) == \E h \in Handle : sess[h].st # "free" /\ sess[h].owner = a

ChannelMoved(a, p, q, before, after) ==
  /\ ModulePhase(a) = p /\ ModulePhase(a)' = q
  /\ HasSession(a) = before /\ HasSession(a)' = after

ChannelStayed(a) ==
  ModulePhase(a)' = ModulePhase(a) /\ HasSession(a)' = HasSession(a)

LEMMA ChannelMoves ==
  ASSUME NEW a \in Addr, NEW p, NEW q, NEW before \in BOOLEAN, NEW after \in BOOLEAN,
         ChannelMoved(a, p, q, before, after)
  PROVE  ModuleSide!Moves(a, p, q, before, after)
BY DEF ChannelMoved, HasSession, ModuleSide!Moves

LEMMA ChannelStill ==
  ASSUME NEW a \in Addr, ChannelStayed(a)
  PROVE  ModuleSide!Still(a)
BY DEF ChannelStayed, HasSession, ModuleSide!Still

(* What StartContract knows of a channel is what the live module sees.     *)
LEMMA SideOfChannel ==
  ASSUME NEW ch \in [Addr -> Channel], NEW ss, NEW dn, SessOK(ch, ss, dn), NEW a \in Addr
  PROVE  /\ (IF dn[a] # <<>> THEN "posted"
             ELSE IF \E h \in Handle : ss[h].st = "starting" /\ ss[h].owner = a
             THEN "due" ELSE "none") = PhaseOf(ch[a], dn[a])
         /\ ~ \E h \in Handle : ss[h].st = "misused"
         /\ (\E h \in Handle : ss[h].st # "free" /\ ss[h].owner = a) <=> Active(ch[a])
<1> DEFINE x == ch[a]
<1>1. x \in Channel /\ NULL \notin Handle
  BY DomainAssumption
<1>2. Due(x, a, ss, dn[a])
  BY DEF SessOK
<1>3. x.status \in {"free", "started", "working", "cancel", "stopped"}
  BY <1>1 DEF Channel, Status
<1>4. ASSUME NEW h \in Handle, ss[h].st # "free", ss[h].owner = a
      PROVE  x.handle = h /\ Active(x)
  <2>1. x.handle = h
    BY <1>4 DEF SessOK, Owned
  <2> QED
    BY <1>1, <1>2, <1>3, <2>1 DEF Due, Active
<1>5. Active(x) => /\ x.handle \in Handle /\ ss[x.handle].owner = a
                   /\ ss[x.handle].st # "free"
  BY <1>1, <1>2 DEF Due, Active, Channel
<1>6. (\E h \in Handle : ss[h].st # "free" /\ ss[h].owner = a) <=> Active(x)
  BY <1>4, <1>5
<1>7. ASSUME NEW h \in Handle, ss[h].st = "misused" PROVE FALSE
  <2>1. ss[h].owner \in Addr /\ ch[ss[h].owner].handle = h
    BY <1>7 DEF SessOK, Owned
  <2> DEFINE b == ss[h].owner
  <2>2. Due(ch[b], b, ss, dn[b]) /\ ch[b] \in Channel /\ ch[b].handle = h
    BY <2>1 DEF SessOK
  <2> HIDE DEF b
  <2>3. ch[b].status \in {"free", "started", "working", "cancel", "stopped"}
    BY <2>2 DEF Channel, Status
  <2> QED
    BY <1>1, <1>7, <2>2, <2>3 DEF Due
<1>8. ASSUME dn[a] = <<>>
      PROVE  (\E h \in Handle : ss[h].st = "starting" /\ ss[h].owner = a)
               <=> x.status = "started"
  <2>1. ASSUME NEW h \in Handle, ss[h].st = "starting", ss[h].owner = a
        PROVE  x.status = "started"
    BY <1>2, <1>4, <2>1 DEF Due, Active
  <2>2. ASSUME x.status = "started"
        PROVE  x.handle \in Handle /\ ss[x.handle].st = "starting" /\ ss[x.handle].owner = a
    <3>1. Len(dn[a]) # 1
      BY <1>8
    <3> QED
      BY <1>2, <1>5, <2>2, <3>1 DEF Due, Active
  <2> QED
    BY <2>1, <2>2
<1> HIDE DEF x
<1> QED
  BY <1>6, <1>7, <1>8 DEF PhaseOf, x

LEMMA ChannelIs ==
  ASSUME SessInv, SideStep, CallInv', NEW a \in Addr
  PROVE  /\ ModulePhase(a) = PhaseOf(chan[a], done[a])
         /\ ModulePhase(a)' = PhaseOf(chan'[a], done'[a])
         /\ HasSession(a) = Active(chan[a]) /\ HasSession(a)' = Active(chan'[a])
         /\ Active(chan[a]) \in BOOLEAN /\ Active(chan'[a]) \in BOOLEAN
<1>1. chan \in [Addr -> Channel] /\ chan' \in [Addr -> Channel]
  BY DEF SessInv, CallInv, RefInv, TypeOK
<1>2. /\ ModulePhase(a) = PhaseOf(chan[a], done[a])
      /\ HasSession(a) <=> Active(chan[a])
  BY <1>1, SideOfChannel DEF SessInv, ModulePhase, HasSession
<1>3. /\ ModulePhase(a)' = PhaseOf(chan'[a], done'[a])
      /\ HasSession(a)' <=> Active(chan'[a])
  BY <1>1, SideOfChannel DEF SideStep, ModulePhase, HasSession
<1>4. /\ HasSession(a) \in BOOLEAN /\ HasSession(a)' \in BOOLEAN
      /\ Active(chan[a]) \in BOOLEAN /\ Active(chan'[a]) \in BOOLEAN
  BY DEF HasSession, Active
<1> QED
  BY <1>2, <1>3, <1>4

(* What a step does to a channel is a step of the contract.                *)
LEMMA ChannelStep ==
  ASSUME SessInv, SideStep, CallInv', NEW a \in Addr
  PROVE  \/ ChannelStayed(a)
         \/ ChannelMoved(a, "none", "due", FALSE, TRUE)
         \/ ChannelMoved(a, "none", "due", TRUE, TRUE)
         \/ ChannelMoved(a, "due", "posted", TRUE, TRUE)
         \/ ChannelMoved(a, "due", "posted", TRUE, FALSE)
         \/ \E p \in {"none", "posted"} : ChannelMoved(a, p, p, TRUE, FALSE)
         \/ \E b \in BOOLEAN : ChannelMoved(a, "posted", "none", b, b)
<1> DEFINE p == PhaseOf(chan[a], done[a])
           q == PhaseOf(chan'[a], done'[a])
           i == Active(chan[a])
           j == Active(chan'[a])
<1>1. /\ ModulePhase(a) = p /\ ModulePhase(a)' = q
      /\ HasSession(a) = i /\ HasSession(a)' = j /\ i \in BOOLEAN /\ j \in BOOLEAN
  BY ChannelIs
<1>2. p \in {"none", "due", "posted"}
  BY DEF PhaseOf
<1>3. \/ q = p /\ (j <=> i)
      \/ i /\ ~ j /\ q = IF p = "none" THEN "none" ELSE "posted"
      \/ p = "none" /\ q = "due" /\ j
      \/ p = "due" /\ q = "posted" /\ i /\ j
      \/ p = "posted" /\ q = "none" /\ (j <=> i)
  BY DEF SideStep, CellSteps, Shuts, Opens, Answers, Runs
<1> HIDE DEF p, q, i, j
<1> QED
  BY <1>1, <1>2, <1>3 DEF ChannelStayed, ChannelMoved

LEMMA ModuleContractInit == Init => ModuleSide!Init
<1> SUFFICES ASSUME Init
             PROVE  ModuleSide!Init
  OBVIOUS
<1>1. \A a \in Addr : /\ ModulePhase(a) = "none"
                      /\ (\E h \in Handle : sess[h].st # "free" /\ sess[h].owner = a) = FALSE
  BY DEF Init, ModulePhase, NoSession
<1> QED
  BY <1>1, Zenon DEF ModuleSide!Init

LEMMA ModuleContractStep ==
  ASSUME SessInv, [Next]_vars
  PROVE  ModuleSide!Next
<1>1. SideStep /\ CallInv'
  BY SideStepIs, CallInvStep DEF SessInv
<1>2. ASSUME NEW a \in Addr PROVE ModuleSide!Step(a) \/ ModuleSide!Still(a)
  BY <1>1, ChannelStep, ChannelMoves, ChannelStill, Zenon
    DEF ModuleSide!Step, ModuleSide!Start, ModuleSide!Answer, ModuleSide!Stop,
        ModuleSide!StopThenStart, ModuleSide!Run
<1>3. \A a \in Addr : ModulePhase(a)' \in ModuleSide!Phase
  BY <1>1, SessInvStep, ChannelIs DEF PhaseOf, ModuleSide!Phase
<1> QED
  BY <1>2, <1>3 DEF ModuleSide!Next

(* LiveManager keeps its side of the contract with the live module: what   *)
(* it stops is always an open handle, given to that very channel, and it   *)
(* starts in a cell only when the callback of the last start there has     *)
(* run, although cells and handles are reused and the live module answers  *)
(* when it likes.                                                          *)
THEOREM ModuleContractKept == Spec => UsesContract
<1>1. SessInv /\ [Next]_vars => [ModuleSide!Next]_(ModuleSide!vars)
  BY ModuleContractStep
<1> QED
  BY <1>1, ModuleContractInit, SessInvHolds, PTL DEF Spec, UsesContract, ModuleSide!Spec

---------------------------------------------------------------------------
(* What the callers are answered *)

(* Every success in s is for the rid u.                                    *)
OkFor(s, u) == \A k \in DOMAIN s : s[k].ec = "ok" => s[k].url = u

(* A channel that starts will be told the url of its rid, and whoever      *)
(* waits in its slots wants it; one that works streams it.                 *)
Serves(x, q, wt) ==
  /\ x.status = "started" =>
       /\ OkFor(q, x.rid)
       /\ \A k \in DOMAIN x.call_backs :
            x.call_backs[k] # NULL => wt[x.call_backs[k]] = x.rid
  /\ x.status = "working" /\ x.ec = "ok" => x.url = x.rid

ServedOK(w, wt) ==
  /\ \A a \in Addr : Serves(w.chan[a], w.done[a], wt)
  /\ \A c \in Call : OkFor(w.posted[c], wt[c])

LEMMA OkForAppend ==
  ASSUME NEW q \in Seq(Answer), NEW u, NEW m, OkFor(q, u), m.ec = "ok" => m.url = u
  PROVE  OkFor(Append(q, m), u)
<1>1. /\ DOMAIN q = 1 .. Len(q) /\ Len(q) \in Nat
      /\ DOMAIN Append(q, m) = 1 .. Len(q) + 1
      /\ \A k \in 1 .. Len(q) : Append(q, m)[k] = q[k]
      /\ Append(q, m)[Len(q) + 1] = m
  BY AppendProperties
<1> QED
  BY <1>1 DEF OkFor

(* Posting an answer that is right for those it goes to.                   *)
LEMMA PostServes ==
  ASSUME NEW D, NEW mail \in [D -> Seq(Answer)], NEW who, NEW m, NEW wt,
         \A x \in D : OkFor(mail[x], wt[x]),
         \A x \in D : x \in who /\ m.ec = "ok" => m.url = wt[x]
  PROVE  \A x \in D : OkFor(Post(mail, who, m)[x], wt[x])
<1> SUFFICES ASSUME NEW x \in D
             PROVE  OkFor(Post(mail, who, m)[x], wt[x])
  OBVIOUS
<1>1. Post(mail, who, m)[x] = IF x \in who THEN Append(mail[x], m) ELSE mail[x]
  BY DEF Post
<1> QED
  BY <1>1, OkForAppend

LEMMA AbortedIsNoSuccess == Aborted.ec # "ok" /\ Failed.ec # "ok"
BY DEF Aborted, Failed

LEMMA StopAllServes ==
  ASSUME NEW w, w \in WorldType, NEW S, NEW wt, ServedOK(w, wt)
  PROVE  ServedOK(StopAll(w, S), wt)
<1> DEFINE z == StopAll(w, S)
<1>1. StoppedFields(w, S, z)
  BY StopAllFields
<1> HIDE DEF z
<1>2. /\ w.chan \in [Addr -> Channel] /\ w.done \in [Addr -> Seq(Answer)]
      /\ w.posted \in [Call -> Seq(Answer)]
  BY DEF WorldType
<1>3. \A c \in Call : OkFor(z.posted[c], wt[c])
  <2>1. z.posted = Post(w.posted, Waiting(w, S), Aborted)
    BY <1>1 DEF StoppedFields
  <2> QED
    BY <1>2, <2>1, PostServes, AbortedIsNoSuccess DEF ServedOK
<1>4. ASSUME NEW a \in Addr PROVE Serves(z.chan[a], z.done[a], wt)
  <2>1. z.chan[a] = IF a \in S THEN StopOne(w.chan[a]) ELSE w.chan[a]
    BY <1>1 DEF StoppedFields
  <2>2. CASE a \in S
    <3>1. StopOne(w.chan[a]).status \notin {"started", "working"}
      <4> DEFINE x == w.chan[a]
      <4>1. x \in Channel
        BY <1>2
      <4> HIDE DEF x
      <4>2. x.status \in {"free", "started", "working", "cancel", "stopped"}
        BY <4>1 DEF Channel, Status
      <4>3. StopOne(x).status \notin {"started", "working"}
        BY <4>1, <4>2, StopOneSide
      <4> QED
        BY <4>3 DEF x
    <3> QED
      BY <2>1, <2>2, <3>1 DEF Serves
  <2>3. CASE a \notin S
    <3>1. z.done[a] = w.done[a] \/ z.done[a] = Append(w.done[a], Aborted)
      BY <1>1 DEF StoppedFields
    <3>2. Serves(w.chan[a], w.done[a], wt) /\ w.done[a] \in Seq(Answer)
      BY <1>2 DEF ServedOK
    <3>3. OkFor(w.done[a], w.chan[a].rid) => OkFor(z.done[a], w.chan[a].rid)
      BY <3>1, <3>2, OkForAppend, AbortedIsNoSuccess
    <3> QED
      BY <2>1, <2>3, <3>2, <3>3 DEF Serves
  <2> QED
    BY <2>2, <2>3
<1> QED
  BY <1>3, <1>4 DEF ServedOK, z

LEMMA CheckParallelServes ==
  ASSUME NEW w, w \in WorldType, NEW limit, NEW wt, ServedOK(w, wt)
  PROVE  ServedOK(CheckParallel(w, limit), wt)
<1>1. PICK S \in SUBSET Range(w.channels) : CheckParallel(w, limit) = StopAll(w, S)
  BY CheckParallelForm
<1> QED
  BY <1>1, StopAllServes

(* Helpers that leave channels, answers and slots alone.                   *)
LEMMA SameSideServes ==
  ASSUME NEW w, NEW v, NEW wt, ServedOK(w, wt), SameSide(w, v), v.posted = w.posted,
         \A a \in Addr : v.chan[a].call_backs = w.chan[a].call_backs
  PROVE  ServedOK(v, wt)
BY DEF ServedOK, Serves, SameSide, SameChannel

(* A call that waits nowhere may change its mind.                          *)
LEMMA WantChanges ==
  ASSUME SessInv, ServedOK(World, want), NEW c \in Call, ~ InSlot(chan, handle, c),
         NEW r, NEW po, NEW wt, wt = [want EXCEPT ![c] = r], po[c] = <<>>,
         \A d \in Call \ {c} : po[d] = posted[d]
  PROVE  ServedOK([World EXCEPT !.posted = po], wt)
<1> DEFINE v == [World EXCEPT !.posted = po]
<1>1. v.chan = chan /\ v.done = done /\ v.posted = po
  BY DEF World
<1> HIDE DEF v
<1>2. World.chan = chan /\ World.done = done /\ World.posted = posted
  BY DEF World
<1>3. /\ want \in [Call -> Rid \cup {"", NULL}] /\ chan \in [Addr -> Channel]
      /\ CallsOK(chan, posted, handle, want)
  BY CallInvTypes DEF SessInv, CallInv
<1>4. ASSUME NEW a \in Addr PROVE Serves(chan[a], done[a], wt)
  <2>1. \A k \in DOMAIN chan[a].call_backs :
          /\ chan[a].call_backs[k] # c
          /\ chan[a].call_backs[k] \in Call \cup {NULL}
    <3>1. \A k \in DOMAIN chan[a].call_backs : chan[a].call_backs[k] # c
      BY <1>3, NotInSlots
    <3>2. \A k \in DOMAIN chan[a].call_backs : chan[a].call_backs[k] \in Call \cup {NULL}
      BY <1>3, SlotType
    <3> QED
      BY <3>1, <3>2
  <2>2. \A d \in Call \ {c} : wt[d] = want[d]
    BY <1>3
  <2> QED
    BY <1>2, <2>1, <2>2 DEF ServedOK, Serves
<1>5. ASSUME NEW d \in Call PROVE OkFor(po[d], wt[d])
  <2>1. CASE d = c
    BY <2>1 DEF OkFor
  <2>2. CASE d # c
    BY <1>2, <1>3, <2>2 DEF ServedOK
  <2> QED
    BY <2>1, <2>2
<1> QED
  BY <1>1, <1>4, <1>5 DEF ServedOK, v

AnswersOK ==
  /\ \A a \in Addr : Serves(chan[a], done[a], want)
  /\ \A c \in Call : OkFor(posted[c], want[c])

ServedInv == SessInv /\ AnswersOK

LEMMA ServedInvParts ==
  ASSUME ServedInv
  PROVE  /\ SessInv /\ CallInv /\ RefInv /\ World \in WorldType /\ ServedOK(World, want)
         /\ chan \in [Addr -> Channel] /\ done \in [Addr -> Seq(Answer)]
         /\ posted \in [Call -> Seq(Answer)] /\ want \in [Call -> Rid \cup {"", NULL}]
         /\ CallsOK(chan, posted, handle, want)
<1>1. /\ SessInv /\ CallInv /\ RefInv /\ World \in WorldType
      /\ CallsOK(chan, posted, handle, want)
  BY SessInvParts DEF ServedInv, CallInv, WorldOK
<1>2. ServedOK(World, want)
  BY DEF ServedInv, AnswersOK, ServedOK, World
<1> QED
  BY <1>1, <1>2 DEF RefInv, TypeOK

LEMMA BecomeServes ==
  ASSUME NEW w, Become(w), ServedOK(w, want')
  PROVE  AnswersOK'
BY DEF Become, ServedOK, AnswersOK

LEMMA UnchangedServes ==
  ASSUME ServedInv, UNCHANGED <<chan, done, posted, want>>
  PROVE  AnswersOK'
BY DEF ServedInv, AnswersOK, Serves

(* A caller that may start waits nowhere and has nothing posted.           *)
LEMMA CallerIsNowhere ==
  ASSUME ServedInv, NEW c \in Call, want[c] = NULL, NEW r, NEW wt, wt = [want EXCEPT ![c] = r]
  PROVE  posted[c] = <<>> /\ ServedOK(World, wt) /\ wt[c] = r
<1>1. posted[c] = <<>> /\ ~ InSlot(chan, handle, c)
  BY ServedInvParts DEF CallsOK, InOnePlace
<1>2. [World EXCEPT !.posted = posted] = World
  BY DEF World
<1>3. ServedOK([World EXCEPT !.posted = posted], wt)
  BY <1>1, ServedInvParts, WantChanges
<1> QED
  BY <1>1, <1>2, <1>3, ServedInvParts

LEMMA StartBadUrlServes ==
  ASSUME ServedInv, NEW c \in Call, StartBadUrl(c)
  PROVE  AnswersOK'
<1>1. /\ want[c] = NULL /\ want' = [want EXCEPT ![c] = ""]
      /\ posted' = Post(posted, {c}, Failed) /\ chan' = chan /\ done' = done
  BY DEF StartBadUrl, CanCall
<1>2. ServedOK(World, want')
  BY <1>1, CallerIsNowhere
<1>3. \A d \in Call : OkFor(posted'[d], want'[d])
  BY <1>1, <1>2, ServedInvParts, PostServes, AbortedIsNoSuccess DEF ServedOK, World
<1> QED
  BY <1>1, <1>2, <1>3 DEF ServedOK, World, AnswersOK

LEMMA RunCallbackServes ==
  ASSUME ServedInv, NEW c \in Call, RunCallback(c)
  PROVE  AnswersOK'
<1>1. /\ posted[c] # <<>> /\ posted' = [posted EXCEPT ![c] = Tail(posted[c])]
      /\ want' = [want EXCEPT ![c] = NULL] /\ chan' = chan /\ done' = done
  BY DEF RunCallback
<1>2. Len(posted[c]) = 1 /\ ~ InSlot(chan, handle, c)
  BY <1>1, ServedInvParts DEF CallsOK, InOnePlace
<1>3. Tail(posted[c]) = <<>>
  <2>1. posted[c] \in Seq(Answer)
    BY ServedInvParts
  <2> QED
    BY <1>2, <2>1, TailOfOne
<1>4. posted'[c] = <<>> /\ \A d \in Call \ {c} : posted'[d] = posted[d]
  BY <1>1, <1>3, ServedInvParts
<1>5. ServedOK([World EXCEPT !.posted = posted'], want')
  BY <1>1, <1>2, <1>4, ServedInvParts, WantChanges
<1> QED
  BY <1>1, <1>5 DEF ServedOK, World, AnswersOK

LEMMA SetMaxParallelServes ==
  ASSUME ServedInv, NEW m \in MaxParallel, SetMaxParallel(m)
  PROVE  AnswersOK'
BY ServedInvParts, CheckParallelServes, BecomeServes DEF SetMaxParallel

LEMMA ShutdownServes ==
  ASSUME ServedInv, Shutdown
  PROVE  AnswersOK'
BY ServedInvParts, StopAllServes, BecomeServes DEF Shutdown

LEMMA HandleTimerServes ==
  ASSUME ServedInv, NEW failed, HandleTimer(failed)
  PROVE  AnswersOK'
<1> DEFINE front == SubSeq(channels, 1, WorkingEnd)
           bad   == {a \in Range(front) : chan[a].handle \in failed}
           p     == Partitioned(front, bad)
           w     == StopAll(p, bad)
           aged  == Aged(w)
           dead  == {a \in Unused(aged) : aged.chan[a].expire = 0}
<1>1. Become(StopAll(aged, dead)) /\ want' = want
  BY DEF HandleTimer, Expired
<1>2. WorldOK(p) /\ bad \subseteq Range(p.channels)
  <2>1. bad \subseteq Range(front)
    OBVIOUS
  <2> HIDE DEF bad
  <2> QED
    BY <2>1, PartitionedOK, ServedInvParts
<1>3. ServedOK(p, want)
  <2>1. p.chan = chan /\ p.done = done /\ p.posted = posted
    BY DEF Partitioned, World
  <2> HIDE DEF p
  <2> QED
    BY <2>1 DEF ServedInv, AnswersOK, ServedOK
<1> HIDE DEF p, bad
<1>4. WorldOK(w) /\ ServedOK(w, want)
  BY <1>2, <1>3, StopAllOK, StopAllServes DEF WorldOK
<1> HIDE DEF w
<1>5. WorldOK(aged) /\ ServedOK(aged, want)
  BY <1>4, AgedOK, AgedSame, SameSideServes
<1> HIDE DEF aged, dead
<1>6. ServedOK(StopAll(aged, dead), want)
  BY <1>5, StopAllServes DEF WorldOK
<1> QED
  BY <1>1, <1>6, BecomeServes

(* The SDK reports the outcome of the start of the rid the session has.    *)
LEMMA ModuleAnswersServes ==
  ASSUME ServedInv, NEW h \in Handle, ModuleAnswers(h)
  PROVE  AnswersOK'
<1> DEFINE a == sess[h].owner
<1>1. PICK m \in {Failed, [ec |-> "ok", url |-> sess[h].rid]} :
         /\ sess[h].st = "starting" /\ done' = Post(done, {a}, m)
         /\ chan' = chan /\ posted' = posted /\ want' = want
  BY DEF ModuleAnswers
<1>2. a \in Addr /\ chan[a].handle = h
  BY <1>1 DEF ServedInv, SessInv, SessOK, Owned
<1> HIDE DEF a
<1>3. m.ec = "ok" /\ chan[a].status = "started" => m.url = chan[a].rid
  <2>1. Due(chan[a], a, sess, done[a])
    BY <1>2 DEF ServedInv, SessInv, SessOK
  <2>2. m.ec = "ok" => m.url = sess[h].rid
    BY <1>1, AbortedIsNoSuccess
  <2> QED
    BY <1>2, <2>1, <2>2 DEF Due, Active
<1>4. ASSUME NEW b \in Addr PROVE Serves(chan'[b], done'[b], want')
  <2>1. Serves(chan[b], done[b], want) /\ done[b] \in Seq(Answer)
    BY ServedInvParts DEF ServedInv, AnswersOK
  <2>2. CASE b = a
    <3>1. done'[b] = Append(done[b], m)
      BY <1>1, <2>2, ServedInvParts DEF Post
    <3>2. chan[b].status = "started" => OkFor(done'[b], chan[b].rid)
      BY <1>3, <2>1, <2>2, <3>1, OkForAppend DEF Serves
    <3> QED
      BY <1>1, <2>1, <3>2 DEF Serves
  <2>3. CASE b # a
    <3>1. done'[b] = done[b]
      BY <1>1, <2>3, ServedInvParts DEF Post
    <3> QED
      BY <1>1, <2>1, <3>1
  <2> QED
    BY <2>2, <2>3
<1> QED
  BY <1>1, <1>4 DEF AnswersOK, ServedInv

LEMMA HandleStartChannelServes ==
  ASSUME ServedInv, NEW a \in Addr, HandleStartChannel(a)
  PROVE  AnswersOK'
<1> DEFINE m == Head(done[a])
           x == chan[a]
           d == [done EXCEPT ![a] = <<>>]
           w == [World EXCEPT !.done = d]
           z == Started(a, m)
<1>0. done[a] # <<>> /\ Become(z) /\ want' = want
  BY DEF HandleStartChannel
<1>1. /\ chan \in [Addr -> Channel] /\ done \in [Addr -> Seq(Answer)] /\ x \in Channel
      /\ posted \in [Call -> Seq(Answer)] /\ World \in WorldType
      /\ World.chan = chan /\ World.posted = posted
  BY ServedInvParts DEF World
<1>2. Due(x, a, sess, done[a])
  BY DEF ServedInv, SessInv, SessOK
<1>3. Len(done[a]) = 1 /\ (x.status = "cancel" \/ x.status = "started")
  <2>1. x.status \in {"free", "started", "working", "cancel", "stopped"}
    BY <1>1 DEF Channel, Status
  <2> QED
    BY <1>0, <1>2, <2>1 DEF Due
<1>4. Tail(done[a]) = <<>> /\ d \in [Addr -> Seq(Answer)] /\ m = done[a][1]
  <2>1. done[a] \in Seq(Answer) /\ <<>> \in Seq(Answer)
    BY <1>1
  <2> QED
    BY <1>1, <1>3, <2>1, TailOfOne, HeadTailProperties
<1>5. [World EXCEPT !.done[a] = Tail(@)] = w
  BY <1>4 DEF World
<1>6. /\ w \in WorldType /\ w.chan = chan /\ w.posted = posted /\ w.done = d
  BY <1>1, <1>4 DEF WorldType
<1>7. a \in Range(channels)
  BY <1>3, ServedInvParts DEF RefInv, VectorIsHeap
<1>8. /\ Serves(x, done[a], want) /\ \A b \in Addr \ {a} : Serves(chan[b], done[b], want)
      /\ \A c \in Call : OkFor(posted[c], want[c])
  BY DEF ServedInv, AnswersOK
<1> HIDE DEF w, m
<1>9. CASE x.status = "cancel"
  <2> DEFINE y == [x EXCEPT !.status = "stopped"]
             v == [w EXCEPT !.chan[a].status = "stopped"]
  <2>1. z = StopAll(v, {a})
    BY <1>5, <1>7, <1>9 DEF Started, Resolved
  <2>2. v.chan = [chan EXCEPT ![a] = y] /\ v.posted = posted /\ v.done = d
    BY <1>6, StatusFields DEF WorldType
  <2>3. y.status = "stopped" /\ y \in Channel
    BY <1>1 DEF Channel, Status
  <2>4. v \in WorldType
    <3>1. v = [w EXCEPT !.chan = [chan EXCEPT ![a] = y]]
      BY <1>6 DEF WorldType
    <3> HIDE DEF y, v
    <3> QED
      BY <1>1, <1>6, <2>3, <3>1 DEF WorldType
  <2> HIDE DEF v, y, x, z
  <2>5. v.chan[a] = y /\ \A b \in Addr \ {a} : v.chan[b] = chan[b] /\ v.done[b] = done[b]
    BY <1>1, <2>2
  <2>6. ServedOK(v, want)
    <3>1. Serves(v.chan[a], v.done[a], want)
      BY <2>3, <2>5 DEF Serves
    <3> QED
      BY <1>8, <2>2, <2>5, <3>1 DEF ServedOK
  <2>7. ServedOK(z, want)
    BY <2>1, <2>4, <2>6, StopAllServes
  <2> QED
    BY <1>0, <2>7, BecomeServes
<1>10. CASE x.status = "started"
  <2> DEFINE y1 == [x EXCEPT !.status = "working"]
             y  == [y1 EXCEPT !.ec = m.ec, !.url = m.url, !.call_backs = <<>>]
             v  == [w EXCEPT !.chan[a].status = "working"]
  <2>1. z = Responded(v, a, m)
    BY <1>5, <1>7, <1>10 DEF Started
  <2>2. v.chan = [chan EXCEPT ![a] = y1] /\ v.posted = posted /\ v.done = d
    BY <1>6, StatusFields DEF WorldType
  <2>3. y1.call_backs = x.call_backs /\ y1 \in Channel
    BY <1>1 DEF Channel, Status
  <2>4. /\ y.status = "working" /\ y.rid = x.rid /\ y.ec = m.ec /\ y.url = m.url
    BY <1>1 DEF Channel
  <2>5. v \in WorldType
    <3>1. v = [w EXCEPT !.chan = [chan EXCEPT ![a] = y1]]
      BY <1>6 DEF WorldType
    <3> HIDE DEF y1, v
    <3> QED
      BY <1>1, <1>6, <2>3, <3>1 DEF WorldType
  <2> HIDE DEF v, y1, z
  <2>6. v.chan[a] = y1 /\ \A b \in Addr \ {a} : v.chan[b] = chan[b]
    BY <1>1, <2>2
  <2>7. /\ z.chan = [v.chan EXCEPT ![a] =
              [v.chan[a] EXCEPT !.ec = m.ec, !.url = m.url, !.call_backs = <<>>]]
        /\ z.posted = Post(v.posted, Range(v.chan[a].call_backs), m) /\ z.done = v.done
    <3>1. Responded(v, a, m).done = v.done
      BY <2>5 DEF Responded, WorldType
    <3>2. /\ Responded(v, a, m).chan = [v.chan EXCEPT ![a] =
               [v.chan[a] EXCEPT !.ec = m.ec, !.url = m.url, !.call_backs = <<>>]]
          /\ Responded(v, a, m).posted = Post(v.posted, Range(v.chan[a].call_backs), m)
      BY <2>5, RespondedFields
    <3> QED
      BY <2>1, <3>1, <3>2
  <2>8. z.chan[a] = y /\ \A b \in Addr \ {a} : z.chan[b] = chan[b] /\ z.done[b] = done[b]
    BY <1>1, <2>2, <2>5, <2>6, <2>7 DEF WorldType
  <2>9. z.posted = Post(posted, Range(x.call_backs), m)
    BY <2>2, <2>3, <2>6, <2>7
  <2> HIDE DEF y, d
  <2>10. m.ec = "ok" => m.url = x.rid
    BY <1>3, <1>4, <1>8, <1>10 DEF Serves, OkFor
  <2>11. \A c \in Range(x.call_backs) : c # NULL => want[c] = x.rid
    BY <1>8, <1>10 DEF Serves, Range
  <2>12. \A c \in Call : OkFor(z.posted[c], want[c])
    <3>1. \A c \in Call : c \in Range(x.call_backs) /\ m.ec = "ok" => m.url = want[c]
      BY <2>10, <2>11, DomainAssumption
    <3> HIDE DEF x
    <3> QED
      BY <1>1, <1>8, <2>9, <3>1, PostServes
  <2>13. Serves(z.chan[a], z.done[a], want)
    BY <2>4, <2>8, <2>10 DEF Serves
  <2>14. ServedOK(z, want)
    BY <1>8, <2>8, <2>12, <2>13 DEF ServedOK
  <2> QED
    BY <1>0, <2>14, BecomeServes DEF z
<1> QED
  BY <1>3, <1>9, <1>10

LEMMA StopChannelServes ==
  ASSUME ServedInv, NEW c \in Call, StopChannel(c)
  PROVE  AnswersOK'
<1> DEFINE a == handle[c].channel
           t == handle[c].token
           v == IF HasSlot(a, t) THEN Swapped(World, a, t) ELSE World
           w == Released(c)
<1>1. /\ a # NULL /\ Become(CheckParallel(w, max_parallel)) /\ want' = want
      /\ handle' = [handle EXCEPT ![c] = NoHandle]
  BY DEF StopChannel
<1>2. a \in Addr /\ chan[a].nref \in Nat \ {0}
  BY <1>1, ServedInvParts, OneHolderLess
<1>3. a \in Range(channels) /\ t \in Nat
  BY <1>2, ServedInvParts DEF RefInv, VectorIsHeap, TypeOK, UserHandle
<1>4. v \in WorldType /\ ServedOK(v, want)
  <2>1. CASE HasSlot(a, t)
    <3>1. t \in DOMAIN chan[a].call_backs
      <4>1. /\ Len(chan[a].call_backs) \in Nat
            /\ DOMAIN chan[a].call_backs = 1 .. Len(chan[a].call_backs)
        <5> HIDE DEF a
        <5> QED
          BY <1>2, ServedInvParts, SlotType
      <4> QED
        BY <1>3, <2>1, <4>1 DEF HasSlot
    <3> DEFINE u == Swapped(World, a, t)
    <3>2. v = u
      BY <2>1
    <3> HIDE DEF v, a, t
    <3>0. RefInv /\ CallInv /\ HasSlot(a, t)
      BY <2>1, ServedInvParts
    <3>3. u \in WorldType
      BY <1>2, <1>3, <3>0, SwappedOK DEF WorldOK
    <3>4. SameSide(World, u)
      BY <1>2, ServedInvParts, SwappedSame
    <3>5. /\ u.chan[a].call_backs = [chan[a].call_backs EXCEPT ![t] = NULL]
          /\ \A b \in Addr \ {a} : u.chan[b] = chan[b]
          /\ u.posted = Post(posted, {chan[a].call_backs[t]}, Aborted)
      BY <1>2, <3>0, <3>1, SwappedFields
    <3> HIDE DEF u
    <3>6. \A d \in Call : OkFor(u.posted[d], want[d])
      <4>1. \A d \in Call : OkFor(posted[d], want[d])
        BY DEF ServedInv, AnswersOK
      <4> DEFINE who == {chan[a].call_backs[t]}
      <4> HIDE DEF who
      <4>2. \A d \in Call : OkFor(Post(posted, who, Aborted)[d], want[d])
        BY <4>1, ServedInvParts, PostServes, AbortedIsNoSuccess
      <4> QED
        BY <3>5, <4>2 DEF who
    <3>7. ASSUME NEW b \in Addr PROVE Serves(u.chan[b], u.done[b], want)
      <4>1. Serves(chan[b], done[b], want) /\ SameChannel(chan[b], u.chan[b]) /\ u.done = done
        BY <3>4 DEF ServedInv, AnswersOK, SameSide, World
      <4>2. \A k \in DOMAIN u.chan[b].call_backs :
               u.chan[b].call_backs[k] # NULL =>
                 k \in DOMAIN chan[b].call_backs /\ u.chan[b].call_backs[k] = chan[b].call_backs[k]
        BY <1>2, <3>5
      <4> QED
        BY <4>1, <4>2 DEF Serves, SameChannel
    <3> QED
      BY <3>2, <3>3, <3>6, <3>7 DEF ServedOK
  <2>2. CASE ~ HasSlot(a, t)
    BY <2>2, ServedInvParts
  <2> QED
    BY <2>1, <2>2
<1>5. \/ w = [v EXCEPT !.chan[a].nref = @ - 1]
      \/ w = ToFront([v EXCEPT !.chan[a].nref = @ - 1], a)
  BY DEF Released
<1>6. WorldOK(w)
  <2> HIDE DEF a
  <2> QED
    BY <1>2, ServedInvParts, ReleasedOK DEF a
<1> HIDE DEF v, w, a
<1>7. SameSide(v, w) /\ SameCells(v.chan, w.chan) /\ w.posted = v.posted
  BY <1>2, <1>4, <1>5, UnreferencedSame, UnreferencedFields
<1>8. ServedOK(w, want)
  BY <1>4, <1>7, SameSideServes DEF SameCells
<1>9. ServedOK(CheckParallel(w, max_parallel), want)
  BY <1>6, <1>8, CheckParallelServes DEF WorldOK
<1> QED
  BY <1>1, <1>9, BecomeServes

(* A caller that shares what runs is answered with what answers the        *)
(* others, or waits with them.                                             *)
LEMMA StartSharedServes ==
  ASSUME ServedInv, NEW c \in Call, NEW r \in Rid, NEW p \in Ports, StartShared(c, r, p)
  PROVE  AnswersOK'
<1>1. /\ want[c] = NULL /\ want' = [want EXCEPT ![c] = r]
      /\ \E a \in Matching(World, r) : Become(CheckParallel(Attached(c, a), max_parallel))
  BY DEF StartShared, CanCall
<1>2. PICK a \in Matching(World, r) : Become(CheckParallel(Attached(c, a), max_parallel))
  BY <1>1
<1> DEFINE w == Attached(c, a)
<1>3. a \in Range(channels) /\ chan[a].rid = r /\ a \in Addr
  BY ServedInvParts DEF Matching, World, RefInv, VectorIsHeap
<1>4. WorldOK(w) /\ SameSide(World, w)
  BY <1>3, ServedInvParts, AttachedOK, AttachedSame
<1>5. ServedOK(World, want') /\ want'[c] = r
  BY <1>1, CallerIsNowhere
<1>6. \A b \in Addr \ {a} : w.chan[b] = chan[b]
  BY <1>3, ServedInvParts, AttachedFields
<1>7. ServedOK(w, want')
  <2>1. CASE chan[a].status = "working"
    <3> DEFINE m == [ec |-> chan[a].ec, url |-> chan[a].url]
    <3>1. w.posted = Post(posted, {c}, m)
      BY <1>3, <2>1, ServedInvParts, AttachedSame
    <3>2. \A b \in Addr : w.chan[b].call_backs = chan[b].call_backs
      BY <1>3, <2>1, ServedInvParts, AttachedFields DEF SameCells
    <3>3. m.ec = "ok" => m.url = want'[c]
      BY <1>3, <1>5, <2>1 DEF ServedOK, Serves, World
    <3> HIDE DEF w, m
    <3>4. \A d \in Call : OkFor(w.posted[d], want'[d])
      <4>1. \A d \in Call : OkFor(posted[d], want'[d])
        BY <1>5 DEF ServedOK, World
      <4>2. \A d \in Call : d \in {c} /\ m.ec = "ok" => m.url = want'[d]
        BY <3>3
      <4> DEFINE wt == want'
      <4> HIDE DEF wt
      <4>3. \A d \in Call : OkFor(Post(posted, {c}, m)[d], wt[d])
        BY <4>1, <4>2, ServedInvParts, PostServes DEF wt
      <4> QED
        BY <3>1, <4>3 DEF wt
    <3>5. \A b \in Addr : Serves(w.chan[b], w.done[b], want')
      BY <1>4, <1>5, <3>2 DEF ServedOK, Serves, SameSide, SameChannel, World
    <3> QED
      BY <3>4, <3>5 DEF ServedOK
  <2>2. CASE chan[a].status # "working"
    <3>1. /\ w.posted = posted
          /\ w.chan[a].call_backs = Append(chan[a].call_backs, c)
      BY <1>3, <2>2, ServedInvParts, AttachedFields
    <3> HIDE DEF w
    <3>2. ASSUME NEW b \in Addr PROVE Serves(w.chan[b], w.done[b], want')
      <4>1. /\ Serves(chan[b], done[b], want') /\ SameChannel(chan[b], w.chan[b])
            /\ w.done = done
        BY <1>4, <1>5 DEF ServedOK, SameSide, World
      <4>2. CASE b = a
        <5>1. \A k \in DOMAIN w.chan[b].call_backs :
                 \/ /\ k \in DOMAIN chan[b].call_backs
                    /\ w.chan[b].call_backs[k] = chan[b].call_backs[k]
                 \/ w.chan[b].call_backs[k] = c
          <6>1. chan[a].call_backs \in Seq(Call \cup {NULL})
            BY <1>3, ServedInvParts, SlotType
          <6> DEFINE s == chan[a].call_backs
          <6>2. w.chan[b].call_backs = Append(s, c)
            BY <3>1, <4>2
          <6> HIDE DEF s
          <6>3. /\ DOMAIN s = 1 .. Len(s) /\ Len(s) \in Nat
                /\ DOMAIN Append(s, c) = 1 .. Len(s) + 1
                /\ \A k \in 1 .. Len(s) : Append(s, c)[k] = s[k]
                /\ Append(s, c)[Len(s) + 1] = c
            BY <6>1 DEF s
          <6>4. \A k \in DOMAIN Append(s, c) :
                   (k \in DOMAIN s /\ Append(s, c)[k] = s[k]) \/ Append(s, c)[k] = c
            BY <6>3
          <6> QED
            BY <4>2, <6>2, <6>4 DEF s
        <5> QED
          BY <1>3, <1>5, <4>1, <4>2, <5>1 DEF Serves, SameChannel
      <4>3. CASE b # a
        BY <1>6, <4>1, <4>3
      <4> QED
        BY <4>2, <4>3
    <3> QED
      BY <1>5, <3>1, <3>2 DEF ServedOK, World
  <2> QED
    BY <2>1, <2>2
<1> HIDE DEF w
<1>8. ServedOK(CheckParallel(w, max_parallel), want')
  BY <1>4, <1>7, CheckParallelServes DEF WorldOK
<1> QED
  BY <1>2, <1>8, BecomeServes DEF w

LEMMA StartNewServes ==
  ASSUME ServedInv, NEW c \in Call, NEW r \in Rid, NEW p \in Ports, StartNew(c, r, p)
  PROVE  AnswersOK'
<1> DEFINE w == Cleared(r)
<1>1. /\ want[c] = NULL /\ want' = [want EXCEPT ![c] = r]
      /\ \/ \E a \in Addr, h \in Handle :
              /\ w.chan[a].status = "free" /\ w.sess[h].st = "free"
              /\ Become(CheckParallel(Opened(w, c, r, p, a, h), max_parallel))
         \/ Become([w EXCEPT !.posted = Post(@, {c}, Failed)])
  BY DEF StartNew, CanCall
<1>2. ServedOK(World, want') /\ want'[c] = r
  BY <1>1, CallerIsNowhere
<1>3. ServedOK(w, want')
  <2> DEFINE old == Matching(World, r)
  <2>1. PICK u : /\ w = StopAll(u, old) /\ WorldOK(u) /\ SameSide(World, u)
                 /\ u.posted = posted
                 /\ \A a \in Addr : u.chan[a].call_backs = chan[a].call_backs
    BY ServedInvParts, ClearedForm
  <2> HIDE DEF w, old
  <2>2. World.chan = chan /\ World.posted = posted
    BY DEF World
  <2>3. ServedOK(u, want')
    BY <1>2, <2>1, <2>2, SameSideServes
  <2> QED
    BY <2>1, <2>3, StopAllServes DEF WorldOK
<1>4. WorldOK(w) /\ SideOK(w)
  BY ClearedSide, ClearedOK, ServedInvParts DEF Passes
<1>5. CASE \E a \in Addr, h \in Handle :
             /\ w.chan[a].status = "free" /\ w.sess[h].st = "free"
             /\ Become(CheckParallel(Opened(w, c, r, p, a, h), max_parallel))
  <2>1. PICK a \in Addr, h \in Handle :
             /\ w.chan[a].status = "free" /\ w.sess[h].st = "free"
             /\ Become(CheckParallel(Opened(w, c, r, p, a, h), max_parallel))
    BY <1>5
  <2> DEFINE o == Opened(w, c, r, p, a, h)
             n == NewChannel(r, p, h, c)
  <2> HIDE DEF w
  <2>2. WorldOK(o)
    BY <1>4, <2>1, OpenedOK
  <2>3. w.done[a] = <<>> /\ \A b \in Addr \ {a} : o.chan[b] = w.chan[b]
    BY <1>4, <2>1, OpenedSide
  <2>4. o.chan[a] = n /\ o.done = w.done /\ o.posted = w.posted
    BY <1>4 DEF Opened, WorldOK, WorldType
  <2>5. n.status = "started" /\ n.rid = r /\ n.call_backs = <<c>>
    BY DEF NewChannel, NoChannel
  <2> HIDE DEF o, n
  <2>6. Serves(o.chan[a], o.done[a], want')
    BY <1>2, <2>3, <2>4, <2>5 DEF Serves, OkFor
  <2>7. ServedOK(o, want')
    BY <1>3, <2>3, <2>4, <2>6 DEF ServedOK
  <2>8. ServedOK(CheckParallel(o, max_parallel), want')
    BY <2>2, <2>7, CheckParallelServes DEF WorldOK
  <2> QED
    BY <2>1, <2>8, BecomeServes DEF o
<1>6. CASE Become([w EXCEPT !.posted = Post(@, {c}, Failed)])
  <2> DEFINE z == [w EXCEPT !.posted = Post(@, {c}, Failed)]
  <2> HIDE DEF w
  <2>1. /\ z.chan = w.chan /\ z.done = w.done
        /\ z.posted = Post(w.posted, {c}, Failed) /\ w.posted \in [Call -> Seq(Answer)]
    BY <1>4 DEF WorldOK, WorldType
  <2>2. Become(z)
    BY <1>6
  <2> HIDE DEF z
  <2>3. \A d \in Call : OkFor(z.posted[d], want'[d])
    BY <1>3, <2>1, PostServes, AbortedIsNoSuccess DEF ServedOK
  <2>4. ServedOK(z, want')
    BY <1>3, <2>1, <2>3 DEF ServedOK
  <2> QED
    BY <2>2, <2>4, BecomeServes
<1> QED
  BY <1>1, <1>5, <1>6

LEMMA ServedInvInit == Init => ServedInv
<1> SUFFICES ASSUME Init
             PROVE  ServedInv
  OBVIOUS
<1>1. \A a \in Addr : chan[a].status = "free"
  BY DEF Init, NoChannel
<1>2. \A c \in Call : posted[c] = <<>>
  BY DEF Init
<1> QED
  BY <1>1, <1>2, SessInvInit DEF ServedInv, AnswersOK, Serves, OkFor

LEMMA AnswersStep == ServedInv /\ [Next]_vars => AnswersOK'
<1> SUFFICES ASSUME ServedInv, [Next]_vars
             PROVE  AnswersOK'
  OBVIOUS
<1>1. CASE \E c \in Call : StartBadUrl(c) \/ StopChannel(c) \/ RunCallback(c)
  BY <1>1, StartBadUrlServes, StopChannelServes, RunCallbackServes
<1>2. CASE \E c \in Call, r \in Rid, p \in Ports : StartNew(c, r, p) \/ StartShared(c, r, p)
  BY <1>2, StartNewServes, StartSharedServes
<1>3. CASE \E a \in Addr : HandleStartChannel(a)
  BY <1>3, HandleStartChannelServes
<1>4. CASE \E h \in Handle : ModuleAnswers(h)
  BY <1>4, ModuleAnswersServes
<1>5. CASE \E m \in MaxParallel : SetMaxParallel(m)
  BY <1>5, SetMaxParallelServes
<1>6. CASE \E failed \in SUBSET MayFail : HandleTimer(failed)
  BY <1>6, HandleTimerServes
<1>7. CASE Shutdown
  BY <1>7, ShutdownServes
<1>8. CASE UNCHANGED vars
  BY <1>8, UnchangedServes DEF vars
<1> QED
  BY <1>1, <1>2, <1>3, <1>4, <1>5, <1>6, <1>7, <1>8 DEF Next

LEMMA ServedInvStep == ServedInv /\ [Next]_vars => ServedInv'
BY AnswersStep, SessInvStep DEF ServedInv

(* A success posted to a caller carries the url of the rid it asked for,   *)
(* whoever else shares the channel, whatever ran in its cell before, and   *)
(* however late the live module answers.                                   *)
THEOREM CallersServedRight == Spec => []ServedWhatAsked
<1>1. ServedInv => ServedWhatAsked
  BY DEF ServedInv, AnswersOK, OkFor, ServedWhatAsked
<1> QED
  BY <1>1, ServedInvInit, ServedInvStep, PTL DEF Spec
=============================================================================
