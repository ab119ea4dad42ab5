---------------------- MODULE LiveManagerCallbackProofs ----------------------
(***************************************************************************)
(* Proofs about the callbacks of LiveManager's users: each waits in one    *)
(* place, and LiveManager keeps StartContract towards its users.           *)
(*                                                                         *)
(* The lemmas speak of a heap ch, the queue po of the io_service, and the  *)
(* handles hd and wanted rids wt of the users, so that they apply to what  *)
(* one helper hands to the next as well as to the variables.               *)
(***************************************************************************)
EXTENDS LiveManagerProofs

(* Only a channel that is starting has slots, and one that was stopped is  *)
(* not found by its rid any more.                                          *)
CellsOK(ch) ==
  \A a \in Addr :
    /\ ch[a].status # "started" => ch[a].call_backs = <<>>
    /\ ch[a].status \notin {"started", "working"} => ch[a].rid = ""

(* A handle of a channel that is starting names a slot that is there, so   *)
(* that the next slot is nobody's.                                         *)
TokensOld(ch, hd) ==
  \A c \in Call : hd[c].channel # NULL =>
    (ch[hd[c].channel].status = "started" =>
      hd[c].token <= Len(ch[hd[c].channel].call_backs))

(* A slot that is not empty is the one its caller's handle names.          *)
SlotsNamed(ch, hd) ==
  \A a \in Addr : \A k \in DOMAIN ch[a].call_backs :
    ch[a].call_backs[k] # NULL =>
      hd[ch[a].call_backs[k]] = [channel |-> a, token |-> k]

Slots(ch, hd, c)  == IF hd[c].channel = NULL THEN <<>> ELSE ch[hd[c].channel].call_backs
InSlot(ch, hd, c) == hd[c].token \in DOMAIN Slots(ch, hd, c)

(* The callback of c is in one place if it is owed, and nowhere if not.    *)
InOnePlace(ch, po, hd, wt, c) ==
  /\ InSlot(ch, hd, c) => Slots(ch, hd, c)[hd[c].token] = c
  /\ IF wt[c] = NULL THEN po[c] = <<>> /\ ~ InSlot(ch, hd, c)
     ELSE \/ Len(po[c]) = 1 /\ ~ InSlot(ch, hd, c)
          \/ po[c] = <<>> /\ InSlot(ch, hd, c)

CallsOK(ch, po, hd, wt) ==
  /\ CellsOK(ch) /\ TokensOld(ch, hd) /\ SlotsNamed(ch, hd)
  /\ \A c \in Call : InOnePlace(ch, po, hd, wt, c)

(* Nothing is posted but to who waits, and nothing posted is taken back.   *)
Posts(before, after, wanted) ==
  after = before \/ (before = <<>> /\ wanted # NULL /\ after # <<>>)
PostsTo(po, po2, wt) == \A c \in Call : Posts(po[c], po2[c], wt[c])

(* What happens to others leaves a callback where it is.                   *)
Undisturbed(ch, po, hd, wt, ch2, po2, hd2, wt2, c) ==
  /\ po2[c] = po[c] /\ wt2[c] = wt[c]
  /\ InSlot(ch2, hd2, c) <=> InSlot(ch, hd, c)
  /\ InSlot(ch2, hd2, c) => Slots(ch2, hd2, c)[hd2[c].token] = c

LEMMA SamePlace ==
  ASSUME NEW ch, NEW po, NEW hd, NEW wt, NEW ch2, NEW po2, NEW hd2, NEW wt2, NEW c,
         InOnePlace(ch, po, hd, wt, c), Undisturbed(ch, po, hd, wt, ch2, po2, hd2, wt2, c)
  PROVE  InOnePlace(ch2, po2, hd2, wt2, c)
BY DEF InOnePlace, Undisturbed

LEMMA PostsToTransitive ==
  ASSUME NEW po, NEW po1, NEW po2, NEW wt, PostsTo(po, po1, wt), PostsTo(po1, po2, wt)
  PROVE  PostsTo(po, po2, wt)
BY DEF PostsTo, Posts

---------------------------------------------------------------------------
(* What the helpers do to the callbacks *)

(* The slots of the channels in F are emptied and their callbacks posted.  *)
Flushed(ch, po, ch2, po2, F, m) ==
  /\ \A a \in Addr : ch2[a].call_backs = IF a \in F THEN <<>> ELSE ch[a].call_backs
  /\ \A a \in Addr : ch2[a].status = "started" => a \notin F /\ ch[a].status = "started"
  /\ po2 = Post(po, UNION {Range(ch[a].call_backs) : a \in F}, m)

LEMMA OneAppended ==
  ASSUME NEW x
  PROVE  Append(<<>>, x) # <<>> /\ Len(Append(<<>>, x)) = 1
<1>1. <<>> \in Seq({x}) /\ x \in {x}
  OBVIOUS
<1> QED
  BY <1>1, AppendProperties

LEMMA FlushKeeps ==
  ASSUME NEW ch \in [Addr -> Channel], NEW po \in [Call -> Seq(Answer)],
         NEW hd \in [Call -> UserHandle], NEW wt, CallsOK(ch, po, hd, wt),
         NEW F \in SUBSET Addr, NEW m \in Answer, NEW ch2, NEW po2,
         Flushed(ch, po, ch2, po2, F, m), CellsOK(ch2)
  PROVE  CallsOK(ch2, po2, hd, wt) /\ PostsTo(po, po2, wt)
<1> DEFINE who == UNION {Range(ch[a].call_backs) : a \in F}
           hit(c) == hd[c].channel \in F /\ InSlot(ch, hd, c)
<1>1. NULL \notin Addr /\ NULL \notin Call
  BY DomainAssumption
<1>2. \A a \in Addr : ch[a].call_backs \in Seq(Call \cup {NULL})
  BY DEF Channel
<1>3. \A c \in Call : hd[c].channel \in Addr \cup {NULL}
  BY DEF UserHandle
<1>4. ASSUME NEW c \in Call PROVE c \in who <=> hit(c)
  <2>1. ASSUME c \in who PROVE hit(c)
    <3>1. PICK a \in F : c \in Range(ch[a].call_backs)
      BY <2>1
    <3>2. PICK k \in DOMAIN ch[a].call_backs : ch[a].call_backs[k] = c
      BY <3>1 DEF Range
    <3>3. hd[c] = [channel |-> a, token |-> k]
      BY <1>1, <3>2 DEF CallsOK, SlotsNamed
    <3> QED
      BY <1>1, <3>2, <3>3 DEF InSlot, Slots
  <2>2. ASSUME hit(c) PROVE c \in who
    <3> DEFINE a == hd[c].channel
    <3>1. a \in F /\ a # NULL /\ InSlot(ch, hd, c)
      BY <1>1, <2>2
    <3>2. hd[c].token \in DOMAIN ch[a].call_backs /\ ch[a].call_backs[hd[c].token] = c
      BY <3>1 DEF CallsOK, InOnePlace, InSlot, Slots
    <3>3. c \in Range(ch[a].call_backs)
      BY <3>2 DEF Range
    <3> QED
      BY <3>1, <3>3
  <2> QED
    BY <2>1, <2>2
<1>5. \A c \in Call : po2[c] = IF c \in who THEN Append(po[c], m) ELSE po[c]
  BY DEF Flushed, Post
<1> HIDE DEF who
<1>6. ASSUME NEW c \in Call, hit(c)
      PROVE  /\ ~ InSlot(ch2, hd, c)
             /\ po[c] = <<>> /\ wt[c] # NULL /\ Len(po2[c]) = 1 /\ po2[c] # <<>>
  <2>1. po[c] = <<>> /\ wt[c] # NULL
    BY <1>6 DEF CallsOK, InOnePlace
  <2>2. Slots(ch2, hd, c) = <<>>
    BY <1>1, <1>6 DEF Flushed, Slots
  <2>3. po2[c] = Append(<<>>, m)
    BY <1>4, <1>5, <1>6, <2>1
  <2> QED
    BY <2>1, <2>2, <2>3, OneAppended DEF InSlot
<1>7. ASSUME NEW c \in Call, ~ hit(c)
      PROVE  /\ po2[c] = po[c] /\ (InSlot(ch2, hd, c) <=> InSlot(ch, hd, c))
             /\ InSlot(ch2, hd, c) => Slots(ch2, hd, c) = Slots(ch, hd, c)
  <2>1. po2[c] = po[c]
    BY <1>4, <1>5, <1>7
  <2>2. CASE hd[c].channel \in F
    <3>1. ~ InSlot(ch, hd, c) /\ Slots(ch2, hd, c) = <<>>
      BY <1>1, <1>7, <2>2 DEF Flushed, Slots
    <3> QED
      BY <2>1, <3>1 DEF InSlot
  <2>3. CASE hd[c].channel \notin F
    <3>1. Slots(ch2, hd, c) = Slots(ch, hd, c)
      BY <1>3, <2>3 DEF Flushed, Slots
    <3> QED
      BY <2>1, <3>1 DEF InSlot
  <2> QED
    BY <2>2, <2>3
<1>8. SlotsNamed(ch2, hd)
  BY DEF SlotsNamed, CallsOK, Flushed
<1>9. ASSUME NEW c \in Call PROVE InOnePlace(ch2, po2, hd, wt, c)
  <2>1. InOnePlace(ch, po, hd, wt, c)
    BY DEF CallsOK
  <2>2. CASE hit(c)
    BY <1>6, <2>2 DEF InOnePlace
  <2>3. CASE ~ hit(c)
    BY <1>7, <2>1, <2>3 DEF InOnePlace
  <2> QED
    BY <2>2, <2>3
<1>10. PostsTo(po, po2, wt)
  BY <1>6, <1>7 DEF PostsTo, Posts
<1>11. TokensOld(ch2, hd)
  BY <1>1, <1>3 DEF TokensOld, CallsOK, Flushed
<1> QED
  BY <1>8, <1>9, <1>10, <1>11 DEF CallsOK

(* A helper that leaves slots, states and rids alone.                      *)
SameCells(ch, ch2) ==
  \A a \in Addr : /\ ch2[a].call_backs = ch[a].call_backs
                  /\ ch2[a].status = ch[a].status /\ ch2[a].rid = ch[a].rid

LEMMA SameCellsKeep ==
  ASSUME NEW ch, NEW po, NEW hd \in [Call -> UserHandle], NEW wt, CallsOK(ch, po, hd, wt),
         NEW ch2, SameCells(ch, ch2)
  PROVE  CallsOK(ch2, po, hd, wt)
<1>1. \A c \in Call : hd[c].channel \in Addr \cup {NULL}
  BY DEF UserHandle
<1>2. \A c \in Call : Slots(ch2, hd, c) = Slots(ch, hd, c)
  BY <1>1 DEF Slots, SameCells
<1>3. CellsOK(ch2)
  BY DEF CallsOK, CellsOK, SameCells
<1>4. SlotsNamed(ch2, hd)
  <2>1. SlotsNamed(ch, hd)
    BY DEF CallsOK
  <2> SUFFICES ASSUME NEW a \in Addr, NEW k \in DOMAIN ch2[a].call_backs,
                      ch2[a].call_backs[k] # NULL
               PROVE  hd[ch2[a].call_backs[k]] = [channel |-> a, token |-> k]
    BY DEF SlotsNamed
  <2>2. ch2[a].call_backs = ch[a].call_backs
    BY DEF SameCells
  <2> QED
    BY <2>1, <2>2 DEF SlotsNamed
<1>5. TokensOld(ch2, hd)
  BY <1>1 DEF CallsOK, TokensOld, SameCells
<1> QED
  BY <1>2, <1>3, <1>4, <1>5 DEF CallsOK, InOnePlace, InSlot

(* The private stop_channel answers who waits on what it cancels, and      *)
(* nobody waits on the rest of what it stops.                              *)
LEMMA StopOneForms ==
  ASSUME NEW x \in Channel
  PROVE  /\ Deletable(x) => StopOne(x) = NoChannel
         /\ x.status = "started" =>
              /\ StopOne(x).call_backs = <<>> /\ StopOne(x).rid = ""
              /\ StopOne(x).status = "cancel"
         /\ x.status = "working" /\ ~ Deletable(x) => StopOne(x) = Closed(x, "stopped")
         /\ x.status \notin {"started", "working"} /\ ~ Deletable(x) => StopOne(x) = x
<1>1. x.nref \in Nat
  BY DEF Channel
<1>2. ASSUME Deletable(x) PROVE StopOne(x) = NoChannel
  BY <1>2 DEF StopOne, Deletable
<1>3. ASSUME x.status = "started"
      PROVE  /\ StopOne(x).call_backs = <<>> /\ StopOne(x).rid = ""
             /\ StopOne(x).status = "cancel"
  <2>1. StopOne(x) =
          [Closed(x, "cancel") EXCEPT !.ec = "aborted", !.url = NULL, !.call_backs = <<>>]
    BY <1>3 DEF StopOne, Deletable
  <2> QED
    BY <2>1 DEF Closed, Channel
<1>4. ASSUME x.status = "working", ~ Deletable(x) PROVE StopOne(x) = Closed(x, "stopped")
  <2>1. x.nref > 0
    BY <1>1, <1>4 DEF Deletable
  <2> QED
    BY <1>4, <2>1 DEF StopOne
<1>5. ASSUME x.status \notin {"started", "working"}, ~ Deletable(x) PROVE StopOne(x) = x
  BY <1>5 DEF StopOne
<1> QED
  BY <1>2, <1>3, <1>4, <1>5

LEMMA StopOneCells ==
  ASSUME NEW x \in Channel,
         x.status # "started" => x.call_backs = <<>>,
         x.status \notin {"started", "working"} => x.rid = ""
  PROVE  /\ StopOne(x).call_backs = <<>>
         /\ StopOne(x).status \notin {"started", "working"} /\ StopOne(x).rid = ""
<1>1. /\ NoChannel.call_backs = <<>> /\ NoChannel.rid = "" /\ NoChannel.status = "free"
      /\ Closed(x, "stopped").call_backs = x.call_backs
      /\ Closed(x, "stopped").rid = "" /\ Closed(x, "stopped").status = "stopped"
  BY DEF NoChannel, Closed, Channel
<1> QED
  BY <1>1, StopOneForms

Keeps(w, v, hd, wt) ==
  CallsOK(v.chan, v.posted, hd, wt) /\ PostsTo(w.posted, v.posted, wt)

LEMMA StopAllKeeps ==
  ASSUME NEW w, WorldOK(w), NEW S, S \subseteq Range(w.channels),
         NEW hd \in [Call -> UserHandle], NEW wt, CallsOK(w.chan, w.posted, hd, wt)
  PROVE  Keeps(w, StopAll(w, S), hd, wt)
<1> DEFINE z == StopAll(w, S)
           F == {a \in S : w.chan[a].status = "started"}
           c  == CloseSessions(w, Running(w, S))
           ch == [a \in Addr |-> IF a \in S THEN StopOne(w.chan[a]) ELSE w.chan[a]]
           p  == Post(w.posted, Waiting(w, S), Aborted)
<1>1. /\ w \in WorldType /\ w.chan \in [Addr -> Channel]
      /\ w.posted \in [Call -> Seq(Answer)] /\ S \subseteq Addr
  BY DEF WorldOK, WorldType
<1>2. z.chan = ch /\ z.posted = p
  <2>1. c \in WorldType
    BY <1>1, CloseSessionsType
  <2>2. z = [c EXCEPT !.chan = ch, !.channels = Erase(w.channels, {a \in S : Deletable(w.chan[a])}),
                      !.posted = p]
    BY DEF StopAll
  <2> HIDE DEF c, ch, p, z
  <2> QED
    BY <2>1, <2>2 DEF WorldType
<1>3. CellsOK(w.chan)
  BY DEF CallsOK
<1>4. \A a \in S : /\ ch[a].call_backs = <<>> /\ ch[a].rid = ""
                   /\ ch[a].status \notin {"started", "working"}
  BY <1>1, <1>3, StopOneCells DEF CellsOK
<1>5. CellsOK(z.chan)
  <2>1. \A a \in Addr : a \notin S => ch[a] = w.chan[a]
    OBVIOUS
  <2> HIDE DEF ch, z
  <2> QED
    BY <1>2, <1>3, <1>4, <2>1 DEF CellsOK
<1>6. Flushed(w.chan, w.posted, z.chan, z.posted, F, Aborted)
  <2>1. \A a \in Addr : ch[a].call_backs = IF a \in F THEN <<>> ELSE w.chan[a].call_backs
    BY <1>1, <1>3, <1>4 DEF CellsOK
  <2>2. \A a \in Addr : ch[a].status = "started" => a \notin F /\ w.chan[a].status = "started"
    BY <1>1, <1>4
  <2>3. p = Post(w.posted, UNION {Range(w.chan[a].call_backs) : a \in F}, Aborted)
    BY DEF Waiting
  <2> QED
    BY <1>2, <2>1, <2>2, <2>3 DEF Flushed
<1> HIDE DEF z, F
<1>7. F \in SUBSET Addr
  BY <1>1 DEF F
<1> QED
  BY <1>1, <1>5, <1>6, <1>7, AnswerTypes, FlushKeeps DEF Keeps, z

LEMMA CheckParallelKeeps ==
  ASSUME NEW w, WorldOK(w), NEW limit,
         NEW hd \in [Call -> UserHandle], NEW wt, CallsOK(w.chan, w.posted, hd, wt)
  PROVE  Keeps(w, CheckParallel(w, limit), hd, wt)
<1> DEFINE left  == LeftSize(limit, Cardinality(Users(w)))
           evict == {i \in DOMAIN w.channels :
                       /\ w.chan[w.channels[i]].nref = 0
                       /\ \/ Stopped(w.chan[w.channels[i]])
                          \/ IdleUpTo(w, i) > left}
           S     == {w.channels[i] : i \in evict}
<1>1. CheckParallel(w, limit) = StopAll(w, S)
  BY DEF CheckParallel
<1>2. S \subseteq Range(w.channels)
  BY DEF Range
<1> QED
  BY <1>1, <1>2, StopAllKeeps

---------------------------------------------------------------------------
(* A call is made, and a call is stopped *)

LEMMA SlotType ==
  ASSUME NEW ch \in [Addr -> Channel], NEW a \in Addr
  PROVE  /\ ch[a].call_backs \in Seq(Call \cup {NULL})
         /\ Len(ch[a].call_backs) \in Nat
         /\ DOMAIN ch[a].call_backs = 1 .. Len(ch[a].call_backs)
         /\ \A k \in DOMAIN ch[a].call_backs : ch[a].call_backs[k] \in Call \cup {NULL}
<1>1. ch[a].call_backs \in Seq(Call \cup {NULL})
  BY DEF Channel
<1> QED
  BY <1>1, LenProperties, ElementOfSeq

(* z is s with c in the new slot n.                                        *)
Extends(s, n, c, z) ==
  /\ n \in Nat /\ n \notin DOMAIN s /\ n <= n
  /\ Len(z) = n /\ DOMAIN z = DOMAIN s \cup {n}
  /\ z[n] = c /\ \A k \in DOMAIN s : z[k] = s[k]
  /\ \A k \in Nat : k <= Len(s) => k # n /\ k <= n

LEMMA NextSlot ==
  ASSUME NEW s \in Seq(Call \cup {NULL}), NEW c \in Call
  PROVE  Extends(s, Len(s) + 1, c, Append(s, c))
<1> DEFINE S == Call \cup {NULL}
           n == Len(s) + 1
<1>0. s \in Seq(S) /\ c \in S
  OBVIOUS
<1> HIDE DEF S
<1>1. Len(s) \in Nat /\ DOMAIN s = 1 .. Len(s)
  BY <1>0, LenProperties
<1>2. /\ Append(s, c) \in Seq(S) /\ Len(Append(s, c)) = n /\ Append(s, c)[n] = c
      /\ \A k \in 1 .. Len(s) : Append(s, c)[k] = s[k]
  BY <1>0, AppendProperties
<1>3. DOMAIN Append(s, c) = 1 .. n
  BY <1>2, LenProperties
<1>4. 1 .. n = 1 .. Len(s) \cup {n} /\ n \in Nat /\ n \notin 1 .. Len(s) /\ n <= n
  BY <1>1
<1>5. \A k \in Nat : k <= Len(s) => k # n /\ k <= n
  BY <1>1
<1> QED
  BY <1>1, <1>2, <1>3, <1>4, <1>5 DEF Extends

(* Who is not owed a callback is in no slot.                               *)
LEMMA NotInSlots ==
  ASSUME NEW ch, NEW po, NEW hd, NEW wt, CallsOK(ch, po, hd, wt), NEW c \in Call,
         ~ InSlot(ch, hd, c)
  PROVE  \A a \in Addr : \A k \in DOMAIN ch[a].call_backs : ch[a].call_backs[k] # c
<1> SUFFICES ASSUME NEW a \in Addr, NEW k \in DOMAIN ch[a].call_backs,
                    ch[a].call_backs[k] = c
             PROVE  FALSE
  OBVIOUS
<1>1. NULL \notin Addr /\ NULL \notin Call
  BY DomainAssumption
<1>2. hd[c] = [channel |-> a, token |-> k]
  BY <1>1 DEF CallsOK, SlotsNamed
<1> QED
  BY <1>1, <1>2 DEF InSlot, Slots

(* The types of what the lemmas speak of.                                  *)
Typed(ch, po, hd, wt) ==
  /\ ch \in [Addr -> Channel] /\ po \in [Call -> Seq(Answer)]
  /\ hd \in [Call -> UserHandle] /\ wt \in [Call -> Rid \cup {"", NULL}]

(* The call c, which asks for something, is answered with something.       *)
AnswerPosted(po, wt, po2, wt2, c) ==
  \E r, m : r # NULL /\ po2 = Post(po, {c}, m) /\ wt2 = [wt EXCEPT ![c] = r]

(* The answer of a new call is posted at once, and its handle names no     *)
(* slot.                                                                   *)
NoSlotTaken(ch, hd, hd2, c) ==
  /\ \A d \in Call \ {c} : hd2[d] = hd[d]
  /\ ~ InSlot(ch, hd2, c) /\ TokensOld(ch, hd2)

LEMMA PostedAtOnce ==
  ASSUME NEW ch, NEW po, NEW hd, NEW wt, Typed(ch, po, hd, wt), CallsOK(ch, po, hd, wt),
         NEW c \in Call, wt[c] = NULL, NEW po2, NEW wt2,
         AnswerPosted(po, wt, po2, wt2, c), NEW hd2, NoSlotTaken(ch, hd, hd2, c)
  PROVE  CallsOK(ch, po2, hd2, wt2) /\ \A d \in Call \ {c} : po2[d] = po[d]
<1> USE DEF NoSlotTaken, Typed
<1> PICK r, m : r # NULL /\ po2 = Post(po, {c}, m) /\ wt2 = [wt EXCEPT ![c] = r]
  BY DEF AnswerPosted
<1>1. r # NULL /\ NULL \notin Call
  BY DomainAssumption
<1>2. po[c] = <<>> /\ ~ InSlot(ch, hd, c)
  BY DEF CallsOK, InOnePlace
<1>3. po2[c] = Append(<<>>, m) /\ \A d \in Call \ {c} : po2[d] = po[d]
  BY <1>2 DEF Post
<1>4. wt2[c] = r /\ \A d \in Call \ {c} : wt2[d] = wt[d]
  OBVIOUS
<1>5. Len(po2[c]) = 1 /\ po2[c] # <<>>
  BY <1>3, OneAppended
<1>6. SlotsNamed(ch, hd2)
  <2> SUFFICES ASSUME NEW a \in Addr, NEW k \in DOMAIN ch[a].call_backs,
                      ch[a].call_backs[k] # NULL
               PROVE  hd2[ch[a].call_backs[k]] = [channel |-> a, token |-> k]
    BY DEF SlotsNamed
  <2>1. ch[a].call_backs[k] \in Call
    <3>1. \A j \in DOMAIN ch[a].call_backs : ch[a].call_backs[j] \in Call \cup {NULL}
      BY SlotType
    <3> QED
      BY <3>1
  <2>2. ch[a].call_backs[k] # c
    BY <1>2, NotInSlots
  <2> QED
    BY <2>1, <2>2 DEF CallsOK, SlotsNamed
<1>7. ASSUME NEW d \in Call PROVE InOnePlace(ch, po2, hd2, wt2, d)
  <2>1. CASE d = c
    BY <1>1, <1>4, <1>5, <2>1 DEF InOnePlace
  <2>2. CASE d # c
    <3>1. InOnePlace(ch, po, hd, wt, d)
      BY DEF CallsOK
    <3>2. hd2[d] = hd[d] /\ po2[d] = po[d] /\ wt2[d] = wt[d]
      BY <1>3, <1>4, <2>2
    <3>3. Undisturbed(ch, po, hd, wt, ch, po2, hd2, wt2, d)
      BY <3>1, <3>2 DEF Undisturbed, InOnePlace, InSlot, Slots
    <3> QED
      BY <3>1, <3>3, SamePlace
  <2> QED
    BY <2>1, <2>2
<1> QED
  BY <1>3, <1>5, <1>6, <1>7 DEF CallsOK

(* The same of a call that gets no handle.                                 *)
LEMMA PostedToCaller ==
  ASSUME NEW ch, NEW po, NEW hd, NEW wt, Typed(ch, po, hd, wt), CallsOK(ch, po, hd, wt),
         NEW c \in Call, wt[c] = NULL, NEW po2, NEW wt2,
         AnswerPosted(po, wt, po2, wt2, c)
  PROVE  CallsOK(ch, po2, hd, wt2) /\ \A d \in Call \ {c} : po2[d] = po[d]
<1>1. ~ InSlot(ch, hd, c) /\ TokensOld(ch, hd)
  BY DEF CallsOK, InOnePlace
<1>2. NoSlotTaken(ch, hd, hd, c)
  BY <1>1 DEF NoSlotTaken
<1> QED
  BY <1>2, PostedAtOnce

(* The callback of a new call waits in the next slot of a channel that is  *)
(* starting.                                                               *)
SlotTaken(ch, ch2, hd, a, c) ==
  /\ ch[a].status = "started" \/ \A d \in Call : hd[d].channel # a
  /\ ch2[a].call_backs = Append(ch[a].call_backs, c) /\ ch2[a].status = "started"
  /\ \A b \in Addr \ {a} : /\ ch2[b].call_backs = ch[b].call_backs
                           /\ ch2[b].status = ch[b].status /\ ch2[b].rid = ch[b].rid

LEMMA SlotAdded ==
  ASSUME NEW ch \in [Addr -> Channel], NEW po,
         NEW hd \in [Call -> UserHandle], NEW wt \in [Call -> Rid \cup {"", NULL}],
         CallsOK(ch, po, hd, wt),
         NEW c \in Call, wt[c] = NULL, NEW r \in Rid, NEW a \in Addr,
         NEW n, n = Len(ch[a].call_backs) + 1,
         NEW hd2, hd2 = [hd EXCEPT ![c] = [channel |-> a, token |-> n]],
         NEW ch2, SlotTaken(ch, ch2, hd, a, c)
  PROVE  CallsOK(ch2, po, hd2, [wt EXCEPT ![c] = r])
<1>0. \A b \in Addr : \A k \in DOMAIN ch[b].call_backs :
        ch[b].call_backs[k] # c /\ ch[b].call_backs[k] \in Call \cup {NULL}
  <2>1. ~ InSlot(ch, hd, c)
    BY DEF CallsOK, InOnePlace
  <2>2. \A b \in Addr : \A k \in DOMAIN ch[b].call_backs : ch[b].call_backs[k] # c
    BY <2>1, NotInSlots
  <2>3. \A b \in Addr : \A k \in DOMAIN ch[b].call_backs :
          ch[b].call_backs[k] \in Call \cup {NULL}
    BY SlotType
  <2> QED
    BY <2>2, <2>3
<1> USE DEF SlotTaken
<1> DEFINE wt2 == [wt EXCEPT ![c] = r]
           s   == ch[a].call_backs
<1>1. r # NULL /\ NULL \notin Call /\ NULL \notin Addr
  BY DomainAssumption
<1>2. /\ s \in Seq(Call \cup {NULL})
      /\ n = Len(s) + 1 /\ ch2[a].call_backs = Append(s, c)
  BY SlotType
<1> HIDE DEF s
<1>3. /\ n \in Nat /\ n \notin DOMAIN s /\ n <= n
      /\ Len(ch2[a].call_backs) = n /\ DOMAIN ch2[a].call_backs = DOMAIN s \cup {n}
      /\ ch2[a].call_backs[n] = c /\ \A k \in DOMAIN s : ch2[a].call_backs[k] = s[k]
      /\ \A k \in Nat : k <= Len(s) => k # n /\ k <= n
  <2>1. Extends(s, Len(s) + 1, c, Append(s, c))
    BY <1>2, NextSlot
  <2>2. Extends(s, n, c, ch2[a].call_backs)
    BY <1>2, <2>1
  <2> QED
    BY <2>2 DEF Extends
<1>4. po[c] = <<>> /\ ~ InSlot(ch, hd, c)
  BY DEF CallsOK, InOnePlace
<1>5. wt2[c] = r /\ \A d \in Call \ {c} : wt2[d] = wt[d]
  OBVIOUS
<1>6. hd2[c] = [channel |-> a, token |-> n] /\ \A d \in Call \ {c} : hd2[d] = hd[d]
  OBVIOUS
<1> HIDE DEF wt2
<1>7. CellsOK(ch2)
  BY DEF CellsOK, CallsOK
<1>8. \A d \in Call : hd[d].channel \in Addr \cup {NULL} /\ hd[d].token \in Nat
  BY DEF UserHandle
<1>9. ASSUME NEW d \in Call \ {c}, hd[d].channel = a
      PROVE  hd[d].token <= Len(s)
  BY <1>1, <1>9 DEF CallsOK, TokensOld, s
<1>10. TokensOld(ch2, hd2)
  <2> SUFFICES ASSUME NEW d \in Call, hd2[d].channel # NULL,
                      ch2[hd2[d].channel].status = "started"
               PROVE  hd2[d].token <= Len(ch2[hd2[d].channel].call_backs)
    BY DEF TokensOld
  <2>1. CASE d = c
    <3>1. hd2[d].channel = a /\ hd2[d].token = n
      BY <1>6, <2>1
    <3> QED
      BY <1>3, <3>1
  <2>2. CASE d # c /\ hd[d].channel = a
    <3>1. hd[d].token <= n
      BY <1>3, <1>8, <1>9, <2>2
    <3> QED
      BY <1>3, <1>6, <2>2, <3>1
  <2>3. CASE d # c /\ hd[d].channel # a
    BY <1>6, <1>8, <2>3 DEF CallsOK, TokensOld
  <2> QED
    BY <2>1, <2>2, <2>3
<1>11. SlotsNamed(ch2, hd2)
  <2> SUFFICES ASSUME NEW b \in Addr, NEW k \in DOMAIN ch2[b].call_backs,
                      ch2[b].call_backs[k] # NULL
               PROVE  hd2[ch2[b].call_backs[k]] = [channel |-> b, token |-> k]
    BY DEF SlotsNamed
  <2>1. CASE b = a /\ k = n
    BY <1>3, <1>6, <2>1
  <2>2. CASE b # a \/ k # n
    <3>1. k \in DOMAIN ch[b].call_backs /\ ch2[b].call_backs[k] = ch[b].call_backs[k]
      <4>1. CASE b = a
        BY <1>3, <2>2, <4>1 DEF s
      <4>2. CASE b # a
        BY <4>2
      <4> QED
        BY <4>1, <4>2
    <3>2. ch[b].call_backs[k] \in Call /\ ch[b].call_backs[k] # c
      BY <1>0, <3>1
    <3>4. hd[ch[b].call_backs[k]] = [channel |-> b, token |-> k]
      BY <3>1 DEF CallsOK, SlotsNamed
    <3> QED
      BY <1>6, <3>1, <3>2, <3>4
  <2> QED
    BY <2>1, <2>2
<1>12. ASSUME NEW d \in Call PROVE InOnePlace(ch2, po, hd2, wt2, d)
  <2>1. CASE d = c
    <3>1. Slots(ch2, hd2, c) = ch2[a].call_backs /\ hd2[c].token = n
      BY <1>1, <1>6 DEF Slots
    <3> QED
      BY <1>1, <1>3, <1>4, <1>5, <2>1, <3>1 DEF InOnePlace, InSlot
  <2>2. CASE d # c /\ hd[d].channel = a
    <3>1. Slots(ch2, hd2, d) = ch2[a].call_backs /\ Slots(ch, hd, d) = s /\ hd2[d] = hd[d]
      BY <1>1, <1>6, <2>2 DEF Slots, s
    <3>2. hd[d].token # n
      BY <1>3, <1>8, <1>9, <2>2
    <3>3. InSlot(ch2, hd2, d) <=> InSlot(ch, hd, d)
      BY <1>3, <3>1, <3>2 DEF InSlot
    <3>4. InSlot(ch, hd, d) => ch2[a].call_backs[hd[d].token] = s[hd[d].token]
      BY <1>3, <3>1 DEF InSlot
    <3>5. InOnePlace(ch, po, hd, wt, d)
      BY DEF CallsOK
    <3> QED
      BY <1>5, <2>2, <3>1, <3>3, <3>4, <3>5 DEF InOnePlace
  <2>3. CASE d # c /\ hd[d].channel # a
    <3>1. Slots(ch2, hd2, d) = Slots(ch, hd, d) /\ hd2[d] = hd[d]
      BY <1>6, <1>8, <2>3 DEF Slots
    <3> QED
      BY <1>5, <2>3, <3>1 DEF CallsOK, InOnePlace, InSlot
  <2> QED
    BY <2>1, <2>2, <2>3
<1> QED
  BY <1>7, <1>10, <1>11, <1>12 DEF CallsOK, wt2

(* The callback of a call that is stopped is swapped out of its slot.      *)
SlotEmptied(ch, po, hd, ch2, po2, hd2, c, a, t) ==
  /\ hd[c].channel = a /\ t = hd[c].token /\ t \in DOMAIN ch[a].call_backs
  /\ ch2[a].call_backs = [ch[a].call_backs EXCEPT ![t] = NULL]
  /\ \A b \in Addr \ {a} : ch2[b].call_backs = ch[b].call_backs
  /\ \A b \in Addr : ch2[b].status = ch[b].status /\ ch2[b].rid = ch[b].rid
  /\ po2 = Post(po, {ch[a].call_backs[t]}, Aborted)
  /\ hd2 = [hd EXCEPT ![c] = NoHandle]

LEMMA SlotSwapped ==
  ASSUME NEW ch, NEW po, NEW hd, NEW wt, Typed(ch, po, hd, wt), CallsOK(ch, po, hd, wt),
         NEW c \in Call, NEW a \in Addr, NEW t, NEW ch2, NEW po2, NEW hd2,
         SlotEmptied(ch, po, hd, ch2, po2, hd2, c, a, t)
  PROVE  /\ CallsOK(ch2, po2, hd2, wt)
         /\ po[c] = <<>> /\ wt[c] # NULL /\ po2[c] # <<>>
         /\ \A d \in Call \ {c} : po2[d] = po[d]
<1> SUFFICES ASSUME ch \in [Addr -> Channel], po \in [Call -> Seq(Answer)],
                    hd \in [Call -> UserHandle], hd[c].channel = a, t = hd[c].token,
                    t \in DOMAIN ch[a].call_backs,
                    ch2[a].call_backs = [ch[a].call_backs EXCEPT ![t] = NULL],
                    \A b \in Addr \ {a} : ch2[b].call_backs = ch[b].call_backs,
                    \A b \in Addr : ch2[b].status = ch[b].status /\ ch2[b].rid = ch[b].rid,
                    po2 = Post(po, {ch[a].call_backs[t]}, Aborted),
                    hd2 = [hd EXCEPT ![c] = NoHandle]
             PROVE  /\ CallsOK(ch2, po2, hd2, wt)
                    /\ po[c] = <<>> /\ wt[c] # NULL /\ po2[c] # <<>>
                    /\ \A d \in Call \ {c} : po2[d] = po[d]
  BY DEF SlotEmptied, Typed
<1> DEFINE s == ch[a].call_backs
<1>1. NULL \notin Call /\ NULL \notin Addr
  BY DomainAssumption
<1>2. /\ s \in Seq(Call \cup {NULL}) /\ Len(s) \in Nat /\ DOMAIN s = 1 .. Len(s)
  BY SlotType
<1>3. InSlot(ch, hd, c) /\ s[t] = c /\ po[c] = <<>> /\ wt[c] # NULL
  <2>1. Slots(ch, hd, c) = s /\ hd[c].token = t
    BY <1>1 DEF Slots
  <2> QED
    BY <2>1 DEF CallsOK, InOnePlace, InSlot
<1>4. /\ ch2[a].call_backs \in Seq(Call \cup {NULL})
      /\ Len(ch2[a].call_backs) = Len(s) /\ DOMAIN ch2[a].call_backs = DOMAIN s
      /\ \A k \in DOMAIN s : ch2[a].call_backs[k] = IF k = t THEN NULL ELSE s[k]
  <2> DEFINE S == Call \cup {NULL}
  <2>1. s \in Seq(S) /\ NULL \in S /\ t \in 1 .. Len(s)
    BY <1>2
  <2> HIDE DEF S
  <2>2. [s EXCEPT ![t] = NULL] \in Seq(S) /\ Len([s EXCEPT ![t] = NULL]) = Len(s)
    BY <2>1, ExceptSeq
  <2> QED
    BY <2>2 DEF S
<1>5. /\ po2[c] = Append(<<>>, Aborted) /\ po2[c] # <<>> /\ Len(po2[c]) = 1
      /\ \A d \in Call \ {c} : po2[d] = po[d]
  <2>1. po2[c] = Append(<<>>, Aborted) /\ \A d \in Call \ {c} : po2[d] = po[d]
    BY <1>3 DEF Post
  <2> QED
    BY <2>1, OneAppended
<1>6. hd2[c] = NoHandle /\ \A d \in Call \ {c} : hd2[d] = hd[d]
  OBVIOUS
<1> HIDE DEF s
<1>7. \A d \in Call : hd[d].channel \in Addr \cup {NULL}
  BY DEF UserHandle
<1>8. CellsOK(ch2)
  <2>1. ch[a].status = "started"
    <3>1. ch[a].call_backs # <<>>
      OBVIOUS
    <3> QED
      BY <3>1 DEF CallsOK, CellsOK
  <2> SUFFICES ASSUME NEW b \in Addr
               PROVE  /\ ch2[b].status # "started" => ch2[b].call_backs = <<>>
                      /\ ch2[b].status \notin {"started", "working"} => ch2[b].rid = ""
    BY DEF CellsOK
  <2>2. ch2[b].status = ch[b].status /\ ch2[b].rid = ch[b].rid
    OBVIOUS
  <2>3. CellsOK(ch)
    BY DEF CallsOK
  <2>4. CASE b = a
    BY <2>1, <2>2, <2>4
  <2>5. CASE b # a
    <3>1. ch2[b].call_backs = ch[b].call_backs
      BY <2>5
    <3> QED
      BY <2>2, <2>3, <3>1 DEF CellsOK
  <2> QED
    BY <2>4, <2>5
<1>9. ASSUME NEW d \in Call, d # c PROVE hd[d].channel = a => hd[d].token # t
  <2>1. SUFFICES ASSUME hd[d].channel = a, hd[d].token = t PROVE FALSE
    OBVIOUS
  <2>2. Slots(ch, hd, d) = s
    BY <1>1, <2>1 DEF Slots, s
  <2>3. InSlot(ch, hd, d)
    BY <2>1, <2>2 DEF InSlot, s
  <2>4. s[t] = d
    BY <2>1, <2>2, <2>3 DEF CallsOK, InOnePlace
  <2> QED
    BY <1>3, <1>9, <2>4
<1>10. TokensOld(ch2, hd2)
  <2> SUFFICES ASSUME NEW d \in Call, hd2[d].channel # NULL,
                      ch2[hd2[d].channel].status = "started"
               PROVE  hd2[d].token <= Len(ch2[hd2[d].channel].call_backs)
    BY DEF TokensOld
  <2>1. d # c /\ hd2[d] = hd[d] /\ hd[d].channel \in Addr
    BY <1>6, <1>7 DEF NoHandle
  <2>2. Len(ch2[hd[d].channel].call_backs) = Len(ch[hd[d].channel].call_backs)
    BY <1>4, <2>1 DEF s
  <2> QED
    BY <2>1, <2>2 DEF CallsOK, TokensOld
<1>11. SlotsNamed(ch2, hd2)
  <2> SUFFICES ASSUME NEW b \in Addr, NEW k \in DOMAIN ch2[b].call_backs,
                      ch2[b].call_backs[k] # NULL
               PROVE  hd2[ch2[b].call_backs[k]] = [channel |-> b, token |-> k]
    BY DEF SlotsNamed
  <2>1. k \in DOMAIN ch[b].call_backs /\ ch2[b].call_backs[k] = ch[b].call_backs[k]
    BY <1>4 DEF s
  <2>2. ch[b].call_backs[k] \in Call
    <3>1. \A j \in DOMAIN ch[b].call_backs : ch[b].call_backs[j] \in Call \cup {NULL}
      BY SlotType
    <3> QED
      BY <2>1, <3>1
  <2>3. hd[ch[b].call_backs[k]] = [channel |-> b, token |-> k]
    BY <2>1 DEF CallsOK, SlotsNamed
  <2>4. ch[b].call_backs[k] # c
    <3>1. SUFFICES ASSUME ch[b].call_backs[k] = c PROVE FALSE
      OBVIOUS
    <3>2. b = a /\ k = t
      BY <2>3, <3>1
    <3> QED
      BY <1>4, <2>1, <3>2
  <2> QED
    BY <1>6, <2>1, <2>2, <2>3, <2>4
<1>12. ASSUME NEW d \in Call PROVE InOnePlace(ch2, po2, hd2, wt, d)
  <2>1. CASE d = c
    <3>1. Slots(ch2, hd2, c) = <<>>
      BY <1>6 DEF Slots, NoHandle
    <3>2. ~ InSlot(ch2, hd2, c)
      BY <3>1 DEF InSlot
    <3> QED
      BY <1>3, <1>5, <2>1, <3>1, <3>2 DEF InOnePlace
  <2>2. CASE d # c /\ hd[d].channel = a
    <3>1. Slots(ch2, hd2, d) = ch2[a].call_backs /\ Slots(ch, hd, d) = s /\ hd2[d] = hd[d]
      BY <1>1, <1>6, <2>2 DEF Slots, s
    <3>2. hd[d].token # t
      BY <1>9, <2>2
    <3>3. InSlot(ch2, hd2, d) <=> InSlot(ch, hd, d)
      BY <1>4, <3>1 DEF InSlot
    <3>4. InSlot(ch, hd, d) => ch2[a].call_backs[hd[d].token] = s[hd[d].token]
      BY <1>4, <3>1, <3>2 DEF InSlot
    <3>5. InOnePlace(ch, po, hd, wt, d)
      BY DEF CallsOK
    <3>6. po2[d] = po[d]
      BY <1>5, <2>2
    <3>7. InSlot(ch2, hd2, d) => Slots(ch2, hd2, d)[hd2[d].token] = d
      BY <3>1, <3>3, <3>4, <3>5 DEF InOnePlace
    <3>8. Undisturbed(ch, po, hd, wt, ch2, po2, hd2, wt, d)
      BY <3>3, <3>6, <3>7 DEF Undisturbed
    <3> QED
      BY <3>5, <3>8, SamePlace
  <2>3. CASE d # c /\ hd[d].channel # a
    <3>1. Slots(ch2, hd2, d) = Slots(ch, hd, d) /\ hd2[d] = hd[d]
      BY <1>6, <1>7, <2>3 DEF Slots
    <3>2. InOnePlace(ch, po, hd, wt, d) /\ po2[d] = po[d]
      BY <1>5, <2>3 DEF CallsOK
    <3>3. InSlot(ch2, hd2, d) <=> InSlot(ch, hd, d)
      BY <3>1 DEF InSlot
    <3>4. InSlot(ch2, hd2, d) => Slots(ch2, hd2, d)[hd2[d].token] = d
      BY <3>1, <3>2, <3>3 DEF InOnePlace
    <3>5. Undisturbed(ch, po, hd, wt, ch2, po2, hd2, wt, d)
      BY <3>2, <3>3, <3>4 DEF Undisturbed
    <3> QED
      BY <3>2, <3>5, SamePlace
  <2> QED
    BY <2>1, <2>2, <2>3
<1> QED
  BY <1>3, <1>5, <1>8, <1>10, <1>11, <1>12 DEF CallsOK

(* A call that was answered gives its handle back.                         *)
LEMMA HandleGivenBack ==
  ASSUME NEW ch \in [Addr -> Channel], NEW po, NEW hd \in [Call -> UserHandle], NEW wt,
         CallsOK(ch, po, hd, wt), NEW c \in Call, ~ InSlot(ch, hd, c),
         NEW hd2, hd2 = [hd EXCEPT ![c] = NoHandle]
  PROVE  CallsOK(ch, po, hd2, wt)
<1>1. hd2[c] = NoHandle /\ \A d \in Call \ {c} : hd2[d] = hd[d]
  OBVIOUS
<1>2. ~ InSlot(ch, hd2, c)
  <2>1. Slots(ch, hd2, c) = <<>>
    BY <1>1 DEF Slots, NoHandle
  <2> QED
    BY <2>1 DEF InSlot
<1>3. TokensOld(ch, hd2)
  BY <1>1 DEF CallsOK, TokensOld, NoHandle
<1>4. SlotsNamed(ch, hd2)
  <2> SUFFICES ASSUME NEW a \in Addr, NEW k \in DOMAIN ch[a].call_backs,
                      ch[a].call_backs[k] # NULL
               PROVE  hd2[ch[a].call_backs[k]] = [channel |-> a, token |-> k]
    BY DEF SlotsNamed
  <2>1. ch[a].call_backs[k] \in Call
    <3>1. \A j \in DOMAIN ch[a].call_backs : ch[a].call_backs[j] \in Call \cup {NULL}
      BY SlotType
    <3> QED
      BY <3>1
  <2>2. ch[a].call_backs[k] # c
    BY NotInSlots
  <2> QED
    BY <1>1, <2>1, <2>2 DEF CallsOK, SlotsNamed
<1>5. ASSUME NEW d \in Call PROVE InOnePlace(ch, po, hd2, wt, d)
  <2>1. InOnePlace(ch, po, hd, wt, d)
    BY DEF CallsOK
  <2>2. CASE d = c
    BY <1>2, <2>1, <2>2 DEF InOnePlace
  <2>3. CASE d # c
    BY <1>1, <2>1, <2>3 DEF InOnePlace, InSlot, Slots
  <2> QED
    BY <2>2, <2>3
<1> QED
  BY <1>3, <1>4, <1>5 DEF CallsOK

---------------------------------------------------------------------------
(* The helpers, one after the other *)

CallInv == RefInv /\ CallsOK(chan, posted, handle, want)

LEMMA CallInvTypes ==
  ASSUME CallInv
  PROVE  /\ WorldOK(World) /\ World.chan = chan /\ World.posted = posted
         /\ World.channels = channels
         /\ chan \in [Addr -> Channel] /\ posted \in [Call -> Seq(Answer)]
         /\ handle \in [Call -> UserHandle] /\ want \in [Call -> Rid \cup {"", NULL}]
         /\ CallsOK(World.chan, World.posted, handle, want)
BY WorldIsOK DEF CallInv, RefInv, TypeOK, World

LEMMA KeepsTransitive ==
  ASSUME NEW w, NEW v, NEW z, NEW hd, NEW wt, Keeps(w, v, hd, wt), Keeps(v, z, hd, wt)
  PROVE  Keeps(w, z, hd, wt)
BY PostsToTransitive DEF Keeps

LEMMA SameCellsKeeps ==
  ASSUME NEW w, NEW v, NEW hd \in [Call -> UserHandle], NEW wt,
         CallsOK(w.chan, w.posted, hd, wt),
         SameCells(w.chan, v.chan), v.posted = w.posted
  PROVE  Keeps(w, v, hd, wt)
<1>1. CallsOK(v.chan, w.posted, hd, wt)
  BY SameCellsKeep
<1> QED
  BY <1>1 DEF Keeps, PostsTo, Posts

LEMMA ClearedKeeps ==
  ASSUME CallInv, NEW r
  PROVE  Keeps(World, Cleared(r), handle, want)
<1> DEFINE old == Matching(World, r)
           ch  == [a \in Addr |-> IF a \in old THEN [chan[a] EXCEPT !.expire = 0]
                                               ELSE chan[a]]
           w   == [World EXCEPT !.chan = ch]
<1>1. Cleared(r) = StopAll(w, old)
  BY DEF Cleared
<1>2. /\ WorldOK(World) /\ World.chan = chan /\ World.channels = channels
      /\ chan \in [Addr -> Channel] /\ World \in WorldType
      /\ handle \in [Call -> UserHandle] /\ CallsOK(World.chan, World.posted, handle, want)
  BY CallInvTypes DEF WorldOK
<1>3. \A x \in Channel : LET y == [x EXCEPT !.expire = 0] IN
        /\ y \in Channel /\ y.status = x.status /\ y.nref = x.nref
        /\ y.call_backs = x.call_backs /\ y.rid = x.rid
  BY ZeroFits DEF Channel
<1>4. /\ ch \in [Addr -> Channel] /\ SameCells(chan, ch)
      /\ \A a \in Addr : ch[a].status = chan[a].status /\ ch[a].nref = chan[a].nref
  BY <1>2, <1>3 DEF SameCells
<1> HIDE DEF ch
<1>5. w.chan = ch /\ w.channels = channels /\ w \in WorldType /\ w.posted = World.posted
  BY <1>2, <1>4 DEF WorldType
<1> HIDE DEF w, old
<1>6. WorldOK(w)
  BY <1>2, <1>4, <1>5 DEF WorldOK
<1>7. Keeps(World, w, handle, want)
  BY <1>2, <1>4, <1>5, SameCellsKeeps
<1>8. old \subseteq Range(w.channels)
  BY <1>2, <1>5 DEF old, Matching
<1>9. Keeps(w, StopAll(w, old), handle, want)
  BY <1>2, <1>6, <1>7, <1>8, StopAllKeeps DEF Keeps
<1> QED
  BY <1>1, <1>7, <1>9, KeepsTransitive

LEMMA AgedKeeps ==
  ASSUME NEW w, WorldOK(w), NEW hd \in [Call -> UserHandle], NEW wt,
         CallsOK(w.chan, w.posted, hd, wt)
  PROVE  Keeps(w, Aged(w), hd, wt)
<1> DEFINE ch == [a \in Addr |-> IF a \in Unused(w) THEN Ticked(w.chan[a]) ELSE w.chan[a]]
<1>1. w \in WorldType /\ w.chan \in [Addr -> Channel]
  BY DEF WorldOK, WorldType
<1>2. \A x \in Channel : /\ Ticked(x).status = x.status /\ Ticked(x).rid = x.rid
                         /\ Ticked(x).call_backs = x.call_backs
  BY DEF Ticked, Channel
<1>3. SameCells(w.chan, ch)
  BY <1>1, <1>2 DEF SameCells
<1>4. Aged(w) = [w EXCEPT !.chan = ch]
  BY DEF Aged
<1> HIDE DEF ch
<1>5. Aged(w).chan = ch /\ Aged(w).posted = w.posted
  BY <1>1, <1>4 DEF WorldType
<1> QED
  BY <1>3, <1>5, SameCellsKeeps

LEMMA StatusFields ==
  ASSUME NEW w \in WorldType, NEW a \in Addr, NEW st
  PROVE  /\ [w EXCEPT !.chan[a].status = st].chan =
              [w.chan EXCEPT ![a] = [w.chan[a] EXCEPT !.status = st]]
         /\ [w EXCEPT !.chan[a].status = st].posted = w.posted
BY DEF WorldType

LEMMA RespondedFields ==
  ASSUME NEW w \in WorldType, NEW a \in Addr, NEW m
  PROVE  /\ Responded(w, a, m).chan = [w.chan EXCEPT ![a] =
              [w.chan[a] EXCEPT !.ec = m.ec, !.url = m.url, !.call_backs = <<>>]]
         /\ Responded(w, a, m).posted = Post(w.posted, Range(w.chan[a].call_backs), m)
<1> DEFINE p1 == Post(w.posted, Range(w.chan[a].call_backs), m)
           s1 == [w EXCEPT !.chan[a].ec = m.ec]
           s2 == [s1 EXCEPT !.chan[a].url = m.url]
           s3 == [s2 EXCEPT !.chan[a].call_backs = <<>>]
           d1 == [w.chan[a] EXCEPT !.ec = m.ec]
           d2 == [d1 EXCEPT !.url = m.url]
           d3 == [d2 EXCEPT !.call_backs = <<>>]
<1>1. w.chan \in [Addr -> Channel] /\ w.chan[a] \in Channel
  BY DEF WorldType
<1>2. Responded(w, a, m) = [s3 EXCEPT !.posted = p1]
  BY <1>1 DEF Responded, WorldType
<1>3. s1 = [w EXCEPT !.chan = [w.chan EXCEPT ![a] = d1]]
  BY <1>1 DEF WorldType
<1>4. s2 = [w EXCEPT !.chan = [w.chan EXCEPT ![a] = d2]]
  BY <1>1, <1>3 DEF WorldType
<1>5. s3 = [w EXCEPT !.chan = [w.chan EXCEPT ![a] = d3]]
  <2> HIDE DEF s2, d2
  <2> QED
    BY <1>1, <1>4 DEF WorldType
<1>6. d3 = [w.chan[a] EXCEPT !.ec = m.ec, !.url = m.url, !.call_backs = <<>>]
  BY <1>1 DEF Channel
<1> HIDE DEF d3, s3, p1
<1> QED
  BY <1>2, <1>5, <1>6 DEF WorldType, p1

LEMMA RespondedCells ==
  ASSUME NEW v \in WorldType, NEW a \in Addr, NEW m
  PROVE  Responded(v, a, m).chan = [v.chan EXCEPT ![a] = ToldOf(v.chan[a], m)]
BY RespondedFields DEF ToldOf

LEMMA RespondedPosts ==
  ASSUME NEW v \in WorldType, NEW a \in Addr, NEW m
  PROVE  Responded(v, a, m).posted = Post(v.posted, Range(v.chan[a].call_backs), m)
BY RespondedFields

LEMMA StartedKeeps ==
  ASSUME CallInv, NEW a \in Addr, done[a] # <<>>
  PROVE  Keeps(World, Started(a, Head(done[a])), handle, want)
<1> DEFINE m  == Head(done[a])
           d  == [done EXCEPT ![a] = Tail(done[a])]
           w  == [World EXCEPT !.done = d]
<1>1. done \in [Addr -> Seq(Answer)] /\ done[a] \in Seq(Answer)
  BY DEF CallInv, RefInv, TypeOK
<1>2. m \in Answer /\ Tail(done[a]) \in Seq(Answer)
  BY <1>1, HeadTailProperties
<1>3. d \in [Addr -> Seq(Answer)]
  BY <1>1, <1>2
<1>4. /\ WorldOK(World) /\ World.chan = chan /\ World.channels = channels
      /\ World.posted = posted /\ World \in WorldType
      /\ chan \in [Addr -> Channel] /\ posted \in [Call -> Seq(Answer)]
      /\ handle \in [Call -> UserHandle] /\ CallsOK(chan, posted, handle, want)
  BY CallInvTypes DEF WorldOK
<1>5. w \in WorldType /\ w.chan = chan /\ w.channels = channels /\ w.posted = posted
  BY <1>3, <1>4 DEF WorldType
<1>6. [World EXCEPT !.done[a] = Tail(@)] = w
  BY DEF World
<1> HIDE DEF w, m
<1>7. WorldOK(w)
  BY <1>4, <1>5 DEF WorldOK
<1>8. Keeps(World, w, handle, want)
  BY <1>4, <1>5 DEF Keeps, PostsTo, Posts
<1>9. CASE a \notin Range(channels)
  <2>1. Started(a, m) = w
    BY <1>6, <1>9 DEF Started
  <2> QED
    BY <1>8, <2>1 DEF m
<1>10. CASE a \in Range(channels) /\ chan[a].status = "cancel"
  <2> DEFINE x == [chan[a] EXCEPT !.status = "stopped"]
             v == [w EXCEPT !.chan[a].status = "stopped"]
  <2>1. Started(a, m) = StopAll(v, {a})
    BY <1>6, <1>10 DEF Started, Resolved
  <2>2. v.chan = [chan EXCEPT ![a] = x] /\ v.posted = posted
    BY <1>5, StatusFields
  <2>3. x.status = "stopped" /\ x.rid = chan[a].rid /\ x.call_backs = chan[a].call_backs
    <3>1. chan[a] \in Channel /\ "stopped" \in Status
      BY <1>4 DEF Status
    <3> QED
      BY <3>1, StatusPut
  <2>4. WorldOK(v) /\ {a} \subseteq Range(v.channels)
    <3>1. a \in Range(w.channels) /\ "stopped" \in Status \ {"free"}
      BY <1>5, <1>10 DEF Status
    <3> QED
      BY <1>7, <3>1, PutStatusOK
  <2> HIDE DEF v, x
  <2>5. \A b \in Addr : v.chan[b] = IF b = a THEN x ELSE chan[b]
    BY <1>4, <2>2
  <2>6. CellsOK(v.chan)
    BY <1>4, <1>10, <2>3, <2>5 DEF CallsOK, CellsOK
  <2>7. Flushed(chan, posted, v.chan, v.posted, {}, Aborted)
    <3>1. \A b \in Addr : /\ v.chan[b].call_backs = chan[b].call_backs
                          /\ v.chan[b].status = "started" => chan[b].status = "started"
      BY <2>3, <2>5
    <3>2. Post(posted, UNION {Range(chan[b].call_backs) : b \in {}}, Aborted) = posted
      BY <1>4 DEF Post
    <3> QED
      BY <2>2, <3>1, <3>2 DEF Flushed
  <2>8. CallsOK(v.chan, v.posted, handle, want)
    BY <1>4, <2>6, <2>7, AnswerTypes, FlushKeeps
  <2>9. Keeps(World, v, handle, want)
    BY <1>4, <2>2, <2>8 DEF Keeps, PostsTo, Posts
  <2>10. Keeps(v, StopAll(v, {a}), handle, want)
    BY <1>4, <2>4, <2>8, StopAllKeeps
  <2> QED
    BY <2>1, <2>9, <2>10, KeepsTransitive DEF m
<1>11. CASE a \in Range(channels) /\ chan[a].status # "cancel"
  <2> DEFINE x == [chan[a] EXCEPT !.status = "working"]
             v == [w EXCEPT !.chan[a].status = "working"]
             y == [x EXCEPT !.ec = m.ec, !.url = m.url, !.call_backs = <<>>]
             z == Responded(v, a, m)
  <2>1. Started(a, m) = z
    BY <1>6, <1>11 DEF Started
  <2>2. v.chan = [chan EXCEPT ![a] = x] /\ v.posted = posted
    BY <1>5, StatusFields
  <2>3. v \in WorldType
    <3>1. a \in Range(w.channels) /\ "working" \in Status \ {"free"}
      BY <1>5, <1>11 DEF Status
    <3> QED
      BY <1>7, <3>1, PutStatusOK DEF WorldOK
  <2>4. v.chan[a] = x
    BY <1>4, <2>2
  <2>5. /\ x \in Channel /\ x.status = "working" /\ x.call_backs = chan[a].call_backs
        /\ x.rid = chan[a].rid
    <3>1. chan[a] \in Channel /\ "working" \in Status
      BY <1>4 DEF Status
    <3> QED
      BY <3>1, StatusPut
  <2>6. y = ToldOf(x, m)
    BY DEF ToldOf
  <2> HIDE DEF v, x, y
  <2>7. y.status = "working" /\ y.call_backs = <<>>
    BY <1>2, <2>5, <2>6, ToldOfPut
  <2>8. z.chan = [v.chan EXCEPT ![a] = y] /\ z.posted = Post(posted, Range(chan[a].call_backs), m)
    <3>1. z.chan = [v.chan EXCEPT ![a] = ToldOf(v.chan[a], m)]
      BY <2>3, RespondedCells
    <3>2. z.posted = Post(v.posted, Range(v.chan[a].call_backs), m)
      BY <2>3, RespondedPosts
    <3> QED
      BY <2>2, <2>4, <2>5, <2>6, <3>1, <3>2
  <2> HIDE DEF z
  <2>9. \A b \in Addr : z.chan[b] = IF b = a THEN y ELSE chan[b]
    BY <1>4, <2>2, <2>8
  <2>10. CellsOK(z.chan)
    BY <1>4, <2>5, <2>7, <2>9 DEF CallsOK, CellsOK
  <2>11. Flushed(chan, posted, z.chan, z.posted, {a}, m)
    <3>1. UNION {Range(chan[b].call_backs) : b \in {a}} = Range(chan[a].call_backs)
      OBVIOUS
    <3> QED
      BY <2>7, <2>8, <2>9, <3>1 DEF Flushed
  <2>12. CallsOK(z.chan, z.posted, handle, want) /\ PostsTo(posted, z.posted, want)
    BY <1>2, <1>4, <2>10, <2>11, FlushKeeps DEF m
  <2> QED
    BY <1>4, <2>1, <2>12 DEF Keeps, m
<1> QED
  BY <1>9, <1>10, <1>11

---------------------------------------------------------------------------
(* What a step does to a call *)

(* The call is left alone, but for the answer it may get.                  *)
Left(c) ==
  /\ handle'[c] = handle[c] /\ want'[c] = want[c]
  /\ Posts(posted[c], posted'[c], want[c])

Begun(c) == want[c] = NULL /\ handle[c].channel = NULL /\ want'[c] # NULL

Ended(c) ==
  /\ handle[c].channel # NULL /\ handle'[c] = NoHandle
  /\ want'[c] = want[c] /\ Posts(posted[c], posted'[c], want[c])

Ran(c) == posted[c] # <<>> /\ want'[c] = NULL /\ handle'[c] = handle[c]

CallStep ==
  /\ CallsOK(chan', posted', handle', want')
  /\ \A c \in Call : Left(c) \/ Begun(c) \/ Ended(c) \/ Ran(c)

LEMMA QuietCalls ==
  ASSUME CallInv, NEW w, Keeps(World, w, handle, want), Become(w),
         UNCHANGED <<handle, want>>
  PROVE  CallStep
<1>1. chan' = w.chan /\ posted' = w.posted
  BY DEF Become
<1>2. World.posted = posted
  BY DEF World
<1> QED
  BY <1>1, <1>2 DEF Keeps, CallStep, Left, PostsTo

LEMMA SetMaxParallelCalls ==
  ASSUME CallInv, NEW m \in MaxParallel, SetMaxParallel(m)
  PROVE  CallStep
<1>1. Keeps(World, CheckParallel(World, m), handle, want)
  BY CallInvTypes, CheckParallelKeeps
<1> QED
  BY <1>1, QuietCalls DEF SetMaxParallel

LEMMA HandleStartChannelCalls ==
  ASSUME CallInv, NEW a \in Addr, HandleStartChannel(a)
  PROVE  CallStep
BY StartedKeeps, QuietCalls DEF HandleStartChannel

LEMMA ShutdownCalls ==
  ASSUME CallInv, Shutdown
  PROVE  CallStep
<1>1. Keeps(World, StopAll(World, Range(channels)), handle, want)
  BY CallInvTypes, StopAllKeeps
<1> QED
  BY <1>1, QuietCalls DEF Shutdown

LEMMA HandleTimerCalls ==
  ASSUME CallInv, NEW failed, HandleTimer(failed)
  PROVE  CallStep
<1> DEFINE front == SubSeq(channels, 1, WorkingEnd)
           bad   == {a \in Range(front) : chan[a].handle \in failed}
           p     == Partitioned(front, bad)
           w     == StopAll(p, bad)
           aged  == Aged(w)
           dead  == {a \in Unused(aged) : aged.chan[a].expire = 0}
<1>1. Become(Expired(aged)) /\ UNCHANGED <<handle, want>>
  BY DEF HandleTimer
<1>2. WorldOK(p) /\ bad \subseteq Range(p.channels)
  <2>1. bad \subseteq Range(front)
    OBVIOUS
  <2> HIDE DEF bad
  <2> QED
    BY <2>1, PartitionedOK DEF CallInv
<1>3. p.chan = World.chan /\ p.posted = World.posted
  BY DEF Partitioned, World
<1> HIDE DEF p, bad
<1>4. handle \in [Call -> UserHandle] /\ CallsOK(World.chan, World.posted, handle, want)
  BY CallInvTypes
<1>5. Keeps(World, p, handle, want)
  BY <1>3, <1>4 DEF Keeps, PostsTo, Posts
<1>6. WorldOK(w) /\ Keeps(p, w, handle, want)
  BY <1>2, <1>4, <1>5, StopAllOK, StopAllKeeps DEF Keeps
<1> HIDE DEF w
<1>7. WorldOK(aged) /\ Keeps(w, aged, handle, want)
  BY <1>4, <1>6, AgedOK, AgedKeeps DEF Keeps
<1> HIDE DEF aged
<1>8. dead \subseteq Range(aged.channels) /\ Expired(aged) = StopAll(aged, dead)
  BY DEF Unused, Expired
<1> HIDE DEF dead
<1>9. Keeps(aged, Expired(aged), handle, want)
  BY <1>4, <1>7, <1>8, StopAllKeeps DEF Keeps
<1>10. Keeps(World, Expired(aged), handle, want)
  BY <1>5, <1>6, <1>7, <1>9, KeepsTransitive
<1> QED
  BY <1>1, <1>10, QuietCalls

LEMMA UnchangedCalls ==
  ASSUME CallInv, UNCHANGED <<chan, posted, handle, want>>
  PROVE  CallStep
BY DEF CallInv, CallStep, Left, Posts

LEMMA TailOfOne ==
  ASSUME NEW S, NEW q \in Seq(S), Len(q) = 1
  PROVE  Tail(q) = <<>>
<1>1. Tail(q) \in Seq(S) /\ Len(Tail(q)) = 0
  BY HeadTailProperties
<1> QED
  BY <1>1, EmptySeq

LEMMA RunCallbackCalls ==
  ASSUME CallInv, NEW c \in Call, RunCallback(c)
  PROVE  CallStep
<1>1. /\ posted \in [Call -> Seq(Answer)] /\ want \in [Call -> Rid \cup {"", NULL}]
      /\ CallsOK(chan, posted, handle, want)
  BY CallInvTypes DEF CallInv
<1>2. /\ posted[c] # <<>> /\ posted' = [posted EXCEPT ![c] = Tail(posted[c])]
      /\ want' = [want EXCEPT ![c] = NULL] /\ UNCHANGED <<chan, handle>>
  BY DEF RunCallback
<1>3. Len(posted[c]) = 1 /\ ~ InSlot(chan, handle, c)
  BY <1>1, <1>2 DEF CallsOK, InOnePlace
<1>4. Tail(posted[c]) = <<>>
  <2>1. posted[c] \in Seq(Answer)
    BY <1>1
  <2> QED
    BY <1>3, <2>1, TailOfOne
<1>5. posted'[c] = <<>> /\ want'[c] = NULL
  BY <1>1, <1>2, <1>4
<1>6. \A d \in Call \ {c} : posted'[d] = posted[d] /\ want'[d] = want[d]
  BY <1>2
<1>7. ASSUME NEW d \in Call PROVE InOnePlace(chan, posted', handle, want', d)
  <2>1. InOnePlace(chan, posted, handle, want, d)
    BY <1>1 DEF CallsOK
  <2>2. CASE d = c
    BY <1>3, <1>5, <2>1, <2>2 DEF InOnePlace
  <2>3. CASE d # c
    BY <1>6, <2>1, <2>3 DEF InOnePlace
  <2> QED
    BY <2>2, <2>3
<1>8. CallsOK(chan', posted', handle', want')
  BY <1>1, <1>2, <1>7 DEF CallsOK
<1>9. Ran(c) /\ \A d \in Call \ {c} : Left(d)
  BY <1>2, <1>5, <1>6 DEF Ran, Left, Posts
<1> QED
  BY <1>8, <1>9 DEF CallStep

---------------------------------------------------------------------------
(* Calls that are made *)

LEMMA StartBadUrlCalls ==
  ASSUME CallInv, NEW c \in Call, StartBadUrl(c)
  PROVE  CallStep
<1>1. /\ chan \in [Addr -> Channel] /\ posted \in [Call -> Seq(Answer)]
      /\ handle \in [Call -> UserHandle] /\ want \in [Call -> Rid \cup {"", NULL}]
      /\ CallsOK(chan, posted, handle, want)
  BY CallInvTypes DEF CallInv
<1>2. /\ want[c] = NULL /\ handle[c].channel = NULL
      /\ want' = [want EXCEPT ![c] = ""] /\ posted' = Post(posted, {c}, Failed)
      /\ UNCHANGED <<chan, handle>>
  BY DEF StartBadUrl, CanCall
<1>4. CallsOK(chan, posted', handle, want') /\ \A d \in Call \ {c} : posted'[d] = posted[d]
  <2>1. AnswerPosted(posted, want, posted', want', c) /\ Typed(chan, posted, handle, want)
    BY <1>1, <1>2, DomainAssumption DEF Typed, AnswerPosted
  <2>2. want[c] = NULL /\ CallsOK(chan, posted, handle, want)
    BY <1>1, <1>2
  <2> QED
    BY <2>1, <2>2, PostedToCaller
<1>5. "" # NULL
  BY DomainAssumption
<1>6. Begun(c) /\ \A d \in Call \ {c} : Left(d)
  BY <1>1, <1>2, <1>4, <1>5 DEF Begun, Left, Posts
<1> QED
  BY <1>2, <1>4, <1>6 DEF CallStep

(* The part of CallStep that a call on its way shares with every other:    *)
(* the callers that did not make it.                                       *)
LEMMA OthersLeft ==
  ASSUME NEW c \in Call, NEW w, NEW z, PostsTo(posted, w.posted, want),
         \A d \in Call \ {c} : Posts(w.posted[d], z.posted[d], want[d]),
         posted' = z.posted,
         \A d \in Call \ {c} : handle'[d] = handle[d] /\ want'[d] = want[d]
  PROVE  \A d \in Call \ {c} : Left(d)
<1> SUFFICES ASSUME NEW d \in Call \ {c}
             PROVE  Left(d)
  OBVIOUS
<1>1. Posts(posted[d], w.posted[d], want[d]) /\ Posts(w.posted[d], z.posted[d], want[d])
  BY DEF PostsTo
<1>2. Posts(posted[d], posted'[d], want[d])
  BY <1>1 DEF Posts
<1> QED
  BY <1>2 DEF Left

LEMMA OpenedCalls ==
  ASSUME CallInv, NEW c \in Call, NEW r \in Rid, NEW p \in Ports, StartNew(c, r, p),
         NEW a \in Addr, NEW h \in Handle, Cleared(r).chan[a].status = "free",
         Become(CheckParallel(Opened(Cleared(r), c, r, p, a, h), max_parallel)),
         handle' = [handle EXCEPT ![c] = [channel |-> a, token |-> 1]]
  PROVE  CallStep
<1> DEFINE w == Cleared(r)
           n == NewChannel(r, p, h, c)
           o == Opened(w, c, r, p, a, h)
           z == CheckParallel(o, max_parallel)
<1>1. /\ chan \in [Addr -> Channel] /\ handle \in [Call -> UserHandle]
      /\ want \in [Call -> Rid \cup {"", NULL}] /\ World.posted = posted
      /\ World.chan = chan
  BY CallInvTypes
<1>2. WorldOK(w) /\ SameRefs(World, w) /\ Keeps(World, w, handle, want)
  BY ClearedOK, ClearedKeeps DEF CallInv
<1>3. /\ w.chan \in [Addr -> Channel] /\ CallsOK(w.chan, w.posted, handle, want)
      /\ PostsTo(posted, w.posted, want) /\ w \in WorldType
  BY <1>1, <1>2 DEF WorldOK, WorldType, Keeps
<1>4. /\ want[c] = NULL /\ handle[c].channel = NULL /\ want' = [want EXCEPT ![c] = r]
  BY DEF StartNew, CanCall
<1>5. WorldOK(o) /\ o.chan = [w.chan EXCEPT ![a] = n]
  BY <1>2, OpenedOK
<1>6. o.posted = w.posted
  BY <1>3 DEF Opened, WorldType
<1>7. n.status = "started" /\ n.call_backs = <<c>>
  BY DEF NewChannel, NoChannel
<1>8. w.chan[a].call_backs = <<>>
  BY <1>3 DEF CallsOK, CellsOK
<1>9. \A d \in Call : handle[d].channel # a
  <2>1. chan[a].nref = 0
    BY <1>1, <1>2 DEF WorldOK, SameRefs
  <2>2. Cardinality(Holders(a)) = 0 /\ IsFiniteSet(Holders(a))
    BY <2>1, DomainAssumption, FS_Subset DEF CallInv, RefInv, RefCountExact, Holders
  <2>3. Holders(a) = {}
    BY <2>2, FS_EmptySet
  <2> QED
    BY <2>3 DEF Holders
<1> HIDE DEF w, n, o
<1>10. /\ o.chan[a] = n /\ \A b \in Addr \ {a} : o.chan[b] = w.chan[b]
  BY <1>3, <1>5
<1>11. <<c>> = Append(<<>>, c) /\ Len(<<>>) + 1 = 1
  OBVIOUS
<1>12. CallsOK(o.chan, w.posted, handle', want')
  <2>1. o.chan[a].call_backs = Append(w.chan[a].call_backs, c) /\ o.chan[a].status = "started"
    BY <1>7, <1>8, <1>10, <1>11
  <2>2. 1 = Len(w.chan[a].call_backs) + 1
    BY <1>8, <1>11
  <2>3. \A b \in Addr \ {a} : /\ o.chan[b].call_backs = w.chan[b].call_backs
                              /\ o.chan[b].status = w.chan[b].status
                              /\ o.chan[b].rid = w.chan[b].rid
    BY <1>10
  <2>4. SlotTaken(w.chan, o.chan, handle, a, c)
    BY <1>9, <2>1, <2>3 DEF SlotTaken
  <2> QED
    BY <1>1, <1>3, <1>4, <2>2, <2>4, SlotAdded
<1>13. handle' \in [Call -> UserHandle]
  BY <1>1 DEF UserHandle
<1>14. Keeps(o, z, handle', want')
  BY <1>5, <1>6, <1>12, <1>13, CheckParallelKeeps
<1>15. chan' = z.chan /\ posted' = z.posted
  BY DEF Become, o, w
<1> HIDE DEF z
<1>16. \A d \in Call \ {c} : handle'[d] = handle[d] /\ want'[d] = want[d]
  BY <1>1, <1>4
<1>17. \A d \in Call \ {c} : Left(d)
  <2>1. \A d \in Call \ {c} : Posts(w.posted[d], z.posted[d], want[d])
    BY <1>6, <1>14, <1>16 DEF Keeps, PostsTo
  <2> QED
    BY <1>3, <1>15, <1>16, <2>1, OthersLeft
<1>18. Begun(c)
  <2>1. r # NULL
    BY DomainAssumption
  <2> QED
    BY <1>1, <1>4, <2>1 DEF Begun
<1> QED
  BY <1>14, <1>15, <1>17, <1>18 DEF Keeps, CallStep

LEMMA RefusedCalls ==
  ASSUME CallInv, NEW c \in Call, NEW r \in Rid, NEW p \in Ports, StartNew(c, r, p),
         Become([Cleared(r) EXCEPT !.posted = Post(@, {c}, Failed)]), UNCHANGED handle
  PROVE  CallStep
<1> DEFINE w == Cleared(r)
           q == Post(w.posted, {c}, Failed)
           z == [w EXCEPT !.posted = q]
<1>1. /\ handle \in [Call -> UserHandle]
      /\ want \in [Call -> Rid \cup {"", NULL}] /\ World.posted = posted
  BY CallInvTypes
<1>2. WorldOK(w) /\ Keeps(World, w, handle, want)
  BY ClearedOK, ClearedKeeps DEF CallInv
<1>3. /\ w.chan \in [Addr -> Channel] /\ CallsOK(w.chan, w.posted, handle, want)
      /\ w.posted \in [Call -> Seq(Answer)]
      /\ PostsTo(posted, w.posted, want) /\ w \in WorldType
  BY <1>1, <1>2 DEF WorldOK, WorldType, Keeps
<1>4. /\ want[c] = NULL /\ handle[c].channel = NULL /\ want' = [want EXCEPT ![c] = r]
  BY DEF StartNew, CanCall
<1>5. Become(z)
  OBVIOUS
<1> HIDE DEF w
<1>6. z.chan = w.chan /\ z.posted = q
  BY <1>3 DEF WorldType
<1>7. chan' = w.chan /\ posted' = q
  BY <1>5, <1>6 DEF Become
<1>9. CallsOK(w.chan, q, handle, want') /\ \A d \in Call \ {c} : q[d] = w.posted[d]
  <2>1. AnswerPosted(w.posted, want, q, want', c) /\ Typed(w.chan, w.posted, handle, want)
    BY <1>1, <1>3, <1>4, DomainAssumption DEF Typed, AnswerPosted
  <2>2. want[c] = NULL /\ CallsOK(w.chan, w.posted, handle, want)
    BY <1>3, <1>4
  <2> HIDE DEF q
  <2> QED
    BY <2>1, <2>2, PostedToCaller
<1> HIDE DEF q, z
<1>10. \A d \in Call \ {c} : Left(d)
  <2>1. \A d \in Call \ {c} : handle'[d] = handle[d] /\ want'[d] = want[d]
    BY <1>1, <1>4
  <2>2. \A d \in Call \ {c} : Posts(w.posted[d], z.posted[d], want[d])
    BY <1>6, <1>9 DEF Posts
  <2> QED
    BY <1>3, <1>6, <1>7, <2>1, <2>2, OthersLeft
<1>11. Begun(c)
  <2>1. r # NULL
    BY DomainAssumption
  <2> QED
    BY <1>1, <1>4, <2>1 DEF Begun
<1> QED
  BY <1>7, <1>9, <1>10, <1>11 DEF CallStep

LEMMA StartNewCalls ==
  ASSUME CallInv, NEW c \in Call, NEW r \in Rid, NEW p \in Ports, StartNew(c, r, p)
  PROVE  CallStep
<1>1. CASE \E a \in Addr, h \in Handle :
             /\ Cleared(r).chan[a].status = "free"
             /\ Become(CheckParallel(Opened(Cleared(r), c, r, p, a, h), max_parallel))
             /\ handle' = [handle EXCEPT ![c] = [channel |-> a, token |-> 1]]
  BY <1>1, OpenedCalls
<1>2. CASE /\ Become([Cleared(r) EXCEPT !.posted = Post(@, {c}, Failed)])
           /\ UNCHANGED handle
  BY <1>2, RefusedCalls
<1> QED
  BY <1>1, <1>2 DEF StartNew

(* A channel that runs gets one more user, whose answer is posted or who   *)
(* waits with the others.                                                  *)
LEMMA AttachedFields ==
  ASSUME CallInv, NEW c \in Call, NEW a \in Addr
  PROVE  /\ \A b \in Addr \ {a} : Attached(c, a).chan[b] = chan[b]
         /\ chan[a].status = "working" =>
              /\ SameCells(chan, Attached(c, a).chan)
              /\ \E m : Attached(c, a).posted = Post(posted, {c}, m)
         /\ chan[a].status # "working" =>
              /\ Attached(c, a).chan[a].call_backs = Append(chan[a].call_backs, c)
              /\ Attached(c, a).chan[a].status = chan[a].status
              /\ Attached(c, a).posted = posted
<1> DEFINE ch == Ref(chan[a])
           w  == [World EXCEPT !.chan[a] = ch]
           ans == [ec |-> chan[a].ec, url |-> chan[a].url]
           ch2 == [ch EXCEPT !.call_backs = Append(chan[a].call_backs, c)]
<1>1. World.chan = chan /\ World.posted = posted /\ chan \in [Addr -> Channel]
  BY CallInvTypes
<1>2. ch.call_backs = chan[a].call_backs /\ ch.status = chan[a].status /\ ch.rid = chan[a].rid
  <2>1. chan[a] \in Channel
    BY <1>1
  <2> QED
    BY <2>1, RefPut
<1>3. w = [World EXCEPT !.chan = [chan EXCEPT ![a] = ch]]
  BY <1>1
<1>4. ch2.call_backs = Append(chan[a].call_backs, c) /\ ch2.status = chan[a].status
  <2>1. chan[a] \in Channel
    BY <1>1
  <2> QED
    BY <2>1, RefSlotsPut
<1> HIDE DEF ch
<1>5. w.chan = [chan EXCEPT ![a] = ch] /\ w.posted = posted
  BY <1>3 DEF World
<1>6. CASE chan[a].status = "working"
  <2> DEFINE p1 == Post(posted, {c}, ans)
  <2>1. Attached(c, a) = [w EXCEPT !.posted = p1]
    BY <1>1, <1>5, <1>6 DEF Attached, ch
  <2> HIDE DEF p1
  <2>2. Attached(c, a).chan = [chan EXCEPT ![a] = ch] /\ Attached(c, a).posted = p1
    BY <1>3, <2>1 DEF World
  <2>3. SameCells(chan, Attached(c, a).chan)
    BY <1>1, <1>2, <2>2 DEF SameCells
  <2> QED
    BY <1>1, <1>6, <2>2, <2>3 DEF p1
<1>7. CASE chan[a].status # "working"
  <2>1. Attached(c, a) = [w EXCEPT !.chan[a].call_backs = Append(@, c)]
    BY <1>1, <1>7 DEF Attached, ch
  <2>2. Attached(c, a) = [World EXCEPT !.chan = [chan EXCEPT ![a] = ch2]]
    <3>1. [w EXCEPT !.chan[a].call_backs = Append(@, c)] =
            [w EXCEPT !.chan = [w.chan EXCEPT ![a] =
               [w.chan[a] EXCEPT !.call_backs = Append(w.chan[a].call_backs, c)]]]
      BY <1>3 DEF World
    <3>2. w.chan[a] = ch
      BY <1>1, <1>5
    <3>3. [w.chan EXCEPT ![a] = ch2] = [chan EXCEPT ![a] = ch2]
      BY <1>1, <1>5
    <3>4. Attached(c, a) = [w EXCEPT !.chan = [chan EXCEPT ![a] = ch2]]
      BY <1>2, <2>1, <3>1, <3>2, <3>3
    <3> HIDE DEF ch2
    <3> QED
      BY <1>3, <3>4 DEF World
  <2> HIDE DEF ch2
  <2>3. Attached(c, a).chan = [chan EXCEPT ![a] = ch2] /\ Attached(c, a).posted = posted
    BY <2>2 DEF World
  <2> QED
    BY <1>1, <1>4, <1>7, <2>3
<1> QED
  BY <1>6, <1>7

(* The handle that a call got answered at once names no slot.              *)
LEMMA NoTokenNoSlot ==
  ASSUME NEW ch \in [Addr -> Channel], NEW hd, NEW a \in Addr, NEW c \in Call,
         TokensOld(ch, hd), NEW hd2, hd2 = [hd EXCEPT ![c] = [channel |-> a, token |-> 0]],
         hd \in [Call -> UserHandle]
  PROVE  NoSlotTaken(ch, hd, hd2, c)
<1>1. hd2[c] = [channel |-> a, token |-> 0] /\ \A d \in Call \ {c} : hd2[d] = hd[d]
  OBVIOUS
<1>2. /\ Len(ch[a].call_backs) \in Nat
      /\ DOMAIN ch[a].call_backs = 1 .. Len(ch[a].call_backs)
  BY SlotType
<1>3. 0 \notin DOMAIN ch[a].call_backs /\ 0 <= Len(ch[a].call_backs)
  BY <1>2
<1>4. ~ InSlot(ch, hd2, c)
  BY <1>1, <1>3, DomainAssumption DEF InSlot, Slots
<1>5. TokensOld(ch, hd2)
  <2> SUFFICES ASSUME NEW d \in Call, hd2[d].channel # NULL,
                      ch[hd2[d].channel].status = "started"
               PROVE  hd2[d].token <= Len(ch[hd2[d].channel].call_backs)
    BY DEF TokensOld
  <2>1. CASE d = c
    BY <1>1, <1>3, <2>1
  <2>2. CASE d # c
    <3>1. hd2[d] = hd[d]
      BY <1>1, <2>2
    <3> QED
      BY <3>1 DEF TokensOld
  <2> QED
    BY <2>1, <2>2
<1> QED
  BY <1>1, <1>4, <1>5 DEF NoSlotTaken

LEMMA StartSharedCalls ==
  ASSUME CallInv, NEW c \in Call, NEW r \in Rid, NEW p \in Ports, StartShared(c, r, p)
  PROVE  CallStep
<1> DEFINE tok(a) == IF chan[a].status = "working" THEN 0 ELSE Len(chan[a].call_backs) + 1
<1>1. PICK a \in Matching(World, r) :
         /\ Become(CheckParallel(Attached(c, a), max_parallel))
         /\ handle' = [handle EXCEPT ![c] = [channel |-> a, token |-> tok(a)]]
  BY DEF StartShared
<1> DEFINE w == Attached(c, a)
           z == CheckParallel(w, max_parallel)
<1>2. /\ chan \in [Addr -> Channel] /\ posted \in [Call -> Seq(Answer)]
      /\ handle \in [Call -> UserHandle] /\ want \in [Call -> Rid \cup {"", NULL}]
      /\ CallsOK(chan, posted, handle, want) /\ World.chan = chan /\ World.channels = channels
  BY CallInvTypes DEF CallInv
<1>3. /\ want[c] = NULL /\ handle[c].channel = NULL /\ want' = [want EXCEPT ![c] = r]
      /\ r # NULL /\ r # ""
  BY DomainAssumption DEF StartShared, CanCall
<1>4. a \in Range(channels) /\ chan[a].rid = r
  BY <1>2 DEF Matching
<1>5. WorldOK(w) /\ a \in Addr
  BY <1>4, AttachedOK DEF CallInv
<1>6. chan[a].status \in {"started", "working"}
  BY <1>2, <1>3, <1>4, <1>5 DEF CallsOK, CellsOK
<1>7. handle' \in [Call -> UserHandle] /\ tok(a) \in Nat
  <2>1. tok(a) \in Nat
    <3>1. Len(chan[a].call_backs) \in Nat
      BY <1>2, <1>5, SlotType
    <3> QED
      BY <3>1
  <2> HIDE DEF tok
  <2> QED
    BY <1>1, <1>2, <1>5, <2>1 DEF UserHandle
<1>8. \A d \in Call \ {c} : handle'[d] = handle[d] /\ want'[d] = want[d]
  BY <1>1, <1>2, <1>3
<1>9. Begun(c)
  BY <1>2, <1>3 DEF Begun
<1> HIDE DEF w
<1>10. /\ CallsOK(w.chan, w.posted, handle', want')
       /\ \A d \in Call \ {c} : w.posted[d] = posted[d]
  <2>1. CASE chan[a].status = "working"
    <3>1. SameCells(chan, w.chan) /\ \E m : w.posted = Post(posted, {c}, m)
      BY <1>5, <2>1, AttachedFields DEF w
    <3>2. handle' = [handle EXCEPT ![c] = [channel |-> a, token |-> 0]]
      BY <1>1, <2>1
    <3>3. NoSlotTaken(chan, handle, handle', c)
      BY <1>2, <1>5, <3>2, NoTokenNoSlot DEF CallsOK
    <3>4. AnswerPosted(posted, want, w.posted, want', c)
      BY <1>3, <3>1 DEF AnswerPosted
    <3>5. Typed(chan, posted, handle, want)
      BY <1>2 DEF Typed
    <3>6. want[c] = NULL /\ CallsOK(chan, posted, handle, want)
      BY <1>2, <1>3
    <3>7. /\ CallsOK(chan, w.posted, handle', want')
          /\ \A d \in Call \ {c} : w.posted[d] = posted[d]
      BY <3>3, <3>4, <3>5, <3>6, PostedAtOnce
    <3>8. CallsOK(w.chan, w.posted, handle', want')
      BY <1>7, <3>1, <3>7, SameCellsKeep
    <3> QED
      BY <3>7, <3>8
  <2>2. CASE chan[a].status # "working"
    <3>1. /\ \A b \in Addr \ {a} : w.chan[b] = chan[b]
          /\ w.chan[a].call_backs = Append(chan[a].call_backs, c)
          /\ w.chan[a].status = chan[a].status /\ w.posted = posted
      BY <1>5, <2>2, AttachedFields DEF w
    <3>2. handle' = [handle EXCEPT ![c] =
             [channel |-> a, token |-> Len(chan[a].call_backs) + 1]]
      BY <1>1, <2>2
    <3>3. SlotTaken(chan, w.chan, handle, a, c)
      BY <1>6, <2>2, <3>1 DEF SlotTaken
    <3>4. CallsOK(w.chan, posted, handle', want')
      BY <1>2, <1>3, <1>5, <3>2, <3>3, SlotAdded
    <3> QED
      BY <3>1, <3>4
  <2> QED
    BY <2>1, <2>2
<1>11. Keeps(w, z, handle', want')
  BY <1>5, <1>7, <1>10, CheckParallelKeeps
<1>12. chan' = z.chan /\ posted' = z.posted
  BY <1>1 DEF Become, w
<1> HIDE DEF z
<1>13. \A d \in Call \ {c} : Left(d)
  <2>1. \A d \in Call \ {c} : Posts(w.posted[d], z.posted[d], want[d])
    BY <1>8, <1>11 DEF Keeps, PostsTo
  <2> QED
    BY <1>8, <1>10, <1>12, <2>1 DEF Left
<1> QED
  BY <1>9, <1>11, <1>12, <1>13 DEF Keeps, CallStep

---------------------------------------------------------------------------
(* Calls that are stopped *)

LEMMA SwappedFields ==
  ASSUME CallInv, NEW a \in Addr, NEW t, t \in DOMAIN chan[a].call_backs
  PROVE  LET v == Swapped(World, a, t) IN
         /\ v.chan[a].call_backs = [chan[a].call_backs EXCEPT ![t] = NULL]
         /\ \A b \in Addr \ {a} : v.chan[b] = chan[b]
         /\ \A b \in Addr : v.chan[b].status = chan[b].status /\ v.chan[b].rid = chan[b].rid
         /\ v.posted = Post(posted, {chan[a].call_backs[t]}, Aborted)
<1> DEFINE cbs == [chan[a].call_backs EXCEPT ![t] = NULL]
           ch  == [chan[a] EXCEPT !.call_backs = cbs]
           v   == Swapped(World, a, t)
<1>1. World.chan = chan /\ World.posted = posted /\ chan \in [Addr -> Channel]
  BY CallInvTypes
<1>2. v = [World EXCEPT !.chan = [chan EXCEPT ![a] = ch],
                        !.posted = Post(posted, {chan[a].call_backs[t]}, Aborted)]
  BY <1>1 DEF Swapped, Channel
<1>3. ch.call_backs = cbs /\ ch.status = chan[a].status /\ ch.rid = chan[a].rid
  <2> HIDE DEF cbs
  <2>1. chan[a] \in Channel
    BY <1>1
  <2> QED
    BY <2>1, SlotsPut
<1> HIDE DEF v, ch
<1>4. /\ v.chan = [chan EXCEPT ![a] = ch]
      /\ v.posted = Post(posted, {chan[a].call_backs[t]}, Aborted)
  BY <1>2 DEF World
<1> QED
  BY <1>1, <1>3, <1>4 DEF v

SlotSwap(v, a, t) ==
  /\ v.chan[a].call_backs = [chan[a].call_backs EXCEPT ![t] = NULL]
  /\ \A b \in Addr \ {a} : v.chan[b] = chan[b]
  /\ \A b \in Addr : v.chan[b].status = chan[b].status /\ v.chan[b].rid = chan[b].rid
  /\ v.posted = Post(posted, {chan[a].call_backs[t]}, Aborted)

LEMMA SwappedSlot ==
  ASSUME CallInv, NEW a \in Addr, NEW t, t \in DOMAIN chan[a].call_backs
  PROVE  SlotSwap(Swapped(World, a, t), a, t)
BY SwappedFields DEF SlotSwap

(* The rest of stop_channel counts and ages, and moves the channel.        *)
LEMMA UnreferencedFields ==
  ASSUME NEW v \in WorldType, NEW a \in Addr, NEW z,
         z = [v EXCEPT !.chan[a].nref = @ - 1] \/
         z = ToFront([v EXCEPT !.chan[a].nref = @ - 1], a)
  PROVE  SameCells(v.chan, z.chan) /\ z.posted = v.posted
<1> DEFINE n  == v.chan[a].nref - 1
           c1 == [v.chan[a] EXCEPT !.nref = n]
           u  == [v EXCEPT !.chan = [v.chan EXCEPT ![a] = c1]]
           c2 == [c1 EXCEPT !.expire = IdleExpire]
           s  == <<a>> \o Erase(v.channels, {a})
<1>1. v.chan \in [Addr -> Channel] /\ v.chan[a] \in Channel
  BY DEF WorldType
<1>2. [v EXCEPT !.chan[a].nref = @ - 1] = u
  BY <1>1 DEF WorldType
<1>3. /\ c1.status = v.chan[a].status /\ c1.rid = v.chan[a].rid
      /\ c1.call_backs = v.chan[a].call_backs
      /\ c2.status = v.chan[a].status /\ c2.rid = v.chan[a].rid
      /\ c2.call_backs = v.chan[a].call_backs
  <2> HIDE DEF n
  <2> QED
    BY <1>1 DEF Channel
<1> HIDE DEF c1
<1>4. u.chan = [v.chan EXCEPT ![a] = c1] /\ u.posted = v.posted /\ u.channels = v.channels
  BY DEF WorldType
<1>5. CASE z = [v EXCEPT !.chan[a].nref = @ - 1]
  <2>1. z.chan = [v.chan EXCEPT ![a] = c1] /\ z.posted = v.posted
    BY <1>2, <1>4, <1>5
  <2> QED
    BY <1>1, <1>3, <2>1 DEF SameCells
<1>6. CASE z = ToFront([v EXCEPT !.chan[a].nref = @ - 1], a)
  <2>1. z = ToFront(u, a)
    BY <1>2, <1>6
  <2>2. u.chan[a] = c1
    BY <1>1, <1>4
  <2>3. /\ z.chan = [u.chan EXCEPT ![a] = [u.chan[a] EXCEPT !.expire = IdleExpire]]
        /\ z.posted = u.posted
    BY <2>1 DEF ToFront, WorldType
  <2> HIDE DEF u
  <2>4. z.chan = [u.chan EXCEPT ![a] = c2]
    BY <2>2, <2>3
  <2> HIDE DEF c2
  <2>5. z.chan = [v.chan EXCEPT ![a] = c2] /\ z.posted = v.posted
    BY <1>1, <1>4, <2>3, <2>4
  <2> QED
    BY <1>1, <1>3, <2>5 DEF SameCells
<1> QED
  BY <1>5, <1>6

LEMMA ReleasedCalls ==
  ASSUME CallInv, NEW c \in Call, NEW a \in Addr, a = handle[c].channel,
         NEW hd2, hd2 = [handle EXCEPT ![c] = NoHandle]
  PROVE  /\ CallsOK(Released(c).chan, Released(c).posted, hd2, want)
         /\ PostsTo(posted, Released(c).posted, want)
<1> DEFINE t == handle[c].token
           v == IF HasSlot(a, t) THEN Swapped(World, a, t) ELSE World
           z == Released(c)
<1>1. /\ chan \in [Addr -> Channel] /\ posted \in [Call -> Seq(Answer)]
      /\ handle \in [Call -> UserHandle] /\ CallsOK(chan, posted, handle, want)
      /\ World.chan = chan /\ World.posted = posted /\ World \in WorldType
  BY CallInvTypes DEF CallInv, WorldOK
<1>2. a \in Range(channels) /\ t \in Nat
  <2>1. chan[a].nref # 0
    <3>1. c \in Holders(a) /\ IsFiniteSet(Holders(a))
      BY DomainAssumption, FS_Subset DEF Holders
    <3>2. Cardinality(Holders(a)) # 0
      BY <3>1, FS_EmptySet
    <3> QED
      BY <3>2 DEF CallInv, RefInv, RefCountExact
  <2> QED
    BY <1>1, <2>1 DEF CallInv, RefInv, VectorIsHeap, UserHandle
<1>3. HasSlot(a, t) <=> t \in DOMAIN chan[a].call_backs
  <2>1. /\ Len(chan[a].call_backs) \in Nat
        /\ DOMAIN chan[a].call_backs = 1 .. Len(chan[a].call_backs)
    BY <1>1, SlotType
  <2> QED
    BY <1>2, <2>1 DEF HasSlot
<1>4. v \in WorldType
  BY <1>1, <1>2, SwappedOK DEF CallInv, WorldOK
<1>5. SameCells(v.chan, z.chan) /\ z.posted = v.posted
  <2> HIDE DEF v
  <2>1. \/ z = [v EXCEPT !.chan[a].nref = @ - 1]
        \/ z = ToFront([v EXCEPT !.chan[a].nref = @ - 1], a)
    BY DEF Released, v
  <2> QED
    BY <1>4, <2>1, UnreferencedFields
<1>6. CallsOK(v.chan, v.posted, hd2, want) /\ PostsTo(posted, v.posted, want)
  <2>1. CASE t \in DOMAIN chan[a].call_backs
    <3>1. v = Swapped(World, a, t)
      BY <1>3, <2>1
    <3> HIDE DEF v, t
    <3>2. SlotSwap(v, a, t)
      BY <2>1, <3>1, SwappedSlot
    <3>3. SlotEmptied(chan, posted, handle, v.chan, v.posted, hd2, c, a, t)
      BY <2>1, <3>2 DEF SlotEmptied, SlotSwap, t
    <3>4. Typed(chan, posted, handle, want) /\ CallsOK(chan, posted, handle, want)
      BY CallInvTypes DEF Typed, CallInv
    <3>5. /\ CallsOK(v.chan, v.posted, hd2, want)
          /\ posted[c] = <<>> /\ want[c] # NULL /\ v.posted[c] # <<>>
          /\ \A d \in Call \ {c} : v.posted[d] = posted[d]
      BY <3>3, <3>4, SlotSwapped
    <3> QED
      BY <3>5 DEF PostsTo, Posts
  <2>2. CASE t \notin DOMAIN chan[a].call_backs
    <3>1. v.chan = chan /\ v.posted = posted
      BY <1>1, <1>3, <2>2
    <3>2. ~ InSlot(chan, handle, c)
      BY <2>2, DomainAssumption DEF InSlot, Slots
    <3>3. CallsOK(chan, posted, hd2, want)
      BY <1>1, <3>2, HandleGivenBack
    <3> QED
      BY <3>1, <3>3 DEF PostsTo, Posts
  <2> QED
    BY <2>1, <2>2
<1> HIDE DEF v, z
<1>7. hd2 \in [Call -> UserHandle]
  BY <1>1 DEF UserHandle, NoHandle
<1>8. CallsOK(z.chan, v.posted, hd2, want)
  BY <1>5, <1>6, <1>7, SameCellsKeep
<1> QED
  BY <1>5, <1>6, <1>8 DEF z

LEMMA StopChannelCalls ==
  ASSUME CallInv, NEW c \in Call, StopChannel(c)
  PROVE  CallStep
<1> DEFINE a == handle[c].channel
           w == Released(c)
           z == CheckParallel(w, max_parallel)
<1>1. /\ a # NULL /\ Become(z) /\ handle' = [handle EXCEPT ![c] = NoHandle]
      /\ want' = want
  BY DEF StopChannel
<1>2. handle \in [Call -> UserHandle]
  BY CallInvTypes
<1>3. a \in Addr /\ handle' \in [Call -> UserHandle]
  BY <1>1, <1>2 DEF UserHandle, NoHandle
<1>4. CallsOK(w.chan, w.posted, handle', want) /\ PostsTo(posted, w.posted, want)
  BY <1>1, <1>3, ReleasedCalls
<1>5. WorldOK(w)
  <2>1. chan[a].nref \in Nat \ {0}
    BY <1>1, OneHolderLess DEF CallInv
  <2> HIDE DEF a
  <2> QED
    BY <1>3, <2>1, ReleasedOK DEF CallInv, a
<1> HIDE DEF w
<1>6. Keeps(w, z, handle', want)
  BY <1>3, <1>4, <1>5, CheckParallelKeeps
<1>7. chan' = z.chan /\ posted' = z.posted
  BY <1>1 DEF Become, w
<1>8. PostsTo(posted, posted', want)
  BY <1>4, <1>6, <1>7, PostsToTransitive DEF Keeps
<1>9. Ended(c)
  BY <1>1, <1>2, <1>8 DEF Ended, PostsTo
<1>10. \A d \in Call \ {c} : Left(d)
  BY <1>1, <1>2, <1>8 DEF Left, PostsTo
<1> QED
  BY <1>1, <1>6, <1>7, <1>9, <1>10 DEF Keeps, CallStep

---------------------------------------------------------------------------
(* The theorems *)

LEMMA CallInvInit == Init => CallInv
<1> SUFFICES ASSUME Init
             PROVE  CallInv
  OBVIOUS
<1>1. RefInv
  BY RefInvInit
<1>2. /\ \A a \in Addr : /\ chan[a].call_backs = <<>> /\ chan[a].rid = ""
                         /\ chan[a].status = "free"
      /\ \A c \in Call : /\ posted[c] = <<>> /\ want[c] = NULL
                         /\ handle[c].channel = NULL
  BY DEF Init, NoChannel, NoHandle
<1>3. ASSUME NEW c \in Call PROVE ~ InSlot(chan, handle, c)
  <2>1. Slots(chan, handle, c) = <<>>
    BY <1>2 DEF Slots
  <2> QED
    BY <2>1 DEF InSlot
<1>4. CellsOK(chan) /\ TokensOld(chan, handle) /\ SlotsNamed(chan, handle)
  <2>1. CellsOK(chan) /\ TokensOld(chan, handle)
    BY <1>2 DEF CellsOK, TokensOld
  <2>2. ASSUME NEW a \in Addr, NEW k \in DOMAIN chan[a].call_backs PROVE FALSE
    <3>1. chan[a].call_backs = <<>>
      BY <1>2
    <3>2. k \in DOMAIN <<>>
      BY <3>1
    <3> QED
      BY <3>2
  <2> QED
    BY <2>1, <2>2 DEF SlotsNamed
<1>5. \A c \in Call : InOnePlace(chan, posted, handle, want, c)
  BY <1>2, <1>3 DEF InOnePlace
<1> QED
  BY <1>1, <1>4, <1>5 DEF CallInv, CallsOK

LEMMA CallStepIs == CallInv /\ [Next]_vars => CallStep
<1> SUFFICES ASSUME CallInv, [Next]_vars
             PROVE  CallStep
  OBVIOUS
<1>1. CASE \E c \in Call : StartBadUrl(c) \/ StopChannel(c) \/ RunCallback(c)
  BY <1>1, StartBadUrlCalls, StopChannelCalls, RunCallbackCalls
<1>2. CASE \E c \in Call, r \in Rid, p \in Ports : StartNew(c, r, p) \/ StartShared(c, r, p)
  BY <1>2, StartNewCalls, StartSharedCalls
<1>3. CASE \E a \in Addr : HandleStartChannel(a)
  BY <1>3, HandleStartChannelCalls
<1>4. CASE \E h \in Handle : ModuleAnswers(h)
  BY <1>4, UnchangedCalls DEF ModuleAnswers
<1>5. CASE \E m \in MaxParallel : SetMaxParallel(m)
  BY <1>5, SetMaxParallelCalls
<1>6. CASE \E failed \in SUBSET MayFail : HandleTimer(failed)
  BY <1>6, HandleTimerCalls
<1>7. CASE Shutdown
  BY <1>7, ShutdownCalls
<1>8. CASE UNCHANGED vars
  BY <1>8, UnchangedCalls DEF vars
<1> QED
  BY <1>1, <1>2, <1>3, <1>4, <1>5, <1>6, <1>7, <1>8 DEF Next

LEMMA CallInvStep == CallInv /\ [Next]_vars => CallInv'
BY RefInvStep, CallStepIs DEF CallInv, CallStep

(* The callbacks are in their places after every handler.                  *)
THEOREM CallInvHolds == Spec => []CallInv
BY CallInvInit, CallInvStep, PTL DEF Spec

(* A call's callback is in one place while it is owed, a slot or the queue *)
(* of the io_service, and nowhere else afterwards; a token names its own   *)
(* slot or none, so that stop_channel takes nobody else's callback.        *)
THEOREM CallbacksInOnePlace == Spec => []CallbackOnce
<1>1. CallInv => CallbackOnce
  BY DEF CallInv, CallsOK, SlotsNamed, InOnePlace, InSlot, Slots, CallbackOnce
<1> QED
  BY <1>1, CallInvHolds, PTL

(* How the two variables of the contract move for one caller.              *)
Holds(c) == handle[c].channel # NULL

Moved(c, p, q, before, after) ==
  /\ UserPhase(c) = p /\ UserPhase(c)' = q
  /\ Holds(c) = before /\ Holds(c)' = after

Stayed(c) == UserPhase(c)' = UserPhase(c) /\ Holds(c)' = Holds(c)

LEMMA MovedIsMoves ==
  ASSUME NEW c \in Call, NEW p, NEW q, NEW before \in BOOLEAN, NEW after \in BOOLEAN,
         Moved(c, p, q, before, after)
  PROVE  UserSide!Moves(c, p, q, before, after)
BY DEF Moved, Holds, UserSide!Moves

LEMMA StayedIsStill ==
  ASSUME NEW c \in Call, Stayed(c)
  PROVE  UserSide!Still(c)
BY DEF Stayed, Holds, UserSide!Still

LEMMA PhaseIs ==
  ASSUME NEW c \in Call, InOnePlace(chan, posted, handle, want, c)
  PROVE  /\ posted[c] # <<>> => UserPhase(c) = "posted"
         /\ posted[c] = <<>> /\ want[c] = NULL => UserPhase(c) = "none"
         /\ posted[c] = <<>> /\ want[c] # NULL => UserPhase(c) = "due" /\ Holds(c)
         /\ want[c] = NULL => posted[c] = <<>>
         /\ Holds(c) \in BOOLEAN
BY DEF InOnePlace, InSlot, Slots, Holds, UserPhase

LEMMA PhaseWillBe ==
  ASSUME NEW c \in Call, InOnePlace(chan', posted', handle', want', c)
  PROVE  /\ posted'[c] # <<>> => UserPhase(c)' = "posted"
         /\ posted'[c] = <<>> /\ want'[c] = NULL => UserPhase(c)' = "none"
         /\ posted'[c] = <<>> /\ want'[c] # NULL => UserPhase(c)' = "due" /\ Holds(c)'
         /\ want'[c] = NULL => posted'[c] = <<>>
         /\ Holds(c)' \in BOOLEAN
BY DEF InOnePlace, InSlot, Slots, Holds, UserPhase

(* What a step does to a caller is a step of the contract.                 *)
LEMMA CallerStep ==
  ASSUME CallInv, CallStep, NEW c \in Call
  PROVE  \/ Stayed(c)
         \/ Moved(c, "none", "due", FALSE, TRUE)
         \/ \E b \in BOOLEAN : Moved(c, "none", "posted", FALSE, b)
         \/ Moved(c, "due", "posted", TRUE, TRUE)
         \/ Moved(c, "due", "posted", TRUE, FALSE)
         \/ \E p \in {"none", "posted"} : Moved(c, p, p, TRUE, FALSE)
         \/ \E b \in BOOLEAN : Moved(c, "posted", "none", b, b)
<1>1. /\ InOnePlace(chan, posted, handle, want, c)
      /\ InOnePlace(chan', posted', handle', want', c)
  BY DEF CallInv, CallStep, CallsOK
<1>2. CASE Left(c)
  <2>1. Holds(c)' = Holds(c)
    BY <1>2 DEF Left, Holds
  <2>2. CASE posted'[c] = posted[c]
    <3>1. UserPhase(c)' = UserPhase(c)
      BY <1>2, <2>2 DEF Left, UserPhase
    <3> QED
      BY <2>1, <3>1 DEF Stayed
  <2>3. CASE posted[c] = <<>> /\ want[c] # NULL /\ posted'[c] # <<>>
    <3>1. Moved(c, "due", "posted", TRUE, TRUE)
      BY <1>1, <2>1, <2>3, PhaseIs, PhaseWillBe DEF Moved
    <3> QED
      BY <3>1
  <2> QED
    BY <1>2, <2>2, <2>3 DEF Left, Posts
<1>3. CASE Begun(c)
  <2>1. UserPhase(c) = "none" /\ Holds(c) = FALSE
    BY <1>1, <1>3, PhaseIs DEF Begun, Holds
  <2>2. CASE posted'[c] = <<>>
    <3>1. Moved(c, "none", "due", FALSE, TRUE)
      BY <1>1, <1>3, <2>1, <2>2, PhaseWillBe DEF Begun, Moved
    <3> QED
      BY <3>1
  <2>3. CASE posted'[c] # <<>>
    <3>1. Moved(c, "none", "posted", FALSE, Holds(c)') /\ Holds(c)' \in BOOLEAN
      BY <1>1, <2>1, <2>3, PhaseWillBe DEF Moved
    <3> QED
      BY <3>1
  <2> QED
    BY <2>2, <2>3
<1>4. CASE Ended(c)
  <2>1. Holds(c) = TRUE /\ Holds(c)' = FALSE
    BY <1>4 DEF Ended, Holds, NoHandle
  <2>2. posted'[c] = <<>> => want'[c] = NULL
    BY <1>1, <2>1, PhaseWillBe
  <2>3. CASE posted[c] = <<>> /\ want[c] # NULL
    <3>1. posted'[c] # <<>>
      BY <1>4, <2>2, <2>3 DEF Ended
    <3>2. Moved(c, "due", "posted", TRUE, FALSE)
      BY <1>1, <2>1, <2>3, <3>1, PhaseIs, PhaseWillBe DEF Moved
    <3> QED
      BY <3>2
  <2>4. CASE posted[c] # <<>>
    <3>1. posted'[c] # <<>>
      BY <1>4, <2>4 DEF Ended, Posts
    <3>2. Moved(c, "posted", "posted", TRUE, FALSE)
      BY <1>1, <2>1, <2>4, <3>1, PhaseIs, PhaseWillBe DEF Moved
    <3> QED
      BY <3>2
  <2>5. CASE posted[c] = <<>> /\ want[c] = NULL
    <3>1. posted'[c] = <<>> /\ want'[c] = NULL
      BY <1>4, <2>5 DEF Ended, Posts
    <3>2. Moved(c, "none", "none", TRUE, FALSE)
      BY <1>1, <2>1, <2>5, <3>1, PhaseIs, PhaseWillBe DEF Moved
    <3> QED
      BY <3>2
  <2> QED
    BY <2>3, <2>4, <2>5
<1>5. CASE Ran(c)
  <2>1. posted'[c] = <<>> /\ want'[c] = NULL
    BY <1>1, <1>5, PhaseWillBe DEF Ran
  <2>2. Holds(c)' = Holds(c)
    BY <1>5 DEF Ran, Holds
  <2>3. Moved(c, "posted", "none", Holds(c), Holds(c)) /\ Holds(c) \in BOOLEAN
    BY <1>1, <1>5, <2>1, <2>2, PhaseIs, PhaseWillBe DEF Ran, Moved
  <2> QED
    BY <2>3
<1> QED
  BY <1>2, <1>3, <1>4, <1>5 DEF CallStep

LEMMA ContractInit == Init => UserSide!Init
<1> SUFFICES ASSUME Init
             PROVE  UserSide!Init
  OBVIOUS
<1>1. \A c \in Call : UserPhase(c) = "none" /\ (handle[c].channel # NULL) = FALSE
  BY DEF Init, UserPhase, NoHandle
<1> QED
  BY <1>1, Zenon DEF UserSide!Init

LEMMA ContractStep ==
  ASSUME CallInv, [Next]_vars
  PROVE  UserSide!Next
<1>1. CallStep
  BY CallStepIs
<1>2. ASSUME NEW c \in Call PROVE UserSide!Step(c) \/ UserSide!Still(c)
  BY <1>1, CallerStep, MovedIsMoves, StayedIsStill, Zenon
    DEF UserSide!Step, UserSide!Start, UserSide!Answer, UserSide!Stop, UserSide!Run
<1>3. \A c \in Call : UserPhase(c)' \in UserSide!Phase
  BY DEF UserPhase, UserSide!Phase
<1> QED
  BY <1>2, <1>3 DEF UserSide!Next

(* LiveManager keeps its promise to its users: each start is answered      *)
(* once, and by its own stop at the latest, whatever else is shared,       *)
(* restarted, evicted, expired or shut down meanwhile.                     *)
THEOREM ContractKept == Spec => KeepsContract
<1>1. CallInv /\ [Next]_vars => [UserSide!Next]_(UserSide!vars)
  BY ContractStep
<1> QED
  BY <1>1, ContractInit, CallInvHolds, PTL DEF Spec, KeepsContract, UserSide!Spec
=============================================================================
