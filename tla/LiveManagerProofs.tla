------------------------- MODULE LiveManagerProofs -------------------------
(***************************************************************************)
(* Proofs about LiveManager for every set of calls, cells and handles and  *)
(* every value of the limits.                                              *)
(***************************************************************************)
EXTENDS LiveManager, FiniteSetTheorems, FunctionTheorems, SequenceTheorems, TLAPS

Distinct(s) == \A i, j \in DOMAIN s : s[i] = s[j] => i = j

---------------------------------------------------------------------------
(* Erase: what std::remove and vector::erase leave of channels_ *)

(* The rank numbers the members of a finite set of naturals from 1 on,     *)
(* each number once.                                                       *)
LEMMA RankIsBijection ==
  ASSUME NEW K \in SUBSET Nat, IsFiniteSet(K)
  PROVE  /\ Cardinality(K) \in Nat
         /\ \A i \in K : RankIn(K, i) \in 1 .. Cardinality(K)
         /\ \A i, j \in K : i < j => RankIn(K, i) < RankIn(K, j)
         /\ \A n \in 1 .. Cardinality(K) : \E i \in K : RankIn(K, i) = n
<1> DEFINE below(i) == {j \in K : j <= i}
           rank     == [i \in K |-> RankIn(K, i)]
           N        == Cardinality(K)
<1>1. N \in Nat
  BY FS_CardinalityType
<1>2. \A i \in K : IsFiniteSet(below(i)) /\ Cardinality(below(i)) \in 1 .. N
  <2> SUFFICES ASSUME NEW i \in K
               PROVE  IsFiniteSet(below(i)) /\ Cardinality(below(i)) \in 1 .. N
    OBVIOUS
  <2>0. i \in Int
    OBVIOUS
  <2>1. IsFiniteSet(below(i)) /\ Cardinality(below(i)) <= N
    BY FS_Subset
  <2>2. Cardinality(below(i)) \in Nat
    BY <2>1, FS_CardinalityType
  <2>3. i \in below(i)
    BY <2>0
  <2>4. Cardinality(below(i)) # 0
    BY <2>1, <2>3, FS_EmptySet
  <2> QED
    BY <1>1, <2>1, <2>2, <2>4
<1>3. \A i, j \in K : i < j => Cardinality(below(i)) < Cardinality(below(j))
  <2> SUFFICES ASSUME NEW i \in K, NEW j \in K, i < j
               PROVE  Cardinality(below(i)) < Cardinality(below(j))
    OBVIOUS
  <2>0. i \in Int /\ j \in Int /\ \A k \in K : k \in Int
    OBVIOUS
  <2>1. below(i) \subseteq below(j) /\ j \in below(j) /\ j \notin below(i)
    <3>1. \A k \in K : k <= i => k <= j
      BY <2>0
    <3>2. j <= j /\ ~ (j <= i)
      BY <2>0
    <3> QED
      BY <3>1, <3>2, Zenon
  <2>2. /\ Cardinality(below(i)) <= Cardinality(below(j))
        /\ Cardinality(below(j)) = Cardinality(below(i)) => below(j) = below(i)
    BY <1>2, <2>1, FS_Subset
  <2>3. Cardinality(below(j)) # Cardinality(below(i))
    BY <2>1, <2>2
  <2> QED
    BY <1>2, <2>2, <2>3
<1>4. \A i \in K : rank[i] = Cardinality(below(i)) /\ RankIn(K, i) = rank[i]
  BY DEF RankIn
<1>5. rank \in Injection(K, 1 .. N)
  <2>1. rank \in [K -> 1 .. N]
    BY <1>2, <1>4
  <2>2. \A i, j \in K : rank[i] = rank[j] => i = j
    <3> SUFFICES ASSUME NEW i \in K, NEW j \in K, rank[i] = rank[j], i # j
                 PROVE  FALSE
      OBVIOUS
    <3>0. i \in Int /\ j \in Int
      OBVIOUS
    <3>1. i < j \/ j < i
      BY <3>0
    <3>2. Cardinality(below(i)) = Cardinality(below(j)) /\ Cardinality(below(i)) \in Int
      BY <1>1, <1>2, <1>4
    <3> QED
      BY <1>3, <3>1, <3>2
  <2> QED
    BY <2>1, <2>2, Fun_IsInj
<1>6. IsFiniteSet(1 .. N) /\ Cardinality(1 .. N) = N
  BY <1>1, FS_Interval
<1>7. rank \in Surjection(K, 1 .. N)
  BY <1>5, <1>6, FS_Injection
<1>8. \A n \in 1 .. N : \E i \in K : rank[i] = n
  BY <1>7 DEF Surjection
<1> QED
  BY <1>1, <1>2, <1>3, <1>4, <1>8

LEMMA RankIsInjective ==
  ASSUME NEW K \in SUBSET Nat, IsFiniteSet(K),
         NEW i \in K, NEW j \in K, RankIn(K, i) = RankIn(K, j)
  PROVE  i = j
<1>1. i \in Int /\ j \in Int
  OBVIOUS
<1>2. RankIn(K, i) \in Int
  BY RankIsBijection
<1>3. ~ (i < j) /\ ~ (j < i)
  BY <1>2, RankIsBijection
<1> QED
  BY <1>1, <1>3

(* The survivors keep their values, their number and their order.          *)
LEMMA EraseIsSequence ==
  ASSUME NEW S, NEW s \in Seq(S), NEW gone
  PROVE  /\ Erase(s, gone) \in Seq(S)
         /\ Range(Erase(s, gone)) = Range(s) \ gone
         /\ Distinct(s) => Distinct(Erase(s, gone))
<1> DEFINE K     == Kept(s, gone)
           at(n) == CHOOSE i \in K : RankIn(K, i) = n
           e     == Erase(s, gone)
<1>1. Len(s) \in Nat /\ DOMAIN s = 1 .. Len(s) /\ \A i \in DOMAIN s : s[i] \in S
  BY LenProperties, ElementOfSeq
<1>2. K \in SUBSET Nat /\ K \subseteq DOMAIN s /\ IsFiniteSet(K)
  <2>1. K \subseteq 1 .. Len(s)
    BY <1>1 DEF Kept
  <2>2. IsFiniteSet(1 .. Len(s))
    BY <1>1, FS_Interval
  <2> QED
    BY <1>1, <2>1, <2>2, FS_Subset
<1>3. /\ Cardinality(K) \in Nat
      /\ \A i \in K : RankIn(K, i) \in 1 .. Cardinality(K)
      /\ \A n \in 1 .. Cardinality(K) : \E i \in K : RankIn(K, i) = n
  BY <1>2, RankIsBijection
<1>4. \A n \in 1 .. Cardinality(K) : at(n) \in K /\ RankIn(K, at(n)) = n
  BY <1>3
<1>5. /\ DOMAIN e = 1 .. Cardinality(K)
      /\ \A n \in 1 .. Cardinality(K) : e[n] = s[at(n)]
  BY DEF Erase
<1>6. \A i \in K : i \in DOMAIN s /\ s[i] \in S /\ s[i] \notin gone
  BY <1>1 DEF Kept
<1>7. \A n \in 1 .. Cardinality(K) : e[n] \in S
  BY <1>4, <1>5, <1>6
<1>8. e \in Seq(S)
  <2>1. e = [n \in 1 .. Cardinality(K) |-> s[at(n)]]
    BY DEF Erase
  <2>2. e \in [1 .. Cardinality(K) -> S]
    BY <2>1, <1>7, <1>5
  <2> QED
    BY <1>3, <2>2, SeqDef
<1>9. \A i \in K : \E n \in 1 .. Cardinality(K) : at(n) = i
  <2> SUFFICES ASSUME NEW i \in K
               PROVE  at(RankIn(K, i)) = i
    BY <1>3
  <2>1. RankIn(K, i) \in 1 .. Cardinality(K)
    BY <1>3
  <2>2. at(RankIn(K, i)) \in K /\ RankIn(K, at(RankIn(K, i))) = RankIn(K, i)
    BY <1>4, <2>1
  <2> QED
    BY <1>2, <2>2, RankIsInjective
<1>10. Range(e) = Range(s) \ gone
  <2>1. ASSUME NEW x \in Range(e)
        PROVE  x \in Range(s) \ gone
    BY <1>4, <1>5, <1>6 DEF Range
  <2>2. ASSUME NEW x \in Range(s) \ gone
        PROVE  x \in Range(e)
    <3>1. PICK i \in DOMAIN s : s[i] = x
      BY DEF Range
    <3>2. i \in K
      BY <3>1 DEF Kept
    <3>3. PICK n \in 1 .. Cardinality(K) : at(n) = i
      BY <1>9, <3>2
    <3> QED
      BY <1>5, <3>1, <3>3 DEF Range
  <2> QED
    BY <2>1, <2>2
<1>11. ASSUME Distinct(s)
       PROVE  Distinct(e)
  <2> SUFFICES ASSUME NEW m \in DOMAIN e, NEW n \in DOMAIN e, e[m] = e[n]
               PROVE  m = n
    BY DEF Distinct
  <2>1. at(m) \in DOMAIN s /\ at(n) \in DOMAIN s /\ s[at(m)] = s[at(n)]
    BY <1>4, <1>5, <1>6
  <2>2. at(m) = at(n)
    BY <1>11, <2>1 DEF Distinct
  <2> QED
    BY <1>4, <1>5, <2>2
<1> QED
  BY <1>8, <1>10, <1>11

LEMMA AppendDistinct ==
  ASSUME NEW S, NEW s \in Seq(S), NEW x \in S
  PROVE  /\ Append(s, x) \in Seq(S)
         /\ Range(Append(s, x)) = Range(s) \cup {x}
         /\ Distinct(s) /\ x \notin Range(s) => Distinct(Append(s, x))
<1> DEFINE t == Append(s, x)
<1>1. /\ t \in Seq(S) /\ Len(t) = Len(s) + 1 /\ t[Len(s) + 1] = x
      /\ \A i \in 1 .. Len(s) : t[i] = s[i]
  BY AppendProperties
<1>2. Len(s) \in Nat /\ DOMAIN s = 1 .. Len(s) /\ DOMAIN t = 1 .. Len(s) + 1
  BY <1>1, LenProperties
<1>3. \A i \in DOMAIN t : i \in DOMAIN s \/ i = Len(s) + 1
  BY <1>2
<1>4. Range(t) = Range(s) \cup {x}
  BY <1>1, <1>2, <1>3 DEF Range
<1>5. ASSUME Distinct(s), x \notin Range(s)
      PROVE  Distinct(t)
  BY <1>1, <1>2, <1>3, <1>5 DEF Distinct, Range
<1> QED
  BY <1>1, <1>4, <1>5

LEMMA ConcatDistinct ==
  ASSUME NEW S, NEW s \in Seq(S), NEW t \in Seq(S), Distinct(s), Distinct(t),
         Range(s) \cap Range(t) = {}
  PROVE  /\ s \o t \in Seq(S)
         /\ Range(s \o t) = Range(s) \cup Range(t)
         /\ Distinct(s \o t)
<1> DEFINE u == s \o t
<1>1. /\ u \in Seq(S) /\ Len(u) = Len(s) + Len(t)
      /\ \A i \in 1 .. Len(s) + Len(t) : u[i] = IF i <= Len(s) THEN s[i] ELSE t[i - Len(s)]
  BY ConcatProperties
<1>2. /\ Len(s) \in Nat /\ DOMAIN s = 1 .. Len(s)
      /\ Len(t) \in Nat /\ DOMAIN t = 1 .. Len(t)
      /\ DOMAIN u = 1 .. Len(s) + Len(t)
  BY <1>1, LenProperties
<1>3. Range(u) = Range(s) \cup Range(t)
  BY RangeConcatenation
<1>4. ASSUME NEW i \in DOMAIN u, NEW j \in DOMAIN u, u[i] = u[j]
      PROVE  i = j
  <2>1. CASE i <= Len(s) /\ j <= Len(s)
    BY <1>1, <1>2, <1>4, <2>1 DEF Distinct
  <2>2. CASE ~ (i <= Len(s)) /\ ~ (j <= Len(s))
    <3>1. i - Len(s) \in DOMAIN t /\ j - Len(s) \in DOMAIN t
      BY <1>2, <2>2
    <3>2. t[i - Len(s)] = t[j - Len(s)]
      BY <1>1, <1>2, <1>4, <2>2
    <3>3. i - Len(s) = j - Len(s)
      BY <3>1, <3>2 DEF Distinct
    <3> QED
      BY <1>2, <3>3
  <2>3. CASE i <= Len(s) /\ ~ (j <= Len(s))
    <3>1. u[i] \in Range(s)
      BY <1>1, <1>2, <2>3 DEF Range
    <3>2. u[j] \in Range(t)
      BY <1>1, <1>2, <2>3 DEF Range
    <3> QED
      BY <1>4, <3>1, <3>2
  <2>4. CASE ~ (i <= Len(s)) /\ j <= Len(s)
    <3>1. u[i] \in Range(t)
      BY <1>1, <1>2, <2>4 DEF Range
    <3>2. u[j] \in Range(s)
      BY <1>1, <1>2, <2>4 DEF Range
    <3> QED
      BY <1>4, <3>1, <3>2
  <2> QED
    BY <2>1, <2>2, <2>3, <2>4
<1> QED
  BY <1>1, <1>3, <1>4 DEF Distinct

LEMMA ShiftedIndex ==
  ASSUME NEW L \in Nat, NEW n \in Nat, n <= L
  PROVE  /\ L - (n + 1) + 1 = L - n
         /\ (IF n + 1 <= L THEN L - n ELSE 0) = L - n
         /\ \A i \in 1 .. L - n : (n + 1) + i - 1 = n + i
OBVIOUS

LEMMA SplitDistinct ==
  ASSUME NEW S, NEW s \in Seq(S), Distinct(s), NEW n \in 0 .. Len(s)
  PROVE  LET f == SubSeq(s, 1, n)
             t == SubSeq(s, n + 1, Len(s))
         IN  /\ f \in Seq(S) /\ t \in Seq(S) /\ Distinct(f) /\ Distinct(t)
             /\ Range(f) \cap Range(t) = {} /\ Range(f) \cup Range(t) = Range(s)
<1> DEFINE f == SubSeq(s, 1, n)
           t == SubSeq(s, n + 1, Len(s))
<1>1. /\ Len(s) \in Nat /\ n \in Nat /\ n <= Len(s) /\ DOMAIN s = 1 .. Len(s)
      /\ \A i \in 1 .. Len(s) : s[i] \in S
  BY LenProperties, ElementOfSeq
<1>2. f \in Seq(S) /\ Len(f) = n /\ \A i \in 1 .. n : f[i] = s[i]
  BY <1>1, SubSeqProperties
<1>3. /\ t \in Seq(S) /\ Len(t) = Len(s) - n
      /\ \A i \in 1 .. Len(s) - n : t[i] = s[n + i]
  <2>1. \A i \in n + 1 .. Len(s) : s[i] \in S
    BY <1>1
  <2>2. /\ t \in Seq(S) /\ Len(t) = IF n + 1 <= Len(s) THEN Len(s) - (n + 1) + 1 ELSE 0
        /\ \A i \in 1 .. Len(s) - (n + 1) + 1 : t[i] = s[(n + 1) + i - 1]
    BY <1>1, <2>1, SubSeqProperties
  <2>3. /\ Len(s) - (n + 1) + 1 = Len(s) - n
        /\ (IF n + 1 <= Len(s) THEN Len(s) - n ELSE 0) = Len(s) - n
        /\ \A i \in 1 .. Len(s) - n : (n + 1) + i - 1 = n + i
    BY <1>1, ShiftedIndex
  <2> QED
    BY <2>2, <2>3
<1>4. DOMAIN f = 1 .. n /\ DOMAIN t = 1 .. Len(s) - n
  BY <1>2, <1>3, LenProperties
<1> DEFINE L == Len(s)
<1> HIDE DEF L, f, t
<1>a. /\ L \in Nat /\ DOMAIN f = 1 .. n /\ DOMAIN t = 1 .. L - n /\ DOMAIN s = 1 .. L
      /\ n \in Nat /\ n <= L
      /\ \A i \in 1 .. n : f[i] = s[i]
      /\ \A i \in 1 .. L - n : n + i \in DOMAIN s /\ t[i] = s[n + i]
  BY <1>1, <1>2, <1>3, <1>4 DEF L
<1>5. Distinct(f)
  BY <1>1, <1>2, <1>4 DEF Distinct
<1>6. Distinct(t)
  <2> SUFFICES ASSUME NEW i \in DOMAIN t, NEW j \in DOMAIN t, t[i] = t[j]
               PROVE  i = j
    BY DEF Distinct
  <2>1. n + i \in DOMAIN s /\ n + j \in DOMAIN s /\ s[n + i] = s[n + j]
    BY <1>a
  <2>2. n + i = n + j
    BY <2>1 DEF Distinct
  <2> QED
    BY <1>a, <2>2
<1>7. \A i \in DOMAIN f, j \in DOMAIN t : f[i] # t[j]
  <2> SUFFICES ASSUME NEW i \in DOMAIN f, NEW j \in DOMAIN t, f[i] = t[j]
               PROVE  FALSE
    OBVIOUS
  <2>1. i \in DOMAIN s /\ n + j \in DOMAIN s /\ s[i] = s[n + j] /\ i # n + j
    BY <1>a
  <2> QED
    BY <2>1 DEF Distinct
<1>8. Range(f) \cap Range(t) = {}
  BY <1>7 DEF Range
<1>9. Range(f) \subseteq Range(s) /\ Range(t) \subseteq Range(s)
  <2>1. Range(f) \subseteq Range(s)
    BY <1>a DEF Range
  <2>2. Range(t) \subseteq Range(s)
    BY <1>a DEF Range
  <2> QED
    BY <2>1, <2>2
<1>10. \A k \in DOMAIN s : s[k] \in Range(f) \/ s[k] \in Range(t)
  <2> SUFFICES ASSUME NEW k \in DOMAIN s
               PROVE  s[k] \in Range(f) \/ s[k] \in Range(t)
    OBVIOUS
  <2>1. CASE k <= n
    BY <1>a, <2>1 DEF Range
  <2>2. CASE ~ (k <= n)
    <3>1. k - n \in DOMAIN t /\ t[k - n] = s[k]
      <4>1. k \in Nat /\ k - n \in 1 .. L - n /\ n + (k - n) = k
        BY <1>a, <2>2
      <4> QED
        BY <1>a, <4>1
    <3> QED
      BY <3>1 DEF Range
  <2> QED
    BY <2>1, <2>2
<1>11. Range(f) \cup Range(t) = Range(s)
  BY <1>9, <1>10 DEF Range
<1> QED
  BY <1>2, <1>3, <1>5, <1>6, <1>8, <1>11 DEF f, t

LEMMA ModRange ==
  ASSUME NEW n \in Nat \ {0}, NEW x \in Int
  PROVE  x % n \in 0 .. n - 1
OBVIOUS

---------------------------------------------------------------------------
(* The helpers that map a World to a World *)

WorldType ==
  [chan : [Addr -> Channel], channels : Seq(Addr), sess : [Handle -> Session],
   done : [Addr -> Seq(Answer)], posted : [Call -> Seq(Answer)]]

(* VectorIsHeap, and the reference count of a cell that is not allocated.  *)
WorldOK(w) ==
  /\ w \in WorldType
  /\ Distinct(w.channels)
  /\ Range(w.channels) = {a \in Addr : w.chan[a].status # "free"}
  /\ \A a \in Addr : w.chan[a].status = "free" => w.chan[a].nref = 0

SameRefs(w, v) == \A a \in Addr : v.chan[a].nref = w.chan[a].nref

LEMMA AnswerTypes ==
  /\ Failed \in Answer /\ Aborted \in Answer
  /\ \A r \in Rid : [ec |-> "ok", url |-> r] \in Answer
BY DEF Failed, Aborted, Answer, Ec

LEMMA PostType ==
  ASSUME NEW D, NEW mail \in [D -> Seq(Answer)], NEW who, NEW m \in Answer
  PROVE  Post(mail, who, m) \in [D -> Seq(Answer)]
<1>1. \A x \in D : Append(mail[x], m) \in Seq(Answer)
  BY AppendProperties
<1> QED
  BY <1>1 DEF Post

LEMMA ZeroFits == 0 \in 0 .. Word - 1
BY WidthAssumption

LEMMA NoChannelType == NoChannel \in Channel
<1>1. <<0, 0>> \in Nat \X Nat /\ <<>> \in Seq(Call \cup {NULL}) /\ 0 \in 0 .. Word - 1
  BY WidthAssumption
<1> QED
  BY <1>1 DEF NoChannel, Channel, Status, Ec

LEMMA StopOneType ==
  ASSUME NEW ch \in Channel
  PROVE  /\ StopOne(ch) \in Channel
         /\ StopOne(ch).nref = ch.nref
         /\ ch.status = "free" => StopOne(ch) = ch
         /\ ch.status # "free" => (StopOne(ch).status = "free" <=> Deletable(ch))
<1>1. CASE Deletable(ch)
  <2>1. StopOne(ch) = NoChannel
    BY <1>1 DEF StopOne, Deletable
  <2>2. NoChannel.status = "free" /\ NoChannel.nref = 0
    BY DEF NoChannel
  <2>3. ch.status # "free" /\ ch.nref = 0
    BY <1>1 DEF Deletable
  <2> QED
    BY <1>1, <2>1, <2>2, <2>3, NoChannelType
<1>2. CASE ch.status = "started"
  <2>1. StopOne(ch) =
          [Closed(ch, "cancel") EXCEPT !.ec = "aborted", !.url = NULL, !.call_backs = <<>>]
    BY <1>2 DEF StopOne, Deletable
  <2>2. <<>> \in Seq(Call \cup {NULL})
    OBVIOUS
  <2>3. ch.status # "free" /\ ~ Deletable(ch)
    BY <1>2 DEF Deletable
  <2>4. StopOne(ch) \in Channel
    BY <2>1, <2>2 DEF Closed, Channel, Status, Ec
  <2>5. StopOne(ch).nref = ch.nref /\ StopOne(ch).status = "cancel"
    BY <2>1 DEF Closed, Channel
  <2> QED
    BY <2>3, <2>4, <2>5
<1>3. CASE ch.status = "working" /\ ch.nref > 0
  <2>1. StopOne(ch) = Closed(ch, "stopped")
    BY <1>3 DEF StopOne, Deletable
  <2>2. ch.status # "free" /\ ~ Deletable(ch)
    BY <1>3 DEF Deletable
  <2>3. StopOne(ch) \in Channel
    BY <2>1 DEF Closed, Channel, Status
  <2>4. StopOne(ch).nref = ch.nref /\ StopOne(ch).status = "stopped"
    BY <2>1 DEF Closed, Channel
  <2> QED
    BY <2>2, <2>3, <2>4
<1>4. CASE /\ ~ Deletable(ch) /\ ch.status # "started"
           /\ ~ (ch.status = "working" /\ ch.nref > 0)
  <2>1. StopOne(ch) = ch
    BY <1>4 DEF StopOne
  <2> QED
    BY <1>4, <2>1 DEF Deletable
<1> QED
  BY <1>1, <1>2, <1>3, <1>4

LEMMA CloseSessionsType ==
  ASSUME NEW w \in WorldType, NEW A
  PROVE  /\ CloseSessions(w, A) \in WorldType
         /\ CloseSessions(w, A).chan = w.chan
         /\ CloseSessions(w, A).channels = w.channels
         /\ CloseSessions(w, A).posted = w.posted
<1> DEFINE H    == {w.chan[a].handle : a \in A}
           owed == {a \in A : w.sess[w.chan[a].handle].st = "starting"}
           s    == [h \in Handle |-> IF h \in H THEN NoSession ELSE w.sess[h]]
           d    == Post(w.done, owed, Aborted)
           u    == [h \in Handle |-> Misused]
<1>1. s \in [Handle -> Session] /\ u \in [Handle -> Session]
  BY DEF WorldType, NoSession, Misused, Session
<1>2. d \in [Addr -> Seq(Answer)]
  BY AnswerTypes, PostType DEF WorldType
<1>3. \/ CloseSessions(w, A) = [w EXCEPT !.sess = s, !.done = d]
      \/ CloseSessions(w, A) = [w EXCEPT !.sess = u]
  BY DEF CloseSessions
<1> HIDE DEF s, d, u
<1>4. CASE CloseSessions(w, A) = [w EXCEPT !.sess = s, !.done = d]
  BY <1>1, <1>2, <1>4 DEF WorldType
<1>5. CASE CloseSessions(w, A) = [w EXCEPT !.sess = u]
  BY <1>1, <1>5 DEF WorldType
<1> QED
  BY <1>3, <1>4, <1>5

LEMMA PutChannelOK ==
  ASSUME NEW w, WorldOK(w), NEW a \in Range(w.channels),
         NEW ch \in Channel, ch.status # "free"
  PROVE  /\ WorldOK([w EXCEPT !.chan[a] = ch])
         /\ [w EXCEPT !.chan[a] = ch] = [w EXCEPT !.chan = [w.chan EXCEPT ![a] = ch]]
         /\ [w EXCEPT !.chan[a] = ch].chan = [w.chan EXCEPT ![a] = ch]
         /\ [w EXCEPT !.chan[a] = ch].channels = w.channels
<1> DEFINE z == [w EXCEPT !.chan[a] = ch]
<1>1. w \in WorldType /\ w.chan \in [Addr -> Channel] /\ a \in Addr /\ w.chan[a].status # "free"
  BY DEF WorldOK, WorldType
<1>2. /\ z \in WorldType /\ z.chan = [w.chan EXCEPT ![a] = ch] /\ z.channels = w.channels
      /\ z = [w EXCEPT !.chan = [w.chan EXCEPT ![a] = ch]]
  BY <1>1 DEF WorldType
<1>3. \A b \in Addr : z.chan[b] = IF b = a THEN ch ELSE w.chan[b]
  BY <1>1, <1>2
<1> QED
  BY <1>1, <1>2, <1>3 DEF WorldOK

LEMMA PutPostedOK ==
  ASSUME NEW w, WorldOK(w), NEW p \in [Call -> Seq(Answer)]
  PROVE  /\ WorldOK([w EXCEPT !.posted = p])
         /\ [w EXCEPT !.posted = p].chan = w.chan
         /\ [w EXCEPT !.posted = p].channels = w.channels
<1> DEFINE z == [w EXCEPT !.posted = p]
<1>1. z \in WorldType /\ z.chan = w.chan /\ z.channels = w.channels
  BY DEF WorldOK, WorldType
<1> QED
  BY <1>1 DEF WorldOK

(* Stopping channels of the vector keeps the world well formed and every   *)
(* reference count: only channels nobody references are deleted.           *)
LEMMA PutVectorOK ==
  ASSUME NEW w, WorldOK(w), NEW s \in Seq(Addr), Distinct(s), Range(s) = Range(w.channels)
  PROVE  /\ WorldOK([w EXCEPT !.channels = s])
         /\ [w EXCEPT !.channels = s].chan = w.chan
         /\ [w EXCEPT !.channels = s].channels = s
<1> DEFINE z == [w EXCEPT !.channels = s]
<1>1. z \in WorldType /\ z.chan = w.chan /\ z.channels = s
  BY DEF WorldOK, WorldType
<1> QED
  BY <1>1 DEF WorldOK

LEMMA StopAllOK ==
  ASSUME NEW w, WorldOK(w), NEW S, S \subseteq Range(w.channels)
  PROVE  WorldOK(StopAll(w, S)) /\ SameRefs(w, StopAll(w, S))
<1> DEFINE c  == CloseSessions(w, Running(w, S))
           ch == [a \in Addr |-> IF a \in S THEN StopOne(w.chan[a]) ELSE w.chan[a]]
           D  == {a \in S : Deletable(w.chan[a])}
           v  == Erase(w.channels, D)
           p  == Post(w.posted, Waiting(w, S), Aborted)
           z  == StopAll(w, S)
<1>1. /\ w \in WorldType /\ w.channels \in Seq(Addr) /\ w.chan \in [Addr -> Channel]
      /\ w.posted \in [Call -> Seq(Answer)]
      /\ S \subseteq {a \in Addr : w.chan[a].status # "free"}
  BY DEF WorldOK, WorldType
<1>2. c \in WorldType
  BY <1>1, CloseSessionsType
<1>3. /\ ch \in [Addr -> Channel]
      /\ \A a \in Addr : ch[a].nref = w.chan[a].nref
      /\ \A a \in Addr : ch[a].status = "free" <=> w.chan[a].status = "free" \/ a \in D
  BY <1>1, StopOneType
<1>4. v \in Seq(Addr) /\ Range(v) = Range(w.channels) \ D /\ Distinct(v)
  BY <1>1, EraseIsSequence DEF WorldOK
<1>5. p \in [Call -> Seq(Answer)]
  BY <1>1, AnswerTypes, PostType
<1>6. z = [c EXCEPT !.chan = ch, !.channels = v, !.posted = p]
  BY DEF StopAll
<1>7. z \in WorldType /\ z.chan = ch /\ z.channels = v
  BY <1>2, <1>3, <1>4, <1>5, <1>6 DEF WorldType
<1>8. Range(v) = {a \in Addr : ch[a].status # "free"}
  BY <1>3, <1>4 DEF WorldOK
<1>9. \A a \in Addr : ch[a].status = "free" => ch[a].nref = 0
  BY <1>3 DEF WorldOK, Deletable
<1> QED
  BY <1>3, <1>4, <1>7, <1>8, <1>9 DEF WorldOK, SameRefs

LEMMA CheckParallelOK ==
  ASSUME NEW w, WorldOK(w), NEW limit
  PROVE  WorldOK(CheckParallel(w, limit)) /\ SameRefs(w, CheckParallel(w, limit))
<1> DEFINE left  == LeftSize(limit, Cardinality(Users(w)))
           evict == {i \in DOMAIN w.channels :
                       /\ w.chan[w.channels[i]].nref = 0
                       /\ \/ Stopped(w.chan[w.channels[i]])
                          \/ IdleUpTo(w, i) > left}
           S     == {w.channels[i] : i \in evict}
<1>1. CheckParallel(w, limit) = StopAll(w, S)
  BY DEF CheckParallel
<1>2. S \subseteq Range(w.channels)
  BY DEF Range
<1> QED
  BY <1>1, <1>2, StopAllOK
---------------------------------------------------------------------------
(* The reference counts *)

(* TypeOK is not inductive alone: that nref stays a natural number rests   *)
(* on RefCountExact, and that on channels being deleted only through the   *)
(* vector, when nobody references them.                                    *)
RefInv ==
  /\ TypeOK
  /\ VectorIsHeap
  /\ RefCountExact
  /\ \A a \in Addr : chan[a].status = "free" => chan[a].nref = 0

LEMMA WorldIsOK == RefInv => WorldOK(World)
BY DEF RefInv, TypeOK, VectorIsHeap, WorldOK, WorldType, World, Distinct

(* The part of RefInv' that follows from what the handler left.            *)
LEMMA BecomeOK ==
  ASSUME NEW w, WorldOK(w), Become(w)
  PROVE  /\ chan' = w.chan /\ chan' \in [Addr -> Channel] /\ channels' \in Seq(Addr)
         /\ sess' \in [Handle -> Session] /\ done' \in [Addr -> Seq(Answer)]
         /\ posted' \in [Call -> Seq(Answer)]
         /\ VectorIsHeap'
         /\ (\A a \in Addr : chan[a].status = "free" => chan[a].nref = 0)'
<1>1. /\ chan' = w.chan /\ channels' = w.channels /\ sess' = w.sess
      /\ done' = w.done /\ posted' = w.posted
  BY DEF Become
<1>2. w \in WorldType
  BY DEF WorldOK
<1>3. /\ w.chan \in [Addr -> Channel] /\ w.channels \in Seq(Addr)
      /\ w.sess \in [Handle -> Session] /\ w.done \in [Addr -> Seq(Answer)]
      /\ w.posted \in [Call -> Seq(Answer)]
  BY <1>2 DEF WorldType
<1>4. VectorIsHeap'
  BY <1>1 DEF WorldOK, VectorIsHeap, Distinct
<1>5. (\A a \in Addr : chan[a].status = "free" => chan[a].nref = 0)'
  BY <1>1 DEF WorldOK
<1> QED
  BY <1>1, <1>3, <1>4, <1>5

LEMMA SameHolders ==
  ASSUME RefInv, NEW w, WorldOK(w), SameRefs(World, w), Become(w), UNCHANGED handle
  PROVE  RefCountExact'
<1>1. chan' = w.chan
  BY BecomeOK
<1>2. \A a \in Addr : w.chan[a].nref = chan[a].nref
  BY DEF SameRefs, World
<1>3. \A a \in Addr : Holders(a)' = Holders(a)
  BY DEF Holders
<1> QED
  BY <1>1, <1>2, <1>3 DEF RefInv, RefCountExact

(* A handler that leaves the handles and the counts alone keeps RefInv.    *)
LEMMA QuietStep ==
  ASSUME RefInv, NEW w, WorldOK(w), SameRefs(World, w), Become(w), UNCHANGED handle,
         max_parallel' \in MaxParallel, running' \in BOOLEAN,
         want' \in [Call -> Rid \cup {"", NULL}]
  PROVE  RefInv'
<1>1. RefCountExact'
  BY SameHolders
<1>2. TypeOK'
  BY BecomeOK DEF TypeOK, RefInv
<1> QED
  BY <1>1, <1>2, BecomeOK DEF RefInv

LEMMA OneMoreHolder ==
  ASSUME RefInv, NEW c \in Call, NEW a \in Addr, NEW t \in Nat,
         handle[c].channel = NULL,
         handle' = [handle EXCEPT ![c] = [channel |-> a, token |-> t]]
  PROVE  /\ handle' \in [Call -> UserHandle]
         /\ Cardinality(Holders(a)') = Cardinality(Holders(a)) + 1
         /\ \A b \in Addr \ {a} : Holders(b)' = Holders(b)
<1>1. handle \in [Call -> UserHandle] /\ NULL \notin Addr
  BY DomainAssumption DEF RefInv, TypeOK
<1>2. handle' \in [Call -> UserHandle]
  BY <1>1 DEF UserHandle
<1>3. Holders(a)' = Holders(a) \cup {c} /\ c \notin Holders(a)
  BY <1>1 DEF Holders
<1>4. \A b \in Addr \ {a} : Holders(b)' = Holders(b)
  BY <1>1 DEF Holders
<1>5. IsFiniteSet(Holders(a))
  BY DomainAssumption, FS_Subset DEF Holders
<1> QED
  BY <1>2, <1>3, <1>4, <1>5, FS_AddElement

LEMMA OneHolderLess ==
  ASSUME RefInv, NEW c \in Call, NEW a, a = handle[c].channel, a # NULL,
         handle' = [handle EXCEPT ![c] = NoHandle]
  PROVE  /\ handle' \in [Call -> UserHandle]
         /\ a \in Addr
         /\ Cardinality(Holders(a)') = Cardinality(Holders(a)) - 1
         /\ chan[a].nref \in Nat \ {0}
         /\ \A b \in Addr \ {a} : Holders(b)' = Holders(b)
<1>1. handle \in [Call -> UserHandle] /\ NULL \notin Addr
  BY DomainAssumption DEF RefInv, TypeOK
<1>2. handle' \in [Call -> UserHandle] /\ a \in Addr
  BY <1>1 DEF UserHandle, NoHandle
<1>3. Holders(a)' = Holders(a) \ {c} /\ c \in Holders(a)
  BY <1>1, <1>2 DEF Holders, NoHandle
<1>4. \A b \in Addr \ {a} : Holders(b)' = Holders(b)
  BY <1>1, <1>2 DEF Holders, NoHandle
<1>5. IsFiniteSet(Holders(a))
  BY DomainAssumption, FS_Subset DEF Holders
<1>6. Cardinality(Holders(a)) \in Nat \ {0}
  BY <1>3, <1>5, FS_CardinalityType, FS_EmptySet
<1>7. chan[a].nref = Cardinality(Holders(a))
  BY <1>2 DEF RefInv, RefCountExact
<1> QED
  BY <1>2, <1>3, <1>4, <1>5, <1>6, <1>7, FS_RemoveElement

---------------------------------------------------------------------------
(* One lemma for each action *)

LEMMA StartBadUrlStep ==
  ASSUME RefInv, NEW c \in Call, StartBadUrl(c)
  PROVE  RefInv'
<1>1. posted' \in [Call -> Seq(Answer)]
  BY AnswerTypes, PostType DEF RefInv, TypeOK, StartBadUrl
<1>2. want' \in [Call -> Rid \cup {"", NULL}]
  BY DEF RefInv, TypeOK, StartBadUrl
<1>3. TypeOK'
  BY <1>1, <1>2 DEF RefInv, TypeOK, StartBadUrl
<1> QED
  BY <1>3 DEF RefInv, StartBadUrl, VectorIsHeap, RefCountExact, Holders

LEMMA ClearedOK ==
  ASSUME RefInv, NEW r
  PROVE  WorldOK(Cleared(r)) /\ SameRefs(World, Cleared(r))
<1> DEFINE old == Matching(World, r)
           ch  == [a \in Addr |-> IF a \in old THEN [chan[a] EXCEPT !.expire = 0]
                                               ELSE chan[a]]
           w   == [World EXCEPT !.chan = ch]
<1>1. Cleared(r) = StopAll(w, old)
  BY DEF Cleared
<1>2. chan \in [Addr -> Channel]
  BY DEF RefInv, TypeOK
<1>3. /\ ch \in [Addr -> Channel]
      /\ \A a \in Addr : ch[a].status = chan[a].status /\ ch[a].nref = chan[a].nref
  <2>1. \A x \in Channel : /\ [x EXCEPT !.expire = 0] \in Channel
                           /\ [x EXCEPT !.expire = 0].status = x.status
                           /\ [x EXCEPT !.expire = 0].nref = x.nref
    BY ZeroFits DEF Channel
  <2> QED
    BY <1>2, <2>1
<1>4. w.chan = ch /\ w.channels = channels /\ w \in WorldType
  BY <1>3 DEF World, RefInv, TypeOK, WorldType
<1>5. WorldOK(w) /\ SameRefs(World, w)
  BY <1>3, <1>4 DEF WorldOK, SameRefs, World, RefInv, VectorIsHeap, Distinct
<1>6. old \subseteq Range(w.channels)
  BY <1>4 DEF Matching, World
<1>7. WorldOK(StopAll(w, old)) /\ SameRefs(w, StopAll(w, old))
  BY <1>5, <1>6, StopAllOK
<1> QED
  BY <1>1, <1>5, <1>7 DEF SameRefs

LEMMA OpenedOK ==
  ASSUME NEW w, WorldOK(w), NEW c \in Call, NEW r \in Rid, NEW p \in Ports,
         NEW a \in Addr, NEW h \in Handle, w.chan[a].status = "free"
  PROVE  /\ WorldOK(Opened(w, c, r, p, a, h))
         /\ Opened(w, c, r, p, a, h).chan = [w.chan EXCEPT ![a] = NewChannel(r, p, h, c)]
         /\ NewChannel(r, p, h, c).nref = 1
<1> DEFINE n == NewChannel(r, p, h, c)
           o == [st |-> "starting", owner |-> a, rid |-> r]
           z == Opened(w, c, r, p, a, h)
<1>1. n \in Channel /\ n.nref = 1 /\ n.status = "started"
  <2>1. p \in Nat \X Nat
    BY DomainAssumption
  <2>2. <<c>> \in Seq(Call \cup {NULL})
    OBVIOUS
  <2> QED
    BY <2>1, <2>2, ZeroFits DEF NewChannel, NoChannel, Channel, Status, Ec
<1>2. /\ w \in WorldType /\ w.chan \in [Addr -> Channel] /\ w.channels \in Seq(Addr)
      /\ w.sess \in [Handle -> Session]
  BY DEF WorldOK, WorldType
<1>3. z = [w EXCEPT !.chan = [w.chan EXCEPT ![a] = n], !.channels = Append(w.channels, a),
                    !.sess = [w.sess EXCEPT ![h] = o]]
  BY DEF Opened
<1>4. [w.chan EXCEPT ![a] = n] \in [Addr -> Channel]
  BY <1>1, <1>2
<1>5. [w.sess EXCEPT ![h] = o] \in [Handle -> Session]
  BY <1>2 DEF Session
<1>6. /\ Append(w.channels, a) \in Seq(Addr)
      /\ Range(Append(w.channels, a)) = Range(w.channels) \cup {a}
      /\ Distinct(Append(w.channels, a))
  BY <1>2, AppendDistinct DEF WorldOK
<1>7. /\ z \in WorldType /\ z.chan = [w.chan EXCEPT ![a] = n]
      /\ z.channels = Append(w.channels, a)
  BY <1>2, <1>3, <1>4, <1>5, <1>6 DEF WorldType
<1>8. Range(z.channels) = {b \in Addr : z.chan[b].status # "free"}
  BY <1>1, <1>2, <1>6, <1>7 DEF WorldOK
<1>9. \A b \in Addr : z.chan[b].status = "free" => z.chan[b].nref = 0
  BY <1>1, <1>2, <1>7 DEF WorldOK
<1> QED
  BY <1>1, <1>6, <1>7, <1>8, <1>9 DEF WorldOK

LEMMA StartNewStep ==
  ASSUME RefInv, NEW c \in Call, NEW r \in Rid, NEW p \in Ports, StartNew(c, r, p)
  PROVE  RefInv'
<1> DEFINE w == Cleared(r)
<1>1. WorldOK(w) /\ SameRefs(World, w)
  BY ClearedOK
<1>2. /\ want' \in [Call -> Rid \cup {"", NULL}]
      /\ max_parallel' \in MaxParallel /\ running' \in BOOLEAN
  BY DEF RefInv, TypeOK, StartNew
<1>3. CASE \E a \in Addr, h \in Handle :
             /\ w.chan[a].status = "free"
             /\ Become(CheckParallel(Opened(w, c, r, p, a, h), max_parallel))
             /\ handle' = [handle EXCEPT ![c] = [channel |-> a, token |-> 1]]
  <2>1. PICK a \in Addr, h \in Handle :
             /\ w.chan[a].status = "free"
             /\ Become(CheckParallel(Opened(w, c, r, p, a, h), max_parallel))
             /\ handle' = [handle EXCEPT ![c] = [channel |-> a, token |-> 1]]
    BY <1>3
  <2> DEFINE o == Opened(w, c, r, p, a, h)
             z == CheckParallel(o, max_parallel)
  <2>2. /\ WorldOK(o) /\ o.chan = [w.chan EXCEPT ![a] = NewChannel(r, p, h, c)]
        /\ NewChannel(r, p, h, c).nref = 1
    BY <1>1, <2>1, OpenedOK
  <2>3. WorldOK(z) /\ SameRefs(o, z)
    BY <2>2, CheckParallelOK
  <2>4. w.chan \in [Addr -> Channel] /\ w.chan[a].nref = 0
    BY <1>1, <2>1 DEF WorldOK, WorldType
  <2>5. z.chan[a].nref = chan[a].nref + 1 /\ \A b \in Addr \ {a} : z.chan[b].nref = chan[b].nref
    BY <1>1, <2>2, <2>3, <2>4 DEF SameRefs, World
  <2>6. handle[c].channel = NULL
    BY DEF StartNew, CanCall
  <2>7. /\ handle' \in [Call -> UserHandle]
        /\ Cardinality(Holders(a)') = Cardinality(Holders(a)) + 1
        /\ \A b \in Addr \ {a} : Holders(b)' = Holders(b)
    BY <2>1, <2>6, OneMoreHolder
  <2>8. RefCountExact'
    BY <2>1, <2>3, <2>5, <2>7, BecomeOK DEF RefCountExact, RefInv
  <2>9. TypeOK'
    BY <1>2, <2>1, <2>3, <2>7, BecomeOK DEF TypeOK
  <2> QED
    BY <2>1, <2>3, <2>8, <2>9, BecomeOK DEF RefInv
<1>4. CASE Become([w EXCEPT !.posted = Post(@, {c}, Failed)]) /\ UNCHANGED handle
  <2> DEFINE p1 == Post(w.posted, {c}, Failed)
             z  == [w EXCEPT !.posted = p1]
  <2>1. p1 \in [Call -> Seq(Answer)]
    BY <1>1, AnswerTypes, PostType DEF WorldOK, WorldType
  <2>2. WorldOK(z) /\ z.chan = w.chan
    BY <1>1, <2>1, PutPostedOK
  <2>3. SameRefs(World, z) /\ Become(z)
    BY <1>1, <1>4, <2>2 DEF SameRefs
  <2>4. RefCountExact'
    BY <1>4, <2>2, <2>3, SameHolders
  <2>5. TypeOK'
    BY <1>2, <1>4, <2>2, <2>3, BecomeOK DEF TypeOK, RefInv
  <2> QED
    BY <2>2, <2>3, <2>4, <2>5, BecomeOK DEF RefInv
<1> QED
  BY <1>3, <1>4 DEF StartNew

LEMMA RefIsChannel ==
  ASSUME NEW x \in Channel
  PROVE  Ref(x) \in Channel /\ Ref(x).status = x.status /\ Ref(x).nref = x.nref + 1
<1>1. x.nref \in Nat /\ x.nref + 1 \in Nat
  <2>1. x.nref \in Nat
    BY DEF Channel
  <2> QED
    BY <2>1
<1>2. Ref(x) = [x EXCEPT !.expire = 0, !.nref = x.nref + 1]
  BY DEF Ref
<1> QED
  BY <1>1, <1>2, ZeroFits DEF Channel

LEMMA AttachedOK ==
  ASSUME RefInv, NEW c \in Call, NEW a \in Range(channels)
  PROVE  /\ WorldOK(Attached(c, a)) /\ a \in Addr
         /\ Attached(c, a).chan[a].nref = chan[a].nref + 1
         /\ \A b \in Addr \ {a} : Attached(c, a).chan[b].nref = chan[b].nref
<1> DEFINE ch == Ref(chan[a])
           w  == [World EXCEPT !.chan[a] = ch]
           ans == [ec |-> chan[a].ec, url |-> chan[a].url]
<1>1. /\ WorldOK(World) /\ World.chan = chan /\ World.channels = channels
      /\ World.posted = posted
  BY WorldIsOK DEF World
<1>2. chan \in [Addr -> Channel] /\ a \in Addr /\ chan[a].status # "free"
  BY <1>1 DEF RefInv, TypeOK, VectorIsHeap
<1>3. ch \in Channel /\ ch.status # "free" /\ ch.nref = chan[a].nref + 1
  <2>1. chan[a] \in Channel
    BY <1>2
  <2> QED
    BY <1>2, <2>1, RefIsChannel
<1>4. a \in Range(World.channels) /\ a \in Range(w.channels)
  BY <1>1
<1>5. WorldOK(w) /\ w.chan = [chan EXCEPT ![a] = ch] /\ w.channels = channels
  BY <1>1, <1>3, <1>4, PutChannelOK
<1>6. w.chan[a].nref = chan[a].nref + 1 /\ \A b \in Addr \ {a} : w.chan[b].nref = chan[b].nref
  BY <1>2, <1>3, <1>5
<1>7. CASE chan[a].status = "working"
  <2> DEFINE p1 == Post(w.posted, {c}, ans)
  <2>1. Attached(c, a) = [w EXCEPT !.posted = p1]
    BY <1>7, <1>1 DEF Attached
  <2>2. ans \in Answer
    BY <1>2 DEF Channel, Answer
  <2>3. p1 \in [Call -> Seq(Answer)]
    BY <1>5, <2>2, PostType DEF WorldOK, WorldType
  <2>4. WorldOK([w EXCEPT !.posted = p1]) /\ [w EXCEPT !.posted = p1].chan = w.chan
    BY <1>5, <2>3, PutPostedOK
  <2> HIDE DEF w, p1
  <2> QED
    BY <1>2, <1>6, <2>1, <2>4
<1>8. CASE chan[a].status # "working"
  <2> DEFINE cbs == Append(ch.call_backs, c)
             ch2 == [ch EXCEPT !.call_backs = cbs]
  <2>1. cbs \in Seq(Call \cup {NULL})
    BY <1>3, AppendProperties DEF Channel
  <2>2. ch2 \in Channel /\ ch2.status # "free" /\ ch2.nref = ch.nref
    BY <1>3, <2>1 DEF Channel
  <2>3. w \in WorldType /\ w.chan[a] = ch
    BY <1>2, <1>5 DEF WorldOK
  <2>4. Attached(c, a) = [w EXCEPT !.chan[a].call_backs = Append(@, c)]
    BY <1>1, <1>8 DEF Attached
  <2>5. Attached(c, a) = [w EXCEPT !.chan[a] = ch2]
    BY <1>2, <2>3, <2>4 DEF WorldType
  <2> HIDE DEF w, ch2
  <2>6. /\ WorldOK([w EXCEPT !.chan[a] = ch2])
        /\ [w EXCEPT !.chan[a] = ch2].chan = [w.chan EXCEPT ![a] = ch2]
    BY <1>4, <1>5, <2>2, PutChannelOK
  <2>7. w.chan \in [Addr -> Channel]
    BY <2>3 DEF WorldType
  <2>8. /\ Attached(c, a).chan[a].nref = ch2.nref
        /\ \A b \in Addr \ {a} : Attached(c, a).chan[b] = w.chan[b]
    BY <1>2, <2>5, <2>6, <2>7
  <2> QED
    BY <1>2, <1>3, <1>6, <2>2, <2>5, <2>6, <2>8
<1> QED
  BY <1>7, <1>8

LEMMA StartSharedStep ==
  ASSUME RefInv, NEW c \in Call, NEW r \in Rid, NEW p \in Ports, StartShared(c, r, p)
  PROVE  RefInv'
<1> DEFINE tok(a) == IF chan[a].status = "working" THEN 0 ELSE Len(chan[a].call_backs) + 1
<1>1. PICK a \in Matching(World, r) :
         /\ Become(CheckParallel(Attached(c, a), max_parallel))
         /\ handle' = [handle EXCEPT ![c] = [channel |-> a, token |-> tok(a)]]
  BY DEF StartShared
<1> DEFINE z == CheckParallel(Attached(c, a), max_parallel)
<1>2. a \in Range(channels)
  BY DEF Matching, World
<1>3. /\ WorldOK(Attached(c, a)) /\ a \in Addr
      /\ Attached(c, a).chan[a].nref = chan[a].nref + 1
      /\ \A b \in Addr \ {a} : Attached(c, a).chan[b].nref = chan[b].nref
  BY <1>2, AttachedOK
<1>4. WorldOK(z) /\ SameRefs(Attached(c, a), z)
  BY <1>3, CheckParallelOK
<1>5. z.chan[a].nref = chan[a].nref + 1 /\ \A b \in Addr \ {a} : z.chan[b].nref = chan[b].nref
  BY <1>3, <1>4 DEF SameRefs
<1>6. tok(a) \in Nat
  <2>1. chan[a].call_backs \in Seq(Call \cup {NULL})
    BY <1>3 DEF RefInv, TypeOK, Channel
  <2> QED
    BY <2>1, LenProperties
<1>7. handle[c].channel = NULL
  BY DEF StartShared, CanCall
<1>8. /\ handle' \in [Call -> UserHandle]
      /\ Cardinality(Holders(a)') = Cardinality(Holders(a)) + 1
      /\ \A b \in Addr \ {a} : Holders(b)' = Holders(b)
  BY <1>1, <1>3, <1>6, <1>7, OneMoreHolder
<1>9. RefCountExact'
  BY <1>1, <1>3, <1>4, <1>5, <1>8, BecomeOK DEF RefCountExact, RefInv
<1>10. TypeOK'
  BY <1>1, <1>4, <1>8, BecomeOK DEF TypeOK, RefInv, StartShared
<1> QED
  BY <1>1, <1>4, <1>9, <1>10, BecomeOK DEF RefInv

LEMMA SlotsPutType ==
  ASSUME NEW x \in Channel, NEW cbs \in Seq(Call \cup {NULL})
  PROVE  /\ [x EXCEPT !.call_backs = cbs] \in Channel
         /\ [x EXCEPT !.call_backs = cbs].status = x.status
         /\ [x EXCEPT !.call_backs = cbs].nref = x.nref
BY DEF Channel

(* Swapping a callback out of its slot leaves the counts alone.            *)
LEMMA SwappedOK ==
  ASSUME RefInv, NEW a \in Range(channels), NEW t \in Nat, HasSlot(a, t)
  PROVE  WorldOK(Swapped(World, a, t)) /\ SameRefs(World, Swapped(World, a, t))
<1> DEFINE cbs == [chan[a].call_backs EXCEPT ![t] = NULL]
           ch  == [chan[a] EXCEPT !.call_backs = cbs]
           w   == [World EXCEPT !.chan[a] = ch]
           p1  == Post(w.posted, {chan[a].call_backs[t]}, Aborted)
<1>1. WorldOK(World) /\ World.chan = chan /\ World.channels = channels /\ World.posted = posted
  BY WorldIsOK DEF World
<1>2. chan \in [Addr -> Channel] /\ a \in Addr /\ chan[a].status # "free"
  BY <1>1 DEF RefInv, TypeOK, VectorIsHeap
<1>3. chan[a].call_backs \in Seq(Call \cup {NULL})
  BY <1>2 DEF Channel
<1>4. cbs \in Seq(Call \cup {NULL})
  <2>1. t \in 1 .. Len(chan[a].call_backs)
    <3>1. Len(chan[a].call_backs) \in Nat
      BY <1>3, LenProperties
    <3> QED
      BY <3>1 DEF HasSlot
  <2> QED
    BY <1>3, <2>1, ExceptSeq
<1>5. ch \in Channel /\ ch.status # "free" /\ ch.nref = chan[a].nref
  BY <1>2, <1>4, SlotsPutType
<1>6. WorldOK(w) /\ w.chan = [chan EXCEPT ![a] = ch] /\ w.posted = posted
  <2>1. a \in Range(World.channels)
    BY <1>1
  <2>2. WorldOK(w) /\ w.chan = [chan EXCEPT ![a] = ch]
    <3> HIDE DEF ch
    <3> QED
      BY <1>1, <1>5, <2>1, PutChannelOK
  <2> QED
    BY <2>2 DEF World
<1>7. p1 \in [Call -> Seq(Answer)]
  BY <1>6, AnswerTypes, PostType DEF RefInv, TypeOK
<1>8. Swapped(World, a, t) = [w EXCEPT !.posted = p1]
  <2>1. Swapped(World, a, t) =
          [World EXCEPT !.chan = [chan EXCEPT ![a] = ch],
                        !.posted = Post(posted, {chan[a].call_backs[t]}, Aborted)]
    BY <1>1, <1>2 DEF Swapped, Channel
  <2>2. w = [World EXCEPT !.chan = [chan EXCEPT ![a] = ch]]
    BY <1>1
  <2> QED
    BY <1>6, <2>1, <2>2 DEF World
<1>9. WorldOK([w EXCEPT !.posted = p1]) /\ [w EXCEPT !.posted = p1].chan = w.chan
  BY <1>6, <1>7, PutPostedOK
<1>10. \A b \in Addr : w.chan[b].nref = chan[b].nref
  BY <1>2, <1>5, <1>6
<1> HIDE DEF w, p1
<1> QED
  BY <1>1, <1>8, <1>9, <1>10 DEF SameRefs

LEMMA ExpirePut ==
  ASSUME NEW x \in Channel, NEW n \in 0 .. Word - 1
  PROVE  LET y == [x EXCEPT !.expire = n] IN
         y \in Channel /\ y.status = x.status /\ y.nref = x.nref
BY DEF Channel

LEMMA StatusPut ==
  ASSUME NEW x \in Channel, NEW st \in Status
  PROVE  LET y == [x EXCEPT !.status = st] IN
         /\ y \in Channel /\ y.status = st /\ y.nref = x.nref
         /\ y.rid = x.rid /\ y.call_backs = x.call_backs
BY DEF Channel

ToldOf(x, m) == [x EXCEPT !.ec = m.ec, !.url = m.url, !.call_backs = <<>>]

LEMMA ToldOfPut ==
  ASSUME NEW x \in Channel, NEW m \in Answer
  PROVE  /\ ToldOf(x, m) \in Channel /\ ToldOf(x, m).call_backs = <<>>
         /\ ToldOf(x, m).status = x.status /\ ToldOf(x, m).nref = x.nref
<1>1. <<>> \in Seq(Call \cup {NULL}) /\ m.ec \in Ec /\ m.url \in Rid \cup {NULL}
  BY DEF Answer
<1> QED
  BY <1>1 DEF Channel, ToldOf

LEMMA RefPut ==
  ASSUME NEW x \in Channel
  PROVE  Ref(x).call_backs = x.call_backs /\ Ref(x).status = x.status /\ Ref(x).rid = x.rid
BY DEF Channel, Ref

LEMMA SlotsPut ==
  ASSUME NEW x \in Channel, NEW cbs
  PROVE  LET y == [x EXCEPT !.call_backs = cbs] IN
         y.call_backs = cbs /\ y.status = x.status /\ y.rid = x.rid /\ y.nref = x.nref
BY DEF Channel

LEMMA RefSlotsPut ==
  ASSUME NEW x \in Channel, NEW cbs
  PROVE  LET y == [Ref(x) EXCEPT !.call_backs = cbs] IN
         y.call_backs = cbs /\ y.status = x.status
BY DEF Channel, Ref

(* Moving a released channel to the front keeps the vector whole.          *)
LEMMA ToFrontOK ==
  ASSUME NEW w, WorldOK(w), NEW a \in Range(w.channels)
  PROVE  WorldOK(ToFront(w, a)) /\ SameRefs(w, ToFront(w, a))
<1> DEFINE ch == [w.chan[a] EXCEPT !.expire = IdleExpire]
           v  == [w EXCEPT !.chan[a] = ch]
           e  == Erase(w.channels, {a})
           s  == <<a>> \o e
<1>1. /\ w \in WorldType /\ w.chan \in [Addr -> Channel] /\ w.channels \in Seq(Addr)
      /\ a \in Addr /\ w.chan[a].status # "free"
  BY DEF WorldOK, WorldType
<1>2. ch \in Channel /\ ch.status # "free" /\ ch.nref = w.chan[a].nref
  <2>1. IdleExpire \in 0 .. Word - 1 /\ w.chan[a] \in Channel
    BY <1>1, WidthAssumption
  <2> QED
    BY <1>1, <2>1, ExpirePut
<1>3. /\ WorldOK(v) /\ v.chan = [w.chan EXCEPT ![a] = ch] /\ v.channels = w.channels
      /\ v = [w EXCEPT !.chan = [w.chan EXCEPT ![a] = ch]]
  <2> HIDE DEF ch
  <2> QED
    BY <1>2, PutChannelOK
<1>4. e \in Seq(Addr) /\ Range(e) = Range(w.channels) \ {a} /\ Distinct(e)
  BY <1>1, EraseIsSequence DEF WorldOK
<1>5. <<a>> \in Seq(Addr) /\ Range(<<a>>) = {a} /\ Distinct(<<a>>)
  <2>1. DOMAIN <<a>> = {1} /\ <<a>>[1] = a /\ <<a>> \in Seq(Addr)
    BY <1>1
  <2> HIDE DEF e
  <2> QED
    BY <2>1 DEF Range, Distinct
<1>6. s \in Seq(Addr) /\ Range(s) = Range(w.channels) /\ Distinct(s)
  <2>1. Range(<<a>>) \cap Range(e) = {} /\ Range(<<a>>) \cup Range(e) = Range(w.channels)
    BY <1>4, <1>5
  <2> QED
    BY <1>4, <1>5, <2>1, ConcatDistinct
<1>7. ToFront(w, a) = [v EXCEPT !.channels = s]
  BY <1>1, <1>3 DEF ToFront, WorldType
<1>8. WorldOK([v EXCEPT !.channels = s]) /\ [v EXCEPT !.channels = s].chan = v.chan
  BY <1>3, <1>6, PutVectorOK
<1>9. \A b \in Addr : v.chan[b].nref = w.chan[b].nref
  BY <1>1, <1>2, <1>3
<1> HIDE DEF v, s
<1> QED
  BY <1>7, <1>8, <1>9 DEF SameRefs

LEMMA ReleasedOK ==
  ASSUME RefInv, NEW c \in Call, NEW a \in Addr, a = handle[c].channel,
         chan[a].nref \in Nat \ {0}
  PROVE  /\ WorldOK(Released(c))
         /\ Released(c).chan[a].nref = chan[a].nref - 1
         /\ \A b \in Addr \ {a} : Released(c).chan[b].nref = chan[b].nref
<1> DEFINE t  == handle[c].token
           v  == IF HasSlot(a, t) THEN Swapped(World, a, t) ELSE World
           ch == [v.chan[a] EXCEPT !.nref = v.chan[a].nref - 1]
           w  == [v EXCEPT !.chan[a] = ch]
<1>1. /\ a \in Range(channels) /\ t \in Nat
  BY DEF RefInv, VectorIsHeap, TypeOK, UserHandle
<1>2. WorldOK(v) /\ SameRefs(World, v)
  BY <1>1, SwappedOK, WorldIsOK DEF SameRefs
<1>3. \A b \in Addr : v.chan[b].nref = chan[b].nref
  BY <1>2 DEF SameRefs, World
<1> HIDE DEF v
<1>4. /\ v \in WorldType /\ v.chan \in [Addr -> Channel]
      /\ v.chan[a].status # "free" /\ a \in Range(v.channels)
  BY <1>2, <1>3 DEF WorldOK, WorldType
<1>5. ch \in Channel /\ ch.status # "free" /\ ch.nref = chan[a].nref - 1
  <2>1. v.chan[a].nref - 1 \in Nat
    BY <1>3
  <2>2. v.chan[a] \in Channel /\ v.chan[a].nref = chan[a].nref
    BY <1>3, <1>4
  <2>3. ch \in Channel /\ ch.status = v.chan[a].status /\ ch.nref = v.chan[a].nref - 1
    BY <2>1, <2>2 DEF Channel
  <2> QED
    BY <1>4, <2>2, <2>3
<1>6. /\ WorldOK(w) /\ w.chan = [v.chan EXCEPT ![a] = ch] /\ w.channels = v.channels
      /\ w = [v EXCEPT !.chan = [v.chan EXCEPT ![a] = ch]]
  <2> HIDE DEF ch
  <2> QED
    BY <1>2, <1>4, <1>5, PutChannelOK
<1>7. w.chan[a].nref = chan[a].nref - 1 /\ \A b \in Addr \ {a} : w.chan[b].nref = chan[b].nref
  <2> HIDE DEF w, ch
  <2>1. w.chan[a] = ch
    BY <1>4, <1>6
  <2>2. \A b \in Addr \ {a} : w.chan[b] = v.chan[b]
    BY <1>4, <1>6
  <2> QED
    BY <1>3, <1>5, <2>1, <2>2
<1>8. [v EXCEPT !.chan[a].nref = @ - 1] = w
  BY <1>4, <1>6 DEF WorldType
<1>9. Released(c) = IF Idle(w.chan[a]) THEN ToFront(w, a) ELSE w
  BY <1>8 DEF Released, v
<1> HIDE DEF w
<1>10. WorldOK(ToFront(w, a)) /\ SameRefs(w, ToFront(w, a))
  BY <1>4, <1>6, ToFrontOK
<1>11. CASE Idle(w.chan[a])
  <2>1. Released(c) = ToFront(w, a)
    BY <1>9, <1>11
  <2>2. \A b \in Addr : Released(c).chan[b].nref = w.chan[b].nref
    BY <1>10, <2>1 DEF SameRefs
  <2> QED
    BY <1>7, <1>10, <2>1, <2>2
<1>12. CASE ~ Idle(w.chan[a])
  <2>1. Released(c) = w
    BY <1>9, <1>12
  <2> QED
    BY <1>6, <1>7, <2>1
<1> QED
  BY <1>11, <1>12

LEMMA StopChannelStep ==
  ASSUME RefInv, NEW c \in Call, StopChannel(c)
  PROVE  RefInv'
<1> DEFINE a == handle[c].channel
           z == CheckParallel(Released(c), max_parallel)
<1>1. a # NULL /\ Become(z) /\ handle' = [handle EXCEPT ![c] = NoHandle]
  BY DEF StopChannel
<1> HIDE DEF a
<1>2. a = handle[c].channel
  BY DEF a
<1> SUFFICES ASSUME NEW b, b = a
             PROVE  RefInv'
  OBVIOUS
<1>3. /\ handle' \in [Call -> UserHandle] /\ b \in Addr
      /\ Cardinality(Holders(b)') = Cardinality(Holders(b)) - 1
      /\ chan[b].nref \in Nat \ {0}
      /\ \A d \in Addr \ {b} : Holders(d)' = Holders(d)
  BY <1>1, <1>2, OneHolderLess
<1>4. /\ WorldOK(Released(c))
      /\ Released(c).chan[b].nref = chan[b].nref - 1
      /\ \A d \in Addr \ {b} : Released(c).chan[d].nref = chan[d].nref
  BY <1>2, <1>3, ReleasedOK
<1>5. WorldOK(z) /\ SameRefs(Released(c), z)
  BY <1>4, CheckParallelOK
<1>6. z.chan[b].nref = chan[b].nref - 1 /\ \A d \in Addr \ {b} : z.chan[d].nref = chan[d].nref
  BY <1>3, <1>4, <1>5 DEF SameRefs
<1>7. chan' = z.chan
  BY <1>1, <1>5, BecomeOK
<1>8. RefCountExact'
  <2> SUFFICES ASSUME NEW d \in Addr
               PROVE  z.chan[d].nref = Cardinality(Holders(d)')
    BY <1>7 DEF RefCountExact
  <2>1. chan[d].nref = Cardinality(Holders(d))
    BY DEF RefCountExact, RefInv
  <2> QED
    BY <1>3, <1>6, <2>1
<1>9. TypeOK'
  BY <1>1, <1>3, <1>5, BecomeOK DEF TypeOK, RefInv, StopChannel
<1> QED
  BY <1>1, <1>5, <1>8, <1>9, BecomeOK DEF RefInv

LEMMA SetMaxParallelStep ==
  ASSUME RefInv, NEW m \in MaxParallel, SetMaxParallel(m)
  PROVE  RefInv'
<1>1. WorldOK(CheckParallel(World, m)) /\ SameRefs(World, CheckParallel(World, m))
  BY WorldIsOK, CheckParallelOK
<1> QED
  BY <1>1, QuietStep DEF SetMaxParallel, RefInv, TypeOK

---------------------------------------------------------------------------
(* The handlers of the io_service *)

LEMMA RespondedOK ==
  ASSUME NEW w, WorldOK(w), NEW a \in Range(w.channels), NEW m \in Answer
  PROVE  WorldOK(Responded(w, a, m)) /\ SameRefs(w, Responded(w, a, m))
<1> DEFINE ch == [w.chan[a] EXCEPT !.ec = m.ec, !.url = m.url, !.call_backs = <<>>]
           v  == [w EXCEPT !.chan[a] = ch]
           p1 == Post(w.posted, Range(w.chan[a].call_backs), m)
<1>1. /\ w \in WorldType /\ w.chan \in [Addr -> Channel] /\ w.posted \in [Call -> Seq(Answer)]
      /\ a \in Addr /\ w.chan[a].status # "free"
  BY DEF WorldOK, WorldType
<1>2. ch \in Channel /\ ch.status # "free" /\ ch.nref = w.chan[a].nref
  <2>1. w.chan[a] \in Channel /\ ch = ToldOf(w.chan[a], m)
    BY <1>1 DEF ToldOf
  <2> HIDE DEF ch
  <2> QED
    BY <1>1, <2>1, ToldOfPut
<1>3. /\ WorldOK(v) /\ v.chan = [w.chan EXCEPT ![a] = ch]
      /\ v = [w EXCEPT !.chan = [w.chan EXCEPT ![a] = ch]]
  <2> HIDE DEF ch
  <2> QED
    BY <1>2, PutChannelOK
<1>4. p1 \in [Call -> Seq(Answer)]
  BY <1>1, PostType
<1>5. Responded(w, a, m) = [v EXCEPT !.posted = p1]
  <2> DEFINE s1 == [w EXCEPT !.chan[a].ec = m.ec]
             s2 == [s1 EXCEPT !.chan[a].url = m.url]
             s3 == [s2 EXCEPT !.chan[a].call_backs = <<>>]
             d1 == [w.chan[a] EXCEPT !.ec = m.ec]
             d2 == [d1 EXCEPT !.url = m.url]
             d3 == [d2 EXCEPT !.call_backs = <<>>]
  <2>1. Responded(w, a, m) = [s3 EXCEPT !.posted = p1]
    BY <1>1 DEF Responded, WorldType
  <2>2. s1 = [w EXCEPT !.chan = [w.chan EXCEPT ![a] = d1]]
    BY <1>1 DEF WorldType
  <2>3. s2 = [w EXCEPT !.chan = [w.chan EXCEPT ![a] = d2]]
    BY <1>1, <2>2 DEF WorldType
  <2>4. d3 = ch
    BY <1>1 DEF Channel
  <2>5. s3 = [w EXCEPT !.chan = [w.chan EXCEPT ![a] = d3]]
    <3> HIDE DEF s2, d2
    <3> QED
      BY <1>1, <2>3 DEF WorldType
  <2> QED
    BY <1>3, <2>1, <2>4, <2>5
<1>6. \A b \in Addr : v.chan[b].nref = w.chan[b].nref
  BY <1>1, <1>2, <1>3
<1> HIDE DEF v, p1
<1>7. WorldOK([v EXCEPT !.posted = p1]) /\ [v EXCEPT !.posted = p1].chan = v.chan
  <2>1. WorldOK(v)
    BY <1>3
  <2> QED
    BY <2>1, <1>4, PutPostedOK
<1> QED
  BY <1>5, <1>6, <1>7 DEF SameRefs

LEMMA PutStatusOK ==
  ASSUME NEW w, WorldOK(w), NEW a \in Range(w.channels), NEW st \in Status \ {"free"}
  PROVE  /\ WorldOK([w EXCEPT !.chan[a].status = st])
         /\ [w EXCEPT !.chan[a].status = st].channels = w.channels
         /\ SameRefs(w, [w EXCEPT !.chan[a].status = st])
<1> DEFINE ch == [w.chan[a] EXCEPT !.status = st]
           v  == [w EXCEPT !.chan[a] = ch]
<1>1. w \in WorldType /\ w.chan \in [Addr -> Channel] /\ a \in Addr
  BY DEF WorldOK, WorldType
<1>2. ch \in Channel /\ ch.status # "free" /\ ch.nref = w.chan[a].nref
  <2>1. w.chan[a] \in Channel
    BY <1>1
  <2> QED
    BY <2>1, StatusPut
<1>3. /\ WorldOK(v) /\ v.chan = [w.chan EXCEPT ![a] = ch] /\ v.channels = w.channels
      /\ v = [w EXCEPT !.chan = [w.chan EXCEPT ![a] = ch]]
  <2> HIDE DEF ch
  <2> QED
    BY <1>2, PutChannelOK
<1>4. [w EXCEPT !.chan[a].status = st] = v
  BY <1>1, <1>3 DEF WorldType
<1>5. \A b \in Addr : v.chan[b].nref = w.chan[b].nref
  BY <1>1, <1>2, <1>3
<1> QED
  BY <1>3, <1>4, <1>5 DEF SameRefs

LEMMA StartedOK ==
  ASSUME RefInv, NEW a \in Addr, done[a] # <<>>
  PROVE  /\ WorldOK(Started(a, Head(done[a])))
         /\ SameRefs(World, Started(a, Head(done[a])))
<1> DEFINE m  == Head(done[a])
           d  == [done EXCEPT ![a] = Tail(done[a])]
           w  == [World EXCEPT !.done = d]
<1>1. done \in [Addr -> Seq(Answer)] /\ done[a] \in Seq(Answer)
  BY DEF RefInv, TypeOK
<1>2. m \in Answer /\ Tail(done[a]) \in Seq(Answer)
  BY <1>1, HeadTailProperties
<1>3. d \in [Addr -> Seq(Answer)]
  BY <1>1, <1>2
<1>4. WorldOK(w) /\ w.chan = chan /\ w.channels = channels /\ SameRefs(World, w)
  <2>1. World \in WorldType /\ WorldOK(World)
    BY WorldIsOK DEF WorldOK
  <2>2. w \in WorldType /\ w.chan = World.chan /\ w.channels = World.channels
    BY <1>3, <2>1 DEF WorldType
  <2>3. World.chan = chan /\ World.channels = channels
    BY DEF World
  <2> HIDE DEF w
  <2> QED
    BY <2>1, <2>2, <2>3 DEF WorldOK, SameRefs
<1>5. [World EXCEPT !.done[a] = Tail(@)] = w
  BY DEF World
<1> HIDE DEF w, m
<1>6. CASE a \notin Range(channels)
  <2>1. Started(a, m) = w
    BY <1>5, <1>6 DEF Started
  <2> QED
    BY <1>4, <2>1 DEF m
<1>7. CASE a \in Range(channels) /\ chan[a].status = "cancel"
  <2> DEFINE v == [w EXCEPT !.chan[a].status = "stopped"]
  <2>1. a \in Range(w.channels) /\ "stopped" \in Status \ {"free"}
    BY <1>4, <1>7 DEF Status
  <2>2. WorldOK(v) /\ v.channels = w.channels /\ SameRefs(w, v)
    BY <1>4, <2>1, PutStatusOK
  <2>3. Started(a, m) = StopAll(v, {a})
    BY <1>5, <1>7 DEF Started, Resolved
  <2> HIDE DEF v
  <2>4. {a} \subseteq Range(v.channels)
    BY <2>1, <2>2
  <2>5. WorldOK(StopAll(v, {a})) /\ SameRefs(v, StopAll(v, {a}))
    BY <2>2, <2>4, StopAllOK
  <2> QED
    BY <1>4, <2>2, <2>3, <2>5 DEF SameRefs, m
<1>8. CASE a \in Range(channels) /\ chan[a].status # "cancel"
  <2> DEFINE v == [w EXCEPT !.chan[a].status = "working"]
  <2>1. a \in Range(w.channels) /\ "working" \in Status \ {"free"}
    BY <1>4, <1>8 DEF Status
  <2>2. WorldOK(v) /\ v.channels = w.channels /\ SameRefs(w, v)
    BY <1>4, <2>1, PutStatusOK
  <2>3. Started(a, m) = Responded(v, a, m)
    BY <1>5, <1>8 DEF Started
  <2> HIDE DEF v
  <2>4. a \in Range(v.channels) /\ m \in Answer
    BY <1>2, <2>1, <2>2 DEF m
  <2>5. WorldOK(Responded(v, a, m)) /\ SameRefs(v, Responded(v, a, m))
    BY <2>2, <2>4, RespondedOK
  <2> QED
    BY <1>4, <2>2, <2>3, <2>5 DEF SameRefs, m
<1> QED
  BY <1>6, <1>7, <1>8

LEMMA HandleStartChannelStep ==
  ASSUME RefInv, NEW a \in Addr, HandleStartChannel(a)
  PROVE  RefInv'
<1>1. /\ WorldOK(Started(a, Head(done[a])))
      /\ SameRefs(World, Started(a, Head(done[a])))
  BY StartedOK DEF HandleStartChannel
<1> QED
  BY <1>1, QuietStep DEF HandleStartChannel, RefInv, TypeOK

LEMMA ModuleAnswersStep ==
  ASSUME RefInv, NEW h \in Handle, ModuleAnswers(h)
  PROVE  RefInv'
<1>1. sess \in [Handle -> Session] /\ sess[h] \in Session
  BY DEF RefInv, TypeOK
<1>2. sess' \in [Handle -> Session]
  BY <1>1 DEF ModuleAnswers, Session
<1>3. done' \in [Addr -> Seq(Answer)]
  <2>1. PICK m \in {Failed, [ec |-> "ok", url |-> sess[h].rid]} :
             done' = Post(done, {sess[h].owner}, m)
    BY DEF ModuleAnswers
  <2>2. m \in Answer
    BY <1>1, AnswerTypes DEF Session, Answer, Ec
  <2> QED
    BY <2>1, <2>2, PostType DEF RefInv, TypeOK
<1>4. TypeOK'
  BY <1>2, <1>3 DEF RefInv, TypeOK, ModuleAnswers
<1> QED
  BY <1>4 DEF RefInv, ModuleAnswers, VectorIsHeap, RefCountExact, Holders

LEMMA ShutdownStep ==
  ASSUME RefInv, Shutdown
  PROVE  RefInv'
<1>1. WorldOK(World) /\ Range(channels) \subseteq Range(World.channels)
  BY WorldIsOK DEF World
<1>2. /\ WorldOK(StopAll(World, Range(channels)))
      /\ SameRefs(World, StopAll(World, Range(channels)))
  BY <1>1, StopAllOK
<1> QED
  BY <1>2, QuietStep DEF Shutdown, RefInv, TypeOK

LEMMA RunCallbackStep ==
  ASSUME RefInv, NEW c \in Call, RunCallback(c)
  PROVE  RefInv'
<1>1. posted' \in [Call -> Seq(Answer)]
  <2>1. posted \in [Call -> Seq(Answer)] /\ posted[c] # <<>>
    BY DEF RefInv, TypeOK, RunCallback
  <2>2. Tail(posted[c]) \in Seq(Answer)
    BY <2>1, HeadTailProperties
  <2> QED
    BY <2>1, <2>2 DEF RunCallback
<1>2. want' \in [Call -> Rid \cup {"", NULL}]
  BY DEF RefInv, TypeOK, RunCallback
<1>3. TypeOK'
  BY <1>1, <1>2 DEF RefInv, TypeOK, RunCallback
<1> QED
  BY <1>3 DEF RefInv, RunCallback, VectorIsHeap, RefCountExact, Holders

LEMMA WorkingEndRange ==
  ASSUME RefInv
  PROVE  WorkingEnd \in 0 .. Len(channels)
<1> DEFINE W == {i \in DOMAIN channels : \A j \in 1 .. i : Active(chan[channels[j]])}
<1>1. Len(channels) \in Nat /\ DOMAIN channels = 1 .. Len(channels)
  BY LenProperties DEF RefInv, TypeOK
<1>2. IsFiniteSet(1 .. Len(channels)) /\ Cardinality(1 .. Len(channels)) = Len(channels)
  <2> SUFFICES ASSUME NEW n \in Nat
               PROVE  IsFiniteSet(1 .. n) /\ Cardinality(1 .. n) = n
    BY <1>1
  <2> QED
    BY FS_Interval
<1>3. W \subseteq 1 .. Len(channels)
  BY <1>1
<1> HIDE DEF W
<1>4. Cardinality(W) \in Nat /\ Cardinality(W) <= Len(channels)
  BY <1>2, <1>3, FS_Subset, FS_CardinalityType
<1>5. WorkingEnd = Cardinality(W)
  BY DEF WorkingEnd, W
<1> QED
  BY <1>1, <1>4, <1>5

(* The partition that handle_timer sorts the failed channels out with      *)
(* permutes the vector.                                                    *)
LEMMA PartitionedOK ==
  ASSUME RefInv, NEW front, front = SubSeq(channels, 1, WorkingEnd),
         NEW bad, bad \subseteq Range(front)
  PROVE  /\ WorldOK(Partitioned(front, bad))
         /\ SameRefs(World, Partitioned(front, bad))
         /\ bad \subseteq Range(Partitioned(front, bad).channels)
<1> DEFINE rest == SubSeq(channels, WorkingEnd + 1, Len(channels))
           good == Erase(front, bad)
           tail == Erase(front, Range(front) \ bad)
           s    == good \o tail
           u    == s \o rest
<1>1. channels \in Seq(Addr) /\ Distinct(channels)
  BY DEF RefInv, TypeOK, VectorIsHeap, Distinct
<1>2. /\ front \in Seq(Addr) /\ rest \in Seq(Addr) /\ Distinct(front) /\ Distinct(rest)
      /\ Range(front) \cap Range(rest) = {} /\ Range(front) \cup Range(rest) = Range(channels)
  BY <1>1, WorkingEndRange, SplitDistinct
<1> HIDE DEF rest
<1>3. good \in Seq(Addr) /\ Distinct(good) /\ Range(good) = Range(front) \ bad
  BY <1>2, EraseIsSequence
<1>4. tail \in Seq(Addr) /\ Distinct(tail) /\ Range(tail) = bad
  <2> DEFINE G == Range(front) \ bad
  <2>1. Range(front) \ G = bad /\ tail = Erase(front, G)
    OBVIOUS
  <2> HIDE DEF G, tail
  <2>2. /\ Erase(front, G) \in Seq(Addr) /\ Distinct(Erase(front, G))
        /\ Range(Erase(front, G)) = Range(front) \ G
    BY <1>2, EraseIsSequence
  <2> QED
    BY <2>1, <2>2
<1>5. Partitioned(front, bad) = [World EXCEPT !.channels = u]
  BY DEF Partitioned, rest
<1> HIDE DEF good, tail
<1>6. s \in Seq(Addr) /\ Distinct(s) /\ Range(s) = Range(front)
  <2>1. Range(good) \cap Range(tail) = {} /\ Range(good) \cup Range(tail) = Range(front)
    BY <1>3, <1>4
  <2> QED
    BY <1>3, <1>4, <2>1, ConcatDistinct
<1> HIDE DEF s
<1>7. u \in Seq(Addr) /\ Distinct(u) /\ Range(u) = Range(channels)
  <2>1. Range(s) \cap Range(rest) = {} /\ Range(s) \cup Range(rest) = Range(channels)
    BY <1>2, <1>6
  <2>2. s \o rest \in Seq(Addr) /\ Distinct(s \o rest) /\ Range(s \o rest) = Range(s) \cup Range(rest)
    BY <1>2, <1>6, <2>1, ConcatDistinct
  <2> QED
    BY <2>1, <2>2
<1> HIDE DEF u
<1>8. WorldOK(World) /\ World.channels = channels /\ World.chan = chan
  BY WorldIsOK DEF World
<1>9. /\ WorldOK([World EXCEPT !.channels = u])
      /\ [World EXCEPT !.channels = u].chan = World.chan
      /\ [World EXCEPT !.channels = u].channels = u
  BY <1>7, <1>8, PutVectorOK
<1> QED
  BY <1>2, <1>5, <1>7, <1>9 DEF SameRefs

LEMMA AgedOK ==
  ASSUME NEW w, WorldOK(w)
  PROVE  WorldOK(Aged(w)) /\ SameRefs(w, Aged(w))
<1> DEFINE ch == [a \in Addr |-> IF a \in Unused(w) THEN Ticked(w.chan[a]) ELSE w.chan[a]]
<1>1. w \in WorldType /\ w.chan \in [Addr -> Channel]
  BY DEF WorldOK, WorldType
<1>2. \A x \in Channel :
        Ticked(x) \in Channel /\ Ticked(x).status = x.status /\ Ticked(x).nref = x.nref
  <2> SUFFICES ASSUME NEW x \in Channel
               PROVE  Ticked(x) \in Channel /\ Ticked(x).status = x.status
                        /\ Ticked(x).nref = x.nref
    OBVIOUS
  <2>1. Word \in Nat \ {0} /\ x.expire \in Int
    <3>1. Word \in Nat \ {0}
      BY WidthAssumption
    <3>2. x.expire \in 0 .. Word - 1
      BY DEF Channel
    <3> QED
      BY <3>1, <3>2
  <2>2. (x.expire + Word - 1) % Word \in 0 .. Word - 1
    BY <2>1, ModRange
  <2>3. Ticked(x) = [x EXCEPT !.expire = (x.expire + Word - 1) % Word]
    BY DEF Ticked
  <2> QED
    BY <2>2, <2>3 DEF Channel
<1>3. /\ ch \in [Addr -> Channel]
      /\ \A a \in Addr : ch[a].status = w.chan[a].status /\ ch[a].nref = w.chan[a].nref
  BY <1>1, <1>2
<1>4. Aged(w) = [w EXCEPT !.chan = ch]
  BY DEF Aged
<1> HIDE DEF ch
<1>5. /\ [w EXCEPT !.chan = ch] \in WorldType /\ [w EXCEPT !.chan = ch].chan = ch
      /\ [w EXCEPT !.chan = ch].channels = w.channels
  BY <1>1, <1>3 DEF WorldType
<1> QED
  BY <1>3, <1>4, <1>5 DEF WorldOK, SameRefs

LEMMA HandleTimerStep ==
  ASSUME RefInv, NEW failed, HandleTimer(failed)
  PROVE  RefInv'
<1> DEFINE front == SubSeq(channels, 1, WorkingEnd)
           bad   == {a \in Range(front) : chan[a].handle \in failed}
           p     == Partitioned(front, bad)
           w     == StopAll(p, bad)
           aged  == Aged(w)
           dead  == {a \in Unused(aged) : aged.chan[a].expire = 0}
<1>1. Become(Expired(aged))
  BY DEF HandleTimer
<1>2. WorldOK(p) /\ SameRefs(World, p) /\ bad \subseteq Range(p.channels)
  <2>1. bad \subseteq Range(front)
    OBVIOUS
  <2> HIDE DEF bad
  <2> QED
    BY <2>1, PartitionedOK
<1> HIDE DEF p, bad
<1>3. WorldOK(w) /\ SameRefs(p, w)
  BY <1>2, StopAllOK
<1> HIDE DEF w
<1>4. WorldOK(aged) /\ SameRefs(w, aged)
  BY <1>3, AgedOK
<1> HIDE DEF aged
<1>5. dead \subseteq Range(aged.channels) /\ Expired(aged) = StopAll(aged, dead)
  BY DEF Unused, Expired
<1> HIDE DEF dead
<1>6. WorldOK(Expired(aged)) /\ SameRefs(aged, Expired(aged))
  BY <1>4, <1>5, StopAllOK
<1>7. SameRefs(World, Expired(aged))
  BY <1>2, <1>3, <1>4, <1>6 DEF SameRefs
<1> QED
  BY <1>1, <1>6, <1>7, QuietStep DEF HandleTimer, RefInv, TypeOK

---------------------------------------------------------------------------
(* The theorems *)

LEMMA RefInvInit == Init => RefInv
<1> SUFFICES ASSUME Init
             PROVE  RefInv
  OBVIOUS
<1>1. <<>> \in Seq(Addr) /\ <<>> \in Seq(Answer) /\ Range(<<>>) = {}
  BY DEF Range
<1>2. NoSession \in Session /\ NoHandle \in UserHandle
  BY DEF NoSession, Session, NoHandle, UserHandle
<1>3. NoChannel.status = "free" /\ NoChannel.nref = 0
  BY DEF NoChannel
<1>4. TypeOK
  BY <1>1, <1>2, NoChannelType DEF Init, TypeOK
<1>5. VectorIsHeap
  BY <1>1, <1>3 DEF Init, VectorIsHeap
<1>6. RefCountExact
  <2> SUFFICES ASSUME NEW a \in Addr
               PROVE  chan[a].nref = Cardinality(Holders(a))
    BY DEF RefCountExact
  <2>1. Holders(a) = {}
    BY DomainAssumption DEF Init, Holders, NoHandle
  <2> QED
    BY <1>3, <2>1, FS_EmptySet DEF Init
<1> QED
  BY <1>3, <1>4, <1>5, <1>6 DEF RefInv, Init

LEMMA RefInvStep == RefInv /\ [Next]_vars => RefInv'
<1> SUFFICES ASSUME RefInv, [Next]_vars
             PROVE  RefInv'
  OBVIOUS
<1>1. CASE \E c \in Call : StartBadUrl(c) \/ StopChannel(c) \/ RunCallback(c)
  BY <1>1, StartBadUrlStep, StopChannelStep, RunCallbackStep
<1>2. CASE \E c \in Call, r \in Rid, p \in Ports : StartNew(c, r, p) \/ StartShared(c, r, p)
  BY <1>2, StartNewStep, StartSharedStep
<1>3. CASE \E a \in Addr : HandleStartChannel(a)
  BY <1>3, HandleStartChannelStep
<1>4. CASE \E h \in Handle : ModuleAnswers(h)
  BY <1>4, ModuleAnswersStep
<1>5. CASE \E m \in MaxParallel : SetMaxParallel(m)
  BY <1>5, SetMaxParallelStep
<1>6. CASE \E failed \in SUBSET MayFail : HandleTimer(failed)
  BY <1>6, HandleTimerStep
<1>7. CASE Shutdown
  BY <1>7, ShutdownStep
<1>8. CASE UNCHANGED vars
  <2>1. TypeOK'
    BY <1>8 DEF vars, RefInv, TypeOK
  <2>2. VectorIsHeap'
    BY <1>8 DEF vars, RefInv, VectorIsHeap
  <2>3. RefCountExact'
    BY <1>8 DEF vars, RefInv, RefCountExact, Holders
  <2> QED
    BY <1>8, <2>1, <2>2, <2>3 DEF vars, RefInv
<1> QED
  BY <1>1, <1>2, <1>3, <1>4, <1>5, <1>6, <1>7, <1>8 DEF Next

(* The vector, the heap and the counts agree after every handler.          *)
THEOREM RefInvHolds == Spec => []RefInv
BY RefInvInit, RefInvStep, PTL DEF Spec

(* Every variable keeps its type: in particular the reference counts that  *)
(* stop_channel decrements never drop below zero, and expire stays within  *)
(* its 32 bits.                                                            *)
THEOREM TypeCorrect == Spec => []TypeOK
<1>1. RefInv => TypeOK
  BY DEF RefInv
<1> QED
  BY <1>1, RefInvHolds, PTL

(* However many users share, release and restart channels, nref is the     *)
(* number of handles the users of the channel still hold: no handle is     *)
(* left dangling by a deletion, and stop_channel's assert holds.           *)
THEOREM RefCountsExact == Spec => []RefCountExact
<1>1. RefInv => RefCountExact
  BY DEF RefInv
<1> QED
  BY <1>1, RefInvHolds, PTL

(* channels_ lists each allocated channel exactly once and never a deleted *)
(* one, through every removal, partition and move to the front.            *)
THEOREM VectorCorrect == Spec => []VectorIsHeap
<1>1. RefInv => VectorIsHeap
  BY DEF RefInv
<1> QED
  BY <1>1, RefInvHolds, PTL
=============================================================================
