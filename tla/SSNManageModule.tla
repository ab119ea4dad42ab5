--------------------------- MODULE SSNManageModule ---------------------------
(***************************************************************************)
(* SSNManageModule on top of LiveManager: every minute it fetches a list   *)
(* of channels to keep running, starts all of them, and then stops those   *)
(* of the list before, so that what is in both lists is never without a    *)
(* user.                                                                   *)
(*                                                                         *)
(* on_fetch_channels calls LiveManager once for each entry.  Each call is  *)
(* a step here, and while the handler is busy no other handler runs.       *)
(***************************************************************************)
EXTENDS LiveManager

CONSTANTS
  Lists,      (* what the server may answer: sequences of entries          *)
  PortWord,   (* 2^16, the width of a port                                 *)
  MaxFetches  (* bound: fetches on their way at a time                     *)

(* An entry of the list.  Its port reads "t:u" or "p"; its url has the     *)
(* head "synacast:/", or starts with one of the characters of that head,   *)
(* or with another one.                                                    *)
Form  == {"head", "lookalike", "plain"}
Entry == [rid : Rid, form : Form, port : {p \in Seq(Nat) : Len(p) \in {1, 2}}]

ASSUME ListsAssumption ==
  /\ Lists \subseteq Seq(Entry)
  /\ PortWord \in Nat \ {0} /\ MaxFetches \in Nat
  /\ (0 .. PortWord - 1) \X (0 .. PortWord - 1) \subseteq Ports

VARIABLES
  fetches,   (* fetches that are not answered yet                          *)
  busy,      (* on_fetch_channels or shutdown is at work                   *)
  todo,      (* the entries it has not started                             *)
  tempList,  (* the calls it has started                                   *)
  channel_,  (* the calls kept from the list before                        *)
  ssnRuns,   (* between startup and shutdown                               *)
  list,      (* the list in force: the one that was answered last          *)
  refused    (* what of it was not started: rids, and "" for no rid        *)

ssnVars == <<fetches, busy, todo, tempList, channel_, ssnRuns, list, refused>>
allVars == <<vars, ssnVars>>

---------------------------------------------------------------------------
(* channel::serialize.  find_first_of takes any character of the head for  *)
(* the head, and the ten characters it cuts leave no url.  Without a colon *)
(* both ports are the whole number, and each is cut to 16 bits.            *)
RidOf(e) == IF e.form = "lookalike" THEN "" ELSE e.rid
PortsOf(e) == <<e.port[1] % PortWord, e.port[Len(e.port)] % PortWord>>

(* A call of start_channel has its own callback, which only logs.          *)
FreeCalls == {c \in Call : CanCall(c)}

(* Bounds: call slots, and slots of callbacks, for all of a list; and the  *)
(* callbacks posted so far, which only log, run before the next list.      *)
RoomFor(l) ==
  /\ \A c \in Call : posted[c] = <<>>
  /\ Cardinality(FreeCalls) >= Len(l)
  /\ \A a \in Addr : Len(chan[a].call_backs) + Len(l) <= MaxSlots

Idling == ~ busy /\ UNCHANGED ssnVars

---------------------------------------------------------------------------
(* The timer is armed again until the daemon stops.                        *)
HandleFetchTimer ==
  /\ ssnRuns /\ ~ busy /\ fetches < MaxFetches
  /\ fetches' = fetches + 1
  /\ UNCHANGED <<vars, busy, todo, tempList, channel_, ssnRuns, list, refused>>

(* on_fetch_channels is called with an answer, or with an error, which     *)
(* leaves it with no list.  Fetches may be answered in any order, and      *)
(* after the shutdown.                                                     *)
OnFetchChannels ==
  /\ fetches > 0 /\ ~ busy
  /\ \E l \in Lists \cup {<<>>} :
       /\ RoomFor(l)
       /\ todo' = l /\ list' = l
  /\ fetches' = fetches - 1
  /\ busy' = TRUE /\ refused' = {}
  /\ UNCHANGED <<vars, tempList, channel_, ssnRuns>>

StartEntry ==
  /\ busy /\ todo # <<>>
  /\ LET e == Head(todo) IN \E c \in FreeCalls :
     /\ IF RidOf(e) = "" THEN StartBadUrl(c)
        ELSE StartNew(c, e.rid, PortsOf(e)) \/ StartShared(c, e.rid, PortsOf(e))
     /\ IF handle'[c].channel # NULL
        THEN tempList' = Append(tempList, c) /\ UNCHANGED refused
        ELSE refused' = refused \cup {RidOf(e)} /\ UNCHANGED tempList
  /\ todo' = Tail(todo)
  /\ UNCHANGED <<fetches, busy, channel_, ssnRuns, list>>

ClearsAtOnce == busy                                              (* a mutant *)
Clears == busy /\ todo = <<>>

(* ClearOldChannel, one of its calls of stop_channel.                      *)
ClearOldChannel ==
  /\ Clears /\ channel_ # <<>>
  /\ StopChannel(Head(channel_))
  /\ channel_' = Tail(channel_)
  /\ UNCHANGED <<fetches, busy, todo, tempList, ssnRuns, list, refused>>

SwapsUncleared == busy /\ todo = <<>>                             (* a mutant *)
Swaps == Clears /\ channel_ = <<>>

(* channel_.swap(tempList), and the end of the handler.                    *)
SwapChannels ==
  /\ Swaps
  /\ channel_' = tempList /\ tempList' = <<>>
  /\ busy' = FALSE
  /\ UNCHANGED <<vars, fetches, todo, ssnRuns, list, refused>>

(* shutdown clears the channels, a list that replaces them with none, and  *)
(* cancels the timer.                                                      *)
StopModule ==
  /\ ssnRuns /\ ~ busy
  /\ ssnRuns' = FALSE /\ busy' = TRUE
  /\ list' = <<>> /\ refused' = {}
  /\ UNCHANGED <<vars, fetches, todo, tempList, channel_>>

(* The rest of LiveManager, which is shut down after its users.            *)
Others ==
  /\ \/ \E c \in Call : RunCallback(c)
     \/ \E h \in Handle : ModuleAnswers(h)
     \/ \E a \in Addr : HandleStartChannel(a)
     \/ \E failed \in SUBSET MayFail : HandleTimer(failed)
     \/ ~ ssnRuns /\ Shutdown
  /\ Idling

---------------------------------------------------------------------------
SSNInit ==
  /\ Init
  /\ fetches = 0
  /\ busy = FALSE
  /\ todo = <<>> /\ tempList = <<>> /\ channel_ = <<>>
  /\ ssnRuns = TRUE
  /\ list = <<>> /\ refused = {}

SSNNext ==
  \/ HandleFetchTimer \/ OnFetchChannels \/ StartEntry
  \/ ClearOldChannel \/ SwapChannels \/ StopModule \/ Others

SSNSpec == SSNInit /\ [][SSNNext]_allVars

---------------------------------------------------------------------------
(* Every variable holds values of its type; the ports handed to            *)
(* LiveManager fit their width.                                            *)
SSNTypeOK ==
  /\ TypeOK
  /\ \A a \in Addr : chan[a].ports \in (0 .. PortWord - 1) \X (0 .. PortWord - 1)
  /\ fetches \in 0 .. MaxFetches
  /\ busy \in BOOLEAN /\ ssnRuns \in BOOLEAN
  /\ todo \in Seq(Entry) /\ list \in Lists \cup {<<>>}
  /\ tempList \in Seq(Call) /\ channel_ \in Seq(Call)
  /\ refused \subseteq Rid \cup {""}

Open == {c \in Call : handle[c].channel # NULL}

(* Every handle the module holds is in exactly one of its two vectors, so  *)
(* that none is lost when a list replaces another, whatever was refused,   *)
(* restarted or shared within the lists, or failed to be fetched.          *)
HandlesOfOneList ==
  /\ Open = Range(channel_) \cup Range(tempList)
  /\ Cardinality(Open) = Len(channel_) + Len(tempList)

(* Between two handlers, while LiveManager runs, each channel of the list  *)
(* in force has a user, on the ports the list says last, although what was *)
(* stopped after the starts may have been the same channel.  One that the  *)
(* live module refused need not; an entry whose url is lost starts         *)
(* nothing, whatever the others of its rid do.  Assumes a live module that *)
(* reports no failure (MayFail = {}), since SSNManageModule would not      *)
(* notice one before its next list.                                        *)
Fixed(p)  == p[1] # 0 /\ p[2] # 0
Last(l, i) == \A j \in i + 1 .. Len(l) :
                RidOf(l[j]) = RidOf(l[i]) => ~ Fixed(PortsOf(l[j]))
RunsTheList ==
  ~ busy /\ running => \A i \in DOMAIN list :
    RidOf(list[i]) \notin refused =>
      \E a \in Addr : /\ Used(chan[a]) /\ chan[a].rid = RidOf(list[i])
                      /\ Fixed(PortsOf(list[i])) /\ Last(list, i)
                           => chan[a].ports = PortsOf(list[i])

(* A channel that is used when a list with it comes in is used throughout  *)
(* the replacement, and so is never stopped, unless the list gives it      *)
(* other ports.                                                            *)
KeptOn(ch) ==
  \E i \in DOMAIN list :
    /\ RidOf(list[i]) = ch.rid
    /\ \A j \in DOMAIN list : RidOf(list[j]) = ch.rid => ~ Restarts(ch, PortsOf(list[j]))

ListedKeepsRunning ==
  [][\A a \in Addr : busy /\ Used(chan[a]) /\ KeptOn(chan[a]) => Used(chan'[a])]_allVars
=============================================================================
