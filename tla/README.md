# A specification of the live worker

The live worker serves live channels over HTTP. A player asks for a url; the
worker finds the channel id in it, starts that channel in a P2P engine (the
"live SDK", a shared library), and redirects the request to the local port the
engine streams on. Channels are shared between players and kept for a few
seconds after the last one leaves.

This directory holds TLA+ modules for the worker's own logic, TLC
configurations that check them on small instances, and TLAPS proofs. Line
numbers below are those of the files under `src/`.

## 1. The system

| component | files | state it keeps | operations |
|---|---|---|---|
| LiveManager | `LiveManager.cpp/.h` | `channels_` (a vector of pointers), each channel's status, users (`nref`), idle countdown (`expire`), waiting callbacks, last answer; `max_parallel_`; a timer | `start_channel`, `stop_channel`, `set_max_parallel`, the one second timer, the answer of the live module, `shutdown` |
| LiveModule | `LiveModule.cpp/.h` | `channels_`: SDK handle and callback of each start | `startup`, `shutdown`, `start_channel`, `stop_channel`, the SDK's report |
| LiveInterface | `LiveInterface.h` | the functions of the SDK library | `load`, and one call for each function |
| LiveModuleProxy | `LiveModuleProxy.cpp/.h` | one child process and one socket for each channel | same interface as LiveModule; without `JUST_LIVE_WORKER_MULTI_PROCESS` it *is* LiveModule (`LiveModuleProxy.h:23`) |
| LiveProxy, ProxyManager | `LiveProxy.cpp/.h` | one `Proxy` for each HTTP connection, with its channel handle | request, answer, broken pipe, finish, error, stop |
| SSNManageModule | `SSNManageModule.cpp/.h` | the channels a server tells the worker to keep running | a 60 second timer, fetch, replace the list |
| main, build, names | `Main.cpp` and the rest | none | hand the modules to the daemon library |

**How they interact.** LiveProxy and SSNManageModule call
`LiveManager::start_channel` with a callback and get a `ChannelHandle`;
LiveManager calls `start_channel` of the live module with a callback of its
own; the live module calls the SDK, or a child process that does. Every answer
comes back as a callback *posted* to the one `io_service` of the process, never
from inside the call. One thread runs the `io_service`, so handlers do not
overlap; the order in which posted handlers, timers, new calls and reports
of the SDK's threads come is open. That order is where the hard behaviour is.

**The contract.** Both interfaces, LiveManager's and the live module's, make
the same promise: each accepted start is answered exactly once, and at the
latest by its own stop (with `operation_aborted`). `StartContract.tla` states
it once. The two differ in one thing: LiveManager may answer within the call,
from a channel that works already or with a failure and no handle, whereas a
live module refuses by returning NULL and posts nothing (`AtOnce`).

**What is hard.** A stop that crosses the answer; channel cells freed and
allocated again while callbacks hold their address; a restart on other
ports while users hold the old channel; slots and tokens of callbacks that
outlive each other; unsigned arithmetic on the limits; eviction order;
processes that die; lists fetched out of order. `PROJECT.json` ("hazards")
gives each one its line and the properties that would catch it.

**What makes each component correct.**

- LiveManager: a channel is deleted only when nobody references it and no
  callback will look for it; a user loses a channel only for one of three
  reasons; each call is answered once and with what it asked for; unused
  channels stay within `max_parallel_`, go in release order, and are
  reclaimed. It stops a handle of the live module once, while it is open and
  its own, and starts in no cell whose last callback is outstanding.
- LiveModule: of the report and the stop, whichever comes second deletes the
  channel; no report reaches another channel; every SDK session is stopped.
- LiveModuleProxy: the same promises, whatever the child process does.
- LiveProxy: one stop for each start of a connection; no callback after the
  connection is gone.
- SSNManageModule: the channels that run are those of the list answered last; a
  fetch that failed counts as an empty list and clears them all (`SSNManageModule.cpp:140-149`).

## 2. Modules

| module | what it is |
|---|---|
| `StartContract` | the abstract promise: for each owner, whether an answer is due or posted, and whether a handle is open; not what the answer says |
| `LiveManager`, `MCLiveManager` | all of LiveManager, over an abstract live module (`sess`, `done`); its small instances and symmetry |
| `LiveModule`, `MCLiveModule` | all of LiveModule, over the SDK |
| `LiveModuleProxy`, `MCLiveModuleProxy` | the live module of the multi-process build: the parent, its children and the sockets between them |
| `LiveProxy`, `MCLiveProxy` | the HTTP connections, composed with LiveManager |
| `SSNManageModule`, `MCSSNManageModule` | the fetched list of channels, composed with LiveManager |
| `LiveManagerProofs` | proofs about LiveManager's counts and vector |
| `LiveManagerCallbackProofs` | proofs about its users' callbacks, and that it keeps the contract towards them |
| `LiveManagerSessionProofs` | proofs about LiveManager as a user of the live module: its sessions, the callbacks it is owed, the other contract, and what callers are answered |
| `LiveManagerCacheProofs` | proofs about LiveManager as a cache: what may end a channel, the limit, the order of release |
| `LiveModuleProofs`, `LiveModuleProxyProofs`, `LiveProxyProofs`, `SSNManageModuleProofs` | the proofs about those modules |

The proof modules of LiveManager extend one another in this order, and those of
the two compositions extend the last of them.

How they fit together:

    LiveProxy  SSNManageModule        compositions: EXTENDS LiveManager
            \    /
          LiveManager                 offers StartContract and uses it
              |                       (both checked, proved)
      StartContract
         /        \
    LiveModule   LiveModuleProxy      implement StartContract (checked, proved)

### LiveManager

The variables follow the members: `channels` is `channels_`; `chan[a]` is the
`Channel` in heap cell `a`, with status `"free"` when none is allocated;
`max_parallel` is `max_parallel_`; `handle[c]` is the `ChannelHandle` that call
`c` got. `posted` and `done` are the two kinds of callbacks waiting in the
`io_service`: the users' and LiveManager's own `handle_start_channel`. `sess`
is what the live module runs. `want[c]` is what the properties need to know of
a call: the rid it asked for, until its callback runs.

| action | code in `LiveManager.cpp` |
|---|---|
| `StartBadUrl`, `StartNew`, `StartShared` | the three ways through `start_channel` (153-241); the restart on other ports and the refusal by the live module are in `StartNew` |
| `StopChannel` | `stop_channel(handle)` (243-273) |
| `SetMaxParallel` | 137-144 |
| `HandleStartChannel` | 350-369 |
| `HandleTimer` | 316-348: failed channels, ageing, expiry |
| `Shutdown` | 125-135 |
| `ModuleAnswers`, `RunCallback` | the live module's report; the `io_service` runs a user's callback |

A handler runs several helpers in a row, each on what the previous one left:
stop the old channel, open a new one, `check_parallel`. So the helpers map a
record of the variables they touch, a *world*, to another one, and an action
ends in `Become(w)`. `StopAll(w, S)` is the private `stop_channel` on every
channel of `S`, with the calls it makes to the live module and to
`response_channel`, and the erasure of null pointers that follows every loop
that calls it. A loop over the vector becomes the set of channels it picks:
the loops' effects on distinct channels do not depend on each other.

`CloseSessions(w, A)` is `live_module_.stop_channel` for the channels `A`, with
the handle each of them kept. LiveModule casts that handle to a pointer and
reads through it (`LiveModule.cpp:113-115`), so the call is defined only for a
handle that is open and was given to this channel (`MayStop`). Any other call,
on NULL, on a handle stopped before, or on one that another channel has been
given since, turns the whole of `sess` to `Misused`: a live module in no phase
of the contract, which no run reaches and `ModuleContractKept` rules out.

Abstractions: a url is the rid in it; the `http` url of an answer is the rid
that is streamed; a bad url, one without a channel id, is an action of its own.
An empty url makes `url.substr(1)` throw (159) and is not a call the model
makes. `check_channels` may report any set of handles in `MayFail`: that is
what the interface promises. As built neither implementation ever reports one
(`LiveModule.h:51` returns 0; `LiveModuleProxy.cpp` reaps children but never
enters a channel in the list it searches), so the failures in the run
`sharing` take a path that is dead until one of them does.

### LiveModule

`channels` is the set of allocated cells, because the vector is only ever
pushed to on allocation and erased from on deletion. `hooks[a]` are the
reports the SDK owes the channel whose address it was given; `inner[a]` the
`handle_call_back_innner` calls posted for it. `SdkReports` runs in the SDK's
thread and so may come between any two handlers. The SDK is not in the
repository; what LiveModule relies on is in that action: **one report for each
accepted start, also when it was stopped meanwhile**. If the SDK reported
twice, the second report would delete a running channel (142-146); if it
reported nothing after a stop, the channel would be leaked. The port read from
`get_channel_status` is meaningful once the session plays, which is how the
model tells a report for this channel from one for an earlier channel in its
cell. `Shutdown` assumes that the daemon stops the modules that use this one
before it.

### LiveModuleProxy

A slot of `Proc` stands for a `Channel`, its pair of sockets and its child.
The parent's side:

| variable | code |
|---|---|
| `heap`, `call_back` | the allocated channels and their `call_back` |
| `reading` | channels whose one `async_read_some` (86-92) is pending |
| `handle`, `posted`, `waiting` | what the owners hold and wait for |

and the children's: `child[p]` (what it is doing), `answers[p]` and `told`
(messages in either direction of its pair), and `copies[p]`, the later children
that hold a copy of the parent's end. A `fork` copies every open descriptor;
`init_child` closes only the copy of its own pair (76-84). So the end of a
socket is seen by a child only when the parent's copy and every inherited one
are gone (`ParentGone`), while the parent sees the end of a child at once,
since it closes the child's end before it forks again (`Ended`).

| action | code in `LiveModuleProxy.cpp` |
|---|---|
| `StartChannel`, `StartRefused` | `start_channel`: the socket pair, the fork, the pending read (203-248) |
| `StopChannel` | 250-267: the stop message, whose error is ignored, then delete or post the aborted callback |
| `HandleStartChannel` | the read's handler in the parent, with a message or the end of the socket (101-109, 295-311) |
| `CheckChannels` | 269-289: `waitpid` on every child that ended; reports none, because `channels_` is always empty |
| `ChildStarts`, `ChildAnswers`, `HandleStopChannel`, `ChildExits` | the child (112-169, 221-243, 313-324) |
| `ChildCrashes`, `ParentEnds` | a process ends at any point; the kernel closes its descriptors |

Left out: what an answer says (the url, or the error), which decides nothing
here, and the LiveModule inside a child, seen through its one answer: a start
that is stopped before its callback ran answers only if the child's loop gets
to the callback before it ends (`"stopping"`).

### LiveProxy

`LiveProxy` EXTENDS `LiveManager`: a call slot is a connection, `conn[c]` is
where its `Proxy` is, and each of the Proxy's handlers is a conjunction with
the action of LiveManager it calls: `OnReceiveRequestHead` (85-93) with a
start, `OnChannelReady` (120-129) with the callback, `OnBrokenPipe` (101-105)
and `OnFinish` (115-118) with a stop. `stop_channel` clears the handle it is
given by reference, so of the two stops the second does nothing (`StopHandle`).
`Stop` is `ProxyManager::stop`; only after it may LiveManager shut down
(`End`), which is the order of the daemon's modules.

HttpProxy and ServerManager are external. The module states what it assumes of
them, at its head: one request at a time for a connection, and `on_finish` once
for each request, after `resp` was called. **The second half of that carries
`NothingLeftOver`**: the callback holds a raw pointer to the Proxy (92), so a
Proxy deleted while it waits would be called after its end. The mutant of the
property, a Proxy that finishes while it waits, shows exactly that.

### SSNManageModule

Also on top of `LiveManager`. `on_fetch_channels` (110-152) starts every entry
of the new list and then stops every channel of the old one. These are up to
twice as many calls as the list has entries, so each call is a step
(`StartEntry`, `ClearOldChannel`, `SwapChannels`), and `busy` keeps every other
handler out between them, as the one thread of the `io_service` does. `todo`,
`tempList` and `channel_` are the loop's rest, its local vector and the
member. `list` and `refused` are for the properties: the list that was
answered last, and what of it was not started (a rid, or `""` for an entry that
lost its rid). `RidOf` and
`PortsOf` are the parsing of an entry (`SSNManageModule.h:56-75`): a port
without a colon is both ports; each is cut to 16 bits; and `find_first_of`
takes any of the head's characters for the head, so that a url starting with
one of them loses its first ten characters and with them the rid.

Two fetches may be on their way at a time and be answered in any order, with a
list, with an error (no list), or after the shutdown. What the code then does
with a late list, start channels that nobody will stop, is in the model;
`RunsTheList` claims nothing once LiveManager is down. It is about a live
module that reports no failure, as both do: SSNManageModule does not ask what
became of a channel before its next list.

## 3. Runs

| run | instance | question |
|---|---|---|
| `sharing` | two rids, `max_parallel` in 1, 2, 4, `Word` = 5, two ticks, any handle may fail | Do counts, callbacks, the vector and the cache stay right? 4 plays a limit above 2^31: with `Word` = 5 it is negative once stored in an int |
| `restart` | one rid on two different port pairs and without ports | What does a restart do to users, to the module and to the contract? |
| `fair` | `LoopSpec`, restarts | Is every call answered if the live module answers? |
| `quiet` | `LoopSpec`, the module may never answer | Is whoever gives up answered, does a cancelled channel go, is an unused one reclaimed? |
| `module_crossing` | two owners, two rids, three cells, three SDK handles | May reports and stops cross? Is the contract kept? |
| `module_deleted` | `FairSpec` | Is every stopped channel deleted? |
| `module_missing` | no SDK library | expected violation, see findings |
| `proxy_crossing` | two owners, three slots, crashes of either side | Is each channel freed once, each child stoppable, the contract kept? |
| `proxy_liveness` | two owners, two slots, `ParentSpec` | Is the end of a child an answer? Do children end when told, and when their parent does? |
| `http_requests` | two clients, two rids, `max_parallel` 0 and 1 | Is anything of a request left over when the next begins? Does a served channel keep playing? |
| `http_leaving` | two clients, one rid and one cell, `ProxyLoopSpec` | Is a client that leaves forgotten, and do sessions drain? |
| `ssn_lists` | three calls, three lists, two fetches | Is any handle lost, and is every listed channel kept running? |

**Bounds.** Two callers (owners, clients) are enough to share a channel, to
race a stop with a start, and to restart a channel under a user; with two cells
one can be freed and taken again while the other is in use, and the third
cell, handle or slot gives a stopped one time to be answered late. Three
references would show nothing two do not: the code tests `nref` only against
zero. `http_leaving` has one cell, so that a request may find its rid being
cancelled with no room for another channel. The SSN lists are chosen so that a
channel stays, one comes and goes, ports change, and an entry is lost; three
calls are one more than the longest list.

- `MaxSlots` bounds the callback slots of a channel that is starting. The code
  has no bound: a start that is never answered, started and stopped again and
  again, collects empty slots (`LiveManager.cpp:236`, `253`).
- `IdleExpire` is 10 in the code and 1 or 2 here. `Word` is 2^32 and 3 to 5
  here, so that the countdown of a cancelled channel wraps (340) within a few
  ticks; limits stay below `MaxInt` except where the run `sharing` says
  otherwise. `PortWord` is 2^16 and 4 here; one port in the lists is above it.
- `MaxFetches` bounds the fetches on their way: the code starts one a minute
  and waits for none. `RoomFor` keeps a list from being taken up when
  `MaxSlots` or the call slots have no room for all of it, so that no bound
  cuts a handler in two; it also lets earlier callbacks, which only log, run
  first.

**Deadlock** is checked in the runs of LiveManager, whose callers can always
act. In the others the processes, or the daemon and its clients, do end, and
each of their configurations says so beside `CHECK_DEADLOCK FALSE`.

**Refinements.** `KeepsContract` says that the module implements
`StartContract` under a refinement mapping that reads each owner's phase off
the queues; it is checked, and proved, for LiveManager towards its users, for
LiveModule and for LiveModuleProxy. For these two `AtOnce` is FALSE, so that a
second answer to an owner that has stopped, and is owed nothing, is no step of
the contract. `UsesContract` says that LiveManager drives the live module as an
owner may, and that no stop of its own is a misuse; it is checked and proved
too. So the three agree on the order in which starts, answers and stops come.
That is less than a composition: the contract does not say which answer comes,
and no module here puts LiveManager on top of LiveModule's own state (section
6). What the answers say is `ServedWhatAsked`, shown on each side apart.

**Fairness.**

- *The event loop* runs everything posted to it: `RunCallback`,
  `HandleStartChannel`, `HandleCallBack`, the proxy's read handlers. This is all
  that `LoopSpec` and `ParentSpec` assume of LiveManager and of the parent
  (with the timer that calls `check_channels`, in `ParentSpec`).
- *The timer* (`TimerFairness`): `startup` arms it and `handle_timer` arms it
  again (346). Assumed inside `IdleReclaimed`, and in `ProxyLoopSpec`.
- *Answers of the live module* (`ModuleFairness`) are assumed only inside
  `EveryCallAnswered` and `RequestAnswered`: nothing in the worker times a
  start out, so without them a caller waits until it stops. In the same way
  the SDK's reports are fair only in LiveModule's `FairSpec`.
- *The children* (`ChildFairness`) start, run the handler of the stop message
  and end, assumed inside `ToldChildEnds` and `OrphansEnd`, whereas
  `EndIsAnswer` holds with children that hang.
- *HttpProxy* finishes a request that failed or whose client is gone
  (`LoopsFair`). No client, no crash and no user's start or stop is fair
  anywhere.

**Each property can be broken**: "mutants" in `PROJECT.json` names, for each
one, a small change to a definition that makes TLC report it: a dropped guard,
a missing reset, a swapped order. The changed definitions stand before the ones
they replace, marked `(* a mutant *)`, and are used nowhere else.

## 4. Proofs

The theorems hold for any sets of callers, rids, cells, handles and processes,
and any width, expiry and limits that satisfy the named assumptions of the
modules: `DomainAssumption` and `WidthAssumption` (LiveManager),
`ConstantsAssumption` (LiveModule), `NullAssumption` (LiveModuleProxy),
`PortsAssumption` (LiveProxy), `ListsAssumption` (SSNManageModule). They say
that NULL is none of the values, that the widths are positive, that "no ports"
is among the ports, and that the lists are sequences of entries whose ports,
cut to their width, LiveManager accepts; and that the callers are finitely many,
so that the users of a channel can be counted. Lists may be of any length.
Three theorems have a hypothesis of their own:

- `CacheStaysWithinLimit` assumes `HeapFitsInt`: there are at most `MaxInt`
  cells (2^31 - 1 in the code), so that the numbers of channels fit the `int`
  and `size_t` they are counted in. The code needs it: with more used channels
  than that, the difference stored in an int would read as room again. At a
  few hundred bytes a channel, so many need hundreds of gigabytes.
- `ListRuns` and `ServedClientsWatch` assume `MayFail = {}`: the live module
  reports no failure. As built neither does (see section 2), and if one did,
  the two properties would rightly fail: a failed channel plays for nobody.

| module | theorems (`Spec => ...`) |
|---|---|
| `LiveManagerProofs` | `TypeCorrect`, `RefCountsExact`, `VectorCorrect` |
| `LiveManagerCallbackProofs` | `CallbacksInOnePlace`, `ContractKept` (towards its users) |
| `LiveModuleProofs` | `TypeCorrect`, `OneReport`, `SessionsAreStoppable`, `ServedAsAsked`, `ContractKept` |
| `LiveModuleProxyProofs` | `ChannelsFreedOnce`, `ChildrenStoppable`, `ChildrenAnswerOnce`, `ContractKept` |
| `LiveManagerSessionProofs` | `CallbackAlwaysDue`, `SessionsStayOwned`, `StoppedChannelsUsed`, `RidsRunOnce`, `ModuleContractKept` (towards the live module), `CallersServedRight` |
| `LiveManagerCacheProofs` | `UsersStayOn`, `EvictsOnlyWhenFull`, `CacheStaysWithinLimit`, `IdleStaysInOrder` |
| `LiveProxyProofs` | `ProxyUsesManager`, `ProxyTypeCorrect`, `NothingIsLeftOver`, `RequestsMayStart`, `ServedClientsWatch` |
| `SSNManageModuleProofs` | `ModuleUsesManager`, `NoHandleLost`, `ListedStaysUsed`, `ListRuns` |

**LiveManager, counts.** `TypeOK`, `RefCountExact` and `VectorIsHeap` are not
inductive alone. `TypeOK` says that `nref` is a natural number, and
`stop_channel` decrements it; that it was positive follows only from
`RefCountExact`, since the caller holds a handle. `RefCountExact` needs that no
helper deletes a channel with users, or allocates one twice, which is about
`channels_` and the heap: `VectorIsHeap`. So the invariant is

    RefInv == TypeOK /\ VectorIsHeap /\ RefCountExact /\ (free cells have nref 0)

The proof has three layers. Lemmas about `Erase` (what `std::remove` and
`erase` leave) say that it keeps the order's distinctness and drops exactly
the named entries; they rest on the rank of an index in a set being a
bijection. Lemmas about worlds (`StopAllOK`, `CheckParallelOK`, `ReleasedOK`,
`PartitionedOK`...) say that each helper maps a world that satisfies `WorldOK`
to one that does, and what it does to the counts. One lemma for each action
composes them, and `RefInvStep` has one case for each.

**LiveManager, callbacks.** A token is an index into the slots of a channel
that may have been stopped, answered and deleted since the token was given
out. What keeps it from naming somebody else's slot is

    CallInv == RefInv /\ CallsOK(chan, posted, handle, want)

with four parts: only a starting channel has slots, and a stopped one is not
found by its rid; a token into a starting channel is within its slots, so that
the next slot is nobody's (`TokensOld`); a slot that is not empty is the one
its caller's handle names (`SlotsNamed`); and a callback that is owed is in one
place, that slot or the queue, and one that is not is in none (`InOnePlace`).
The helpers have one lemma each over a heap, a queue and the handles, so that
they compose within an action; each action then shows that every call was left
alone, begun, ended or run (`CallStep`), which gives both the invariant's step
and, through `CallerStep`, the step of `StartContract`.

**LiveManager, sessions.** What the live module owes a channel is decided by
the channel's status alone (`Due`): a started one is owed one callback, made or
posted; a working one none; a cancelled one has given its session back and is
owed the callback that will delete it; a stopped or free one has nothing. With
it go `Owned`, no session outlives its channel, and the two facts that keep a
cell from being taken over too early: a stopped channel has a user (`NoneLeft`)
and no two channels have the same rid (`OneRid`).

    SessInv == CallInv /\ SessOK(chan, sess, done) /\ NoneLeft(chan) /\ OneRid(chan)

`NoneLeft` is where the deletions are spread out: `check_parallel`, the timer
and `handle_start_channel` each delete what the others pass over, and the lemma
`StopAllLeaves` says that what one stop leaves behind it found there. `OneRid`
also needs `CallInv`, by which a stopped channel has lost its rid. Read off the
same invariant, each channel is an owner in `StartContract`, and each action
shuts some channels and opens at most one (`Shuts`, `Opens`), which gives
`ModuleContractKept`. That a stop is never a misuse is `DueMayStop`: a channel
that `Due` lets run has a session that names it as owner, and two channels
cannot both be named by one session; `Owned` then says that no session is
`Misused`, since that one has no owner.

**LiveManager, answers.** `ServedInv == SessInv /\ AnswersOK`: along the way of
an answer from the live module to the caller, the callbacks in a channel's
slots want the channel's rid, a working channel streams that rid, an answer
posted to a channel carries that rid if it is a success, and one posted to a
caller carries what it wants. That a
channel's rid never changes while anybody waits in it is `CallInv` again.

**LiveManager, the cache.** `UsersStayOn` and `EvictsOnlyWhenFull` are action
properties of `SessInv`: for each action, `CacheStep` names the channels it
may stop and why (`Excuse`). Both rest on the arithmetic of `check_parallel`
(`RoomLeft`): the room, computed as a `size_t` and read as an `int`, is the true
one when it is not negative, and negative only when the users exceed the limit.
`CacheInv == SessInv /\ CacheFits` counts cells, where the property counts
positions of the vector; each action either ends in `check_parallel` with the
new limit or takes no room. `OrderInv == SessInv /\ OrderOK` says that along
the vector the countdowns of the unused channels fall, and that each is within
`IdleExpire`. A release puts a full countdown in front, ageing takes one from
each, and everything else takes a subsequence of the vector or appends a
channel with a user.

**LiveModule.** `Inv == TypeOK /\ Heap /\ Reports /\ Answers`: a channel with
an owner is one nobody else has, the one report outstanding for it is made or
posted, and what it reports is what its session plays. The contract follows
because the callback of a channel is NULL exactly when it was posted.

**LiveModuleProxy.** The three invariants and `CallBackOwed` (a channel's
callback belongs to the owner that waits for it) are inductive together with
`TypeOK`. `FreedOnce` is the hard one: the read's handler and the stop each
delete the channel if the other came first, and `call_back` alone says which.

**LiveProxy.** `ProxyUsesManager` says that the composition implements
LiveManager alone: each step of the proxies is a step LiveManager's
specification allows, or does not touch it. So what is proved of LiveManager,
the contract included, holds under them. In LiveManager a caller starts only
with no handle and no callback owed (`CanCall`); `RequestsMayStart` says that a
Proxy that reads a request is always in that state, so the guard is one its
users establish. `ServedClientsWatch` needs to know of a client that still
waits what it will be served: its channel runs, with its rid, and either still
owes the answer or was working already, or else the client was refused and the
refusal is on its way (`Watches`). A proxy names no ports, so no proxy's start
restarts another's channel.

**SSNManageModule.** `ModuleInv` adds to `SessInv` that `todo` is the end of
`list`, that the two vectors hold each open handle once, and that between handlers
`todo` and `tempList` are empty. It gives `ModuleUsesManager` and
`NoHandleLost`. During a replacement two more invariants speak of the part of
the list that was reached. `HeldByNew`: a channel the list keeps as it is, once
reached, has a user among the *new* calls. So stopping the old calls never
takes the last user (`ListedStaysUsed`), and this is what the other order of the
two loops would lose. `ReachedRun`: each entry reached and not refused has a
running channel held by one of the calls in force, with the ports of the last
entry that fixes them; a later entry with the same rid and other ports restarts
the channel and becomes its new holder. When the list is done, that is
`RunsTheList`.

**Model-checked only.** Liveness, since TLAPS does not reason about fairness
and ENABLED: `EveryCallAnswered`, `StoppedCallAnswered`, `CancelResolved`,
`IdleReclaimed`, `StoppedIsDeleted`, `EndIsAnswer`, `ToldChildEnds`,
`OrphansEnd`, `BrokenIsForgotten`, `SessionsDrain` and `RequestAnswered`. Every
other property of a passing run, that is every invariant, every action property
and every refinement, is stated by a theorem above. `TypeOK` of LiveModuleProxy
and `ProxyTypeOK` are proved and are no invariant of a run; `SSNTypeOK` is
stated for the reader, and is neither. The modules are written without recursive
operators (`Erase` is defined by rank) so that the proofs can expand all of
them.

## 5. Findings

`module_missing`: `LiveModule::startup` takes a missing SDK library for
success (77-79). The first start, or the shutdown, then calls LiveInterface
with null functions, where `assert(false)` (`LiveInterface.h:112`, `121`, `130`) says
that this does not happen. A debug build stops there; a release build answers
each start with a failure.

Two more things the models show are not contradicted by anything the
repository says, and so are listed as hazards only: a child that crashes after
its answer is reaped but never reported, because `channels_` of LiveModuleProxy
stays empty (`LiveModuleProxy.cpp:219`, `269-289`); and a list that arrives
after SSNManageModule's shutdown starts channels that nobody stops.

## 6. What is left

1. `LiveWorker`: LiveManager composed with LiveModule, then with
   LiveModuleProxy, in place of the abstract sessions. Today each half is held
   against `StartContract`, which says when an answer comes, not which, so that
   no theorem says of LiveManager over LiveModule what is proved of LiveManager
   over its sessions. The composition also has to relate the handles: a live
   module's are the addresses of its own channels, used again after a delete.
2. `SSNTypeOK` for every constant: that the ports LiveManager is handed fit
   their width.
3. `ListRuns` and `ServedClientsWatch` over a live module that reports failures:
   the channels it reports would be an exception in both properties.

**Not modelled.** `main` and `util::daemon` (they start and stop the modules in
order; the order is assumed where it matters), the HTTP, socket and archive
libraries and the SDK itself (external; modelled by how this code uses them),
logging, version and build files. Also not: the exceptions a url shorter than
its head raises (`LiveManager.cpp:159`, `SSNManageModule.h:71`), and the
truncation of a channel's address to 32 bits (`LiveModule.cpp:105`), which has
no counterpart for cells that are model values. Of LiveInterface only the
functions LiveModule calls are modelled; the other setters have no caller.
