# A verification development for avb-introspection

`avb-introspectd` reads captures of AVB/TSN networks, reconstructs the state
of seven protocols from them, and serves the result to browsers: a REST API, an
event stream over WebSocket, a library of captures and sessions on disk,
accounts and tenant domains. This directory holds TLA+ models of the parts of
the server whose correctness depends on the order in which things happen, the
TLC configurations that check them, and proofs, checked by TLAPS, that the most
important properties hold for every value of the constants.

Paths below are relative to `src/backend/src/` unless they say otherwise.

## 1. Inventory

### The parts and how they interact

```
 sockets ──► HttpServer ──post──► ThreadPool ──► Api handlers ──► Auth, Store, FlowGuard
 (main thread)                        │                │
                                      │                └─ start ─► Engine::analyze (detached thread)
                                      └─ streamSession ◄── Session::events, status, cv ──┘
                                                             ▲
      decoding threads ─► ordered pass ─► protocol machines ─┘
                                (AdpLogic, MsrpLogic, MvrpLogic, MaapLogic,
                                 AcmpLogic, AecpLogic, GptpLogic, and the
                                 SharedModel between them)
```

| part | state it keeps | operations | hard behaviour | what makes it correct |
|---|---|---|---|---|
| Thread pool (`engine/thread_pool.h`) | queue, idle count, threads, stop flag | `post`, `worker`, `stop` | any interleaving of the poster and the workers; notification after the unlock | no task lost or doubled, no lost wake-up, drain at stop, stop returns |
| Engine (`engine/engine.cpp`, `session.h`) | sessions; per session the event log, status, error | `start`, `analyze`, `find`, `remove`, `drain` | parallel decoding, readers during the analysis, failure, deletion during the analysis | capture order, dense log, batches whole, nothing missing when Done |
| Event stream (`api/api.cpp`) | one cursor per client | `handleUpgrade`, `streamSession` | clients attach at any time; missed notifications; deletion and shutdown under the client | each client gets a prefix; *complete* means all; every stream ends |
| MRP registrar (`logic/mrp_registrar.cpp`) | registrar and leave timer per attribute and source; count of leaving registrars | `mrpEvent`, `mrpLeaveAll`, `mrpTick` | sequences of leaves, LeaveAlls, re-joins, expiries | the count is exact, nothing lingers in LV |
| MVRP (`logic/mvrp_logic.cpp`) | members and state per VLAN | `onDecode`, `onTimeTick` | several members against LeaveAll | agrees with the registrars |
| MSRP (`logic/msrp_logic.cpp`) | declaration, listeners, state per stream; domain table | `onDecode`, `recompute` | several sources and attribute types on one stream | state and shared sets follow declaration and listeners |
| ADP (`logic/adp_logic.cpp`) | entity life cycle | `onDecode`, `onTimeTick` | expiry against re-announcement | the shared set of available entities is exact |
| ACMP (`logic/acmp_logic.cpp`) | connections, commands in flight, Milan sinks | `onDecode`, `onTimeTick` | late responses, time-outs, truth of other protocols | sinks follow ADP and MSRP; no command outlives its time-out |
| MAAP, AECP, gPTP (`logic/`) | claims; commands in flight and counters; domains and ports | `onDecode`, `onTimeTick` | conflicts, time-outs, loss of sync | each reported transition is justified |
| Store (`store/store.cpp`) | `meta.json`, capture files, session folders, notes | add, remove, move, relocate, save, init | failing saves, crashes and restarts between steps | an acknowledged upload survives whatever fails; a session stands on its own files |
| Auth (`auth/auth.cpp`) | accounts, tokens | register, login, check, logout, delete | concurrent requests, failing saves | an administrator remains; a deleted account's tokens die |
| Request handlers (`api/api.cpp`) | none of their own | one per route | check and act are separate critical sections | tenancy; no lost update of notes |
| HTTP server (`net/http.cpp`) | clients, busy flags | `serve`, `handleConnection`, `drain` | shutdown while requests arrive | in-flight responses complete |
| Rate limiter, flow guard (`util/ratelimit.h`, `sec/flowguard.cpp`) | buckets; windows, alerts, penalties | `allow`; `record`, `raise` | many actors, pruning | a pruned actor carried no state; alerts cool down |
| Capture reader (`pcapio/pcap_reader.cpp`) | packet index | `open`, `mergePcaps` | out-of-order records, several sources | a merge is an ordered interleaving |

Not candidates for a model: the decoders (`decode/`, functions of one frame's
bytes), JSON, base64, hashing, address parsing (`util/`), the logic registry
(`tsn_gen/`), the browser front end (`src/frontend`), generators, scripts and
packaging.

### Hazards

`PROJECT.json` lists the hazards this code is exposed to, each at its line,
with the properties that would catch it going wrong. Three have none; their notes
say why.

## 2. The modules

| module | models | role |
|---|---|---|
| `TaskService` | the comments of `engine/thread_pool.h` | abstract specification: one queue, tasks begun in the order in which they came, a stop that waits for all of them |
| `ThreadPool` | `engine/thread_pool.h` | the pool, cut at every critical section of `mMu`; implements `TaskService` |
| `MCThreadPool` | | instances for TLC |
| `ThreadPoolProofs` | | proofs about `ThreadPool` and the refinement |
| `EventFeed` | `docs/API.md`, "WebSocket event stream" | abstract specification: one growing log, clients with prefixes of it |
| `Analysis` | `Engine::analyze`, `failSession` | one session's analysis |
| `StreamSession` | `Api::handleUpgrade`, `Api::streamSession`, `Engine::remove`, `Api::stop` | readers beside the analysis; implements `EventFeed` |
| `MCStreamSession` | | captures and clients for TLC |
| `StreamSessionProofs` | | proofs about `StreamSession` and the refinement |
| `MrpRegistrar` | `logic/mrp_registrar.cpp` | the registrar layer and the passing of capture time |
| `Mvrp`, `Msrp` | `logic/mvrp_logic.cpp`, `logic/msrp_logic.cpp` | the two views that feed it |
| `Srp` | one analysis' modules over one `SharedModel` | their composition |
| `MCSrp` | | captures for TLC |
| `SrpProofs` | | proofs about `Srp` |
| `Adp` | `logic/adp_logic.cpp` | entity life cycle, the shared set of available entities, the passing of capture time |
| `Acmp` | `logic/acmp_logic.cpp` | connections, commands in flight and Milan sinks, over `Adp` |
| `MCAcmp` | | captures for TLC |
| `AcmpProofs` | | proofs about `Acmp` |
| `CaptureLibrary` | the comments of `store/store.h` and `store/store.cpp` | abstract specification: what took place stands and is answered later, without files, saves or roots |
| `Store` | `store/store.cpp`, `util/fsutil.cpp`, `mergePcaps` | the library, the session folders and `meta.json`, with crashes and restarts; implements `CaptureLibrary` |
| `MCStore` | | workloads for TLC |
| `StoreProofs` | | proofs about `Store` and the refinement |
| `PacketTime` | `Engine::analyze` | the time the analyzers see |
| `Gptp`, `Aecp`, `Maap` | `logic/gptp_logic.cpp`, `logic/aecp_logic.cpp`, `logic/maap_logic.cpp` | the analyzers of clock, command and address-claim traffic |
| `Observers` | one analysis' modules over one `SharedModel`; `checkGmAgainstObserved` of `logic/adp_logic.cpp` | their composition |
| `MCObservers` | | captures for TLC |
| `ObserversProofs` | | proofs about `Observers` |
| `Accounts` | `auth/auth.cpp` | accounts, tokens, `users.json` |
| `Api` | `api/api.cpp` | the request handlers over `Accounts`, the store and the engine |
| `Http` | `net/http.cpp`, `net/http.h`, the end of `main()` | connections, their registry, shutdown |
| `Guard` | `util/ratelimit.h`, `sec/flowguard.cpp`, `Api::trafficHit` | what is kept about the rate and kind of requests |
| `Serving` | the serving side of `main()` | the three together, with their fairness |
| `MCServing` | | deployments, loads and rates for TLC |
| `ServingProofs` | | proofs about the accounts, the connections and the limiter of `Serving` |
| `RequestsProofs` | | proofs about its requests, and the types of all three parts |

### ThreadPool

`mQueue`, `mIdle`, `mStopping` are the members of that name; `worker[t]` says
where thread `t` is in `worker()`; `task[t]` is its local variable; `main` is
the posting thread. `post()` is two actions, since it unlocks before it
notifies; `stop()` is three (flag, `notify_all`, join). A worker's loop body is
one critical section from `lock` to `mCv.wait`'s atomic unlock-and-sleep or to
the removal of a task (`GoIdle`, `Pass`), another after a wake-up (`Resume`,
`SleepAgain`); `task()` returning is `Finish`. `mThreads` is the set of threads
that exist; `post()` creates at most one. Wake-ups may be spurious. `posted` and
`done` are history variables.

`TaskService` is what the accept loop relies on, without threads, locks or wake-ups. It
sees `mQueue` as the tasks waiting, the tasks of the running workers as begun, `done` as ended, and as its
phase whether `mStopping` is set and whether `stop()` has returned.

### Analysis and StreamSession

`phase` is where `analyze()` is. The packets are partitioned over the decoding
threads as the code does it (`Workers`, `Chunk`, `ChunkBegin`, `ChunkEnd`); each
thread fills the slots of its chunk in its own time. `order` is the stable sort
by timestamp; `Process` is one packet of the ordered pass, and adds the events
`Burst` says: the packet's own, the transitions it caused, and those due to the
advance of time. What the protocol machines answer is data of the capture
(`caused`, `ticked`), because the log's properties do not depend on it. `Flush`
publishes a batch; `Finish` stores *Done* after the last flush. Timestamps
relative to the first record are computed modulo `TsModulus` (2^64 in the code).

A client's thread is at `pc[c]`: `new`, `found` (between the two lookups of the
session), `top` (of the loop), `act` (after the critical section that read
`st` and `chunk`), `waiting` (on `Session::cv`, at most 50 ms), `closed`. `received`,
`told`, `total` and `why` record what was sent. A client may be refused, may leave at
any point where the code notices it, the session may be deleted, the server
may stop.

`EventFeed` promises that the log only grows, that a client has a prefix of it,
and that a client that was told *complete* has all of it. `StreamSession`
implements it with `log <- events`, `outcome <- status`, `got <- received`.

### MrpRegistrar, Mvrp, Msrp, Srp

The engine hands the declarations of one packet to the modules and then
advances the time: `Arrive(t)`, any number of declarations at time `now`, `Tick`.
`registrar`, `leaveTimerStart`, `mrpLvCount` are the members of `MrpAttr` and
`SharedModel`; they are functions of the keys of `mrpAttrs` (an attribute and
its declaring source), where an absent entry is an `MT` registrar, as in the code.
Which keys a capture declares is its `traffic`, chosen once; in what order, with
which events, and when, is left open. Members and states of VLANs, and
declarations, listeners and states of reservations, are the fields of that name.
The event logs and histories that only the display reads are left out.

### Adp, Acmp

`Engine::analyze` decodes a packet with the module it is for and then ticks all
modules with the packet's time, in the order of an unordered map. `due` is the
set of modules not yet ticked, so both orders of the two modules' ticks occur,
and an invariant that is about the end of a packet says `due = {}`. The truth
`AcmpLogic` reads of other modules is `adpAvailable`, which `Adp` maintains, and
`msrpTalkerDecl`, which a packet for MSRP may change in any way (that the way it
changes is right is `Srp`'s matter). A sink is a record of the fields of
`MilanSink` that decide what it does next; the five functions from record to
record (`Bound`, `Unbound`, `Probed`, `Answered`, `SinkTick`) are the cases of
`milanOnMessage` and the sink part of `onTimeTick`, the latter as the
composition of its stages. Timers are constants; capture time does not go back,
as it does not in a capture whose first record is its earliest.

### Store

Every public operation of `Store` holds `mMu` from beginning to end, so one is
in progress at a time: `op` is the operation, where it has got to and what it
has in hand. It is cut at every change it makes to the disk, because `Restart`
may come after any of them. `mem` is the members, `disk` is `meta.json`, which
`writeFileAtomic` replaces whole or not at all; every place where the code looks at
the result of a save, and every place where it does not (`addSession`,
`removeSession`, the caller of `removeDomain`), has its own alternatives. A file of the
library is its contents by root, domain and id; a write that is cut off
leaves `Part`. A session folder holds `capture.pcap` and `capture.src`, as the sets of
captures they are made of, and `remove_all` may be interrupted between the two. Ids
are numbers and are given out as the code does, from counters that a crash may set
back, so they are used again. The others are history: `saved` is the uploads whose entry
was saved, `kept` those of them nobody asked to remove, `removed` those whose removal was
saved, `dropped` the sessions somebody asked to remove. The answer to an upload is a step
of its own (`Answer`): once the entry is saved it is `due`, `mMu` is free, and other
operations may come before it is `acked`, or a crash that swallows it.

`CaptureLibrary` is the same without the disk: what is listed (`Listed`: `mem.pcaps` but for
an entry being saved, which nobody can look at while `mMu` is held), what of it is
whole (its bytes are below the root in force), what was uploaded, told, kept and removed. An
upload and a removal take place when they are saved and are answered later or never; after a
restart an upload that was saved and never answered is listed, and a removal asked for but
not saved has come undone.

`Restart` is `init`: it reads `meta.json`, and if the root that is set
cannot be created it falls back to the default one. `MountsFail` says whether that
may happen. What users do in one run is a `Workload`, so that operations that interact are
explored together without all being explored at once.

Assumed: a write error shows before `addPcap` looks at the stream. In the code the
tail of a file may still be in the stream's buffer then, and is written when it is
closed, which nobody looks at (`store.cpp:346-352`; `mergePcaps` flushes first). The
files themselves are not synced, so power loss is out of scope; the process dying
is what `Restart` means. `addSession` is given captures that are listed; that
the handler looked them up before, without the lock, belongs to the request handlers.
A mount point that exists with nothing mounted on it, where the setting survives and
the files seem gone, is not modelled.

### PacketTime, Gptp, Aecp, Maap, Observers

A packet `Arrives` at a time, is decoded by one module, and then all modules are ticked
(`Ticks`); `due` says that the ticks are to come, and the properties are about the time
between packets (`~due`), which is when anybody else sees the state. `domain[d]` and
`port[p]` are the fields of `Domain` and `PortRole` that decide what happens next;
`exchanges` are the open Pdelay exchanges, `gptpDomains` is what `publish()` has put
into the `SharedModel`. A quality stands for priority, class, accuracy and variance in
their order. `announced` is history: the last vector each port announced in a
domain, with its own interval, from which `BmcaTruth` says what the comparison ought to
rest on. A stepsRemoved of 255 stands for the ones that disqualify a vector. In `Aecp`, `fate` is history: what became of the
commands of a pair. `Observers` adds what ADP makes of a grandmaster that an entity
advertises. A capture is the messages, ports and values that occur in it; their order
and times are open.

Left out: counters and logs that only the display reads, the precision of
arrival times, the sub-domains of a port number that `portKey` folds together.

### Accounts, Api

Each method of `Auth` holds `mMu` from its first look to its last change, so it is one
step, with a save that may fail (`ok`): the change then stays in memory and the
caller is told. No handler holds a mutex over two calls, so a request of `Api` is cut at
each call of the accounts, the store and the engine; `call[r]` is where it is and the
local variables it carries on (`user`, `role`, `domain`, `flag` for the answer of the
first of two calls, `base` for the revision of the notes). A call of the store is one
step here; `Store` cuts it further. `Crash` ends the process between any two
steps, as long as what is on disk is what is in memory (`unsaved`, otherwise `Store`'s
matter); `Boot` is the next start, with the administrator that the environment names.
`met` is the pairs of requests that were in progress at the same time: the properties say
that whatever goes wrong needs such an overlap. The other history variables are the names
whose account was acknowledged, whether the file ever held an administrator, who
became the first one, which requests failed to save, which notes were written over
by one that had not seen them, which requests touched another domain than theirs (`crossed`),
and which domains a restart left torn (`torn`): their removal was cut off between its steps, or an
account is back in them because its last change was never saved.

A deployment may hold whatever a server that ran before can have left: `ApiAssumption` asks
that tokens speak for accounts, that ids are numbered below the counters, that a domain has one
owner, and that captures, sessions and accounts are in domains that exist.

### Http, Guard, Serving

`conn[c]` is where the serving thread of a connection is, with its descriptor, whether
the socket was shut down and whether its entry is marked busy; `mClients` is the registry,
which `drain()` walks in any order; `acceptor` and `drain` are where `serve()` and the end of `main()` are. A
new connection takes any descriptor that is free, so a number may be used
again as soon as it was closed, before its entry has left the registry. `promised` is the
connections that were busy when `drain()` copied the registry, until that response is out.

`Guard` reads the clock before the mutex as the code does: a reading may be older than
the last by up to `Lag`. Tokens are integer parts of a token; a penalty divides the rate. `since`, `granted`,
`upto`, `back`, `leaked`, `seen`, `hits` and `late` are history: `upto` is the time up to which the refill of
a bucket has been counted (a bucket that `prune()` drops counts as refilled up to then), `back` the time that
late readings made count twice, `leaked` the buckets dropped before they were full, with the caller.

A connection calls the handler between setting and clearing its busy flag whatever the
request is, and the limiter and the guard are only told who asked, when, and the
status; the parts share no state, so `Serving` lets a behaviour exercise one of them
(`scene`) while the others rest, and states the fairness of the threads.

## 3. What the runs check

| run | instance | shows |
|---|---|---|
| `pool` | 4 tasks, 2 threads; every task ends | no task is lost or served twice (`EachTaskOnce`), queued work always has a worker that is awake (`NoLostWakeup`), the pool implements `TaskService` (`ImplementsService`: tasks begin in the order in which they came, never more at once than there may be threads, and all have ended when `stop()` returns), `stop()` returns (`StopReturns`), every accepted task is served (`EveryTaskServed`) |
| `pool_growth` | 3 tasks, 2 threads; tasks may last | finding: `post()` may add no thread although work is queued and no worker is idle |
| `stream` | 2 clients, 5 captures of up to 4 packets, 3 decoding threads, batches of 3, chunks of 2 | the log is dense, in capture order and published in whole packets; each client gets a prefix without gaps or repetitions, *complete* means all, with the right total, and a failed session says why (`TellsTrue`); every stream ends; the stream implements `EventFeed` |
| `event_times` | the same with a capture that begins with a late record | finding: event times go back |
| `srp` | 2 sources, 1 VLAN, 1 stream, 1 domain, 4 captures, times 0 to 3 with LeaveTime 1 | the count of leaving registrars is exact, none lingers, the VLAN view agrees with the registrars, the reservation state, the shared set of established streams, and the listeners agree |
| `talker_truth` | 1 talker that uses both attributes | finding: a stream with a registered talker attribute has no declaration |
| `acmp` | 2 talkers, 1 sink, 1 stream, 1 sequence id, 4 captures, times 0 to 3 | the shared set of available entities is exact between the ticks, too; a waiting sink misses no discovery; a settled sink says what MSRP has registered; no timer runs out unnoticed; a connection being torn down has a command open that will end it |
| `sink_departed` | a sink unbound from one talker that probes another | finding: EVT_TK_DEPARTED of a talker that never left |
| `store` | 2 uploads, 2 sessions, 2 roots, 2 domains, ids up to 2, five workloads | whatever fails and wherever the process dies: saved uploads, answered or not, are listed and whole below the root in force, on disk and in memory, until somebody asks to remove them (`UploadsKept`); to its users it is `CaptureLibrary` (`ImplementsLibrary`: no id of an upload comes to name another capture, a removal that was saved stands, nothing whose upload was not saved is listed after a restart; answers may come late or be lost); sessions hold what they were made of (`SelfContained`) |
| `mount_missing` | relocation with a root that may be gone after a restart | finding: setting the root again destroys the only good copy of a capture |
| `observers` | nine captures of one exchange each: two clocks, two-step Syncs, two domains, the delay mechanism, signaling, advertised grandmasters, AECP, MAAP; up to 2 ports, 2 domains, 2 intervals, times to 6 | what ADP and MSRP read of a domain agrees between packets with what is valid on the wire (`ClockTruth`); the comparison of the clocks rests on the announcements still valid and on those of the present Sync sender (`BmcaTruth`); every Pdelay request and AECP command is answered, lost, timed out or replaced, exactly one of them, or open and not overdue (`Accounted`) |
| `serving` | 3 requests on fourteen deployments, 2 ids of captures and sessions; 2 connections on 1 or 2 threads; 2 keys, 2 actors, times to 6 | a token speaks for an account that exists, an acknowledged account is in memory and on disk, an administrator remains, two first administrators need overlapping requests (`AccountsSound`); a request touches nothing outside the domain it acts in, and what requests leave behind is consistent unless they overlapped or a save failed (`RequestsSound`); no response of a connection busy at the shutdown is lost unless its descriptor was used again (`PromisesKept`); the shutdown ends (`DrainEnds`); the limiter never grants more than burst and rate, the window and the counters are exact, alerts are paced, up to the late readings and the pruning that the properties name (`GuardSound`) |

### The bounds, and why they are enough

* `pool`: two threads are the least for which one can take the task another was
  woken for, four tasks more than the threads can hold, so that tasks queue
  while both are busy and while the pool stops. Thread creation, queueing
  behind busy workers, and stopping with a backlog all occur.
* `stream`: three events a batch and two a chunk make both boundaries fall
  inside a burst of a packet's events and between packets; two packets per thread
  give partitions with a short last chunk; the captures have ties, records out of
  order, irrelevant and malformed packets. Two clients suffice because clients
  do not interact: two are there to be at different places.
* `srp`: a leave, its expiry, a re-join and a second expiry fit into times 0 to
  3. Four small captures instead of one large one keep the state space small
  while every pair of attributes that interacts in the code (the two talker
  attributes, two talkers, two listeners, two members of a VLAN, a VLAN and a stream
  through the common counter) occurs in one of them.

* `acmp`: the timers are 1 or 2 units and keep the order they have in the code
  (command time-out and second response before re-probe, re-probe not after the
  response); times 0 to 3 let each run out after any message and a message come after it.
  Sinks do not interact except through the talkers they share, so there is one; two talkers
  are needed for a sink to change its binding. One sequence id makes a repeated
  command replace the one in flight, as it may in the code.
* `store`: two uploads are needed for one to be copied when the copy of the other fails,
  for an id to be used again beside one in use, and for a combined session; two
  roots for a relocation there and back; two domains for a tenant to be removed
  beside another. Ids up to 2 are enough for the second upload to get the id of a
  first that failed. Nothing in the model or the properties tells one upload or one session
  name from another, so TLC explores one of each pair (`Alike`). The workloads pair the operations that touch the same files:
  removal with relocation, relocation with a tenant's subtree, two tenants, a tenant
  with sessions, sessions with removals.
* `observers`: two intervals let a time-out become shorter or longer under way, and the
  times reach one step past the longest of them; two ports are an old and a new Sync sender, two qualities
  and two identities give a better clock, an equal one and a worse one. Analyzers do not act
  on one another's messages, other than through the truth that `gptpDomains` shares, so a
  capture holds the messages of one exchange; Announce and ADP, Sync and Announce, Sync and
  Signaling are together because they share state.
* `serving`: each race is between two requests, and the third is the one that would
  make use of what is left (an account made in a domain that is being removed, a login
  after a deletion). The offers of a deployment are those that touch the same objects;
  together they are all of the requests modelled, by an administrator, the
  owner of a domain and a user. Of two connections the second may take the descriptor of the first
  while its entry is still there and the registry is walked; on one thread they queue, and one
  connection carries several requests. Two buckets and
  a cap of one make every call prune; the time is long enough for a bucket, a window, a
  penalty and an idle actor to run out.

### Fairness

`ThreadPool`: weak fairness of the steps of running threads, of the notifying
steps and of the join, which the scheduler provides. A task's end is fair only
when the task is not in `Lasting`: HTTP connections are bounded by 30 s socket
time-outs, a WebSocket is not. Posting, stopping and spurious wake-ups are not fair.

`StreamSession`: weak fairness of the analysis and of each client's thread.
Waking up needs no notification because the wait has a time-out. Nothing is
assumed of users.

`Serving`: weak fairness of the accept loop, of each serving thread, of `main()` and of the
signal handler once begun. Waiting for a request or for the end of a stream is fair
only when the socket was shut down or the stop flag is set: nothing is assumed of
clients, nor that anybody ever stops the server.

`Store` has none, because the process may die for ever.

`Srp`, `Acmp` and `Observers` have no liveness property: a capture may end at any packet.
That a time-out comes is stated as an invariant instead: no timer has run out
unnoticed when a packet is done (`LeaveEnds`, `NoTimerOverrun`, `ClockTruth`, `Accounted`).

## 4. What is proved

Each proof has one step per action, and the parts of an inductive invariant are
named operators beside the properties they support.

* `ThreadPoolProofs`, for any finite set of threads and any set of tasks:
  `TypeCorrect`, `TasksConserved` (`EachTaskOnce`), `WakeupsKept`
  (`NoLostWakeup`), `ServiceImplemented` (`ImplementsService`). The inductive invariant adds that
  `mIdle` is the number of workers inside `mCv.wait` (without it `post()` could
  decline to create a thread although nobody is idle), that a running worker holds
  a task, that a worker leaves only from an empty queue while stopping, that queued
  work has a thread, and where `main` is when the pool stops. Assumed: the threads
  are a finite, non-empty set (`mMax` is at least 1), and no task is the empty one.
  For the refinement, a worker that takes a task takes the oldest (`TakeBegins`), and the tasks
  in hand are as many as the running workers, since no two hold the same (`SameCount`, `HandFree`),
  so that one more may begin; every other step is a step of the service or leaves it as it is.

* `StreamSessionProofs`, for any captures, decoding threads, batch and chunk size
  and set of clients (`AnalysisAssumption`, `StreamAssumption`: the sizes are not
  zero and no capture is empty): `TypeCorrect`, `NumberedDensely`
  (`DenseNumbers`), `OrderedAsCaptured` (`CaptureOrder`), `PacketsWhole`
  (`WholePackets`), `DoneComplete` (`DoneIsComplete`), `PrefixReceived`
  (`ReceivesPrefix`), `CompleteTold` (`CompleteMeansAll`), `ErrorTold`
  (`ErrorSaysWhy`), `StreamsTrue` (the three of them together, `TellsTrue`) and `FeedImplemented` (`ImplementsFeed`). The invariant is about the log
  published so far followed by the batch not yet flushed (`Log`), since the published
  part alone does not determine the next number. Two lemmas carry the parallel
  decode: `ChunksSuffice` and `SlotHasThread` say that the chunk bounds computed by
  integer division leave no slot without a thread. For the clients, the invariant says
  what a copied status is worth: a status other than *running* is final, and an
  empty chunk read together with *done* means that everything was sent. That the log
  and the status are read under one lock is what makes it inductive.
* `SrpProofs`, for any finite sets of sources, VLANs, streams and domains, any
  traffic and any leave time (`MrpAssumption`): `TypeCorrect`, `LeavesCounted`
  (`LvCounted`), `LeavesEnd` (`LeaveEnds`), `VlansMatch` (`VlanMatches`),
  `EstablishedAgree` (`EstablishedKept`), `ListenersAgree` (`RegisteredListens`).
  The count needs the keys to be finite, and a lemma per way a registrar is
  written (`EventKeeps`, `LeaveAllKeeps`, `TickKeeps`); the reservation properties need
  that the shared talker set and the local declarations agree (`DeclShared`).

* `AcmpProofs`, for any entities, sinks, streams, captures and timers
  (`AdpAssumption`, `AcmpAssumption`: timers are natural numbers, and the zero
  field is no entity and no stream): `TypeCorrect`, `SharedExactly`
  (`AvailabilityShared`), `DiscoveriesNoticed` (`NoDiscoveryMissed`),
  `ReservationsFollowed` (`SettledAsRegistered`), `TimersNoticed` (`NoTimerOverrun`),
  `DisconnectsEnd` (`DisconnectOpen`). Two invariants carry them: one that holds
  always (a sink that waits for its talker has `talkerAvail` false; a connection
  being torn down has its command), and, since the properties are about the end of
  a packet, one for each module that holds as soon as that module has been ticked and
  until the next packet arrives. That the second survives the other module's tick
  is where the order of the ticks matters.

* `StoreProofs`, for any uploads, sessions, roots, domains and workloads
  (`StoreAssumption`: the default root and domain are among them and a cut-off file is
  no upload): `TypeCorrect`, `IdsUnique` (`UploadIdsUnique`) and, assuming that the
  roots can be reached at start (`MountsFail = FALSE`, without which the
  finding below shows them to fail), `UploadsSurvive` (`UploadsKept`),
  `SessionsStand` (`SelfContained`) and `LibraryImplemented` (`ImplementsLibrary`).
  The refinement adds that everything in memory was saved but for the upload in hand, and that what
  was removed is neither in memory nor on disk (`ShelfInv`); a step that leaves the list alone is then
  the library's `Move`, because what is kept stays whole (`Kept`). The inductive invariant has three layers.
  Ids: what is in memory, on disk and of all that was ever saved lies below the counter in
  memory, and what would survive a crash below the counter on disk. Library: a file that is
  there under a listed id below the root in force is the right one (`FilesTrue`), the
  files an operation is about to change are not those of kept uploads (`Apart`), and a
  relocation has copied what it says it has to a root that is not in force (`Copying`).
  Sessions: the folder an operation is filling or wiping has an id that no
  session still wanted has. Without the first layer, the reuse of ids after a
  crash could not be told from the overwriting of a kept file.

* `ServingProofs`, for any names, tokens and domains, any deployments and requests, and any number of
  connections, threads and requests on a connection (`AccountsAssumption`,
  `ApiAssumption`, `HttpAssumption`: a deployment is well typed and its tokens speak for
  accounts): `AccountsSafe` (`AccountsSound`) and `ResponsesKept` (`PromisesKept`). For the accounts, the
  invariant adds that before a deployment is governed the file has no
  administrator, that a request which set out to create the first one overlaps
  everybody who has become one since (`FirstsPart`), and what a request carries from
  call to call (`CallFits`). Every handler step is shown to be a move of its own request
  (`Moves`), so only the steps that touch accounts need an argument of their own. For the
  connections, it says what drain()'s copy still means: an entry names the descriptor of a
  connection that is or was open, a connection that was busy is either still busy or past its
  answer (the stop flag keeps it from reading again), and the one found idle is not
  one that was promised its response.

  `GuardKept` proves `GuardSound` whole, from its four parts. `RatesHeld` (`RateHeld`; `GuardAssumption`: an idle
  bucket is full again, penalty or not): each caller owns what it was granted and what its bucket holds, a full
  one when it has none, and owns at most its burst and what the rate gives up to `upto`; a bucket can
  owe only after a reading went back. `RefilledBounds` carries the division by the
  penalty. `WindowsHold` (`WindowExact`) and `HitsCounted` (`TrafficExact`): the invariants add what is older than
  anything shown: no hit is later than the last one unless a reading was late, and a forgotten actor has nothing
  recorded in the window of any reading to come. `SlotsApart` carries the modulus. `AlertsKept`
  (`AlertsPaced`): the list of alerts alone does not say why the next one is far enough from the last of its
  kind, since only the actor's memory of its last alert is looked at, and that is lost when the actor is forgotten.
  So `PaceInv` says that the actor of each alert remembers it, or a later one, unless the
  alert is older than `ActorIdle` less one late reading (`Remembered`). `AppendKeeps` and `TailKeeps` show
  what an alert more and the cap leave of that, `JudgePaces` that one rule keeps it, `JudgeKeeps` that the fold
  over any rules does.

  The sums and the rules are folds, and what a fold gives needs an induction. The library's induction theorems
  take a predicate, which the provers cannot instantiate; `FiniteInduction` is the same fact about a set
  of sets, from the well-foundedness of the strict subset order, and `FoldExists` and `FoldUnique` derive
  from it that the function behind a fold exists and is the only one. The facts used are then
  `FoldTotals` (a sum is the value at one element and the sum of the rest), `SumAtMost` (a sum whose
  members are found, each once, in another is at most that) and `JudgeKeeps`.

  `ConnectionsTyped` is the type invariant of `Http`.

* `RequestsProofs`, under the same assumptions: `RequestsSafe` (`RequestsSound`), `RequestsTyped`
  (the type invariant of `Api`) and `ServingTyped` (`TypeOK`). A handler makes its calls one by
  one and the world changes in between, so the invariant says what each thing it remembers
  is still worth. `RouteInv`: which calls it can be at for what was asked, and that two
  requests in progress have met. `HomePart`: the domain it read is its user's still, or a request that
  moves or deletes users overlapped. `LibraryInv`: numbers in use lie below the counters, and a capture or
  session once found is of the domain it was found in or gone, since numbers are not given
  out again. `SessionsPart`: a session of the store is in the engine or its creator is on the way
  there, and one left in the engine alone has a remover that evicts it, or met one that did not. `NotesPart`:
  the revision a writer read is the one in place, or who replaced it has met the writer.
  `DomainsPart`: captures, sessions and accounts stand in a domain that exists or whose removal is
  under way or was overlapped, not saved or torn. Every step is a `Turn` of one request, an
  arrival, a crash or a boot; a lemma per part and per kind of step shows what it leaves.

* `ObserversProofs`, for any stations, domains, ports, sequence ids, intervals, captures and bounds
  (`GptpAssumption`, `AecpAssumption`, `MaapAssumption`, `ObserversAssumption`): `ObserversTyped` (`TypeOK`),
  `ClockTold` (`ClockTruth`), `BmcaTold` (`BmcaTruth`) and `AllAccounted` (`Accounted`). The invariant is one per
  analyzer (`DomainsInv`, `PortsInv`, `AecpInv`, `MaapInv`), since each leaves the others' variables
  alone, and is stronger between packets (`~due`) than before the ticks: for a clock domain it says
  that what `publish()` has written is what the domain holds, and that the cached
  comparison is the one the announcements still valid give.

### What proving has changed

Five statements that TLC had found true on its instances were false for other values of the constants;
the attempts to prove them showed it, and TLC confirmed each on another instance.

* The limit on what a caller is granted did not count the time between a late reading and the drop of a
  bucket that had been refilled past it: `upto` does.
* The assumption that an actor is forgotten only after its window allowed for one late reading; there are
  two, the actor's last one and the next one of the same name, without which a new window could count a tick in
  which requests had been recorded and forgotten. The code's times (60 s and 10 min) leave room for any
  lag below four minutes.
* The spacing of alerts has a limit of the same kind: a cool-down longer than the idle time would end when
  the actor is forgotten. `GuardAssumption` asks for the cool-down and two late readings, and for the penalty and
  one; the code's 2 and 5 min of 10 leave the same room.
* A request that deletes a user of its domain may hit one who has left the domain since the check
  (`api/api.cpp`, `handleDomainApi`), so `Isolated` admits it when a request that moves or deletes users
  overlapped.
* A removal that a restart cuts off leaves accounts in a domain that is gone, although no other
  request overlapped, and an owner whose account was not saved is back in the old domain after a restart:
  `torn` names both.

Two deployments (`Leaver`, `Restarted`) make the cases of the requests occur in the run `serving`.

### Only model-checked

Liveness (`EveryTaskServed`, `StopReturns`, `StreamsEnd`, `DrainEnds`) is beyond the prover, since it rests on
fairness and ENABLED. Every invariant and action property of the runs is a theorem.

## 5. Findings

1. `engine/thread_pool.h:32` (`pool_growth`): a worker that has been notified but
   has not retaken the mutex still counts as idle, so a second connection posted in
   that window gets no thread, although "serving threads are added while work is
   queued and no worker is idle" (`thread_pool.h:5-6`).
2. `pcapio/pcap_reader.h:38` (`event_times`): a record earlier than the first one of the file
   gets a relative time that wraps around 2^64, so the event that follows goes back
   in time, against the order `backend/tests/test_pcap_engine.cpp:514-519` expects.
3. `logic/msrp_logic.cpp:88` (`talker_truth`): a `Lv` of one talker attribute removes the
   stream's declaration although the other talker attribute is registered; Milan sinks
   then see the talker unregistered.

4. `logic/acmp_logic.cpp:435` (`sink_departed`): a sink keeps `talkerAvail` when it is
   unbound, and a probe of another talker takes over the binding without looking
   that talker up, so the tick reports the new talker as departed, "no longer AVAILABLE
   (ADP)", although ADP has never seen it.

5. `store/store.cpp:497` (`mount_missing`): copying first is meant so that "a failure never
   strands the library" (490-492), and `docs/DEPLOYMENT.md:691-694` advises to set the root
   again after a start without the mount. A short write leaves a cut-off file below
   the default root, whose id is given out again; once the library has been moved and the
   server has started without the mount, setting the root again takes that
   leftover as the source, overwrites the good copy with it and reports success.

Seen while modelling, without a run of their own: following the same advice with no
leftover, `setPcapRoot` fails at the first listed capture that exists only below
the mount, so the root cannot be set again from the user interface; and the
`capture.src` of a combined session whose registration was lost in a crash stays in its
folder when a single capture takes the id, so `handleSrcMap` (`api/api.cpp:737`) and the
packet inspector (691) attribute its packets to sources it does not have.

The run `serving` confines what follows to the overlaps and failures its properties name;
each of them occurs there:

* two registrations in progress at once may both make the first administrator
  (`api/api.cpp:285-289`), and two writers of the same notes may overwrite one another, although
  the revision is there to prevent it (799-803);
* a session may stay in the engine that the store has dropped, when its creation met the forced removal of
  its domain; a removal whose save fails is answered with an error after it
  has happened in memory, without evicting the sessions or moving the users (1008-1009);
* an owner named for a new domain whose account could not be saved may be left in a domain that was
  taken back; users and uploads that meet a removal may be left in a domain that is gone;
  a request of an account deleted under way acts in the built-in domain;
* a registration whose save fails is answered as refused, but the account works until the
  process ends;
* `drain()` holds the descriptors of clients that have closed theirs (`net/http.cpp:366`), so a
  busy connection may be shut down, and one marked busy after it was looked at is, although "busy
  ones finish their response first" (`net/http.h`).

Of the limiter and the counters: pruning with a smaller burst drops larger
buckets before they are full (`util/ratelimit.h:53-54`); a clock that is read before the lock lets time be
counted twice, tokens go below zero, and `trafficHit` clear slots that are live
(`api/api.cpp:1139-1142`); two kinds of alert in turn defeat the cool-down
(`sec/flowguard.cpp:75-80`); windows that were not turned are shown as requests per minute (235-241).

Of the analyzers: the cap on pending Syncs evicts the smallest sequence id rather than the oldest
(`logic/gptp_logic.cpp:538-539`), and a Follow_Up of any sender matches; *CONVERGED* is told
before the vector of the sender is looked at (617-624); `portKey` drops the upper 16 bits of a clock
identity (356); the mismatch flag of an entity that stops advertising a grandmaster stays
(`logic/adp_logic.cpp:106`); a DEFEND overwrites the range of the defender with the requested
one, and an ANNOUNCE of another range says nothing; a late AECP response is matched if it is the
very next packet, with a round trip above the time-out.

## 6. Plan, and what is not modelled

Done: `TaskService`, `ThreadPool`; `EventFeed`, `Analysis`, `StreamSession`; `MrpRegistrar`, `Mvrp`, `Msrp`,
`Srp`; `Adp`, `Acmp`; `CaptureLibrary`, `Store`; `Gptp`, `Aecp`, `Maap`, `Observers`;
`Accounts`, `Api`, `Http`, `Guard`, `Serving`; all with proofs. Every invariant and action property that a run
finds to hold is a theorem, and so is every refinement.

Worth doing next: an abstract specification of the limiter (one allowance a caller, without buckets that come
and go) that `Guard` implements.

Not modelled:

* the decoders, JSON, hashing, address parsing and decompression: functions of one input,
  without state, better tested than model-checked;
* of the requests: folders, aliases, presence, metrics and
  the readers that only build JSON. They change one member under one lock, or nothing.
  That the readers may see `pindex` and `logic` while `analyze()` writes them
  (`engine/engine.cpp:83`) is a race that a hazard records;
* of the flow guard: the learnt baseline, the volume of uploads and the sampling for display, which are
  arithmetic of weights with no right answer in the repository, and the rule on `..` in a path,
  which judges one request without state;
* of captures: the order `mergePcaps` gives to packets, the parsing of pcap and pcapng;
* `Engine::drain` beyond the sessions' own end, option parsing, the browser front
  end, generators and packaging.
