# TLA+ models of fengnet

fengnet is an actor framework in C++ (a port of skynet): a process runs many
*services*, each with a message queue, on a few worker threads. Services send
messages to each other by *handle*, set timeouts, use sockets, and launch and
kill other services. Most services are Lua scripts on top of the C++ core.

This directory holds TLA+ modules translated from the source in `src/`, TLC
configurations that check them on small instances, and proofs that TLAPS checks
for every instance. `PROJECT.json` lists for each definition the source lines it
models, for each run what it checks, for each property a mutant of the model
that it catches, the findings, the hazards and the theorems.

    tlc -workers 2 -config Scheduler.cfg MCScheduler    # one run
    tlapm SchedulerProof.tla                            # one module of proofs

## Inventory of the system

### Core (`src/fengnet-src/`)

| part | state | operations | interacts with |
|---|---|---|---|
| message queue (`fengnet_mq.cpp`) | per service: a ring buffer with head, tail, cap, overload and its threshold, `in_global`, `release`; one global list of queues with work; a spin lock on each | push, pop, length, overload, mark for release, release or drop; push and pop of the global list | pushed by every thread, popped by workers |
| contexts and dispatch (`fengnet_server.cpp`) | `fengnet_context`: reference count, init flag, queue, handle, log file; `G_NODE.total` | new, grab, release, reserve, push, send, dispatch | module init functions and callbacks run inside and call back in |
| handle storage (`fengnet_handle.cpp`) | slot table, next handle, sorted array of names, read-write lock | register (and grow), grab, retire, retire all, find and add names | holds one reference to each service |
| timer (`fengnet_timer.cpp`) | near lists, four levels of lists, current tick, spin lock | add a timeout, tick (execute, shift, execute) | pushes to queues; ticked by the timer thread |
| threads (`fengnet_start.cpp`) | mutex, condition variable, `sleep`, `quit` | sleep, wake, check for the end | drives dispatch, timer, socket polling, monitor |
| monitor (`fengnet_monitor.cpp`) | per worker: version, check_version, source, destination | trigger before and after a callback, check every 5 s | marks a service as endless |
| commands (`fengnet.cpp`) | `monitor_exit` | TIMEOUT, REG, QUERY, NAME, EXIT, KILL, LAUNCH, GETENV, SETENV, STARTTIME, ABORT, MONITOR, STAT, LOGON, LOGOFF, SIGNAL; send | called by callbacks |
| harbor front end (`fengnet_harbor.cpp`) | `REMOTE`, `HARBOR` | start (reserves a context), send, exit | sends straight to the harbor service's queue |
| log file (`fengnet_log.cpp`) | an atomic `FILE*` in the context | open, close, output | written in dispatch |
| module loader (`fengnet_module.cpp`) | a table of loaded modules and its count, spin lock | query (look up, open, find the functions) | run by whoever launches a service |
| socket server (`socket_server.cpp`, `fengnet_socket.cpp`) | slots, two write lists and a direct-write buffer each, sending counts, command pipe, epoll events | listen, accept, connect, send, direct write, close, shutdown, poll | socket thread and any worker |
| environment, errors, daemon, allocator | a table; none; pid file; none | get and set; format and push; fork; forward | start-up and diagnostics |

### C services and libraries (`src/service-src/`, `src/lualib-src/`)

| part | state | operations |
|---|---|---|
| gate (`service_gate.cpp`) | hash of connections, pooled packet buffers, agents | socket events, text commands |
| harbor (`service_harbor.cpp`) | per node: socket, hand-shake state, queue, half-read message; per name: handle, queue | send by handle or name, S/A/N commands, socket events |
| Lua host (`service_snlua.cpp`) | `trap`, `activeL` | resume, signal, hook |
| netpack, socket buffers, cluster packages, stm, sharedata, multicast, seri, sproto | rings, lists of buffers, reference-counted memory, byte strings | cut and join packets, count and free, pack and unpack |

### Lua (`src/lualib/`, `src/service/`)

The runtime of a service (`fengnet.lua`: sessions, coroutines, wake-ups, errors),
`queue.lua`, sockets and channels, launcher, service manager and provider,
cluster (`clusterd`, sender, agent), master and slave of the harbor, multicast,
shared data, the data center, the message server, the login server, the DNS
resolver, websockets. In all of these one coroutine
runs at a time, so the hard part is what changes while one waits.

### What is hard

* A context and its queue die separately: the context with its last reference,
  on whatever thread drops it; the queue when a worker meets it afterwards, so
  it must be scheduled exactly once more. Senders, killers, dispatchers and a
  launch that may fail all race for this.
* A handle becomes visible before its context is complete; a socket id before its
  slot is.
* The tick, the wake-up protocol, the monitor and the socket server rely on locks
  and unsynchronised fields in an exact order.
* Sessions in Lua are answered by messages that may come late or never; requests
  in line on a channel have no number at all; a value read before a wait is old
  after it.
* Nodes, connections and services die between any two steps.

`PROJECT.json` has the list under `hazards`, each at its line, with the
properties that cover it.

## Modules

A step of a model is one critical section or one atomic access of the code; in
Lua it is what one coroutine does between two waits. Byte counts, table sizes and
field widths are constants, small in the runs: a "byte" of a serialised
message (`Codecs`) has 4 values, a segment of the zero packing 4 bytes, a wheel of `Timer` 1-bit digits, so that every
carry and limit occurs.

### C core

* **MessageQueue** — the fields of `message_queue` and the message last popped.
  `fengnet_mq_push` includes the growth (`expand_queue`) it can cause. It
  implements **Fifo**, the abstract specification: the ring is mapped to the
  sequence of waiting messages.
* **Scheduler** — contexts, their queues, the global queue, dispatch, launch,
  kill, abort, harbor. A service stands for its handle, its context and its queue
  (`HandleStorage` shows that a handle is found while it is in use); a queue's
  content is a sequence (`MessageQueue` shows that it is one); a message is its
  source, which is what a drop answers. `pc`, `q`, `nq`, `ctx`, `left` are the
  locals of `fengnet_context_message_dispatch`; `npc`, `born` of
  `fengnet_context_new` when a callback launches a service; `op`, `cont`, `peer`,
  `letter`, `victim` of one call made by a callback, a drop or an outside thread;
  `del` of `delete_context`, whichever release runs it. So calls nest as in the
  code: a callback can launch a service whose init function sends a message
  whose release destroys a third service. `slot` is the storage's reference.
  Logging (`fengnet_error`) also pushes messages, to the logger; these pushes are
  like any other and are left out.
* **HandleStorage** — the handle is written to the context after the lock is
  released, so a context in the table may still have handle 0. After a growth the
  old contexts are deleted by the code; reading a freed context's handle is a
  choice between its old value and 0. A context that was deleted, or had no handle
  yet, when the table grew may be in a slot where it is not looked up; the history
  `strayed` has those, and the properties are about the others (findings 2 and 3).
* **Timer** — the wheel and its lock; `due` counts ticks independently of it.
* **WorkerPool** — sleeping, waking and exiting of all threads. Work is a number
  of scheduled turns: what a turn does is the business of `Scheduler`. Mutex,
  condition variable and its spurious wake-ups are as the standard library
  defines them.
* **EndlessMonitor** — one trigger is two writes and one check several reads, and the
  mark comes after them; the fields are not synchronised, so they interleave.
* **LogFile** — one context, its atomic pointer, and threads in LOGON, LOGOFF,
  dispatch and release. A file that is closed may be opened again at the same
  address. The histories `stale` and `twice` say which files LOGOFF has closed once
  and whether it closed one twice (finding 5), where the behaviour ends.
* **ModuleLoader** — look-up without the lock against loading under it, one
  access at a time; libraries that are missing or lack `_init`.
* **SocketServer** — slots, ids, pipe, epoll events, direct write, write lists and
  half-close. An event whose socket was closed (`clear_closed_event`) has the slot
  `NULL`. The two writes of `reserve_id` (type, then id) are two steps: `seen` is the
  id in the slot. The history `clobbered` says that a close of the old id, or a
  package for it, was handled between them (finding 6); the properties are stated
  until that happens. The kernel and the peer are external.

### C services and libraries

* **Frames** — byte streams of messages with a length in front, shared by the next.
* **Gate**, **Netpack** — connection table and packet assembly of the C gate; the
  package queue under `gateserver.lua`.
* **Harbor** — the harbor service of one node.
* **LuaSignal** — the signal hook against the switch of coroutines.
* **Stm**, **ShareData**, **Multicast** — reference-counted memory that services
  share, with the Lua services that hand it around.
* **Codecs** — sproto's zero packing, and the encoding of the arguments of every Lua
  message; each decodes what it encoded.

### Lua

* **LuaService**, **CriticalSection** — sessions, wake-ups, errors and exit of one
  service, and session numbers when they start again at 1; `fengnet.queue`.
* **UniqueService**, **ServiceProvider**, **DataCenter** — launcher and unique
  services; services made from a function; the data center.
* **LuaSocket**, **SocketChannel**, **MsgServer** — reading a socket; a channel
  whose answers come in the order of the requests; the server that answers
  requests that are sent again on a new connection.
* **Cluster**, **ClusterSenders**, **ClusterNames** — a call between two nodes; the
  queue of what is sent before the sender is known, and opening, re-addressing and
  closing of senders; registered names.
* **Dns** — requests whose ids are used again, their timers, the cache, and datagrams
  that are lost, late or overtaken. **WebSocket** — the server's end of a websocket:
  fragments, control frames, handlers that wait, closing from both sides.
  **LoginServer** — authentication and the lock of a user while it is logged in.
* **HarborNet** — master and slaves: how nodes come to be connected to each other,
  global names, and the death of a slave.

### Instances

`MCScheduler`, `MCThreads`, `MCSocketServer`, `MCCore` and `MCNetwork` give TLC its
instances. The last four hold several components that share no state
(`MCSocketServer`: three socket servers, one at a time): the variable `part`,
chosen at the start, says which one moves, the others keep their initial state,
so a run visits the sum of their states and not the product. A
property of such a run is the conjunction of what its components promise; the
named parts are in the components' modules. Assumptions on constants are named
definitions in the module that declares the constants and ASSUMEd by the MC
module (or by the module itself where it is run alone), so TLC evaluates them.

## Runs

| run | shows | bounds |
|---|---|---|
| `core_parts` (`MCCore`) | see the table below | see below |
| `network_parts` (`MCNetwork`) | see the table below | see below |
| `services` (`MCScheduler`) | types, exact references, one place per queue, nothing stranded, nothing dangling, one dispatcher and none before init, `total` exact; with fair threads every message is handled or dropped and every retired service freed, but for a harbor that is killed | 1 boot service, which is the monitor, 2 to be launched, one of which reserves itself as the harbor; 2 workers (weights -1 and 0), 1 outside thread, 4 calls |
| `threads` (`MCThreads`) | no lost wake-up, every thread exits; a loop is found, and only what the checked worker has served since the check began is marked | 2 workers, 3 pieces of work; 2 services, 2 messages |
| `sockets` (`MCSocketServer`) | bytes whole and in order, counts exact, fields typed, nothing stuck, every close reported once | 2 callers (symmetric), 3 calls; one connection with its peer, one listener that accepts, one slot with two ids, reserved in two steps |

A bound on calls limits what callbacks *start*; everything started runs to its
end. `CHECK_DEADLOCK FALSE` appears where the system may really come to rest: no
calls left, no services left, all threads ended, nothing under way on the network.

Parts of `core_parts`:

| part | property | what it says | instance |
|---|---|---|---|
| queue | `TypeOK`, `RingIndexes`, `OverloadTracksGrowth`, `ImplementsFifo` | the ring stays a ring and is a FIFO; overload is reported by growth | ring of 2, 5 waiting: two growths at every offset |
| timer | `TimeoutsExact` | a timeout fires exactly at its tick, in one list until then | 2 timeouts, every level and the wrap of time |
| handles | `ContextsExact`, `NamesExact` | handles are findable unless a growth met their context deleted or without handle, only then do slots clash; names are exact and forgotten | 5 contexts, up to 3 launches at once, table of 1 growing to 2 and 4, handles wrap after 3 |
| log | `ContextsExact` | the file a context points to is open until LOGOFF has closed one twice | 3 callers, 2 files |
| loader | `LoadedOnce` | a module is loaded once and found complete | 2 threads, 4 libraries, one missing, one broken, room for 2 |
| sessions, service, section | `CoroutinesExact`, `FirstCome` | session numbers above the first two are not reused, requests are answered exactly once, who waits can be resumed, sections are exclusive, left by the living and first come first served | numbers up to 9 and one lap; 3 coroutines, 4 operations; 3 coroutines, nesting 2 |
| signal | `SignalExact` | no endless spin, a taken signal interrupts what runs, once | 2 coroutines, 2 signalling threads, 3 signals |
| launcher | `LauncherExact` | each launch answered once, one live instance, the list is of the living, waiting requests are woken | 2 names, 3 requests, 3 handles |
| provider | `ProviderExact` | no stray instance, who waits is in the queue of the launch | 3 clients, 3 instances |
| datacenter | `WaitersFound` | who waits is once in the queue where the value finds it | 3 clients, 1 key with 2 below it |
| stm | `ObjectAlive` | the object is not freed while somebody holds a reference to it | 2 readers and 3 updates |
| sharedata | `SharedExact` | nothing freed in use, counts exact, who waits for a change hears of it | 1 reader, 3 objects, 2 boxes |
| multicast | `MulticastExact` | counts, listed subscribers, packages live until their last receiver | 2 nodes, 3 services, 2 publications |

Parts of `network_parts`:

| part | property | what it says | instance |
|---|---|---|---|
| harbor | `HarborExact` | a message has one place, keeps its order, waits for nothing that is there; the stream is cut right | 2 nodes, 2 names |
| net, names | `HarborExact` | when nothing is under way, ready nodes are meshed and nobody waits unless one crashed; names arrive, watchers are told | 3 slaves and a crash; fewer nodes with names and watchers |
| gate, netpack | `GateExact` | look-up exact, messages whole and in order, to their agent; packages are those sent, ring emptied | 3 ids of which 2 fit, in one hash chain; messages of 2 and 1 bytes, an empty and a too long one, in pieces of 2 or 3 bytes that cut headers and bodies; ring of 2, 2 connections |
| msgserver | `ClientsExact` | own answer, handled once, kept long enough, reaches who asked; logged out is out; all but the last not for a session that was read late from an old connection | 2 connections, 2 requests, 2 logins |
| socket | `StreamsExact` | bytes conserved, lines end at the first separator, nobody stuck | buffers of 2 and 3 bytes, limit 5 |
| channel | `StreamsExact` | own answer, nobody lost, reconnection ends | 2 connections, 3 calls, close and changehost, with and without authentication |
| cluster, opening, registry, sending | `ClusterExact` | calls whole and to their caller; one opener, the current address; names paired, caches fresh, found if there; sent in order, none lost | packages of 1, 2 and 5 parts' size, one loss; 3 coroutines, 2 reloads; 2 names, 3 changes; 4 messages |
| zeropack, seri | `CodecsExact` | what is packed is unpacked, and fits | texts up to 10 bytes, runs of 2; nested tables, integers and strings at every limit |
| dns, websocket, login | `ClientsExact` | who waits for an address has an id, a timer and an open socket, gets an address of its name and is not cut short; messages whole, the end told once; one login handler per user, the outcome told once | 3 requests for 2 names with 2 ids; 3 frames of up to 6 bytes with limit 5, lengths of every form; 3 connections, 2 users, with and without `multilogin` |

In some parts the code does not keep a promise in a case that is known: the
property then names the case by a history variable and says what holds outside it
(`clobbered`, `strayed`, `twice`, `late`, `reused`, `overlooked`, `lost`, `forgotten`
and `hasty`). The case itself is a finding with a run of its own, or an observation below.

### Fairness

Only liveness properties use it. `Scheduler!FairSpec`: a thread in the middle of
an operation, a launch or a dispatch goes on (callbacks return, the operating
system starves nobody); nothing is assumed about calls. `MCThreads!MCSpec`: weak
fairness of every thread's next step, and strong fairness of the steps that take
the mutex, because the lock of a mutex that is released again and again is
granted eventually; the monitor keeps checking every worker. `Timer!FairSpec`
(run `timer_deadlock`): the clock keeps ticking and threads keep running.
"Nobody waits for ever" in the other components is stated as safety: in a state
where nothing is under way, nobody waits for what has happened.

### Findings

Each is a run that TLC ends with a counterexample.

1. `timer_deadlock`: `timer_execute` takes the timer's spin lock, which
   `timer_update` already holds, although the comment says the dispatch does not
   need it. The timer thread spins at the first due event.
2. `handle_memory`: growing the handle table deletes the contexts it has moved.
3. `handle_clash`: a creator stores the handle in its context only after the lock of
   the table is given back. If the table grows meanwhile, the contexts of two
   launches both have handle 0 and fall on one slot, against the assertion in
   `fengnet_handle_register`.
4. `launched_alive`: `fengnet_context_new` and `cmd_launch` use the new context
   after releasing it; a KILL in between frees it.
5. `log_close`: the exchange in `cmd_logoff` is negated. The winner detaches the file
   and nobody closes it (`OpenFileIsOwned`, violated too when it takes the place of
   the property in `LogFile_close.cfg`). The losers close: two of them close one file
   twice, and the second time it may be the file a LOGON has opened in between and
   the context writes to.
6. `socket_reserve`: `reserve_id` exchanges the type of a slot before it writes
   the new id; a close of the old id handled in between fails an assertion of
   the socket thread, or reports the old close again (`CloseOnce` fails without its
   exception). Without that race, too, a shutdown of a half-closed socket reports
   nothing, so its event stays in the batch (`clear_closed_event` runs only after a
   report); if another thread reserves the slot before the event is handled, the
   same assertion fails.
7. `stm_copy`: taking a copy of shared memory counts a reference of the object,
   not of the copy, so the writer frees a copy that is in use.

### Smaller observations

What the models contain, or what limits an instance, without a run of its own.

Core:

* A queue marked for release enters the global queue with `in_global` 0, which
  the header says cannot be. It is harmless: nobody can push to such a queue any
  more, and `OneQueueOnePlace` holds.
* A worker of weight 0 does not handle all messages: the length is read after
  the first pop, and the popped message counts as one of them.
* The harbor's reservation is never released (`fengnet_harbor_exit` has no
  caller): when a harbor service is killed its context stays, its queue is never
  marked, and messages in it go round in the global list for ever. `HarborKilled`
  excepts it, and nothing else, from `EveryMessageHandled` and `RetiredIsFreed`.
* `fengnet_monitor_trigger` writes the destination before the version, so a check
  between the two can mark a service whose message has just begun. The check reads
  the destination before it marks the context, so it can also mark a service that
  has been served by then and that nobody serves any more: `MonitorExact` says that
  the worker has served it since the check began.
* Spin locks use relaxed memory order; the models interleave whole accesses in
  program order (also `LuaSignal` and `ModuleLoader`, whose counts and pointers
  are read without a lock).
* Socket server: the close of a socket that is half-closed for reading returns no
  CLOSE, so its stale epoll events are not cleared and can hit the next user of
  the slot; a close taken from the pipe between a sender's count and its command
  leaves a closing socket without a write event; a stale write event makes a new
  connecting socket report that it is open.

C services and libraries:

* Gate: the assertion at `service_gate.cpp:258` fails when a "close" command
  precedes a queued accept; without broker, agent and watchdog a message body
  stays in the buffer and the framing is lost. With a header of four bytes a length
  of 2^31 or more is a negative `int` and passes for a message that is not complete
  (`databuffer.h:138`); the model has headers without sign, as those of two bytes
  are. `gateserver.lua` closes one
  connection too early (`client_number >= maxclient`).
* Harbor: messages that waited for a name and move to the queue of an unconnected
  node lose their destination handle; a bad hand-shake closes without "D".
* An stm object is never freed once a copy of it was read (finding 7). When
  none was, readers release it under its shared lock, and the last one frees it, with
  the lock, while another that has just taken the count from 2 to 1 has not unlocked
  it yet (`LastReaderAlone`, violated when it takes the place of `CopyAlive` in
  `Stm_copy.cfg`). Not freed, either, are multicast packages: `mc_closelocal` tests
  the count before its decrement (`lua-multicast.cpp:107`; the line it replaced, kept
  as a comment above it, took one off). The owner may forget a node when a USUBR crosses a SUB.
* Signals: a signal sent while `activeL` is about to be replaced interrupts the
  coroutine that was active.

Lua:

* Sessions: numbers 1 and 2 can be handed out while in use after a rewind, and a
  second rewind inside one danger zone is not safe (`MaxLaps = 2`).
* Killing a coroutine that waits for or holds a critical section, or that waits
  in a cluster sender's queue, locks the others out for ever.
* `service_mgr`: a service that exits in its init makes `newservice` return nil,
  and waiters fail an assertion. `service_provider`: a launch after a failed one
  has no queue, so a second request fails, and so does the launcher although the
  service is up; a close drops waiting queries.
* Data center: an update of a sub-key to nil creates an empty table without
  waking who waits for the key, and later values do not wake it either (variable
  `overlooked`); branches stay in the wait tree, so a wait on that key raises an
  assertion ever after.
* Message server: an answer completed while another connection is logged in is
  stored under the new version, so the resend is taken for a reused session and
  handled twice; a disconnect of an old connection clears the new one's `u.fd`,
  so a logout leaves it served. The old connection is read until its end is
  reported: a request that is read late from it, after the client came back, takes
  over the answer (`msgserver.lua:281`), so that the new connection never gets it, or
  is handled once more (variable `late`). The properties state what holds outside
  these.
* `sharedata`: a delete and new before a reader's monitor call break an assertion
  in `corelib.lua` and leave its cache old; an update whose text fails removes the
  name and forgets its watchers (variables `lost`, `forgotten`).
* Channel: a close or change of host while the dispatch thread reads successfully
  leaves requests in line that later get others' answers; a close before the
  dispatch thread starts leaves a stale close signal. `NobodyLost` and `OwnAnswer`
  are stated unless the channel was so used.
* Cluster: an agent being launched is not told of name changes; a request after a
  name change that joins a query begun before it gets "Invalid name"; a failed
  launch of a sender leaves `connecting` set for ever; while an address changes the
  old sender may still be handed out. The comment says packages up to 0x8000 go
  whole; the code splits at 0x8000.
* DNS: the timer of an earlier request that was answered stays, and ends a later
  request that got the same id by then; so does a late answer to the earlier one
  (variable `reused`; `NotCutShort` is stated for the other requests).
* Login server: the master calls `socket.close` on a socket that only the slave
  had in its table, which does nothing (`socket.lua:283`), so it never closes a
  login connection itself; `ToldOnce` is about what the client is told before.
* Master and slaves: a slave waits for ever if a node it waits for dies after the
  last accept (`cslave.lua:260`); with two nodes registering one name the master
  keeps the first and broadcasts the last (`cmaster.lua:79`).

## Proofs

TLAPS proves the following for all values of the constants that satisfy the named
assumptions. Long proofs are in a module that extends the component's own, short ones
at the end of the component's module. TLC checked
every inductive invariant on small instances before it was proved.

| module | theorems (property of a run) | inductive invariant |
|---|---|---|
| `MessageQueueProof` | `QueueTypeCorrect` (`TypeOK`), `QueueRingSafe` (`RingIndexes`), `QueueOverload` (`OverloadTracksGrowth`), `QueueIsFifo` (`ImplementsFifo`) | `TypeOK /\ RingIndexes` |
| `SchedulerProof` | `SchedulerTypeCorrect` (`TypeOK`), `ReferenceCountsExact` (`RefCountExact`) | `RInv` |
| | `QueuesInOnePlace` (`OneQueueOnePlace`), `NoMessageStranded` (`NothingStranded`), `PointersValid` (`NoDanglingPointer`), `CallbacksAlone` (`DispatchedAlone`), `ContextTotalExact` (`TotalExact`) | `SInv`, on top of `RInv` |
| `WorkerPool` | `SleepCountExact` (`SleepExact`) | `PInv` |
| `CriticalSection` | `EnteredInOrder` (`FirstCome`), `SectionExclusive`, `SectionHeld` (both in `CoroutinesExact`) | `QInv` |
| `LuaSignal` | `SignalsInterrupt` (`SignalExact`) | `GInv` |
| `Stm` | `ObjectStaysAlive` (`ObjectAlive`) | `OInv` |
| `ServicesProof` | `MulticastCorrect` (`MulticastExact`) | `MInv` |
| | `LauncherCorrect` (`LauncherExact`) | `UInv` |
| | `ProviderCorrect` (`ProviderExact`) | `ProvInv` |
| | `DataCenterCorrect` (`WaitersFound`) | `DataInv` |
| | `LoaderCorrect` (`LoadedOnce`) | `LoaderInv` |
| `SocketServerProof` | `NothingWaitsUnserved` (`NothingStuck`), `ClosedOnce` (`CloseOnce`) | `NInv`, and `Shut` on top of it |
| | `SocketCountsExact` (`CountsExact`) | `CInv /\ Used`, on top of `NInv` |

* **Message queue**, from the assumptions that the initial capacity and the
  threshold are positive. A pop keeps the ring a ring only because head and tail
  are inside it, and a push that does not fill the ring leaves them different. The
  refinement follows from what each operation does to the mapped sequence: a push
  appends, whether it wraps, grows or neither; a pop takes the head.
* **Reference counts**, from `SchedulerAssumption` (finitely many threads, distinct
  boot services, the null pointer is no service). `RInv` adds to `TypeOK` and
  `RefCountExact`: `Locals`, where in the code each local pointer is set, and
  `Unmade`, that a service not created yet has count 0. The count of a released
  context stays natural only if the releaser holds a reference, which is `Locals`
  with `RefCountExact`; a new context starts from no holders only by `Unmade`. The
  references are a set of tokens; a lemma for each way to take, pass or drop one
  shows how the set changes, and one lemma per action applies them.
* **Ownership of queues and contexts**, from the same assumption. `SInv` adds to
  `RInv`: `Lives`, how far a context and its queue are in their lives at each
  place of a launch, a dispatch and a delete, so that what somebody points to
  still exists; `Places`, that each queue is in at most one place and is in one
  exactly when its flag or release mark is set; `Inits`, that a queue a worker can
  find belongs to a service that is initialised or no longer in the handle storage; `Totals`, that `total`
  counts. They need each other: a worker that pushes its queue back keeps `Places`
  only because nobody else can have pushed it (the flag is set while it is held),
  and a queue may be freed only because its context is gone, which is `Lives` with
  the exact counts.
* **Worker pool**, from `PoolAssumption` (finitely many workers, natural bounds).
  `PInv`: types, the count is the number of workers between their two changes of
  it, one worker in the critical section of the mutex, and no worker waits after
  quit is set. The last is inductive because quit is set under the mutex, and the
  exclusion because the mutex is given back by its owner only.
* **Critical section**, from `SectionAssumption` (the coroutines are no null, the
  bounds are natural). `QInv`: types; `Owned`, who is inside, or woken
  to go inside, is `current_thread`, and the count is its nesting; `Listed`, who
  waits is in the queue, and only the waiting and the killed are; `Ordered`, the
  queue is in the order of arrival, kept in the history variable `came`, and who was
  woken came before all of it. `FirstCome` alone is not inductive: the next to enter
  is the head of the queue, so it rests on `Ordered`.
* **Lua signal**: `GInv` says that the worker's `activeL` is the running coroutine once it
  has looked at the trap (`Switched`), that while the trap is set the running
  coroutine has the hook or a signaller is about to give it (`Pending`), and that a
  trap that is set was paid for by a signal (`SignalsCounted`).
* **stm**, for finitely many readers: the count of the object is at least the
  number of readers and the writer that have not released it (it may be more:
  `stm_copy` adds to it for every copy taken, and nobody takes that back). What `Stm` promises of the
  *copies* is false (finding 7) and is not part of this; nor is the unlock of a reader
  that has given its reference back (see the observations).
* **Multicast**, from `MulticastAssumption` (finitely many services, each at some
  node; the owner of the channel is a node; 0, the mark of a deleted channel, is no
  service). `MInv` adds to `MulticastExact`: `Asked`, a question or an answer
  between a node and the owner is about a service of that node that waits, and there
  is one of them at most; `Posted`, a subscription that is not answered is still in
  the mail of its service or waits, and an earlier USUB comes before it; `Undeleted`,
  before a DEL the owner's channel is there and refuses nobody; `Packages`, the count
  of a package is the number of inboxes it is in. A service stays listed
  after its answer only because no USUB of its own is still to be handled
  (`Posted`) and no second answer can come (`Asked`). `mc_closelocal` tests the count
  before its decrement, so nothing is ever freed (see the observations); that
  follows from `Packages` only, since the count it reads is one or more while
  somebody still has to close the package. With the test after the decrement the same
  invariant would show that the last receiver frees it.
* **Launcher and unique services**, from `UniqueAssumption` (the bound on services is
  natural). `AnsweredOnce` and `OneInstance` compare counts of messages and services,
  and are not inductive. `UInv` says what the counts come from: `Owed`, an answer is
  owed while a launch of the name is in the launcher's mailbox or its service in
  `instance`; `Alone`, there is one of these at most; `Reporting`, which reports a
  service may have under way, LAUNCHOK before the others and once; `Answering`, a
  service that is to be answered for is starting or has a report in the mailbox;
  `Lasting`, the service a name's answer gave is the last one launched, and every
  other service of the name has ended; `Listing`, a dead service is in the list
  only while a report of its end is on the way; `Numbered`, handles are given in order.
  A name has one live service only because a launch is sent when nothing is owed and
  nothing is known (`MayLaunch`), so `Owed` and `Lasting` need each other. With these
  the counts are 0 or 1, and the theorem follows.
* **Services made from a function**, from `ProviderAssumption` (nil is no queue).
  `ProvInv`: types; `OneBoots`, one client boots, and only while there is no instance;
  `OneHand`, an instance is the name's or that of one client; `InLine`, who is in the
  queue waits; and the two parts of the property. Who waits stays in the queue only
  because the end of a launch wakes exactly those in it (`InLine`).
* **Data center**, from `DataAssumption` (nil, a table and the values can be told
  apart). `DataInv`: types; `Tree`, a value below a key has a table above it; `Queues`,
  who is in a queue waits for its path and is there once; and who waits is in the
  queue, on a path without a value. An update below a key whose clients wait for the
  key itself leaves none of them behind: the key had no value, so by `Tree` nothing
  below it had one, and the update is `Fresh`; the exception is an update to nil
  (`overlooked`, see the observations).
* **Module loader**, from `LoaderAssumption` (a positive limit; no thread is the null
  thread). `LoaderInv`: `Held`, who is between lock and unlock holds the lock; `Passed`,
  a search has passed only entries of other names, and under the lock no entry is
  added meanwhile, so a name that is not found is not there; `Filling`, the entry
  behind the last is complete before `count` grows; `Results`, what was found stays
  in its entry.
* **Socket server**, from `SocketAssumption`. What is inductive is `clobbered`, or the
  following. `NInv`: types;
  `Clean`, a free or reserved slot has no data; `Homed`, a socket is in the slot
  its id hashes to and its id was handed out; `Claims`, a reserved id belongs to
  one opening call or one command; `Known`, all other calls and commands are about
  ids that a service was told of; `Locks`, a direct write holds the lock of a
  socket that stays its own; `Forced`, a forced close has emptied the lists;
  `Served`, waiting data has the write event on or a command W coming. Each
  part guards `Served` against the reuse of a slot: the command W of an id turns
  the right event on only if the slot is that id's (`Homed`), a new socket starts
  with nothing to write (`Clean`), and the remainder of a direct write is put on a
  socket that is still there (`Locks`). `Shut` adds: a socket whose close was
  reported is neither reserved again nor open for reading, and a forced close that
  will report a close is the first to do so. `CInv` adds what the counts need:
  `Books`, the lists of a socket are about different buffers and the units of a
  buffer in the low list are together (else `raise_uncomplete` would leave some
  behind); `Backlogs`, `wb_size` is the length of the lists, except between the two
  halves of a forced close; `Tags` and `Sending`, the count of sends is marked with
  the id of its socket and is the number of packages between `inc_sending_ref` and
  `dec_sending_ref`; `Blank`, a direct write leaves its remainder where there is
  none; `Owned`, a buffer is in one hand, command or list and is freed when it is in
  none. `FreedOnce` alone is not inductive: a buffer listed twice on one socket
  would be freed twice later. `Used` (the slot of an id handed out has had an id)
  is needed for the comparison of tags, which a slot never used would pass for an
  id whose tag is 0; it holds since `reserve_id` passes over an id only if its slot
  is taken. In the window of finding 6 a slot has the type of the new socket and the id
  of the old one (`seen`): a close of the old id or a package for it
  that passes `socket_invalid` there sets `clobbered`; every other step of the window,
  a start, a pause or a command W for the old id included, keeps the invariants. So the
  theorems assume nothing of how the two stores are seen, and say what holds up to
  such a command.

Trying to prove `NInv` showed that the accept branch of `report_accept` could not be
taken in an earlier form of the model (the id was required to stay and to grow);
it is corrected, and the run now accepts connections that carry data.

Only model-checked, and why:

* liveness (`EveryMessageHandled`, `RetiredIsFreed`, `PoolServesWork`,
  `AllThreadsExit`, `MonitorExact`): fairness is out of the prover's reach;
* `Timer`, `Gate`, `LuaSocket`, `Codecs`, the names of `HandleStorage`:
  they compute by recursion or induction over data (levels and lists, streams,
  encodings, bisection);
* `ContextsExact`: its two parts hold up to findings 2, 3 and 5; not proved;
* `SharedExact` (the counts of sharedata are sums over boxes, queries and messages)
  and `LuaService`: not proved;
* the parts of `network_parts` that are not named above (harbor and its network,
  socket channels, cluster, message server, DNS, websocket, login): not proved;
* `StreamExact` of the socket server (what a peer gets against what was sent, a
  statement about interleaved streams) with its field types: not proved.

## Not modelled

* Memory order; the text of logs and commands; CPU profiles and other statistics.
* Environment, daemon and allocator; UDP and socket options; the clients of
  databases, HTTP and its hand-shakes, the debug console, cryptography, BSON: conversions or
  protocols with one actor, or interfaces to libraries.
* `sharetable`, `datasheet`, the Redis cluster client, `fengnet.request`'s break
  mark, the global forms of the service manager, loss of the harbor master and
  restart of a crashed node.
* `3rd/` (Lua, lpeg, md5) is vendored. It makes up more than two fifths
  of the implementation lines of the repository; what is said here is about
  fengnet's own code.

`PROJECT.json` gives the reason for each part under `components`.

## Plan

Modelled: the core, sockets, C services, shared data, Lua runtime, services and
cluster, then resolver, websocket and login, in that order. Proved: the queue, the
scheduler, the worker pool, the critical section, signals, the stm object, multicast,
the launcher and unique services, services made from a function, the data center, the
module loader, and three promises of the socket server. What is left is to prove:

1. `SocketServer`: `StreamExact` on top of `CInv`.
2. `ShareData`: the counts, as cardinalities of sets of references.
