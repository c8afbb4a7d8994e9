# A TLA+ model of the skynet++ node

skynet++ is an actor runtime: one process (a *node*) runs *services* that
exchange messages. This directory models the runtime, the Lua layer and the
services and protocols built on it, checks them with TLC on small instances, and
proves with TLAPS, for any number of threads, services, coroutines and messages,
the main safety properties of the message core, the handle registry, the threads of
the node and the scheduler of Lua services, and of shared objects and tables, the
launcher and the DNS client.

Contents: the parts of the system · the modules · the runs · findings ·
observations · the proofs · abstractions · what is not modelled.

## The parts of the system

| part | source (under `src/`) | state | what makes it hard |
|---|---|---|---|
| private and global queue | `skynet-src/mq/` | ring buffer, `is_in_global_`, `is_release_`, list of queues | the flag must agree with the list although the two are under different locks |
| services and dispatch | `skynet-src/service/`, `node/node.cpp` | references, `svc_count_`, the queue each worker has in hand | a service runs in one thread at a time and is unregistered by another |
| handle registry, names | `skynet-src/service/service_manager.cpp` | slot table, sorted names | growth, wrap of the handles, locks given up half way |
| timer | `skynet-src/timer/` | wheel of lists, tick counters | lists handed down, wrap, dispatch without the lock |
| threads, monitor | `node/node_thread.cpp`, `service/service_monitor.cpp` | sleep count, quit flag, versions | lost wakeups, the end of the node, fields without a lock |
| socket server | `skynet-src/socket/` | slots, control pipe, send lists | workers write to sockets that the socket thread owns |
| Lua services | `lualib/skynet.lua`, `queue.lua`, `lua-core.cpp`, `snlua` | coroutines by session, wakeup and error queues | responses and errors in any order, exits |
| Lua sockets and channels | `lualib/skynet/socket*.lua`, `lua-socket.cpp` | receive buffers, waiting coroutines | reads, closes and reconnections that cross |
| gates | `service/gate*.lua`, `lualib/snax/gateserver*.lua`, `lua-netpack*.cpp` | pieces of packets, clients | a stream cut anywhere, handlers that block |
| launcher, unique services | `service/launcher.lua`, `service_mgr.lua`, `service_provider.lua` | launches without answer | exits and failures before the answer |
| cluster | `service/cluster*.lua`, `lualib/skynet/cluster.lua`, `lua-cluster.cpp` | channels, agents, name caches | reloads meanwhile, messages in parts |
| shared memory | `sharedata`, `stm`, `datasheet`, `sharetable` in Lua and C++ | reference counts, versions | memory read in one thread and freed in another |
| login and message server | `lualib/snax/` | response cache, user locks | reconnection while a request is handled |
| protocols and databases | `lualib/http`, `lualib/skynet/db`, `dns.lua`, `lua-mongo.cpp` | connections, cursors, pools of requests | redirections, timeouts, late answers |
| conversions | `lua-seri.cpp`, `lua-crypt.cpp`, sproto | none | widths, boundaries, versions |

A worker thread pops a private queue from the global one, grabs the context of
its service from the registry, takes messages and calls the service, which may
send, create or kill services. The timer and the socket thread push messages
from outside. Most services are Lua states: `skynet.lua` turns each message into
the start or the resumption of a coroutine, and the libraries and services above
it are written as coroutines that wait for each other. When `svc_count_` drops
to 0 the timer thread stops all others.

## The modules

Every variable is named after the field or local it stands for, and every action
after the function, or the critical section of it, that it models. The map from
definitions to source lines is in `PROJECT.json`.

**`Dispatch`** composes the private queues' flags, the global queue, the
reference-counted contexts and `dispatch_message`. The grain is one critical
section or one atomic operation per action: `PopGlobal`, `GrabContext`,
`PopMessage`, `Length`, `EndCallback`, `PushBack` and so on are the steps of a
worker (`pc`), while `push_service_message` and `release_service`, which any
thread calls, run as a nested activity with its own point (`sub`): `QueuePush`,
`Release`, `MarkRelease`, `DeleteContext`. Within a callback a service sends,
unregisters any service or creates one (`CreateContext`, `CreateQueue`,
`InitOk`/`InitFail`, `Publish`, `UnregisterFailed`). Other threads post messages
(`Post`) or mark a service as blocked.
**`Mailbox`** is what the core promises: a message to a living service is handled
by it or answered by an error, in order, each once, one callback at a time.
**`MCDispatch`** gives the constants their values. The services in `MayFail` are
those whose init may fail. The proofs are in **`DispatchOwned`**,
**`DispatchCounts`** and **`DispatchProofs`**.

**`RingQueue`** is the container in `mq_private`: ring buffer, doubling,
overload threshold. **`Fifo`** is its promise; the proof is in **`MemoryProofs`**.

**`HandleRegistry`** is the slot table with handle assignment, growth, lookup,
removal and `unregister_service_all`, each critical section an action, and the
sorted table of names with its two bisections and the insertion. The ghost `old`
remembers which handles a pass of `unregister_service_all` found when it began.
**`Registry`** is the promise: two maps. **`HandleRegistryProofs`** has the proofs.

**`TimerWheel`** is `timer.cpp` and `timer_manager.cpp`. The wheel keeps the
code's shape with fewer bits per level, and its counters wrap like the code's.
**`Alarms`** is the promise: a timeout of d ticks is delivered d ticks later,
once, in order.

**`NodeThreads`** has the loops of the worker, timer, socket and monitor threads
with the condition variable (including wakeups nobody asked for); of the queues
it keeps only how many are listed; the proofs are at its end. **`ServiceMonitor`** is one worker's monitor,
one field access per step.

**`SocketServer`** is the socket thread, the workers that use it and what they
share: the slots with their status, the control pipe, the two send lists, the
direct write under the socket's mutex and its sending count. A worker's call is
several steps (`thr`), cut where a lock is taken or another thread may look; a
command is handled by the socket thread in one step. The kernel is an environment
that takes part of a write, brings data, ends or resets a stream and may refuse a
descriptor. The socket thread leaves its wait when a slot has an event or the pipe a
command.

**`LuaService`** is `skynet.lua` in one service: coroutines (`at`), the tables
from session to coroutine (`tab`), the wakeup, error and fork queues, and the
drain between two messages; a running coroutine makes any call of the library.
`skynet.queue` is part of it, and **`LuaServiceProofs`** has the proofs.
**`LuaSocket`** is a socket of a Lua service with its receive buffer, its waiting
coroutines and the commands and events on their way; **`SocketChannel`** is the
channel above it, by order or by session, with authentication, reconnection,
`changehost` and `close`. Its ghost `orphans` has the requests, and the close signal,
that a dispatch coroutine by order leaves in the queue when it ends.

**`Netpack`** and **`Gate`** are the framing of a TCP stream and the gate over it,
with clients that come, send and go; **`GateWs`** is the same for websockets.

**`Launcher`** starts services. **`ClusterWire`** has the packages on a connection
between nodes, **`ClusterClient`** the callers in a service before the way to the
other node is known.

**`SharedData`** (counts and updates, and as a second machine the hash table in
shared memory), **`Stm`**, **`DataSheet`** (versions and their users, of whom the
builder may be one, and the proxies across versions) and **`ShareTable`** (the life
of a Lua state, and the walk that replaces references) are the ways to share memory.
The two machines of a module have their own variables and are checked apart. In `Stm`
the decrement of the counter and the unlock of the guard are two steps, as readers
share the lock. In `SharedData` the counter of a new object holds anything at first
(`Garbage`), wraps like an `int`, and a deletion under a user is a state in which the
model stops. **`MemoryProofs`** has the proofs about `Stm` and `ShareTable`.

**`MsgServer`** is the snax message server. **`RedisCluster`**, **`Mysql`**,
**`MongoWire`**, **`HttpMessage`**, **`WebSocket`** and **`Dns`** are the clients
and protocols; their servers are external and act as the protocol allows, an error
among the rows of a result (`Mysql`), a cursor that is not found (`MongoWire`) and a
frame of unknown opcode (`WebSocket`) included. **`ServiceProofs`** has the proofs
about `Launcher` and `Dns`.
**`Seri`**, **`Crypt`** and **`Sproto`** (messages and their packing) are
conversions, written as operators on bytes of a small base and checked against
their inverses.

**Sums.** `MCCore`, `MCLive`, `MCNetwork` and `MCServices` each check
several components that do not interact: a variable `mode`, chosen in the initial
state, names the instance, the variables `v1, v2, ...` are those of its component,
and a property is the conjunction of the components' own, each under its mode. The
state space is the union of those of the instances. Each extends a component, so
that its properties, the ones the theorems are about, are checked as they stand:
`HandleRegistry`, `NodeThreads`, `LuaService`, and for `MCServices` both `Stm` and
`RingQueue`. The variables of that component stay in an initial state while another
one runs.

## The runs

| run | instances | what it shows |
|---|---|---|
| `dispatch` | 2 workers (weights -1 and 0), 1 other thread, 1 service at boot and 1 to be created whose init may fail, 2 messages | one owner per queue, one thread per service, nothing dangles, `svc_count_` is exact and its zero final, no queue with messages is lost; `Dispatch` implements `Mailbox` |
| `core` | queues of services that are created; sockets: one slot used twice by 2 workers; 3 sends at once; connect and listen, bind and UDP with half closes and a poller that refuses. Registry: growth from 2 slots, 3 names, handles of 2 bits. Timer: 3 levels of 1 bit, 2 timeouts | streams are whole and in order, no data after CLOSE; growth keeps handles valid, an abort misses no service, names are sorted, the registry is two maps; each timeout fires at its tick across the wrap |
| `live` | queues without init failure, threads, monitor, timer, one connection, calls of a Lua service | liveness, below |
| `network` | 3 coroutines by call, by sleep and in a critical section; a TCP and a websocket gate with 2 clients; Lua sockets as client, accepted, locked, listening and UDP; channels by order and by session, both with authentication, by order with `changehost` and `close` | coroutines are found by their own event, answers given once, the section excludes; packets whole and in order; no byte and no wakeup lost; responses to their own request over reconnections |
| `services` | the ring buffer (capacity 2, doubled twice); shared memory in its four forms, also with a counter that begins negative or near the largest `int`, a failed assertion, and a builder that is its own customer; cluster client, launcher, redis cluster with 1 and 2 callers, DNS, message server; cluster packages, `pack`, HTTP, websocket, mysql, mongo, crypt, sproto | the ring is a FIFO and reports its overload; memory lives as long as it is used and no update is missed, with the exceptions the properties name; nobody waits for what cannot come, caches are exact; what is written is read back, whatever the cuts, widths and versions, and ends are told |

The constants of every instance are in the MC modules; `PROJECT.json` has a
sentence for each run and the mutants by which every property was shown to
depend on the code: each is one plausible mistake in one definition.

*Why the bounds are enough.* Two workers are what a race on a queue needs: one
has it in hand, the other meets it in the list, and the third party is a thread
that is not a worker. One message makes a queue non-empty and a second one
arrives while the first is handled. For the core, the registry, the threads, the Lua
scheduler, the ring buffer, `stm`, `sharetable`, the launcher and the DNS client the
proofs then lift the bounds altogether. A message on a socket has two units, so that a write can be partial;
one slot and two ids make every command of the first connection able to meet the
second. The wheel's run covers every tick of the counter's range and every length
of timeout. Three coroutines are one that waits, one that wakes it and one that
comes between. A channel has three clients: one that is answered, one that waits
behind it, and one that changes the host or closes. In the services two callers and one name, file or node are enough
for the orders the code distinguishes; where a limit matters (`expired_number`,
`max_client`, `BUFFER_LIMIT`, ids of DNS) it is 1, 2 or 3, so
that it is reached. Bytes have a small base, and integers as many digits as make
each width of the code occur.

*Fairness.* `live` assumes that the operating system runs every thread (weak
fairness of each thread's steps), that callbacks return, that the clock advances,
that a peer whose connection stays open reads, and that called services answer or
go down; the clients and the other services are not obliged to do anything. The
monitor's instance does not assume that callbacks return, since a stuck one is
what it is about. Its properties: every message leaves its queue and every queue
of a dead service is freed; work that is listed is taken; the threads stop; a
stuck service is marked; every timeout is delivered; what is sent gets out and a
closed socket is freed; every call returns. In the other runs the absence of a
lost wakeup is a safety property: when nothing is on its way, whoever waits waits
for something that has not happened.

*Deadlock* is not checked where the system may fall silent: all messages handled,
all threads gone, all calls of the bound made.

## Findings

Runs marked *violation* state what a comment or an assertion says and show the
behaviour of the code that contradicts it:

* `dispatch_created`: the context can be gone when `create_service` touches it
  after init.
* `dispatch_initfail`: the queue of a service whose init failed is never freed.
* `registry_race`: threads that create services at the same time break the
  assertion in the growth of the table.
* `threads_exit`: the socket thread is told to exit by a command it does not
  know.
* `cluster_token`: `request_sender` in `cluster.lua` waits with the token of the
  caller it has just woken, which fails the assertion "token duplicative".
* `stm_unlock`: "no need to unlock", say the comments beside the two deletes of
  `lua-stm.cpp` (75, 85), but a guard unlocks the mutex of the deleted object: the
  deleter's own, or that of another reader that shares the lock.
* `redis_refresh`: a redis cluster client that fetches the map of slots again has no
  node meanwhile, and another caller is told that none can be contacted
  (`cluster.lua:244`) with all nodes up.

## Observations

Disagreements and rough edges met in the code. Where a part is modelled the model
follows the code in them unless it says *left out*, and where a property has to
make an exception its comment says so; no run is about them.

*Core.* `mark_release` lists a queue without setting `is_in_global_`, against the
comment on the flag; a worker of weight 0 leaves the last message for the next
turn (`node.cpp:170-176`); `timer::time_` stays behind `current_` by the ticks
since the start of the clock; a message that has just begun can be taken for an
endless one, since `service_monitor` reads its fields without a lock;
`skynet.endless()` asks `cmd_stat` for a word it does not know.

*Socket server.* A slot is marked ALLOCED before its new id is stored, so a late
command for the previous connection can act on the next one (the assertions at
1385, 1500, 1523). CLOSE is raised twice for a bound descriptor, against
"only once" (`socket_server.cpp:968`). A partial direct write counts a send that
nothing ever takes back (506). A close that is read from the pipe before a counted
send leaves the socket until the peer goes. `udp_connect` that fails, and a
connect with too long an address, leave a count or a slot behind.

*Lua scheduler.* A coroutine woken twice before it runs uses up another one's turn
until the next message; if it waits in `skynet.queue` the assertion at
`queue.lua:30` can fail. `skynet.call` of a message that is too large waits for
ever, as its session is `false`. Session numbers wrap unchecked.

*Lua sockets.* A reader that reads again while another coroutine waits in
`socket.close` is left waiting, against the comment at `socket.lua:223`, and so is
who waits for a socket to start when it is closed; `socket.read_all` waits for ever
past `BUFFER_LIMIT`. Two coroutines that read one socket, or one that pauses it under
a reader, are *left out*. In a channel by order, `changehost` or `close` during the
delivery of a response ends the dispatch loop without waking the other requests
(`socket_channel.lua:179`); the next loop then takes them for requests of its own
connection, or takes the close signal left behind for one of its own. A request made
by an authentication that has lost the connection waits for itself (422); `close`
during a connect is undone by it. The channel's instances have these, and
`NobodyStranded` and `BytesInOrder` except what follows them.

*Gates.* A websocket client refused at `max_client` is reported as closed without
having been opened; fragmented frames lose the place in the stream (*left out*).

*Cluster.* A lookup that joined another one across a `namechange` gets "Invalid
name"; an agent that starts during a `clearnamecache` is not told of it.

*Shared memory.* `lnewconf` does not initialise `ref`
(`lua-sharedata.cpp:437`): from a negative value `sharedatad` deletes an object in
use, from a positive one it never deletes it. The assertion that only a dirty object is
updated (`corelib.lua:131`) can fail, and the confirm behind it is then not sent. An
update of shared data whose value fails to load leaves the monitors on the old object.
A datasheet customer that skips a version never releases it, and a query in the
builder's own service loses its monitor at the builder's next release
(`builder.lua:56`), so that it misses later updates. A proxy of a table that
vanished keeps pointing to the old document. A failed reload of a file that nobody
uses leaves a closed state in `files` (`sharetable.lua:30`). `sharetable.update`
does not replace references in the user values of a userdata.

*Launching.* A kill by name tells the launcher nothing. After a failed launch the
service provider has no queue: a second launch boots all the same, and a third
meanwhile fails.

*Servers.* A disconnect of an older connection in `msgserver` clears `u.fd` of a
newer one. The login server's master closes a connection it does not have in its
pool, so the connection stays open (`socket.lua:214`, `loginserver.lua:181`).

*Clients.* In the redis cluster client an ASKING of one caller can serve another,
and a socket error while asking repeats the same node until the tries are used up;
`self.connetions` (274) is a misspelt field. `mysql.lua` does not look for an
error packet among the rows (684): in a text result reading it as a row raises, and
the channel closes the socket; in a binary one it may pass for a row, and what follows
is out of step. NULLs at the end of the parameters of `execute` are not counted
(`#args`), so that it raises an error, and the NULL bit of the last parameter is never
set. `mongo.lua` takes a cursor that the server no longer knows for a success without
documents (`lua-mongo.cpp:247`), and its check of the nonce never fires (`not a == b`). `dns.lua`: the timer of a finished query
cancels the one that has got its id. HTTP: bytes that follow a body are dropped, a
header over the limit is accepted when it comes in one piece, and a failed TLS
handshake leaves the socket open. Websocket: bytes that arrive with the handshake's
answer are dropped, a failed client handshake stays in the pool, and the handler of a
server is not told of the end when the server makes it, for a payload that is too large
or an unknown opcode (226, 233, 273).

*Conversions.* `from_hex` takes a 'g'; integer keys of shared configurations are
cut to 32 bits; `sproto.lua` notes a session before it encodes the request.

## The proofs

`MemoryProofs` first proves that the ring buffer implements `Fifo` for every initial
capacity: Init implies Init and each step of the ring is a step or a stutter of
the FIFO under the mapping that reads the ring from head to tail. It needs the
invariant that head and tail lie in the buffer; a push that fills the ring doubles it in
the same step, so that equal indices always mean an empty one.

*The message core* is proved for every set of services, workers and other threads
and every weight, from the assumption `DispatchAssumption` alone (the sets are
finite and disjoint, None is in none of them, the boot services are services).
None of the safety properties is inductive by itself. The inductive invariant is
built in layers; a layer uses the ones before it, before and after the step:

1. `DispatchOwned`: `LocalInv`, the types (counters may still be negative here)
   and what each program point says about a thread's locals, e.g. that a worker
   inside `dispatch_message` has the context of the queue it has in hand.
   `Grounded`, `ref_` is positive exactly when someone refers to the context: this
   is what makes a context alive for whoever uses it. `Lives`, how the states of
   context, queue and `is_release_` hang together and that only one thread deletes
   a context. `Owned`, every queue is in one place (`QueueOwned`), what a thread
   has in hand is alive (`HandOwned`), and a queue that is neither flagged nor
   marked is in nobody's hand, so that a push may list it; nearly every step that
   disturbs it moves one queue to or from one hand (lemma `QueueMoves`).
2. `DispatchCounts`: `RefCount`, `ref_` is the number of references: the slot, each
   dispatch, each call under way and the creator; so it is positive exactly when
   there is one. `CountExact`, the same of `svc_count_` and the services.
3. `DispatchProofs`: `Sources`, the destination of a push under way and the source
   of every message have a queue. `Found`, a queue with messages or a mark is
   somewhere, unless it is that of a service whose init may fail. Then which
   action of `Mailbox` each action of the core is (`PushAccepts`, `PopTakes`,
   `MarkVanishes`, `DropDrops`, ...), and the theorems.

Each layer first proves which actions leave alone all it speaks about (the frame)
and then treats the others one by one. That `NoStranding` leaves out the services of
`MayFail` is needed: `dispatch_initfail` shows what happens otherwise. The refinement
`CoreImplementsMailbox` maps the message queue to the box, the states of queue and
creator to the life of the service, and who runs its code to `busy`; it rests on
`Owned` (the code of a service runs only in the hand that has its queue) and on
`Lives` (a marked queue has no code running and none will run).

*The handle registry* (`HandleRegistryProofs`) is proved for every number of
handles (`Mask`), every initial size of the table and all sets of services and
threads (`RegistryAssumption`: the two numbers are positive, None is no service),
under the hypothesis `OneCreator` that no two threads are in `create_service`. The
hypothesis is what the code needs: `registry_race` shows the assertion fail
without it. The invariant `RegInv` says that a slot is that of its service's handle
or of the one that the creator is about to store (`Placed`), where each thread is in
its call (`Creating`), and that what a pass of `unregister_service_all` has still
to remove is found in the table at or after the place it has reached (`Passing`).
`Passing` needs an argument about growth: a handle whose slot is not behind the
pass is not behind it in the doubled table, as h % 2n is h % n or n more (lemma
`Places`). The same lemma shows that doubling separates what was apart.

*The threads of the node* (at the end of `NodeThreads`), for every finite set of
workers and number of queues: `ThreadsInv` is the types, the two properties and
`HandsCounted` (no more queues are listed or in hand than there are). The counter
`asleep` is compared with the cardinality of a set, which one worker at a time
joins or leaves.

*The scheduler of a Lua service* (`LuaServiceProofs`) is proved for every number
of coroutines, sessions, requests and peers and every choice of the library's
calls (`LuaAssumption`: there is a coroutine, the bounds are natural numbers, -1
is no peer). The invariant `LuaInv` has five parts: the types of the tables; `Tables`,
that every waiting coroutine is under one session or once in the fork queue, that
sleepers know their session, that a watched or failed session is that of a call or
over, that later sessions are unused, and that the pool has each finished coroutine
once; `Control`, that the running coroutine runs; `Section`, that only the owner of
`skynet.queue` is inside, `ref` deep; `Ledger`, that a request in the hands of a
coroutine or of a response is in no other hands and has no answer, and that every
request is answered, given up or in some hands. The tables are arguments of the
operators, so that what one operation does to them (a resumption, a wait, a fork,
the end of a coroutine) is a lemma of its own; each handler is then a sequence of
those, and a frame lemma says which parts it leaves alone.

*Shared memory and services* (`MemoryProofs`, `ServiceProofs`; the parts do not depend
on each other).

* In `MemoryProofs` shared objects, for every finite set of readers and any number of
  copies: the object's counter is the number of those who hold it (`ReferenceExact`), and a copy's
  counter is one for the writer's newest, one for each reader's last copy and one for
  each reader in the middle of `l_read`, who has counted the copy but not given up its
  old one yet (`CopiesExact`). With types alone `ObjectAlive` is not inductive. It is
  about who holds a reference; the guards that outlive theirs are `stm_unlock`'s.
* Shared tables, for every set of services and number of versions: `count` is the
  number of services recorded for a version (`RefsExact`), and a live service that has
  a version or is told of it is recorded (`HeldRecorded`).
* In `ServiceProofs` the DNS client, for every set of queries, number of ids and
  timeouts (`DnsConstants`: a request's timeout is not longer than the socket's): the pool has exactly the queries
  that wait, and each has a timer no later than TIMEOUT after the last use of the socket
  (`PoolExact`), which is what keeps `check_alive` from closing it.
* The launcher, for every set of callers and number of services: a caller that waits has
  its LAUNCH in the queue, once, or one service in `instance` (`LauncherOwes`), and what
  the launcher does not know yet of a service is on its way to it (`LauncherLists`).

| theorem | for every | says |
|---|---|---|
| `RingImplementsFifo` | capacity, message set | the ring buffer is a FIFO |
| `TypeCorrect` | number of threads, services, messages | types; `ref_` and `svc_count_` never negative |
| `QueuesHaveOneOwner` | 〃 | a queue is listed once or in one hand |
| `ServicesAreSingleThreaded` | 〃 | one thread per service |
| `NothingDangles` | 〃 | no use after delete, one mark_release |
| `CountIsExact` | 〃 | `svc_count_` is exact |
| `NothingIsStranded` | 〃 | no wakeup is lost, unless an init fails |
| `ShutdownIsFinal` | 〃 | the count never leaves 0 |
| `CoreImplementsMailbox` | 〃 | the message core implements `Mailbox` |
| `RegistryInvariant`, `ServicesAreFound` | mask, table size, threads, services; one creator | the table fits the handles; `grab` finds every service |
| `GrowthIsFree` | 〃 | the assertion of the growth loop holds |
| `AbortMissesNobody` | 〃 | `unregister_service_all` overlooks nobody |
| `SleepersAreCounted` | number of workers and queues | the sleep count is the number of workers that wait |
| `QuitWakesAll` | 〃 | nobody waits once the end is announced |
| `EveryWaiterFound` | number of coroutines, sessions, requests, peers | a waiting coroutine is found by one event, another by none |
| `OneAtATime` | 〃 | `skynet.queue` excludes |
| `OneAnswer` | 〃 | no request is answered twice |
| `NoRequestLost` | 〃 | no request is lost |
| `ObjectIsAlive`, `CopiesAreAlive` | number of readers, copies | nothing is freed while a reference is held, and the last one frees |
| `SharedMatrixIsAlive`, `SharedMatricesDoNotLeak` | number of services, versions | a version in use is open, one that nobody uses is closed |
| `DnsForgetsNobody`, `DnsSocketStaysOpen`, `DnsAnswersTheName` | number of queries, ids; timeouts | a waiting query is found, times out, has its socket, and gets records of its name |
| `LauncherAnswersOnce`, `LauncherKnowsTheLiving` | number of callers, services | one answer per launch; the list is that of the living, if none is killed by name |

Only model-checked: all liveness (it needs fairness and ENABLED); the refinements of
`Registry` and `Alarms` (the name table's bisection and the lists of the wheel make them
inductions over data); the timer, the monitor, the socket server, and the layers above
the Lua scheduler but for the four parts above. Of the scheduler itself, that the wakeup and error queues are empty
between two messages (`Drained`) and that the section's owner is inside (`SectionHeld`),
which hold only as long as nobody is woken twice. The conversions are recursive, and
induction over data is beyond the prover.

Many leaves name the prover that finds them: Zenon needs no types and is quicker on
the steps that only rewrite and instantiate, SMT does the arithmetic, sequences and
updates.

## Abstractions

* Message contents, sessions and handles are model values; a message has its
  source and whether it is an error. Sizes, logging and profiling are left out.
* A send goes to a service whose queue exists already; between registration and
  the creation of the queue nobody knows the handle in these models.
* `DropMessage` merges the pop with the grab of the answer's destination: the
  queue is in the worker's hand alone. `CreateQueue` merges the creation of the
  queue with the increment of `svc_count_`, which no other thread can tell apart.
* The registry instances of `core` have one creating thread, since the code does not
  stand two (`registry_race`), and separate wrap from growth: after a wrap the
  table can be doubled with a free slot in it, which the growth loop does not
  expect.
* The wall clock is only its advance; a clock set back does nothing in
  `update_time` and is a stutter.
* The socket server works on a few slots; a descriptor is what the kernel says of
  it (writable, readable, at end, in error), chosen freely where the code asks.
* A coroutine of the Lua layers is a program counter with what it waits for. What
  user code does is a small program, given by the instance, of the calls that the
  library offers.
* Bytes are scaled: a length has one or two digits of a small base in place of two,
  three or four bytes, and limits (buffer sizes, `MULTI_PART`, packet sizes) shrink
  with them, so that both sides of each are reached. The names of the bounds are in
  the modules' CONSTANTS.
* DNS: the hosts file is a set of names with their types. Of the redis cluster client
  reads from slaves (`read_slave`) are left out; a connect whose descriptor the poller
  refuses for writing (`enable_write`) is followed up to its report and not further.
* The far end of a connection (redis, mysql, mongo, DNS, HTTP peers) is external: it
  answers what its protocol allows, may be late, and may hang up.

## What is not modelled

`PROJECT.json` lists every part with its status and reason. In short:

* *Outside of the order of events*: system call wrappers, address parsing,
  logging, configuration, the module loader (one table under one lock), memory
  statistics, profiling and tracing.
* *Operator's tools*: debug console, remote debugging, injection of code, hotfix.
* *Conventions over modelled parts*: snax services, `cluster_proxy`, global
  unique services, the RPC host of `sproto.lua`, `sharemap`.
* *Tables of constants*: the digests (SHA1, MD5, HMAC) and the DES boxes, which
  are parameters of `Crypt`; BSON and JSON values are opaque.
* *Vendored code* (`deps`, the rest of `luaclib-src-3rd` and `lualib-3rd`) and the
  sockets of the example clients.
* *Composition*: the layers are checked one above the other through what the lower
  one offers (`LuaSocket` has the socket thread as two channels, `SocketChannel` a
  reduced `LuaSocket`, `ClusterWire` a channel by session); a model of a whole node
  is out of TLC's reach.
