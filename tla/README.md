# Formal models of easycall

easycall is a micro-service framework in Go: services register themselves in
etcd, clients discover them, balance requests over them, and send them over
pooled TCP connections; a circuit breaker, a request monitor, gateways and a
configuration centre come with it. This directory holds TLA+ models of the parts
whose behaviour depends on the order in which goroutines, etcd and the network
act, TLC configurations that check them on small instances, and proofs that TLAPS
checks for instances of every size. Paths are relative to the repository.

- [The system](#the-system)
- [The models](#the-models)
- [What the runs show](#what-the-runs-show)
- [Also found while modelling](#also-found-while-modelling)
- [What is proved](#what-is-proved)
- [What is not modelled](#what-is-not-modelled)
- [Plan](#plan)
- [Running the checks](#running-the-checks)

## The system

| Part | State | Operations | Talks to |
|---|---|---|---|
| Sessions (`session_manager.go`, `service_client.go`, `client_handler.go`) | `seq`, `sessionMap`, per session `respChan`, `timer`, `mutex`, `node` | `RequestAsyncWithHead`, `Request`, `Process`, `DestorySessionAndRespPkg`, the timer goroutine | connection (send), response workers (callback), `Node.Active` (read by the balancer) |
| Connection pool (`pool.go`) | `poolChan`, `curSize`, `shutdown` | `Acquire`, `Release`, `Close`, `CloseAll`, `Shutdown` | makes connections, tests `IsClose` and their age |
| Connection (`easy_connection.go`, `server.go`) | `isClose`, `writeChan`, the socket | `Connect`, accept, `Read`, `Write`, `Send`, `Close` | handlers (`Dispatch`) |
| Circuit breaker (`circuit_breaker.go`) | `CbInfo`, a mutex per name | `CbConfigure`, `CbCall` | the application's call |
| Discovery (`node_manager.go`) | `nodeList`, `watched`, `exsit`, `mutex` | `getNodes`, `loadServiceNode`, the watch | etcd |
| Balancing (`load_balancer.go`) | `nodeList`, `seq` | `SetNodes`, `GetNode` with five policies | `Node.Active`, `Node.Weight` |
| Registration (`service_register.go`, `service_context.go`) | `leaseId`, `register`, the heartbeat, the signal handler | `Register`, `Unregister`, `StartAndWait` | etcd |
| Configuration (`easy_config.go`) | `container`, `configVersion`, files `version`, `remote`, `local` | `LoadAllConfig`, `checkRemoteVersion`, getters | etcd, file system |
| Service side (`service_handler.go`) | the middleware chain, a goroutine pool | `Dispatch`, `onRequest` | connection, the service's methods |
| Monitor (`apm_monitor.go`) | `statuses`, `mutex` | `Middleware`, `reportAndReset` | its handler |
| Multi-service client (`easy_client.go`) | `clients`, `mutex` | `Request`... | `ServiceClient` |
| Gateways (`gateway*.go`, `http_*.go`, `example/gateway.go`) | middleware lists | `Dispatch`, `ServeHTTP`, the two proxy middlewares | multi-service client, connection |
| Codec (`easy_package.go`, `error.go`), utilities (`utils.go`) | none | encode, decode | |

A request runs through most of them: `getNodes` gives the node list, `SetNodes`
and `GetNode` pick a node, the node's pool gives a connection (which is released
at once: requests share connections), `InitSession` registers the request under a
fresh `seq`, `Send` queues it, a timer goroutine is started, and the caller waits
on the session's channel. The connection's reader hands every response to a
non-blocking goroutine pool, whose worker looks the session up by `seq` and
delivers.

What is hard, and what makes each part correct:

- *Sessions*: response and timer race; duplicates, late answers, a channel nobody
  reads. Each request has one outcome, its load is counted once, nothing but a send that fails leaves it in
  the map, no waiting caller waits for ever.
- *Pool*: counter, channel and flag are updated without a common lock, around a
  dial. The counter is exact, the overshoot bounded, no connection is shared by the
  pool's own doing, and giving back does not block.
- *Connection*: three kinds of goroutines agree by `isClose`, a nil package and the
  closing of a channel; TCP cuts packages anywhere and the lengths may wrap around.
  Order is kept, packages stay whole, the clean-up ends, a package that is sent meets
  a channel that is open.
- *Circuit breaker*: clock read before the lock, counters outside it. The cycle
  closed, open, half open is kept, with its times, and no state is final.
- *Discovery*: a list read before the watch begins, reloads without the lock. One
  watcher, and a list that follows the changes and falls back once at most.
- *Balancing*: a list replaced while another request picks from it; rounding in the
  weighted draw.
- *Registration*: leases that expire, calls that half succeed, crashes, a signal
  that races the heartbeat. A live service is listed, a dead one is not.
- *Configuration*: a version stored before its data, faults between the two, reloads
  over local settings, lines with comments, without a key or without an end.
- *Service side and monitor*: request and response share a head, methods panic, the
  report divides entries that requests may still hold. What is reported is right and
  final, errors are counted, workers come back.
- *Multi-service client and gateways*: clients and pools are made under a mutex held
  while etcd and nodes are dialed; an error is answered twice, by a package and by nil.
  Each is made once, every request ends, answers are written.

`PROJECT.json` lists these hazards line by line with the properties that cover
them, the parts with their status, and for every definition the lines it models.

## The models

An action is a stretch of code between two accesses to shared state; labels in the
`pc` variables name the next statement. A definition that stands directly before a
similar one (`LockFirstEarlyDecrement` before `LockFirst`) is a plausible bug, kept
to test that a property notices it; no specification uses it.

| Module | Models |
|---|---|
| `RequestPromise` | Abstract: what a client promises for a request |
| `ServiceNode` | The nodes that the sessions and the balancer of a client share |
| `SessionManager` | Sessions, timer goroutines, response workers |
| `GenericPool` | The connection pool (`MCGenericPool`: an instance) |
| `EasyPackage` | The bytes of a package: encoding, the test of a prefix, decoding |
| `EasyConnection` | One connection, dialed or accepted (`MCEasyConnection`: an instance) |
| `CircuitBreaker` | One breaker (`MCCircuitBreaker`: instances) |
| `NodeManager` | One client's node list, with etcd's watch |
| `LoadBalancer` | One balancer shared by goroutines (`MCLoadBalancer`: instances) |
| `ServiceClient` | `LoadBalancer` and `SessionManager` composed over the same nodes (`MCServiceClient`: an instance) |
| `ServiceRegister` | One service's key, its process and etcd's leases |
| `Discovery` | `ServiceRegister` and `NodeManager` composed over one etcd |
| `ConfigFile` | What a line of a configuration file defines |
| `EasyConfig` | A remote configuration, its files and etcd (`MCEasyConfig`: instances) |
| `ServiceHandler` | A service's workers, its middleware chain and the monitor (`MCServiceHandler`: a chain) |
| `Gateway` | The gateway's goroutines, the multi-service client, its clients and their pools |
| `ServiceClientProofs`, `GenericPoolProofs`, `EasyConnectionProofs`, `CircuitBreakerProofs`, `DiscoveryProofs`, `EasyConfigProofs`, `ServiceHandlerProofs`, `GatewayProofs` | Theorems about the module each is named after (and, in `DiscoveryProofs` and `ServiceClientProofs`, the two that it composes) |

**SessionManager.** A `seq` names the session, the caller that made it and the
goroutine that destroys it with nil (the timer goroutine, or the caller after an
encode failure); response workers are the other destroyers. `caller` and `pc`
follow the two kinds of code, `mutex[s]` is the session's mutex, `wire[q]` the
packages under way with seq `q`: `SendRequest` chooses how often the server answers,
never included, and whether the answer carries the seq or 0. `Deliver` is the
rendezvous on the unbuffered channel. `SendRequest` need not happen: a Send may wait for
ever at a full queue whose writer is dead, and `SendPanics` is one that meets the closed
queue. The session is in the map by then and its goroutine is not started
(`InTheCall`, "panicked"), which is the exception that `MapEntryIsOwned` makes.
The return after a failed encoding is not an action because it is never reached
(see [below](#also-found-while-modelling)).

**RequestPromise.** A request begins on a node, its caller may listen, a listener
gets one outcome and only then the load goes. `SessionManager` implements it with
`status` read off the caller, `loaded` the open channels and `load` the `Active`
counters; the refinement is property `KeepsPromise`.

**GenericPool.** `pc` walks through Acquire's loop, Release, Close, CloseAll and
Shutdown; channel, counter and flag are separate steps. `Dies` is the connection's
reader closing it, `Expires` its lifetime passing; both may happen at any time. A
goroutine may be a user of the pool, a closer of it, or both in turn.
`NewGenericPool` is `Init`, with any number of failed dials.

**EasyConnection.** `dialed`, chosen in `Init`, tells a connection made by `Connect`,
which marks it open after the reader runs, from one made by the accept loop. `accepted`
and `written` are history variables. `incoming` is the stream, made of the packages of
`Peer` as `Encode` writes them; a read takes any number of bytes from one up to what it
asks for, and what it leaves of its slice is zeros. `ReadPrefix` tests the prefix as
the code does (the limit of the body against the length of the head), `ReadRest` tests
the last byte. Lengths are one byte of `Width` values, so that 11 + headLen + bodyLen,
here 5 + both, wraps around as it does in 32 bits; a slice that this makes too short
panics, which is one of the reasons for `ReadFails`. A client gets the connection when
`Connect` has returned, a server's handler when `Dispatch` gives it the first whole
package (`HandedOut`).

**CircuitBreaker.** Times are ages in ticks, so that the clock needs no bound:
ages from `MaxAge` on are not told apart, which is sound as the assumption keeps
every period plus `MaxDelay` below it. `delay[c]` is the age of the `timeNow` that
caller `c` has read; `Tick` waits for deciding callers at `MaxDelay`. Counts
saturate at `MaxCount`. `since` is auxiliary. The random gate of a half-open
breaker is a free choice.

**NodeManager.** A node list is the etcd revision it was read at. A Get returns
the newest revision, a watch reports what happens after its set-up, and several
changes may come as one event. etcd's part of `Init` and the change of the nodes are
apart from the client's, so that `Discovery` can give them another cause.

**LoadBalancer.** Each read of `lb.nodeList` or its length is a step. Of a
request's record, `given` to `by` are auxiliary: the length of the list it stored,
whether another request has stored one of a different length since, whether it has
met another request or a change of a load, and its policy; `turn` is auxiliary too,
the node the last turn of round robin fell on. Locals are forgotten when the code
has no more use for them. `lbSeq` (`LoadBalancer.seq`) is counted modulo `Period`, a
multiple of all lengths. The sum of the first k weights is written as the number of
their lots (`Total`).

**ServiceClient** extends `SessionManager` and `LoadBalancer`, whose specifications are
`SessionSpec` and `BalancerSpec`; both work on `active`, `Node.Active`. `chosen[c]` is the
node that `GetNode` has returned to caller c, until its pool fails (`AcquireFails`) or a
session is opened on it. What opens a session adds a load and what closes one takes it
away (`LoadChanges`), so the balancer alone may see its loads move at any time, and in the
client sees them follow the sessions. A caller makes the next request when it is out of
`RequestAsyncWithHead` (`Free`), whether or not it still waits for an answer.

**ServiceRegister.** Leases are numbers; `key` is the lease that the node key hangs
on. Two goroutines run `Register`: that of `StartAndWait` and the heartbeat. A
failing Delete or Put may or may not have been executed. A lease renewed in time
expires only by a fault; any other expires some time.

**Discovery** extends both. A step of the service that
changes `key` is `NodesChange` of the client, any other leaves the client alone.
`unseen` is auxiliary: it holds from a change that the client's watch does not report
(it is not open yet although a list was read, it is broken, its reload fails) until a list
is loaded that has it. So is `overwritten`: it holds from the first load's assignment of a
list that is older than the one there, until the next reload is assigned.

**EasyConfig.** A configuration is its version, `RemoteFile[v]` its lines. A line is
a sequence of words and of the tokens `#`, `=`, blank and line feed, which `ConfigFile`
reads as `Load` and `getKeyValue` do; `Remote[v]` is what the author of the version
meant, written down in `MCEasyConfig` without the use of `ConfigFile`. Files survive
crashes. `WriteFile` truncates and writes in two steps. A load of either file may fail at
its opening (`OpenFails`) or between two lines (`ReadFails`); `localCut` remembers that the
last load of the local one did. Lines are loaded one by one, as
getters may read between them.

**ServiceHandler.** A worker's `pos` is the middleware it runs, up to `onRequest` at
the end and back to 0. The head is `method` and `ret`, one for request and response.
Every run of the monitor's mutex is one step; the atomic additions are steps of their
own, as are the reporter's read and write of an entry's time. A chain has at most one
monitor, for which a worker keeps one entry; nothing in the code adds a second. Entries are kept per map,
as workers hold those of maps that were swapped out. Of the application's code only the
outcome is a choice: it goes on, sets a ret, or panics. `spent`, `held` and `reports`
are auxiliary.

**Gateway.** `at` walks from the mutex of `EasyClient` through that of the
`ServiceClient` to the answer. What `getNodes`, `Acquire` and the session give is a
choice, as `NodeManager`, `GenericPool` and `SessionManager` model them. At "send" stand
Release, the encoding and the Send to the node: whoever is there may stay for ever, or
panic (`Panics`). `writeChan` is the queue of the connection to the gateway's own client,
in which the number of a request stands for its answer and `Nil` for nil. A Send to it
is two steps, `TestClose` and `Push`: between them the connection may be closed, and the
queue too (`PushPanics`). `reader` is where the connection's reader stands: it reads until
`Disconnect`, then closes the connection, sends nil and closes the queue.

## What the runs show

Passing runs. Each property has a mutant in `PROJECT.json`, a change of one
definition under which TLC finds the property violated.

| Run | Instance | Shows |
|---|---|---|
| `sessions` | 2 requests, 1 node, 2 workers, up to 2 answers each, channels may be abandoned | `OneDeliverer`, `ActiveCountsSessions`, `WaiterIsServed`, `MapEntryIsOwned`, `WorkersComeBack`, `KeepsPromise` (refinement) |
| `pool` | 3 goroutines, 2 of which also call CloseAll and Shutdown, size 2, 4 connections | `SizeIsExact`, `SizeBounded`, `OwnedOnce`, `ReleaseNeverBlocks` |
| `connection` | 2 senders, queue of 2, 3 packages out, 2 packages in, dialed and accepted | `FirstInFirstOut`, `WholePackages`, `CleanupEnds` |
| `breaker` | 2 callers, 2 settings, ages to 4, counts to 4 | `StraysBounded`, `StaysLongEnough`, `NeverStuck` |
| `balancer` | 2 goroutines, 5 policies, lists of 0, 1 and 3 nodes, loads to 2 | `CrashNeedsResize`, `NextInTurn`, `LeastOrTurn`, `NearItsShare` |
| `client` | 1 goroutine, 1 worker, 2 nodes, 2 requests, `LB_ACTIVE` and `LB_RANDOM` | `FewestSessions` |
| `nodes` | 2 callers, 3 changes of the nodes, 2 faults | `OneWatcher`, `FallsBackOnce` |
| `discovery` | 1 caller, 2 starts, 1 fault on each side | `ListIsTrue`, `ListedUnderItsLease`, `ServedIsFound`, `DeadIsDropped`, `LeaseRecovers` |
| `config` | 3 versions, 3 faults or crashes | `LocalPrevails`, `VersionIsShown`, `NextVersionHeals` |
| `service` | 2 workers, 3 requests, 2 methods of which 1 exists, 1 report | `MeanIsRight`, `ReportIsSettled`, `ErrorsAreCounted`, `WorkersReturn` |
| `gateway` | 2 goroutines of a connection, 1 of HTTP, 2 services, 1 address, queue of 1, 2 requests | `OneForAll`, `RequestsEnd`, `AnswersArrive` |

`conn_send_panic` is violated, against a sentence of the code (`findings` in
`PROJECT.json` quotes it): a Send that has passed its test runs into the
channel that the reader has closed.

**Bounds.** Two destroyers of one session are all there can be inside
`DestorySessionAndRespPkg` at a time for a race on it, a third (another response)
is there as well; a second session shares workers and nodes with the first. Three
goroutines on a pool of two pass the size test together, wait, and find released
connections. A queue of two is full before the nil package comes. The stream's bodies hold
the bytes of ETX and STX, so that a package cut at the wrong place can look like a
whole one. In `client` one goroutine chooses, as its property is about a request that meets no other;
what it does meet are the timers and the worker, which end sessions at any time, and
`LB_RANDOM` puts loads where `LB_ACTIVE` would not. With two goroutines the run takes
too long, and the proof covers any number. `MaxRev` of `discovery` is
enough for every change of the key that two starts and a fault allow: it never stops
one. The one caller of `discovery` holds the mutex through all of `getNodes`, so that it
takes, calling again and again, every step but the wait for the mutex; what two callers
may do to each other is the question of `nodes`, where etcd's changes come from anywhere.
Two callers of the breaker are enough for one to act on a time or a count that the other has changed.
Faults are bounded because properties of the form "when faults are over" need that;
in `config` the bounds allow an operation to fail and its recovery to fail once more,
`discovery` is content with one fault on each side. Three requests of
the service are two that meet and one of the next minute. Two requests of the gateway are
enough for first requests that meet, for one that is stuck with the other going on, and
for an error that stops the writer of another's answer; three of one service have been
checked with the same result (435 thousand states, five minutes). A second address only
repeats the first's steps. The theorems below remove the bounds for the safety of most
parts.

Deadlock is checked for the breaker, the balancer (where a load
can always change) and wherever the cfg does not switch it off. The other models do
stop: all requests are over or blocked, a pool is shut down, a connection is closed,
the process has exited.

**Fairness** is only assumed where the runtime gives it: a goroutine that can run
does; timers and tickers fire; a lease that nobody renews expires; calls of etcd and
dials end, as they have timeouts. Strong fairness appears for locks (Go's mutex lets a
waiter through after 1 ms) and for the random gate of the breaker (`limitRate > 0`).
The heartbeat has to act when its lease is lost or its last renewal failed; a tick that
finds everything in order need not fail. Nobody has to send a request or an answer, to get past a Send, to
change a node, to close, fail, crash or restart, with three exceptions: `NeverStuck`
assumes that callers of the breaker go on calling, which its statement says; the
callers of `getNodes` go on asking, for the properties of `discovery` are about the
lists they are given; and the methods of a service return or panic, without which
`WorkersReturn` would be about the application.

## Also found while modelling

The models behave like this too, and no run demands the opposite, because the code
shows it without a search for an interleaving or because a property states the
weaker fact that does hold.

- `service_client.go:169`: when a body cannot be encoded, `RequestAsyncWithHead` sends
  nil on the unbuffered channel that it has not returned yet, and blocks for ever
  (`EncodeFails`; the caller's goroutine never gets past `Deliver`).
- `service_client.go:172`, `:181`: when Send panics (`easy_connection.go:42`) or never
  returns, line 184 does not run and nobody removes the session of line 161, whose load
  misleads the balancer from then on, unless a response comes all the same.
  `OrphanedBySendOnly` says that nothing else orphans a session.
- `service_client.go:184`, `session_manager.go:74`: `timer.Stop` leaves the goroutine
  that waits for `timer.C` behind, one for every request answered in time (`Stopped`).
- `pool.go:99`: concurrent Acquires pass the test of `curSize` together and exceed
  `maxSize`, which is commented as the most resources in the pool (`pool.go:29`).
  `SizeBounded` says by how much.
- `pool.go:119`: a connection in use when Shutdown runs is refused by Release and never
  closed, although Shutdown "releases all resources" (`pool.go:153`).
- `easy_connection.go:160`: Connect sets `isClose = false` after it has started the
  reader. The reader may have closed the connection already: it then stays marked open
  with a closed `writeChan`. Or the reader finds the mark that the connection was made
  with and never closes its socket, which is why `CleanupEnds` asks for the socket of
  accepted connections only.
- `easy_connection.go:95`: a read of the ten bytes of a prefix that gives fewer is taken
  for a whole prefix: from then on the reader has lost the boundaries of packages.
  `WholePackages` says that nothing else does that. A read of the rest that gives less
  (line 126) closes the connection, although the package is in order.
- `easy_connection.go:119`: the limit of the body is held against the head's length, so
  `BODY_MAX_LEN` is never enforced.
- `node_manager.go:93`: a change of the nodes between the first Get and the Watch is
  lost, and the list stays old until the next change; so is one while a broken watch is
  set up again, or when a reload fails (line 96). `unseen` marks these cases.
- `node_manager.go:115`: the caller that loads first starts the watcher (line 89) before
  it assigns its list. The watcher may have reloaded and assigned a newer list by then,
  without the mutex, and the caller replaces it by its older one: a lost update, which
  stays until the next event. `overwritten` marks the case, and `FallsBackOnce` says that
  this happens once at most and nothing else puts an older list in force.
- `easy_config.go:107`: the load of the local file that follows a reload of the remote one
  may fail, which is only logged: remote values stay in force over local ones until the
  next load. `LocalPrevails` excepts it.
- `service_register.go:93`: when a renewal fails although the lease is alive, the
  heartbeat deletes the key and registers again; if Grant or Put then fails the next
  renewal of the old lease succeeds, and the service runs without being listed.
  `ListedUnderItsLease` holds while etcd does not fail, `LeaseRecovers` if the lease is
  really lost.
- `easy_config.go:166`: the version is written to its file before the data is fetched; if
  the fetch fails or the process stops in between, later loads keep the old data until
  the next version. `NextVersionHeals` says that this one repairs it.
- `load_balancer.go:121` and its like: a list replaced by a shorter one between the
  computation of an index and its use makes the request panic. `CrashNeedsResize` says
  that nothing else does.
- `load_balancer.go:67`: when the last node is the only least active one, `LB_ACTIVE`
  turns to round robin as if all were equal. `LeastOrTurn` excludes this case.
- `service_client.go:129`: the load of the node that is chosen is counted only when the
  session is opened (line 162), after its pool may have dialed: requests that come
  together choose the same node. `LeastOrTurn` and `FewestSessions` therefore speak of
  requests that meet no other.
- `load_balancer.go:110`: `random <= 0` gives the first node one draw too many at the
  expense of the last; a last node of weight 1 is never picked. `NearItsShare` allows
  for this one draw.
- `easy_config.go:214`: keys that a newer configuration no longer defines stay, and
  during a reload remote values show where local ones prevail (lines 66-71).
- `easy_config.go:203`, `:238`: a last line without a line feed is not loaded, and a
  value ends at a second `=`.
- `apm_monitor.go:52`: a request that panics is in an entry's total, but neither in its
  errors nor in its time.
- `example/gateway.go:49`: after an error the gateway sends the answer and then nil, the
  order to exit, which stops the writer of that connection; later answers stay in the
  queue. `AnswersArrive` and `RequestsEnd` hold up to this.
- `easy_connection.go:42`: a goroutine of the gateway that has passed the test of Send
  waits for a full queue whose writer is dead, and nothing wakes it; with the queue closed
  it panics, which `PanicHandler` recovers, and the request has no answer.
- `service_client.go:162`: the gateway's request overwrites the seq of the head it
  received, and the response goes back with the gateway's seq, by which an easycall client
  cannot find its session.
- `easy_client.go:60`: a client that could not reach etcd when it was made is kept, and
  answers every request with an error from then on.

## What is proved

TLAPS checks these for every value of the constants that the module's assumption
allows: any number of goroutines, requests, connections, nodes, workers and faults, any
sizes and periods. Each proof module names its inductive invariant (`Inv`), shows that
the initial states have it and that every action keeps it, one step per action, and
draws the properties from it. TLC has checked every such invariant on the instance of
the component's run.

| Module | Theorem | States |
|---|---|---|
| `ServiceClientProofs` | `TypeCorrect` | `TypeOK` |
| | `DeliversAlone` | `OneDeliverer` |
| | `WaiterNeverStranded` | `WaiterIsServed` |
| | `OrphanedBySendOnly` | `MapEntryIsOwned` |
| | `ActiveIsLoad` | `ActiveCountsSessions` |
| | `SessionsKeepPromise` | the safety half of `KeepsPromise`: every step is one of `RequestPromise` or a stutter |
| | `PanicNeedsResize` | `CrashNeedsResize`, if every weight is positive |
| | `PicksNextInTurn` | `NextInTurn` |
| | `PicksLeastOrTurn` | `LeastOrTurn` |
| | `PicksNearItsShare` | `NearItsShare` |
| | `ClientHasSessions`, `ClientHasBalancer` | `ServiceClient` implements `SessionManager`, fairness apart, and `LoadBalancer` |
| | `PicksFewestSessions` | `FewestSessions` |
| `GenericPoolProofs` | `TypeCorrect` | `TypeOK` |
| | `SizeAlwaysExact` | `SizeIsExact` |
| | `SizeAlwaysBounded` | `SizeBounded` |
| | `ReleaseFindsRoom` | `ReleaseNeverBlocks` |
| | `ConnectionsOwnedOnce` | `OwnedOnce` |
| `EasyConnectionProofs` | `PackagesKeepOrder` | `FirstInFirstOut` |
| | `PackagesArriveWhole` | `WholePackages` |
| | `CodecRoundTrip` | `DecodeWithBody` undoes `EncodeWithBody` |
| `CircuitBreakerProofs` | `TypeCorrect` | `TypeOK` |
| | `StraysAlwaysBounded` | `StraysBounded` |
| | `StatusLasts` | `StaysLongEnough` (of steps) |
| `DiscoveryProofs` | `ClientTypeCorrect` | `TypeOK` of `NodeManager` |
| | `WatcherIsAlone` | `OneWatcher` |
| | `FallsBackAtMostOnce` | `FallsBackOnce` (of steps) |
| | `ServiceStaysListed` | `ListedUnderItsLease` |
| | `DeadKeyExpires` | the safety half of discovery's `DeadIsDropped` |
| | `ComponentsImplemented` | `Discovery` implements `NodeManager` and `ServiceRegister`, fairness apart |
| | `ListAlwaysTrue` | `ListIsTrue` |
| `EasyConfigProofs` | `LocalAlwaysPrevails` | `LocalPrevails` |
| | `VersionAlwaysShown` | `VersionIsShown` |
| `ServiceHandlerProofs` | `MeanAlwaysRight` | `MeanIsRight` |
| | `ReportsStaySettled` | `ReportIsSettled` |
| | `ErrorsAlwaysCounted` | `ErrorsAreCounted` (of steps) |
| `GatewayProofs` | `MadeOnce` | `OneForAll` |
| | `AnswersMissedForOthers` | the safety half of `AnswersArrive` |

**Sessions**, from `SessionAssumption`. `Inv` adds what ties the pieces of state
together: a lifetime for every session (`Lifetime`), which goroutine the session's own
one is and how far it can be (`OwnGoroutine`), that the holder of the mutex is the
goroutine between Lock and Unlock (`MutexHeld`) and found the channel open
(`HolderFoundItOpen`), what a caller's outcome says about the channel (`Outcome`) and
what an entry of the map does (`Mapped`). `OneDeliverer` follows from the two about
the mutex; without them two goroutines could be past the test of `respChan`.
`ActiveIsLoad` adds the count to the invariant and needs the finiteness of the
requests.

**Balancer**, from `BalancerAssumption`. A request that no other has met since it stored its
list (`Alone`) chooses from this list at loads that stand still; all that holds of the
others is that indices are in range until a list of another length is stored. `OnItsWay`
says this for every place of a request: which policy it follows (`Follows`), that its
index and the length it has read are in range (`InRange`), that the scan holds the least
load of the nodes it has passed (`LeastSoFar`), that what was drawn and what was taken off
it add up (`ShareSoFar`). For panics only `Draw` is left, where the sum of the weights
must not be 0: `Weighty` keeps it at least as large as the number of nodes it has counted,
which is why `PanicNeedsResize` has the hypothesis that weights are positive; with a
weight of 0 for every node `rand.Intn(0)` does panic. For `NextInTurn` `TurnInv` keeps
`turn` and `lbSeq` together: between turns it is the node at `lbSeq`, during a turn the one
before it, even if an increment was lost before; this needs that an alone request is the
only one (`OneAlone`) and that `Period` is a multiple of the lengths (`Divides`). `TotalIs`
gives the recursion of the sum.

**Client**, also from `ClientAssumption`, that the balancer's bound on a load leaves room
for all sessions. `SessionsMove` and `BalancerMoves` show that every step of the client
is a step of each component or leaves it alone; both invariants, with `ActiveCountsSessions`,
are inductive in it together. The load stays in its bound because it is the number of
open sessions (`LoadBounded`): this is where the balancer needs the sessions.
`FewestSessions` follows from `LeastOrTurn` and `ActiveIsLoad`, of which neither alone
says anything of the sessions that a node has.

**Pool**, from `PoolAssumption`. `Accounting` brackets the counter between the idle
connections plus those in hand (`hold`) and the same plus the goroutines that are in no
call (`out`: each of them may have left with a connection after a shutdown), and bounds
`curSize + create`, `create` being the goroutines that have found the channel empty and
may still dial. `HandsFull` says that who stands in `hold` has a connection; `FlagFirst`
that the channel is closed only after the flag is set. The overshoot is bounded because
a goroutine joins `create` only when the channel is empty: then every counted connection
is accounted for by another goroutine, and the goroutines outnumber the sum.
`MoveCount` counts how these sets change when one goroutine moves. `OwnedOnce` needs
only that the factory's connections are new (`Made`), and is kept by each of the four
ways a connection goes: dialed, taken, put back, forgotten.

**Connection**, from `ConnectionAssumption`. That the queue follows what was
accepted is not all, as packages of late senders come behind the nil package. `NothingLost` names the
place `p` of that package (one behind the queue while the reader has not sent it): before
`p` the queue is what `accepted` has next, behind `p` the same shifted by one.
`Followed` says that the socket has the front of `accepted` and the writer the package
after it, `ClosedBehindNil` that a closed channel is never empty under a living writer,
`NotYet` that reader and writer begin once.

`WholePackages` is proved under `PeerFits`: every package of the peer is one that
`EncodeWithBody` can write, head, body and the whole within the four bytes of a length.
`MCEasyConnection` has TLC evaluate it. `InStep` says that while the reader has lost no
boundary it stands at one, or has read a prefix of exactly the next package, so that the
tests of lengths and of the last byte pass and what `ReadRest` decodes is that package
(`CodecRoundTrip`). Streams are folds: `FlatExists` and `FlatUnique` show that there is
just one function with the fold's recursion, and the induction over its length takes a
least counterexample from the well-founded order on `Nat` (`Least`).

**Breaker**, from `BreakerAssumption`, which asks for a caller at least (with none, no
call and no count is possible and the bound would be negative). `StraysBounded` is
inductive with the types: who clears the counts has the lock and does not run.
`StaysLongEnough` compares the clock readings of decisions with the age of the status,
which `AgesFollowStatus` keeps apart by one delay at most.

**Discovery's client**, from `NodeManagerAssumption`. `MutexHeld`, that whoever is
between Lock and Unlock holds the mutex, makes the test of `watched` and the start of
the goroutine one; `FlagIsTrue` ties flag, count and goroutine. For `FallsBackOnce`
`LoadOnce` says that a caller loads only before there is a watcher or a list, hence once,
and `ReloadIsNewest` that what the watcher is about to assign is no older than any list
in use or in hand: the only assignment that may go back is the one that ends the load.

**Registration**, from `RegisterAssumption`. `LeaseHeld` and `KeyHeld` say for every
stop between Grant and the heartbeat what the process may rely on while etcd has not
failed, `OneHeartbeat` that the two goroutines never register at once, and
`KeyIsLeased` that etcd drops the key with its lease. From the last one also follows
what makes a dead service go: its key hangs on a lease that no goroutine renews or
will put again (`NothingKeepsTheDead`); that the lease then expires is fairness, which
the run `discovery` checks.

**Discovery.** Every step of the composition is a step or a stutter of each part
(`ClientSees`, `ServiceActs`), so both invariants hold in it: the theorems about the
parts need no second proof. `ListIsTrue` is about both. `EmptyIsUnlisted` says that the
newest revision shows whether the key is there, and `NothingMissed` where a newer revision
than that of the list still is: as an event to come, in the watcher's hand, in the hand of
the first caller while there is no list, or behind `unseen` or `overwritten`.
`ReloadIsFresh` says that what the watcher holds is the newest list or an event waits, as
the event is taken before the reload's Get.

**Configuration**, from `ConfigAssumption` and, as a hypothesis, `AuthorsAreUnderstood`:
what each author means (`Local`, `Remote[v]`) is what the last line that is read and
defines a key gives it. It is about the instance's files, TLC evaluates it in
`MCEasyConfig`, and without it the properties compare with nothing. While a file is
loaded (`Loading`) each key has its value already and no later line defines it
(`Silent`), or its line is still to come (`Gives`): no induction over files is needed,
as every line read is a step. Nothing else is taken from the container, a load
that fails leaves `localCut`, and
`DirStays` sees to it that no later `LoadAllConfig` gives up between the two files. For
`VersionIsShown` `CopyIsCurrent` orders the numbers of versions in memory, in the files
and in etcd at every place, and `CopyIsShown` follows the container through the load.

**Service and monitor**, from `HandlerAssumption`. `Stands` reads off a worker's place
whether the monitor is on its stack and that it then has an entry; `Holders` that
an entry is one of the newest map, or its holder was noted at the swap. Hence the
reporter has all other entries to itself: `NewestExact` carries time and total up to the
swap, `DividedExact` through the division, `Settled` from the report on. For
`ErrorsAreCounted` `Stands` also keeps the ret that was sent in the head until the
monitor judges it.

**Gateway**, from `GatewayAssumption`. `MakerIsAlone`: who makes a client or a pool holds
the mutex under which it has found none. For the answers, `ErrorSent` and `NilFollows`
say that an error's nil comes after its answer in the queue unless the connection has
ended, `WriterStops` that the writer stops only with the connection or behind such an
answer; so an answer that waits in vain waits because of the connection or of *another*
request's error (`NothingMissed`). That a living writer comes to it is fairness.

Only model-checked, and why:

- Liveness: fairness and `ENABLED` are out of the prover's reach. This is
  `WorkersComeBack`, `CleanupEnds`, `NeverStuck`, `LeaseRecovers`, `NextVersionHeals`,
  `WorkersReturn`, `RequestsEnd`, the liveness halves of `KeepsPromise` and
  `AnswersArrive`, and `ServedIsFound` and `DeadIsDropped` of `discovery`.
- What the properties of other kinds say is proved. Where a theorem has a hypothesis
  besides the assumptions on constants (`PeerFits`, `AuthorsAreUnderstood`, positive
  weights), the section on its module says why.

No recursive operators are used; the only folds are those of the stream in
`EasyConnection`.

## What is not modelled

- What msgpack and json make of heads and bodies, beyond bytes that decode or do not.
- Middlewares that replace the response's head (`SetHead`), and methods that keep their
  request after they have returned.
- How long things take: that requests to one address wait while another's pool is
  dialed is visible in `Gateway`, not measured.
- The path of a request as one composition of all its parts: `Gateway` goes through
  them with the outcomes as choices, the models of the parts say which there are.
- Several breakers, services in one process, or gateway connections: they share nothing
  but a registry map.
- A crash between the steps of the system's own write of a file, beyond its two steps
  here, and etcd's revisions and leases beyond what the code uses of them.
- `GetSession` and friends' read-write lock: map accesses are atomic steps.
- Go's memory model: reads of `isClose`, `shutdown`, `curSize`, `nodeList` and the
  like without a lock are taken as reads of the newest value in some interleaving.
- The typed getters of `EasyConfig`: each reads one key and converts it.
- `AddSession` and `RemoveSession`, which nobody calls, and the helpers of `utils.go`,
  but for `PanicHandler`.

## Plan

Done: the inventory; models and runs of all parts; the compositions `ServiceClient`,
`Discovery` and `Gateway`; and a proof of every safety and action property that a run
checks.

What could follow is more composition: `ServiceClient` with `Discovery`, whose list would
take the place of `Lists`, and with `GenericPool` in the place of `AcquireFails`. Both
meet the client only in a value it is given, so that their theorems hold as they are; the
composition would say which lists and failures the balancer and the sessions do meet.

## Running the checks

    tlc -config sessions.cfg SessionManager.tla
    tlapm ServiceClientProofs.tla

`PROJECT.json` names the module of every configuration. The largest runs are `pool`
and `balancer`, with some three million states each, `client` with two million, and `sessions`, `discovery` and
`service`, with fewer but with temporal properties: each takes a minute or two.
