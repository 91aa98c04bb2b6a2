------------------------------ MODULE NodeManager ------------------------------
(***************************************************************************)
(* A client's list of the nodes of one service: the first getNodes that    *)
(* can reach etcd loads it and starts a goroutine that watches the key     *)
(* range and reloads the list on every event.  The callers of getNodes     *)
(* exclude each other with the mutex; the watching goroutine takes no      *)
(* lock.                                                                   *)
(*                                                                         *)
(* etcd is external: its state is a revision, a Get returns the newest     *)
(* one, and a watch that carries no revision reports the changes made      *)
(* after it was set up.  A node list is the revision it was read at.       *)
(***************************************************************************)
EXTENDS Integers, FiniteSets

(* An operator that stands just before the definition it resembles is a bug
   that definition could have, used to test that a property notices it. *)

CONSTANTS
    Callers,          \* goroutines that call getNodes
    MaxRev,           \* bound on the changes of the service's nodes
    MaxClientFaults,  \* bound on failing Gets and closed watches
    None              \* nil, and nobody

ASSUME NodeManagerAssumption ==
    /\ MaxRev \in Nat /\ MaxClientFaults \in Nat
    /\ None \notin Callers /\ None \notin Nat

VARIABLES
    rev,           \* etcd's revision of the key range
    empty,         \* the revisions at which the service has no node
    clientFaults,  \* faults that may still happen
    nodeList,      \* NodeManager.nodeList: a revision, or None
    recent,        \* is exsit less than ZK_NOT_EXSIT_NODE_CACHE_TIME ago?
    watched,       \* NodeManager.watched
    mutex,         \* who holds NodeManager.mutex
    caller,        \* where a caller of getNodes stands
    got,           \* what the caller's Get returned
    watch,         \* where the watching goroutine stands
    events,        \* are events of the watch waiting in rch?
    reload,        \* what its Get returned
    started        \* how often the watching goroutine was started

etcdNodes == <<rev, empty>>
calls == <<mutex, caller, got>>
watcher == <<watch, events, reload, started>>
clientVars ==
    <<etcdNodes, clientFaults, nodeList, recent, watched, calls, watcher>>

-----------------------------------------------------------------------------
Revs == 0..MaxRev

TypeOK ==
    /\ rev \in Revs /\ empty \subseteq 0..rev
    /\ clientFaults \in 0..MaxClientFaults
    /\ nodeList \in 0..rev \cup {None}
    /\ recent \in BOOLEAN /\ watched \in BOOLEAN /\ events \in BOOLEAN
    /\ mutex \in Callers \cup {None}
    /\ caller \in [Callers -> {"idle", "lock", "look", "get", "test", "spawn",
                               "assign", "check", "return", "error"}]
    /\ got \in [Callers -> 0..rev \cup {None}]
    /\ watch \in {"none", "open", "range", "get", "spawn", "assign"}
    /\ reload \in 0..rev \cup {None}
    /\ started \in 0..1

ClientInit ==
    /\ clientFaults = MaxClientFaults
    /\ nodeList = None /\ recent = FALSE /\ watched = FALSE /\ mutex = None
    /\ caller = [c \in Callers |-> "idle"]
    /\ got = [c \in Callers |-> None]
    /\ watch = "none" /\ events = FALSE /\ reload = None
    /\ started = 0

NodeManagerInit == rev = 0 /\ empty \in {{}, {0}} /\ ClientInit

-----------------------------------------------------------------------------
(***************************************************************************)
(* etcd: a node registers or goes.  An open watch reports it.              *)
(***************************************************************************)

Watching == watch \in {"range", "get", "spawn", "assign"}

NodesChange(none) ==
    /\ rev < MaxRev
    /\ rev' = rev + 1
    /\ empty' = IF none THEN empty \cup {rev + 1} ELSE empty
    /\ events' = (events \/ Watching)
    /\ UNCHANGED <<clientFaults, nodeList, recent, watched, calls, watch,
                   reload, started>>

-----------------------------------------------------------------------------
(***************************************************************************)
(* getNodes                                                                *)
(***************************************************************************)

Moves(c, label) == caller' = [caller EXCEPT ![c] = label]

ClientFault == clientFaults > 0 /\ clientFaults' = clientFaults - 1

Call(c) ==
    /\ caller[c] = "idle"
    /\ Moves(c, "lock")
    /\ UNCHANGED <<etcdNodes, clientFaults, nodeList, recent, watched, mutex,
                   got, watcher>>

LockIgnored(c) ==
    /\ caller[c] = "lock"
    /\ mutex' = c
    /\ Moves(c, "look")
    /\ UNCHANGED <<etcdNodes, clientFaults, nodeList, recent, watched, got,
                   watcher>>

Lock(c) ==
    /\ caller[c] = "lock" /\ mutex = None
    /\ mutex' = c
    /\ Moves(c, "look")
    /\ UNCHANGED <<etcdNodes, clientFaults, nodeList, recent, watched, got,
                   watcher>>

\* No list yet: load one, unless a load failed a short while ago.
Look(c) ==
    /\ caller[c] = "look"
    /\ Moves(c, CASE nodeList # None -> "check"
                 [] nodeList = None /\ recent -> "error"
                 [] nodeList = None /\ ~recent -> "get")
    /\ UNCHANGED <<etcdNodes, clientFaults, nodeList, recent, watched, mutex,
                   got, watcher>>

Get(c) ==
    /\ caller[c] = "get"
    /\ got' = [got EXCEPT ![c] = rev]
    /\ Moves(c, "test")
    /\ UNCHANGED <<etcdNodes, clientFaults, nodeList, recent, watched, mutex,
                   watcher>>

GetFails(c) ==
    /\ caller[c] = "get"
    /\ ClientFault
    /\ recent' = TRUE
    /\ Moves(c, "error")
    /\ UNCHANGED <<etcdNodes, nodeList, watched, mutex, got, watcher>>

\* "if nm.watched == false"
Test(c) ==
    /\ caller[c] = "test"
    /\ Moves(c, IF watched THEN "assign" ELSE "spawn")
    /\ UNCHANGED <<etcdNodes, clientFaults, nodeList, recent, watched, mutex,
                   got, watcher>>

\* The goroutine starts before the list is decoded.
Spawn(c) ==
    /\ caller[c] = "spawn"
    /\ watched' = TRUE
    /\ watch' = "open" /\ started' = started + 1
    /\ Moves(c, "assign")
    /\ UNCHANGED <<etcdNodes, clientFaults, nodeList, recent, mutex, got,
                   events, reload>>

Assign(c) ==
    /\ caller[c] = "assign"
    /\ nodeList' = got[c]
    /\ got' = [got EXCEPT ![c] = None]
    /\ Moves(c, "return")
    /\ UNCHANGED <<etcdNodes, clientFaults, recent, watched, mutex, watcher>>

\* There is a list: an error if it is empty.
Check(c) ==
    /\ caller[c] = "check"
    /\ Moves(c, IF nodeList \in empty THEN "error" ELSE "return")
    /\ UNCHANGED <<etcdNodes, clientFaults, nodeList, recent, watched, mutex,
                   got, watcher>>

\* The list, as the watching goroutine may have replaced it since it was
\* checked, or an error is returned and the mutex unlocked.
Return(c) ==
    /\ caller[c] \in {"return", "error"}
    /\ mutex' = None
    /\ Moves(c, "idle")
    /\ UNCHANGED <<etcdNodes, clientFaults, nodeList, recent, watched, got,
                   watcher>>

CacheTimePasses ==
    /\ recent
    /\ recent' = FALSE
    /\ UNCHANGED <<etcdNodes, clientFaults, nodeList, watched, calls, watcher>>

-----------------------------------------------------------------------------
(***************************************************************************)
(* The watching goroutine.                                                 *)
(***************************************************************************)

Watch ==
    /\ watch = "open"
    /\ watch' = "range"
    /\ events' = FALSE
    /\ UNCHANGED <<etcdNodes, clientFaults, nodeList, recent, watched, calls,
                   reload, started>>

\* rch is closed: the loop sets up a new watch.
WatchFails ==
    /\ watch = "range"
    /\ ClientFault
    /\ watch' = "open"
    /\ UNCHANGED <<etcdNodes, nodeList, recent, watched, calls, events, reload,
                   started>>

\* A response carries some of the events: others may follow in the next.
TakeEvent ==
    /\ watch = "range" /\ events
    /\ watch' = "get"
    /\ events' \in BOOLEAN
    /\ UNCHANGED <<etcdNodes, clientFaults, nodeList, recent, watched, calls,
                   reload, started>>

ReloadStale ==
    /\ watch = "get"
    /\ reload' \in {r \in Revs : r <= rev}
    /\ watch' = "spawn"
    /\ UNCHANGED <<etcdNodes, clientFaults, nodeList, recent, watched, calls,
                   events, started>>

Reload ==
    /\ watch = "get"
    /\ reload' = rev
    /\ watch' = "spawn"
    /\ UNCHANGED <<etcdNodes, clientFaults, nodeList, recent, watched, calls,
                   events, started>>

\* The error is not looked at: back to the channel.
ReloadFails ==
    /\ watch = "get"
    /\ ClientFault
    /\ watch' = "range"
    /\ UNCHANGED <<etcdNodes, nodeList, recent, watched, calls, events, reload,
                   started>>

ReloadReturnsWatched ==
    /\ watch = "spawn" /\ watched
    /\ watch' = "range"
    /\ UNCHANGED <<etcdNodes, clientFaults, nodeList, recent, watched, calls,
                   events, reload, started>>

\* loadServiceNode finds watched set; then it assigns the list.
ReloadFindsWatched ==
    /\ watch = "spawn" /\ watched
    /\ watch' = "assign"
    /\ UNCHANGED <<etcdNodes, clientFaults, nodeList, recent, watched, calls,
                   events, reload, started>>

ReloadAssign ==
    /\ watch = "assign"
    /\ nodeList' = reload
    /\ reload' = None
    /\ watch' = "range"
    /\ UNCHANGED <<etcdNodes, clientFaults, recent, watched, calls, events,
                   started>>

-----------------------------------------------------------------------------
GetNodes(c) ==
    \/ Lock(c) \/ Look(c) \/ Get(c) \/ GetFails(c) \/ Test(c) \/ Spawn(c)
    \/ Assign(c) \/ Check(c) \/ Return(c)

Watcher ==
    \/ Watch \/ TakeEvent \/ Reload \/ ReloadFails \/ ReloadFindsWatched
    \/ ReloadAssign

ClientNext ==
    \/ CacheTimePasses \/ WatchFails \/ Watcher
    \/ \E c \in Callers : Call(c) \/ GetNodes(c)

NodeManagerNext == ClientNext \/ \E none \in BOOLEAN : NodesChange(none)

\* Goroutines run, time passes, and the client goes on making requests.
\* Nothing makes the nodes change or etcd fail.
ClientFairness ==
    /\ WF_clientVars(Watcher) /\ WF_clientVars(CacheTimePasses)
    /\ \A c \in Callers :
          /\ WF_clientVars(Call(c)) /\ WF_clientVars(GetNodes(c))
          /\ SF_clientVars(Lock(c))

NodeManagerSpec ==
    NodeManagerInit /\ [][NodeManagerNext]_clientVars /\ ClientFairness

-----------------------------------------------------------------------------
\* However many callers find no list, one goroutine watches: between the test
\* and the setting of watched in loadServiceNode no other caller can test.
OneWatcher == started <= 1 /\ (watched <=> started = 1)

\* No caller has read a list that it has yet to assign.
FirstLoadDone == \A c \in Callers : got[c] = None

NeverOlder == nodeList # None => nodeList' # None /\ nodeList' >= nodeList

\* Requests fall back to a node list that was replaced at most once, when the
\* first load assigns its list behind a reload of the watching goroutine, which
\* takes no lock; nobody makes a second load, and the reloads only move forward in
\* etcd's history.
FallsBackOnce ==
    [][/\ nodeList # None /\ FirstLoadDone => FirstLoadDone'
       /\ NeverOlder \/ (~FirstLoadDone /\ FirstLoadDone')]_clientVars
=============================================================================
