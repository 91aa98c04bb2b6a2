---------------------------- MODULE DiscoveryProofs ----------------------------
(***************************************************************************)
(* Proofs about the two components of Discovery and about the composition, *)
(* for every number of callers, changes, faults and starts.  A theorem     *)
(* about NodeManagerSpec or RegisterSpec is one about the component alone; *)
(* the last section carries them over to both sharing one etcd.            *)
(***************************************************************************)
EXTENDS Discovery, TLAPS

(***************************************************************************)
(* The client.  The mutex lets one caller at a time between Lock and       *)
(* Return.  The one that finds no list and no watcher loads the list,      *)
(* starts the watcher and assigns the list before it lets go, so that no   *)
(* later caller loads again.  What it has loaded may be older than what    *)
(* the watcher has reloaded and assigned meanwhile.                        *)
(***************************************************************************)

\* A caller between Lock and Return.
Inside == {"look", "get", "test", "spawn", "assign", "check", "return", "error"}

\* Only the holder of the mutex is inside.
MutexHeld == \A c \in Callers : caller[c] \in Inside => mutex = c

\* Who has read a list has not assigned it yet.
GotUnassigned ==
    \A c \in Callers : got[c] # None <=> caller[c] \in {"test", "spawn", "assign"}

\* The flag, the count and the watcher agree.
FlagIsTrue ==
    /\ started <= 1 /\ (watched <=> started = 1)
    /\ watched <=> watch # "none"

\* A list is loaded before there is a watcher, and assigned after it.
LoadOnce ==
    /\ ~watched => nodeList = None
    /\ \A c \in Callers : caller[c] \in {"get", "test", "spawn"} => ~watched
    /\ \A c \in Callers : caller[c] = "assign" => watched
    /\ watched => nodeList # None \/ \E c \in Callers : caller[c] = "assign"

\* What the watcher is about to assign is no older than any other list.
ReloadIsNewest ==
    watch \in {"spawn", "assign"} =>
        /\ reload # None
        /\ nodeList # None => nodeList <= reload
        /\ \A c \in Callers : got[c] # None => got[c] <= reload

ClientInv ==
    /\ TypeOK /\ MutexHeld /\ GotUnassigned /\ FlagIsTrue /\ LoadOnce
    /\ ReloadIsNewest

-----------------------------------------------------------------------------
\* The invariant holds when the client is made.
LEMMA ClientInvInit == NodeManagerInit => ClientInv
<1> SUFFICES ASSUME NodeManagerInit PROVE ClientInv
    OBVIOUS
<1>1. TypeOK
  <2>1. empty \subseteq 0..rev
      BY DEF NodeManagerInit
  <2>2. recent \in BOOLEAN /\ watched \in BOOLEAN /\ events \in BOOLEAN
      BY Zenon DEF NodeManagerInit, ClientInit
  <2>3. /\ rev \in Revs
        /\ clientFaults \in 0..MaxClientFaults /\ started \in 0..1
      BY NodeManagerAssumption DEF NodeManagerInit, ClientInit, Revs
  <2> QED
      BY <2>1, <2>2, <2>3 DEF NodeManagerInit, ClientInit, TypeOK
<1>2. MutexHeld /\ GotUnassigned
    BY DEF NodeManagerInit, ClientInit, MutexHeld, Inside, GotUnassigned
<1>3. FlagIsTrue /\ LoadOnce /\ ReloadIsNewest
    BY DEF NodeManagerInit, ClientInit, FlagIsTrue, LoadOnce, ReloadIsNewest
<1> QED
    BY <1>1, <1>2, <1>3 DEF ClientInv

\* A caller's step keeps the invariant.
LEMMA CallerStep ==
    ASSUME ClientInv, NEW c \in Callers, Call(c) \/ GetNodes(c)
    PROVE  ClientInv'
<1> USE NodeManagerAssumption
        DEF ClientInv, TypeOK, Revs, MutexHeld, Inside, GotUnassigned,
            FlagIsTrue, LoadOnce, ReloadIsNewest, Moves, etcdNodes, calls,
            watcher
<1>1. CASE Call(c)
    BY <1>1 DEF Call
<1>2. CASE Lock(c)
    BY <1>2 DEF Lock
<1>3. CASE Look(c)
    BY <1>3 DEF Look
<1>4. CASE Get(c)
    BY <1>4 DEF Get
<1>5. CASE GetFails(c)
    BY <1>5 DEF GetFails, ClientFault
<1>6. CASE Test(c)
    BY <1>6 DEF Test
<1>7. CASE Spawn(c)
    BY <1>7 DEF Spawn
<1>8. CASE Assign(c)
    BY <1>8 DEF Assign
<1>9. CASE Check(c)
    BY <1>9 DEF Check
<1>10. CASE Return(c)
    BY <1>10 DEF Return
<1> QED
    BY <1>1, <1>2, <1>3, <1>4, <1>5, <1>6, <1>7, <1>8, <1>9, <1>10
       DEF GetNodes

\* A step of the watching goroutine keeps the invariant.
LEMMA WatcherStep ==
    ASSUME ClientInv, Watcher \/ WatchFails
    PROVE  ClientInv'
<1> USE NodeManagerAssumption
        DEF ClientInv, TypeOK, Revs, MutexHeld, Inside, GotUnassigned,
            FlagIsTrue, LoadOnce, ReloadIsNewest, etcdNodes, calls
<1>1. CASE Watch
    BY <1>1 DEF Watch
<1>2. CASE WatchFails
    BY <1>2 DEF WatchFails, ClientFault
<1>3. CASE TakeEvent
    BY <1>3 DEF TakeEvent
<1>4. CASE Reload
    BY <1>4 DEF Reload
<1>5. CASE ReloadFails
    BY <1>5 DEF ReloadFails, ClientFault
<1>6. CASE ReloadFindsWatched
    BY <1>6 DEF ReloadFindsWatched
<1>7. CASE ReloadAssign
    BY <1>7 DEF ReloadAssign
<1> QED
    BY <1>1, <1>2, <1>3, <1>4, <1>5, <1>6, <1>7 DEF Watcher

\* Every step keeps the invariant.
LEMMA ClientStep == ClientInv /\ [NodeManagerNext]_clientVars => ClientInv'
<1> SUFFICES ASSUME ClientInv, [NodeManagerNext]_clientVars PROVE ClientInv'
    OBVIOUS
<1> USE NodeManagerAssumption
        DEF ClientInv, TypeOK, Revs, MutexHeld, Inside, GotUnassigned,
            FlagIsTrue, LoadOnce, ReloadIsNewest, etcdNodes, calls, watcher
<1>1. CASE CacheTimePasses
    BY <1>1 DEF CacheTimePasses
<1>2. ASSUME NEW none \in BOOLEAN, NodesChange(none) PROVE ClientInv'
    BY <1>2 DEF NodesChange, Watching
<1>3. CASE UNCHANGED clientVars
    BY <1>3 DEF clientVars
<1> QED
    BY <1>1, <1>2, <1>3, CallerStep, WatcherStep
       DEF NodeManagerNext, ClientNext

-----------------------------------------------------------------------------
\* The invariant holds in every behaviour.
THEOREM ClientInvAlways == NodeManagerSpec => []ClientInv
BY ClientInvInit, ClientStep, PTL DEF NodeManagerSpec

\* The client's state keeps its types; no list is newer than etcd's.
THEOREM ClientTypeCorrect == NodeManagerSpec => []TypeOK
<1>1. ClientInv => TypeOK
    BY DEF ClientInv
<1> QED
    BY <1>1, ClientInvAlways, PTL

\* However many callers find no list, loadServiceNode starts one watcher.
THEOREM WatcherIsAlone == NodeManagerSpec => []OneWatcher
<1>1. ClientInv => OneWatcher
    BY DEF ClientInv, FlagIsTrue, OneWatcher
<1> QED
    BY <1>1, ClientInvAlways, PTL

\* The list that requests get goes back in etcd's history at most once, when the
\* first load assigns its list behind a reload; the watcher's unlocked assignments
\* and later requests never replace a list by an older one.
THEOREM FallsBackAtMostOnce == NodeManagerSpec => FallsBackOnce
<1> DEFINE Step ==
        /\ nodeList # None /\ FirstLoadDone => FirstLoadDone'
        /\ NeverOlder \/ (~FirstLoadDone /\ FirstLoadDone')
<1>1. ClientInv /\ [NodeManagerNext]_clientVars => [Step]_clientVars
  <2> SUFFICES ASSUME ClientInv, NodeManagerNext PROVE Step
      OBVIOUS
  <2>1. /\ nodeList \in Nat \cup {None} /\ None \notin Nat
        /\ got \in [Callers -> 0..rev \cup {None}]
      BY NodeManagerAssumption DEF ClientInv, TypeOK, Revs
  <2>2. ASSUME NEW c \in Callers, Get(c) PROVE Step
    <3>1. caller[c] = "get" /\ nodeList' = nodeList
        BY <2>2 DEF Get
    <3>2. nodeList = None
        BY <3>1 DEF ClientInv, LoadOnce
    <3> QED
        BY <3>1, <3>2 DEF NeverOlder
  <2>3. ASSUME NEW c \in Callers, Assign(c) PROVE Step
    <3>1. caller[c] = "assign" /\ got' = [got EXCEPT ![c] = None]
        BY <2>3 DEF Assign
    <3>2. got[c] # None /\ \A d \in Callers \ {c} : got[d] = None
        BY <3>1 DEF ClientInv, MutexHeld, Inside, GotUnassigned
    <3> QED
        BY <2>1, <3>1, <3>2 DEF FirstLoadDone
  <2>4. CASE ReloadAssign
    <3>1. nodeList' = reload /\ got' = got /\ watch = "assign"
        BY <2>4 DEF ReloadAssign, calls
    <3>2. reload # None /\ (nodeList # None => nodeList <= reload)
        BY <3>1 DEF ClientInv, ReloadIsNewest
    <3> QED
        BY <3>1, <3>2 DEF NeverOlder, FirstLoadDone
  <2>5. CASE UNCHANGED <<nodeList, got>>
      BY <2>1, <2>5 DEF NeverOlder, FirstLoadDone
  <2>6. \/ UNCHANGED <<nodeList, got>> \/ ReloadAssign
        \/ \E c \in Callers : Get(c) \/ Assign(c)
      BY DEF NodeManagerNext, ClientNext, GetNodes, Watcher, Call, Lock, Look,
             GetFails, Test, Spawn, Check, Return, CacheTimePasses, Watch,
             WatchFails, TakeEvent, Reload, ReloadFails, ReloadFindsWatched,
             NodesChange, calls
  <2> QED
      BY <2>2, <2>3, <2>4, <2>5, <2>6
<1> QED
    BY <1>1, ClientInvAlways, PTL DEF FallsBackOnce, NodeManagerSpec

-----------------------------------------------------------------------------
(***************************************************************************)
(* The service.  Once registered, only the heartbeat runs Register, and    *)
(* only after its lease was lost or a renewal has failed, which takes a    *)
(* fault: a lease that the process has just been granted or renews in time *)
(* does not expire.  Whatever former processes left in etcd goes without   *)
(* touching the key.                                                       *)
(***************************************************************************)

\* The types.
ServiceTypes ==
    /\ key \in Nat /\ granted \in Nat /\ leases \subseteq 1..granted
    /\ serviceFaults \in 0..MaxServiceFaults
    /\ leaseId \in Nat /\ beats \in 0..1
    /\ pc \in [Registrars -> {"none", "delete", "grant", "put",
                                      "store", "wait", "done"}]
    /\ mine \in [Registrars -> Nat]

\* A heartbeat runs exactly when the process has registered; then the goroutine
\* of StartAndWait is done with Register.
OneHeartbeat ==
    /\ register <=> beats = 1
    /\ pc["beat"] # "none" => register
    /\ register => pc["main"] = "done"
    /\ pc["main"] # "wait" /\ (pc["main"] # "none" => up)

\* As long as etcd has not failed, the process holds the lease it was granted.
LeaseHeld ==
    serviceFaults = MaxServiceFaults =>
        /\ pc["beat"] \in {"none", "wait"}
        /\ pc["main"] \in {"put", "store"} => mine["main"] \in leases
        /\ register => leaseId \in leases /\ ~lapsed

\* And until the signal's Unregister the key hangs on that lease.
KeyHeld ==
    serviceFaults = MaxServiceFaults /\ sig = "none" =>
        /\ pc["main"] = "store" => key = mine["main"]
        /\ register => key = leaseId

\* The key is never put but with a live lease, and a process that is gone leaves
\* no goroutine that was granted one.
KeyIsLeased ==
    /\ key # NoLease => key \in leases
    /\ ~up => \A g \in Registrars :
                 pc[g] = "none" /\ mine[g] = NoLease

ServiceInv == ServiceTypes /\ OneHeartbeat /\ LeaseHeld /\ KeyHeld /\ KeyIsLeased

\* The safety half of DeadIsDropped in Discovery: what keeps a service listed is a
\* live lease, and one that nobody renews once the process is gone.
NothingKeepsTheDead ==
    key # NoLease => key \in leases /\ (~up => key \notin InUse)

-----------------------------------------------------------------------------
\* The invariant holds when the process is first started.
LEMMA ServiceInit == RegisterInit => ServiceInv
<1> SUFFICES ASSUME RegisterInit PROVE ServiceInv
    OBVIOUS
<1>1. ServiceTypes
    BY RegisterAssumption DEF RegisterInit, ServiceTypes, NoLease, Registrars
<1>2. OneHeartbeat /\ LeaseHeld /\ KeyHeld /\ KeyIsLeased
    BY DEF RegisterInit, OneHeartbeat, LeaseHeld, KeyHeld, KeyIsLeased,
           Registrars
<1> QED
    BY <1>1, <1>2 DEF ServiceInv

\* A step of Register, by whoever runs it, keeps the invariant.
LEMMA RegisterStep ==
    ASSUME ServiceInv, NEW g \in Registrars, Register(g)
    PROVE  ServiceInv'
<1> USE RegisterAssumption
        DEF ServiceInv, ServiceTypes, OneHeartbeat, LeaseHeld, KeyHeld,
            KeyIsLeased, Registrars, NoLease, Goto, Back, ServiceFault,
            etcdLeases, fields
<1>1. CASE Delete(g)
    BY <1>1 DEF Delete
<1>2. CASE Grant(g)
    BY <1>2 DEF Grant
<1>3. CASE GrantFails(g)
    BY <1>3 DEF GrantFails
<1>4. CASE Put(g)
    BY <1>4 DEF Put
<1>5. CASE PutFails(g)
    BY <1>5 DEF PutFails
<1>6. CASE PutFindsNoLease(g)
    BY <1>6 DEF PutFindsNoLease
<1>7. CASE Store(g)
  <2>1. /\ register' = TRUE /\ beats' = 1 /\ leaseId' = mine[g] /\ lapsed' = FALSE
        /\ mine' = [mine EXCEPT ![g] = NoLease]
        /\ UNCHANGED <<etcdLeases, serviceFaults, up, sig>>
      BY <1>7 DEF Store
  <2>2. pc' = [h \in Registrars |-> IF h = "main" THEN "done" ELSE "wait"]
      BY <1>7 DEF Store
  <2>3. CASE g = "main"
      BY <1>7, <2>1, <2>2, <2>3 DEF Store
  <2>4. CASE g = "beat"
      BY <1>7, <2>1, <2>2, <2>4 DEF Store
  <2> QED
      BY <2>3, <2>4
<1> QED
    BY <1>1, <1>2, <1>3, <1>4, <1>5, <1>6, <1>7 DEF Register

\* So does the end of a lease.
LEMMA LeaseStep ==
    ASSUME ServiceInv, NEW l \in leases, Expire(l) \/ LoseLease(l)
    PROVE  ServiceInv'
<1> USE RegisterAssumption
        DEF ServiceInv, ServiceTypes, OneHeartbeat, LeaseHeld, KeyHeld,
            KeyIsLeased, Registrars, NoLease, Drop, InUse, Renewed, etcdLeases,
            fields
<1>1. CASE Expire(l)
  <2>1. /\ register /\ serviceFaults = MaxServiceFaults => l # leaseId
        /\ \A g \in Registrars : l # mine[g]
      BY <1>1 DEF Expire
  <2> QED
      BY <1>1, <2>1 DEF Expire
<1>2. CASE LoseLease(l)
    BY <1>2 DEF LoseLease, ServiceFault
<1> QED
    BY <1>1, <1>2

\* Every step keeps the invariant.
LEMMA ServiceStep == ServiceInv /\ [RegisterNext]_registerVars => ServiceInv'
<1> SUFFICES ASSUME ServiceInv, [RegisterNext]_registerVars PROVE ServiceInv'
    OBVIOUS
<1> USE RegisterAssumption
        DEF ServiceInv, ServiceTypes, OneHeartbeat, LeaseHeld, KeyHeld,
            KeyIsLeased, Registrars, NoLease, Goto, ServiceFault, etcdLeases,
            fields
<1>1. CASE KeepAlive
    BY <1>1 DEF KeepAlive
<1>2. CASE KeepAliveFails
    BY <1>2 DEF KeepAliveFails
<1>3. CASE Signal
    BY <1>3 DEF Signal
<1>4. CASE Unregister
    BY <1>4 DEF Unregister
<1>5. CASE Exit \/ Crash
  <2>1. Stops
      BY <1>5 DEF Exit, Crash
  <2> QED
      BY <2>1 DEF Stops
<1>6. CASE Restart
    BY <1>6 DEF Restart, FreshProcess
<1>7. CASE UNCHANGED registerVars
    BY <1>7 DEF registerVars
<1> QED
    BY <1>1, <1>2, <1>3, <1>4, <1>5, <1>6, <1>7, RegisterStep, LeaseStep
       DEF RegisterNext, Heartbeat

-----------------------------------------------------------------------------
\* The invariant holds in every behaviour.
THEOREM ServiceInvAlways == RegisterSpec => []ServiceInv
BY ServiceInit, ServiceStep, PTL DEF RegisterSpec

\* A serving process has one heartbeat however often it has registered, and while
\* etcd does not fail it is listed under the lease that the heartbeat renews,
\* after any number of crashes, restarts and expiries of older leases.
THEOREM ServiceStaysListed == RegisterSpec => []ListedUnderItsLease
<1>1. ServiceInv => ListedUnderItsLease
    BY DEF ServiceInv, OneHeartbeat, LeaseHeld, KeyHeld, ListedUnderItsLease,
           Serving
<1> QED
    BY <1>1, ServiceInvAlways, PTL

\* Wherever the process stops between its calls of etcd, the key it leaves hangs
\* on a live lease that nobody renews.
THEOREM DeadKeyExpires == RegisterSpec => []NothingKeepsTheDead
<1>1. ServiceInv => NothingKeepsTheDead
    BY DEF ServiceInv, ServiceTypes, KeyIsLeased, NothingKeepsTheDead, InUse,
           Renewed, NoLease
<1> QED
    BY <1>1, ServiceInvAlways, PTL

-----------------------------------------------------------------------------
(***************************************************************************)
(* Both over one etcd.  To the client a change of the service's key is a   *)
(* change of its nodes, and nothing else of the service concerns it; the   *)
(* service does not notice its clients.                                    *)
(***************************************************************************)

\* A step of the composition is a step of the client or leaves it alone.
LEMMA ClientSees == [Next]_vars => [NodeManagerNext]_clientVars
<1> SUFFICES ASSUME [Next]_vars PROVE NodeManagerNext \/ UNCHANGED clientVars
    OBVIOUS
<1> DEFINE none == key' = NoLease
<1>1. CASE ServiceMoves /\ key' = key
    BY <1>1 DEF ServiceMoves, clientVars, etcdNodes, calls, watcher
<1>2. CASE ServiceMoves /\ key' # key
  <2>1. NodesChange(none)
      BY <1>2 DEF ServiceMoves
  <2>2. none \in BOOLEAN
      OBVIOUS
  <2> QED
      BY <2>1, <2>2 DEF NodeManagerNext
<1>3. CASE ClientMoves
    BY <1>3 DEF ClientMoves, NodeManagerNext
<1>4. CASE UNCHANGED vars
    BY <1>4 DEF vars, clientVars, etcdNodes, calls, watcher
<1> QED
    BY <1>1, <1>2, <1>3, <1>4 DEF Next

\* And so for the service.
LEMMA ServiceActs == [Next]_vars => [RegisterNext]_registerVars
<1> SUFFICES ASSUME [Next]_vars PROVE RegisterNext \/ UNCHANGED registerVars
    OBVIOUS
<1>1. CASE ServiceMoves
    BY <1>1 DEF ServiceMoves
<1>2. CASE ClientMoves \/ UNCHANGED vars
    BY <1>2 DEF ClientMoves, vars, registerVars, etcdLeases, fields
<1> QED
    BY <1>1, <1>2 DEF Next

\* The composition implements its two components as far as safety goes: what is
\* proved of getNodes with any etcd and of Register with any etcd holds of the two
\* with the same.
THEOREM ComponentsImplemented ==
    Spec => /\ NodeManagerInit /\ [][NodeManagerNext]_clientVars
            /\ RegisterInit /\ [][RegisterNext]_registerVars
<1>1. Init => NodeManagerInit /\ RegisterInit
    BY DEF Init, NodeManagerInit
<1> QED
    BY <1>1, ClientSees, ServiceActs, PTL DEF Spec

\* A revision at which the service has no node is one that its key's absence made.
EmptyIsUnlisted == rev \in empty <=> key = NoLease

\* What the watcher has read is what etcd holds, or an event tells of the change.
ReloadIsFresh == watch \in {"spawn", "assign"} => events \/ reload = rev

\* As long as no change was out of the client's sight, an event waits for the
\* watcher or it is about to read or to assign, or the list is what etcd holds,
\* or the first load has overwritten it or will assign what etcd holds.
NothingMissed ==
    ~unseen =>
        \/ (Watching /\ events) \/ watch \in {"get", "spawn", "assign"}
        \/ nodeList = rev
        \/ overwritten /\ nodeList # None
        \/ nodeList = None /\ \A c \in Callers : got[c] # None => got[c] = rev

\* The inductive invariant of the composition.
DiscoveryInv ==
    /\ ClientInv /\ ServiceInv /\ EmptyIsUnlisted /\ ReloadIsFresh
    /\ NothingMissed

\* The invariant holds at the start.
LEMMA DiscoveryInit == Init => DiscoveryInv
<1> SUFFICES ASSUME Init PROVE DiscoveryInv
    OBVIOUS
<1>1. NodeManagerInit /\ RegisterInit
    BY DEF Init, NodeManagerInit
<1>2. ClientInv /\ ServiceInv
    BY <1>1, ClientInvInit, ServiceInit
<1>3. EmptyIsUnlisted
    BY DEF Init, RegisterInit, EmptyIsUnlisted
<1>4. ReloadIsFresh /\ NothingMissed
    BY DEF Init, ClientInit, ReloadIsFresh, NothingMissed
<1> QED
    BY <1>2, <1>3, <1>4 DEF DiscoveryInv

\* The revisions that show no node follow the key.
LEMMA UnlistedStep ==
    ASSUME ClientInv, EmptyIsUnlisted, Next PROVE EmptyIsUnlisted'
<1>1. empty \subseteq 0..rev /\ rev \in Nat
    BY DEF ClientInv, TypeOK, Revs
<1>2. CASE ServiceMoves /\ key' = key
    BY <1>2 DEF ServiceMoves, clientVars, etcdNodes, EmptyIsUnlisted, NoLease
<1>3. CASE ServiceMoves /\ key' # key
  <2>1. /\ rev' = rev + 1
        /\ empty' = IF key' = NoLease THEN empty \cup {rev + 1} ELSE empty
      BY <1>3 DEF ServiceMoves, NodesChange
  <2>2. rev + 1 \notin empty
      BY <1>1
  <2> QED
      BY <2>1, <2>2 DEF EmptyIsUnlisted, NoLease
<1>4. CASE ClientMoves
  <2>1. key' = key
      BY <1>4 DEF ClientMoves, registerVars, etcdLeases
  <2>2. rev' = rev /\ empty' = empty
      BY <1>4
         DEF ClientMoves, ClientNext, GetNodes, Watcher, Call, Lock, Look, Get,
             GetFails, Test, Spawn, Assign, Check, Return, CacheTimePasses,
             Watch, WatchFails, TakeEvent, Reload, ReloadFails,
             ReloadFindsWatched, ReloadAssign, etcdNodes
  <2> QED
      BY <2>1, <2>2 DEF EmptyIsUnlisted, NoLease
<1> QED
    BY <1>2, <1>3, <1>4 DEF Next

\* What becomes of unseen: only a Get of a caller or of the watcher takes it back.
LEMMA UnseenStays ==
    ASSUME ClientMoves, ~Reads, ~unseen'
    PROVE  /\ ~unseen /\ ~(events /\ watch' = "open")
           /\ ~(watch = "get" /\ watch' = "range")
BY Zenon DEF ClientMoves, Sees

\* An event is taken back only where the watcher is about to read.
LEMMA ReloadStaysFresh ==
    ASSUME ReloadIsFresh, Next PROVE ReloadIsFresh'
<1> USE DEF ReloadIsFresh, etcdNodes, calls, watcher
<1>1. CASE ServiceMoves
    BY <1>1 DEF ServiceMoves, NodesChange, Watching, clientVars
<1>2. CASE ClientMoves
  <2>1. CASE Watcher \/ WatchFails \/ CacheTimePasses
      BY <2>1 DEF Watcher, Watch, WatchFails, TakeEvent, Reload, ReloadFails,
                  ReloadFindsWatched, ReloadAssign, CacheTimePasses
  <2>2. ASSUME NEW c \in Callers, Call(c) \/ GetNodes(c) PROVE ReloadIsFresh'
      BY <2>2 DEF GetNodes, Call, Lock, Look, Get, GetFails, Test, Spawn,
                  Assign, Check, Return
  <2> QED
      BY <1>2, <2>1, <2>2 DEF ClientMoves, ClientNext
<1> QED
    BY <1>1, <1>2 DEF Next

\* A change of the key that the client could not see is noted; any other comes
\* before its first read or leaves an event for the watcher.
LEMMA ChangeIsNoticed ==
    ASSUME NothingMissed, ServiceMoves PROVE NothingMissed'
<1>1. CASE key' = key
    BY Zenon, <1>1 DEF ServiceMoves, clientVars, etcdNodes, calls, watcher,
                       NothingMissed, Watching
<1>2. CASE key' # key
  <2>1. UNCHANGED <<nodeList, got, watch>> /\ events' = (events \/ Watching)
      BY <1>2 DEF ServiceMoves, NodesChange, calls
  <2>2. ~unseen' => ~HasRead \/ Watching
      BY <1>2 DEF ServiceMoves
  <2> QED
      BY <2>1, <2>2 DEF NothingMissed, Watching, HasRead
<1> QED
    BY <1>1, <1>2

\* A caller of getNodes: a list is read only when there is none, and what is
\* assigned is the newest one, or a reload is overwritten or will follow.
LEMMA CallerMisses ==
    ASSUME ClientInv, NothingMissed, ClientMoves, NEW c \in Callers,
           Call(c) \/ GetNodes(c)
    PROVE  NothingMissed'
<1> USE DEF Moves, etcdNodes, calls, watcher
<1>0. /\ caller \in [Callers -> {"idle", "lock", "look", "get", "test", "spawn",
                                "assign", "check", "return", "error"}]
      /\ got \in [Callers -> 0..rev \cup {None}]
      /\ rev \in Nat /\ None \notin Nat /\ nodeList \in 0..rev \cup {None}
    BY NodeManagerAssumption DEF ClientInv, TypeOK, Revs
<1>1. CASE Get(c)
  <2>1. /\ caller[c] = "get" /\ got' = [got EXCEPT ![c] = rev] /\ rev' = rev
        /\ nodeList' = nodeList
      BY <1>1 DEF Get
  <2>2. nodeList = None
      BY <2>1 DEF ClientInv, LoadOnce
  <2>3. \A d \in Callers \ {c} : got[d] = None
      BY <2>1 DEF ClientInv, MutexHeld, Inside, GotUnassigned
  <2> QED
      BY <1>0, <2>1, <2>2, <2>3 DEF NothingMissed
<1>2. CASE ~Get(c)
  <2>1. watch' = watch \/ Spawn(c)
      BY <1>2 DEF GetNodes, Call, Lock, Look, GetFails, Test, Spawn, Assign,
                  Check, Return
  <2>2. /\ ~ \E d \in Callers : caller[d] = "get" /\ caller'[d] = "test"
        /\ Spawn(c) => watch' = "open"
      BY <1>0, <1>2 DEF GetNodes, Call, Lock, Look, GetFails, Test, Spawn,
                        Assign, Check, Return
  <2>3. ~Reads
      BY <2>1, <2>2 DEF Reads
  <2>4. ~unseen' => ~unseen
      BY <2>3, UnseenStays
  <2>5. CASE Spawn(c)
    <3>1. caller[c] = "spawn" /\ UNCHANGED <<rev, nodeList, got>>
        BY <2>5 DEF Spawn
    <3>2. nodeList = None /\ watch = "none"
        BY <3>1 DEF ClientInv, LoadOnce, FlagIsTrue
    <3>3. rev # None
        BY <1>0
    <3> QED
        BY <2>4, <3>1, <3>2, <3>3 DEF NothingMissed, Watching
  <2>6. CASE Assign(c)
    <3>1. /\ caller[c] = "assign" /\ nodeList' = got[c]
          /\ UNCHANGED <<rev, watch, events>>
        BY <2>6 DEF Assign
    <3>2. got[c] # None /\ got[c] \in 0..rev
        BY <1>0, <3>1 DEF ClientInv, GotUnassigned
    <3>3. nodeList # None /\ got[c] < nodeList => overwritten'
      <4> SUFFICES ASSUME nodeList # None, got[c] < nodeList PROVE overwritten'
          OBVIOUS
      <4>1. Overwrites /\ ~ReloadAssign
          BY <2>6, <3>1 DEF Overwrites, ReloadAssign
      <4> QED
          BY Zenon, <4>1 DEF ClientMoves
    <3>4. overwritten => overwritten'
      <4>1. ~ReloadAssign
          BY <3>1 DEF ReloadAssign
      <4> QED
          BY Zenon, <4>1 DEF ClientMoves
    <3>5. nodeList = rev => overwritten' \/ got[c] = rev
        BY <1>0, <3>2, <3>3
    <3> QED
        BY <2>4, <3>1, <3>2, <3>4, <3>5 DEF NothingMissed, Watching
  <2>7. CASE ~Spawn(c) /\ ~Assign(c)
    <3>1. UNCHANGED <<rev, nodeList, got, watch, events>>
        BY <1>2, <2>7 DEF GetNodes, Call, Lock, Look, GetFails, Test, Check,
                          Return
    <3>2. overwritten' = overwritten
      <4>1. ~ReloadAssign
          BY <3>1 DEF ReloadAssign
      <4>2. \A d \in Callers : ~(Assign(d) /\ nodeList # None)
        <5> SUFFICES ASSUME NEW d \in Callers, Assign(d), nodeList # None
                     PROVE FALSE
            OBVIOUS
        <5>1. caller[d] = "assign" /\ got' = [got EXCEPT ![d] = None]
            BY DEF Assign
        <5>2. got[d] # None
            BY <5>1 DEF ClientInv, GotUnassigned
        <5> QED
            BY <1>0, <3>1, <5>1, <5>2
      <4> QED
          BY Zenon, <4>1, <4>2 DEF ClientMoves, Overwrites
    <3> QED
        BY <2>4, <3>1, <3>2 DEF NothingMissed, Watching
  <2> QED
      BY <2>5, <2>6, <2>7
<1> QED
    BY <1>1, <1>2

\* The watching goroutine: it takes an event only to read again.
LEMMA WatcherMisses ==
    ASSUME ClientInv, ReloadIsFresh, NothingMissed, ClientMoves,
           Watcher \/ WatchFails
    PROVE  NothingMissed'
<1> USE DEF etcdNodes, calls
<1>1. UNCHANGED <<rev, got, caller>>
    BY DEF Watcher, Watch, WatchFails, TakeEvent, Reload, ReloadFails,
           ReloadFindsWatched, ReloadAssign
<1>2. CASE watch' \in {"get", "spawn", "assign"}
    BY <1>2 DEF NothingMissed
<1>3. CASE ReloadAssign
  <2>1. watch = "assign" /\ watch' = "range" /\ nodeList' = reload
        /\ events' = events
      BY <1>3 DEF ReloadAssign
  <2> QED
      BY <1>1, <2>1 DEF ReloadIsFresh, NothingMissed, Watching
<1>4. CASE Watch \/ WatchFails \/ ReloadFails
  <2>1. /\ nodeList' = nodeList /\ watch' # "spawn"
        /\ \/ watch = "open" /\ watch' = "range"
           \/ watch = "range" /\ watch' = "open"
           \/ watch = "get" /\ watch' = "range"
      BY <1>4 DEF Watch, WatchFails, ReloadFails
  <2>2. ~Reads
      BY <1>1, <2>1 DEF Reads
  <2>3. ~unseen' => /\ ~unseen /\ ~(events /\ watch' = "open")
                    /\ ~(watch = "get" /\ watch' = "range")
      BY <2>2, UnseenStays
  <2>4. overwritten' = overwritten
    <3>1. ~ReloadAssign
        BY <2>1 DEF ReloadAssign
    <3>2. \A d \in Callers : ~Assign(d)
        BY <2>1 DEF Assign, watcher
    <3> QED
        BY Zenon, <3>1, <3>2 DEF ClientMoves, Overwrites
  <2> QED
      BY <1>1, <2>1, <2>3, <2>4 DEF NothingMissed, Watching
<1> QED
    BY <1>2, <1>3, <1>4
       DEF Watcher, TakeEvent, Reload, ReloadFindsWatched

\* Every step of the composition keeps the invariant.
LEMMA DiscoveryStep == DiscoveryInv /\ [Next]_vars => DiscoveryInv'
<1> SUFFICES ASSUME DiscoveryInv, [Next]_vars PROVE DiscoveryInv'
    OBVIOUS
<1>1. /\ ClientInv /\ ServiceInv /\ EmptyIsUnlisted
      /\ ReloadIsFresh /\ NothingMissed
    BY DEF DiscoveryInv
<1>2. ClientInv' /\ ServiceInv'
    BY <1>1, ClientSees, ClientStep, ServiceActs, ServiceStep
<1>3. ASSUME Next PROVE EmptyIsUnlisted' /\ ReloadIsFresh'
    BY <1>1, <1>3, UnlistedStep, ReloadStaysFresh
<1>4. ASSUME ServiceMoves PROVE NothingMissed'
    BY <1>1, <1>4, ChangeIsNoticed
<1>5. ASSUME ClientMoves PROVE NothingMissed'
  <2>1. ASSUME NEW c \in Callers, Call(c) \/ GetNodes(c)
        PROVE  NothingMissed'
      BY <1>1, <1>5, <2>1, CallerMisses
  <2>2. ASSUME Watcher \/ WatchFails PROVE NothingMissed'
      BY <1>1, <1>5, <2>2, WatcherMisses
  <2>3. ASSUME CacheTimePasses PROVE NothingMissed'
    <3>1. UNCHANGED <<rev, nodeList, got, caller, watch, events>>
        BY <2>3 DEF CacheTimePasses, etcdNodes, calls, watcher
    <3>2. ~Reads
        BY <3>1 DEF Reads
    <3>3. ~unseen' => ~unseen
        BY <1>5, <3>2, UnseenStays
    <3>4. overwritten' = overwritten
      <4>1. ~ReloadAssign
          BY <3>1 DEF ReloadAssign
      <4>2. \A d \in Callers : ~Assign(d)
        <5> SUFFICES ASSUME NEW d \in Callers, Assign(d) PROVE FALSE
            OBVIOUS
        <5>1. caller \in [Callers -> {"idle", "lock", "look", "get", "test",
                            "spawn", "assign", "check", "return", "error"}]
            BY <1>1 DEF ClientInv, TypeOK
        <5> QED
            BY <3>1, <5>1 DEF Assign, Moves
      <4> QED
          BY Zenon, <1>5, <4>1, <4>2 DEF ClientMoves, Overwrites
    <3> QED
        BY <1>1, <3>1, <3>3, <3>4 DEF NothingMissed, Watching
  <2> QED
      BY <1>5, <2>1, <2>2, <2>3 DEF ClientMoves, ClientNext
<1>6. ASSUME UNCHANGED vars
      PROVE  EmptyIsUnlisted' /\ ReloadIsFresh' /\ NothingMissed'
  <2>1. /\ UNCHANGED <<key, rev, empty, nodeList, got, watch, reload>>
        /\ UNCHANGED <<events, unseen, overwritten>>
      BY <1>6 DEF vars, registerVars, etcdLeases, clientVars, etcdNodes, calls,
                  watcher
  <2>2. EmptyIsUnlisted' /\ ReloadIsFresh'
      BY <1>1, <2>1 DEF EmptyIsUnlisted, NoLease, ReloadIsFresh
  <2>3. NothingMissed'
      BY Zenon, <1>1, <2>1 DEF NothingMissed, Watching
  <2> QED
      BY <2>2, <2>3
<1> QED
    BY <1>2, <1>3, <1>4, <1>5, <1>6 DEF DiscoveryInv, Next

\* The invariant holds in every behaviour.
THEOREM DiscoveryInvAlways == Spec => []DiscoveryInv
BY DiscoveryInit, DiscoveryStep, PTL DEF Spec

\* Whenever the watch is quiet the client's list tells whether the service is
\* registered: the events that the watcher takes and its unlocked reloads leave no
\* change of the key behind.  What can is named: a change while no watch is open
\* behind the first read, a reload that fails, and the first load's older list over
\* that of a reload.
THEOREM ListAlwaysTrue == Spec => []ListIsTrue
<1>1. DiscoveryInv => ListIsTrue
    BY DEF DiscoveryInv, EmptyIsUnlisted, NothingMissed, ListIsTrue, Found
<1> QED
    BY <1>1, DiscoveryInvAlways, PTL
==============================================================================
