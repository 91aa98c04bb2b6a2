---------------------------- MODULE ServiceRegister ----------------------------
(***************************************************************************)
(* One service's node key in etcd, the ServiceRegister of the process that *)
(* serves it, and that process: the goroutine of StartAndWait that         *)
(* registers, the heartbeat goroutine, which registers again when it       *)
(* cannot renew its lease, and the signal handler, which deletes the key   *)
(* and exits.  The process may also crash, and be started again.           *)
(*                                                                         *)
(* etcd is external: a key put with a lease goes when the lease expires.   *)
(* Leases are numbered as they are granted; key is the lease the node key  *)
(* hangs on, 0 when there is no key.  A lease of 10 s that is renewed      *)
(* every 5 s expires only after a renewal has failed or a fault has kept   *)
(* it from etcd; all other leases expire at some time.                     *)
(***************************************************************************)
EXTENDS Integers

(* An operator that stands just before the definition it resembles is a bug
   that definition could have, used to test that a property notices it. *)

CONSTANTS
    MaxServiceFaults,  \* bound on the calls of etcd that fail
    MaxStarts          \* bound on the starts of the process

ASSUME RegisterAssumption == MaxServiceFaults \in Nat /\ MaxStarts \in Nat \ {0}

VARIABLES
    key,           \* etcd: the node key
    leases,        \* etcd: the live leases
    granted,       \* etcd: how many leases were granted
    serviceFaults, \* faults that may still happen
    up,            \* is the process running?
    starts,        \* how often it was started
    leaseId,       \* ServiceRegister.leaseId
    register,      \* ServiceRegister.register
    beats,         \* heartbeat goroutines started by the process
    lapsed,        \* has a renewal failed since the last one that succeeded?
    pc,            \* where the goroutines of the process stand
    mine,          \* mine[g]: lresp.ID
    sig            \* where the signal handler stands

etcdLeases == <<key, leases, granted>>
fields == <<leaseId, register, beats, lapsed>>
registerVars == <<etcdLeases, serviceFaults, up, starts, fields, pc, mine, sig>>

-----------------------------------------------------------------------------
Registrars == {"main", "beat"}
NoLease == 0

\* NewServiceRegister, and Register is called.
FreshProcess ==
    /\ up' = TRUE
    /\ leaseId' = NoLease /\ register' = FALSE /\ beats' = 0 /\ lapsed' = FALSE
    /\ pc' = [g \in Registrars |-> IF g = "main" THEN "delete" ELSE "none"]
    /\ mine' = [g \in Registrars |-> NoLease]
    /\ sig' = "none"

RegisterInit ==
    /\ key = NoLease /\ leases = {} /\ granted = 0
    /\ serviceFaults = MaxServiceFaults
    /\ up = TRUE /\ starts = 1
    /\ leaseId = NoLease /\ register = FALSE /\ beats = 0 /\ lapsed = FALSE
    /\ pc = [g \in Registrars |-> IF g = "main" THEN "delete" ELSE "none"]
    /\ mine = [g \in Registrars |-> NoLease]
    /\ sig = "none"

-----------------------------------------------------------------------------
(***************************************************************************)
(* Register, run by the goroutine of StartAndWait or by the heartbeat.     *)
(***************************************************************************)

\* Back from Register: the heartbeat waits for its next tick, the goroutine of
\* StartAndWait is done, whether Register has failed or not.
Back(g) == IF g = "beat" THEN "wait" ELSE "done"

Goto(g, label) == pc' = [pc EXCEPT ![g] = label]

ServiceFault == serviceFaults > 0 /\ serviceFaults' = serviceFaults - 1

\* The error of Unregister is not looked at: a Delete that reports a failure
\* may or may not have happened.
Delete(g) ==
    /\ pc[g] = "delete"
    /\ \/ key' = NoLease /\ UNCHANGED serviceFaults
       \/ ServiceFault /\ UNCHANGED key
    /\ Goto(g, "grant")
    /\ UNCHANGED <<leases, granted, up, starts, fields, mine, sig>>

Grant(g) ==
    /\ pc[g] = "grant"
    /\ granted' = granted + 1
    /\ leases' = leases \cup {granted + 1}
    /\ mine' = [mine EXCEPT ![g] = granted + 1]
    /\ Goto(g, "put")
    /\ UNCHANGED <<key, serviceFaults, up, starts, fields, sig>>

GrantFails(g) ==
    /\ pc[g] = "grant"
    /\ ServiceFault
    /\ Goto(g, Back(g))
    /\ UNCHANGED <<etcdLeases, up, starts, fields, mine, sig>>

PutUnleased(g) ==
    /\ pc[g] = "put"
    /\ mine[g] \in leases
    /\ key' = -1
    /\ Goto(g, "store")
    /\ UNCHANGED <<leases, granted, serviceFaults, up, starts, fields, mine,
                   sig>>

Put(g) ==
    /\ pc[g] = "put"
    /\ mine[g] \in leases
    /\ key' = mine[g]
    /\ Goto(g, "store")
    /\ UNCHANGED <<leases, granted, serviceFaults, up, starts, fields, mine,
                   sig>>

\* The Put fails, or it happens and its answer is lost.
PutFails(g) ==
    /\ pc[g] = "put"
    /\ ServiceFault
    /\ key' \in {key} \cup ({mine[g]} \cap leases)
    /\ mine' = [mine EXCEPT ![g] = NoLease]
    /\ Goto(g, Back(g))
    /\ UNCHANGED <<leases, granted, up, starts, fields, sig>>

StoreForgetsLease(g) ==
    /\ pc[g] = "store"
    /\ beats' = IF register THEN beats ELSE beats + 1
    /\ pc' = [pc EXCEPT ![g] = Back(g), !["beat"] = "wait"]
    /\ register' = TRUE
    /\ lapsed' = FALSE
    /\ mine' = [mine EXCEPT ![g] = NoLease]
    /\ UNCHANGED <<etcdLeases, serviceFaults, up, starts, leaseId, sig>>

\* leaseId is set, and unless there is a heartbeat one is started.
Store(g) ==
    /\ pc[g] = "store"
    /\ leaseId' = mine[g]
    /\ beats' = IF register THEN beats ELSE beats + 1
    /\ pc' = [pc EXCEPT ![g] = Back(g), !["beat"] = "wait"]
    /\ register' = TRUE
    /\ lapsed' = FALSE
    /\ mine' = [mine EXCEPT ![g] = NoLease]
    /\ UNCHANGED <<etcdLeases, serviceFaults, up, starts, sig>>

-----------------------------------------------------------------------------
(***************************************************************************)
(* The heartbeat: every tick renews the lease or registers again.          *)
(***************************************************************************)

KeepAlive ==
    /\ pc["beat"] = "wait"
    /\ leaseId \in leases
    /\ lapsed' = FALSE
    /\ UNCHANGED <<etcdLeases, serviceFaults, up, starts, leaseId, register,
                   beats, pc, mine, sig>>

KeepAliveFailsLogs ==
    /\ pc["beat"] = "wait"
    /\ lapsed' = TRUE
    /\ \/ leaseId \notin leases /\ UNCHANGED serviceFaults
       \/ leaseId \in leases /\ ServiceFault
    /\ UNCHANGED <<etcdLeases, up, starts, leaseId, register, beats, pc, mine,
                   sig>>

\* The lease is gone, or etcd did not answer in time.
KeepAliveFails ==
    /\ pc["beat"] = "wait"
    /\ lapsed' = TRUE
    /\ \/ leaseId \notin leases /\ UNCHANGED serviceFaults
       \/ leaseId \in leases /\ ServiceFault
    /\ Goto("beat", "delete")
    /\ UNCHANGED <<etcdLeases, up, starts, leaseId, register, beats, mine, sig>>

-----------------------------------------------------------------------------
(***************************************************************************)
(* The process: a signal, the handler's Unregister with a client of its    *)
(* own, os.Exit; or a crash; and a new start.                              *)
(***************************************************************************)

Signal ==
    /\ up /\ sig = "none"
    /\ sig' = "delete"
    /\ UNCHANGED <<etcdLeases, serviceFaults, up, starts, fields, pc, mine>>

Unregister ==
    /\ sig = "delete"
    /\ \/ key' = NoLease /\ UNCHANGED serviceFaults
       \/ ServiceFault /\ UNCHANGED key
    /\ sig' = "exit"
    /\ UNCHANGED <<leases, granted, up, starts, fields, pc, mine>>

Stops ==
    /\ up' = FALSE
    /\ leaseId' = NoLease /\ register' = FALSE /\ beats' = 0 /\ lapsed' = FALSE
    /\ pc' = [g \in Registrars |-> "none"]
    /\ mine' = [g \in Registrars |-> NoLease]
    /\ sig' = "none"
    /\ UNCHANGED <<etcdLeases, serviceFaults, starts>>

Exit == sig = "exit" /\ Stops

Crash == up /\ sig = "none" /\ Stops

Restart ==
    /\ ~up /\ starts < MaxStarts
    /\ starts' = starts + 1
    /\ FreshProcess
    /\ UNCHANGED <<etcdLeases, serviceFaults>>

-----------------------------------------------------------------------------
Renewed == up /\ ~lapsed /\ leaseId # NoLease

\* The leases that the process has just been granted or renews in time.
InUse == {mine[g] : g \in Registrars} \cup (IF Renewed THEN {leaseId} ELSE {})

Drop(l) ==
    /\ leases' = leases \ {l}
    /\ key' = IF key = l THEN NoLease ELSE key

Expire(l) ==
    /\ l \in leases \ InUse
    /\ Drop(l)
    /\ UNCHANGED <<granted, serviceFaults, up, starts, fields, pc, mine, sig>>

\* A partition or a long pause: even a lease in use expires.
LoseLease(l) ==
    /\ l \in leases \cap InUse
    /\ ServiceFault
    /\ Drop(l)
    /\ UNCHANGED <<granted, up, starts, fields, pc, mine, sig>>

\* A lease lost between Grant and Put.
PutFindsNoLease(g) ==
    /\ pc[g] = "put"
    /\ mine[g] \notin leases
    /\ mine' = [mine EXCEPT ![g] = NoLease]
    /\ Goto(g, Back(g))
    /\ UNCHANGED <<etcdLeases, serviceFaults, up, starts, fields, sig>>

Register(g) ==
    \/ Delete(g) \/ Grant(g) \/ GrantFails(g) \/ Put(g) \/ PutFails(g)
    \/ PutFindsNoLease(g) \/ Store(g)

Heartbeat == KeepAlive \/ KeepAliveFails

RegisterNext ==
    \/ \E g \in Registrars : Register(g)
    \/ Heartbeat
    \/ Signal \/ Unregister \/ Exit \/ Crash \/ Restart
    \/ \E l \in leases : Expire(l) \/ LoseLease(l)

\* Goroutines run, etcd's calls end, the ticker ticks, and a lease nobody renews
\* expires.  A tick that has nothing to repair need not fail, and nobody has to
\* signal, crash or restart the process.
RegisterFairness ==
    /\ \A g \in Registrars : WF_registerVars(Register(g))
    /\ WF_registerVars((lapsed \/ leaseId \notin leases) /\ Heartbeat)
    /\ WF_registerVars(Unregister \/ Exit)
    /\ WF_registerVars(\E l \in leases : Expire(l))

RegisterSpec ==
    RegisterInit /\ [][RegisterNext]_registerVars /\ RegisterFairness

-----------------------------------------------------------------------------
Serving == up /\ register /\ sig = "none"

\* A service that has registered, however often, has one heartbeat, and as long
\* as etcd does not fail it is listed under the lease that the heartbeat renews,
\* after any number of crashes and restarts and whenever the leases of former
\* processes expire.
ListedUnderItsLease ==
    Serving =>
        /\ beats = 1
        /\ serviceFaults = MaxServiceFaults => key = leaseId /\ leaseId \in leases

\* A heartbeat that has lost its lease puts the service back on the list.
LeaseRecovers ==
    Serving /\ leaseId \notin leases ~> key # NoLease \/ ~Serving
=============================================================================
