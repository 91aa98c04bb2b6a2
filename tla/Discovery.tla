------------------------------- MODULE Discovery -------------------------------
(***************************************************************************)
(* From the process that serves to the list that a client's requests get:  *)
(* one ServiceRegister and one NodeManager over the same etcd.  Every      *)
(* change of the service's key is a revision of the key range that the     *)
(* client loads and watches; a Put or an expiring lease reaches the client *)
(* as an event, if its watch is open.                                      *)
(***************************************************************************)
EXTENDS NodeManager, ServiceRegister

VARIABLES
    unseen,      \* auxiliary: has etcd changed where no watch reports it?
    overwritten  \* auxiliary: has a first load replaced the list of a reload?

vars == <<registerVars, clientVars, unseen, overwritten>>

-----------------------------------------------------------------------------
Init ==
    /\ RegisterInit
    /\ rev = 0 /\ empty = {0} /\ ClientInit
    /\ unseen = FALSE /\ overwritten = FALSE

\* The client has a list, or will have the one that a caller has read.
HasRead == nodeList # None \/ \E c \in Callers : got[c] # None

\* Of a change behind its first read the client hears by its watch alone.
ServiceMoves ==
    /\ RegisterNext
    /\ IF key' = key
       THEN UNCHANGED <<clientVars, unseen>>
       ELSE /\ NodesChange(key' = NoLease)
            /\ unseen' = (unseen \/ (HasRead /\ ~Watching))
    /\ UNCHANGED overwritten

Reads ==
    \/ \E c \in Callers : caller[c] = "get" /\ caller'[c] = "test"
    \/ watch = "get" /\ watch' = "spawn"

\* A list that is read shows all changes; a reload that fails shows none, and a
\* watch that breaks takes its events with it.
Sees ==
    unseen' = CASE Reads -> FALSE
                [] watch = "get" /\ watch' = "range" -> TRUE
                [] OTHER -> unseen \/ (events /\ watch' = "open")

\* The list that a caller assigns is older than the watcher's.
Overwrites ==
    \E c \in Callers : Assign(c) /\ nodeList # None /\ got[c] < nodeList

ClientMoves ==
    /\ ClientNext
    /\ Sees
    /\ overwritten' = CASE Overwrites -> TRUE
                        [] ReloadAssign -> FALSE
                        [] OTHER -> overwritten
    /\ UNCHANGED registerVars

Next == ServiceMoves \/ ClientMoves

Spec == Init /\ [][Next]_vars /\ RegisterFairness /\ ClientFairness

-----------------------------------------------------------------------------
\* The list that every request of the client is given.
Found == nodeList # None /\ nodeList \notin empty

\* Whenever the client's watch is quiet its list tells whether the service is
\* registered: the change of its key is in the list that is read or still to come
\* as an event, however the loads, the unlocked reloads and the registrations of
\* new and old processes cross.  The exceptions are a change that no watch reports
\* (between the first read and the watch, or beside a broken one), a reload that
\* fails, and a reload whose list the first load overwrites with its older one.
ListIsTrue ==
    /\ nodeList # None
    /\ watch = "range" /\ ~events /\ ~unseen /\ ~overwritten
    => (Found <=> key # NoLease)

\* A service that has registered and goes on serving without a failing call is
\* in the list of every request in the end, after any crashes and restarts,
\* whenever the leases of its former processes expire and even if the client's
\* first load fails; with the exceptions of ListIsTrue.
ServedIsFound ==
    <>[](Serving /\ serviceFaults = MaxServiceFaults)
        => <>[](Found \/ unseen \/ overwritten)

\* A service that has stopped or crashed, whatever its calls and heartbeat did
\* before, is in no request's list in the end, with the same exceptions.
DeadIsDropped == <>[]~up => <>[](~Found \/ unseen \/ overwritten)
=============================================================================
