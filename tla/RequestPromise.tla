---------------------------- MODULE RequestPromise ----------------------------
(***************************************************************************)
(* What a ServiceClient promises for every request, without sessions,      *)
(* locks, timers or workers: a request begins on a node, its caller may    *)
(* listen for the outcome, a listening caller gets exactly one outcome,    *)
(* and only then does the request stop counting as load of its node.       *)
(***************************************************************************)
EXTENDS Integers

CONSTANTS Ids, Nodes, None

VARIABLES
    status,  \* status[i]: how far request i has come
    loaded,  \* the requests that count as load
    target,  \* target[i]: the node request i was sent to
    load     \* load[n]: the load of node n

vars == <<status, loaded, target, load>>

Outcomes == {"answered", "timedout"}

Init ==
    /\ status = [i \in Ids |-> "unborn"]
    /\ loaded = {}
    /\ target = [i \in Ids |-> None]
    /\ load = [n \in Nodes |-> 0]

Begin(i, n) ==
    /\ status[i] = "unborn"
    /\ status' = [status EXCEPT ![i] = "pending"]
    /\ loaded' = loaded \cup {i}
    /\ target' = [target EXCEPT ![i] = n]
    /\ load' = [load EXCEPT ![n] = @ + 1]

Listen(i) ==
    /\ status[i] = "pending"
    /\ status' = [status EXCEPT ![i] = "listening"]
    /\ UNCHANGED <<loaded, target, load>>

Resolve(i) ==
    /\ status[i] = "listening"
    /\ \E r \in Outcomes : status' = [status EXCEPT ![i] = r]
    /\ UNCHANGED <<loaded, target, load>>

Retire(i) ==
    /\ status[i] \in Outcomes
    /\ i \in loaded
    /\ loaded' = loaded \ {i}
    /\ load' = [load EXCEPT ![target[i]] = @ - 1]
    /\ UNCHANGED <<status, target>>

Next ==
    \E i \in Ids :
        \/ \E n \in Nodes : Begin(i, n)
        \/ Listen(i) \/ Resolve(i) \/ Retire(i)

\* The safety half, without the duty to resolve.
Safety == Init /\ [][Next]_vars

Spec ==
    /\ Safety
    /\ \A i \in Ids : WF_vars(Resolve(i)) /\ WF_vars(Retire(i))
=============================================================================
