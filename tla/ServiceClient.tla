----------------------------- MODULE ServiceClient -----------------------------
(***************************************************************************)
(* One ServiceClient: RequestAsyncWithHead takes a node from the balancer  *)
(* and opens a session on it.  The sessions count on Node.Active, which    *)
(* the balancer of the next request compares: SessionManager and           *)
(* LoadBalancer work here on the same nodes.                               *)
(***************************************************************************)
EXTENDS SessionManager, LoadBalancer

\* The bound on the loads leaves room for every session.
ASSUME ClientAssumption == MaxSeq <= MaxActive

VARIABLES
    chosen,  \* chosen[c]: node, the local of RequestAsyncWithHead, or None
    making   \* making[c]: the seq of the session c has opened last, or 0

vars == <<sessionVars, balancerVars, chosen, making>>

Init ==
    /\ SessionInit /\ BalancerInit
    /\ chosen = [c \in Callers |-> None]
    /\ making = [c \in Callers |-> 0]

-----------------------------------------------------------------------------
\* c is not in RequestAsyncWithHead, behind GetNode: it has returned, or a
\* panic of Send has ended it and its application recovered.
Free(c) ==
    /\ chosen[c] = None
    /\ making[c] # 0 =>
          caller[making[c]] \notin {"encode", "send", "spawn", "failing"}

\* SetNodes and GetNode; without a node the request ends in an error.
PickNode(c) ==
    /\ req[c].pc = "idle" => Free(c)
    /\ Choosing(c)
    /\ chosen' = IF req[c].pc # "idle" /\ req'[c].pc = "idle"
                 THEN [chosen EXCEPT ![c] = picked']
                 ELSE chosen
    /\ UNCHANGED <<sessionVars, making>>

\* The pool has no connection to the node: the request ends in an error.
AcquireFails(c) ==
    /\ chosen[c] # None
    /\ chosen' = [chosen EXCEPT ![c] = None]
    /\ UNCHANGED <<sessionVars, balancerVars, making>>

OpenSession(c) ==
    /\ chosen[c] # None /\ seq < MaxSeq
    /\ InitSession(seq + 1, chosen[c])
    /\ LoadChanges(chosen[c], active[chosen[c]] + 1)
    /\ chosen' = [chosen EXCEPT ![c] = None]
    /\ making' = [making EXCEPT ![c] = seq + 1]

\* A session that is open goes on; its end takes a load from its node.
SessionMoves ==
    /\ SessionNext /\ seq' = seq
    /\ \/ active' = active /\ UNCHANGED <<nodeList, lbSeq, req, picked, turn>>
       \/ \E n \in Nodes : LoadChanges(n, active[n] - 1)
    /\ UNCHANGED <<chosen, making>>

Next ==
    \/ \E c \in Callers : PickNode(c) \/ AcquireFails(c) \/ OpenSession(c)
    \/ SessionMoves

Spec == Init /\ [][Next]_vars

-----------------------------------------------------------------------------
HasFewest(n) ==
    \A m \in ToSet(nodeList) : Cardinality(OpenOn(n)) <= Cardinality(OpenOn(m))

\* LB_ACTIVE sends a request to a node with the fewest open sessions of this
\* client, or round robin chooses because the last node has the fewest: the
\* loads compared are never those of sessions that are over.
FewestSessions ==
    [][\A c \in Callers :
          PicksAlone(c, "ACTIVE") =>
              HasFewest(picked') \/ HasFewest(Last(nodeList))]_vars
=============================================================================
