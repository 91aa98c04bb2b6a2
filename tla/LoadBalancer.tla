------------------------------ MODULE LoadBalancer ------------------------------
(***************************************************************************)
(* The LoadBalancer of one ServiceClient.  Every request first stores the  *)
(* node list it was given (SetNodes) and then picks from the stored list   *)
(* (GetNode).  Requests of several goroutines share the balancer without a *)
(* lock, so the list, its length and seq are read and written in steps of  *)
(* their own; another request may replace the list between any two.        *)
(*                                                                         *)
(* Indices count from 0, as in the code: At(i) is lb.nodeList[i].          *)
(***************************************************************************)
EXTENDS ServiceNode, Integers, FiniteSets, SequencesExt

(* An operator that stands just before the definition it resembles is a bug
   that definition could have, used to test that a property notices it. *)

CONSTANTS
    Callers,     \* goroutines that make requests
    Lists,       \* the node lists that getNodes returns
    Policies,    \* the loadBalanceType arguments, named as in the code
    Hashes,      \* values of hashKey
    Weight,      \* Weight[n]: Node.Weight
    MaxActive,   \* bound on Node.Active
    Period       \* seq is counted modulo Period

ASSUME BalancerAssumption ==
    /\ \A l \in Lists : l \in Seq(Nodes)
    /\ Policies \subseteq {"ACTIVE", "RANDOM", "HASH", "ROUND_ROBIN",
                           "RANDOM_WEIGHT"}
    /\ Hashes \subseteq Nat /\ MaxActive \in Nat
    /\ Weight \in [Nodes -> Nat]
    /\ Period \in Nat \ {0} /\ \A l \in Lists \ {<<>>} : Period % Len(l) = 0
    /\ None \notin Nodes \cup {"ROUND_ROBIN"}

VARIABLES
    nodeList,  \* LoadBalancer.nodeList
    lbSeq,     \* LoadBalancer.seq, modulo Period
    req,       \* req[c]: the locals of c's request
    picked,    \* the node GetNode has returned, or None: the callers have read it
    turn       \* the node the last turn fell on, or None where that is not
               \* settled or the list is another now: no part of the code

balancerVars == <<nodeList, lbSeq, active, req, picked, turn>>

-----------------------------------------------------------------------------
\* The weight of the first k nodes of l: each has as many lots as it weighs.
Lots(l, k) == UNION {{i} \X (1..Weight[l[i]]) : i \in 1..k}
Total(l, k) == Cardinality(Lots(l, k))

\* Labels are named for the next statement.  A policy labels the function that
\* implements it.  "sum" is total and then random, "drawn" the value random
\* started from, "tmp" the seq that seq++ has read.  The last five are no part of
\* the code: the length of the list that the request has stored, whether another
\* request has since stored one of a different length, whether no other request
\* and no change of a load has met it, and the policy it asked for and came to.
Fresh == [pc |-> "idle", len |-> 0, i |-> 0, index |-> 0, least |-> 0,
          sum |-> 0, drawn |-> 0, tmp |-> 0, given |-> 0, resized |-> FALSE,
          alone |-> FALSE, asked |-> None, by |-> None]

BalancerInit ==
    /\ nodeList = <<>> /\ lbSeq = 0
    /\ active \in [Nodes -> 0..MaxActive]
    /\ req = [c \in Callers |-> Fresh]
    /\ picked = None /\ turn = None

-----------------------------------------------------------------------------
At(i) == nodeList[i + 1]
Has(i) == i < Len(nodeList)

\* r with the locals forgotten that its function has no more use for.
Done(r) ==
    [r EXCEPT !.len = 0, !.i = 0, !.index = 0, !.least = 0, !.sum = 0,
              !.drawn = 0, !.tmp = 0]

\* c goes from one label to the next and leaves the balancer as it is.
Step(c, from, new) ==
    /\ req[c].pc = from
    /\ req' = [req EXCEPT ![c] = new]
    /\ UNCHANGED <<nodeList, lbSeq, active, picked, turn>>

Returns(c, from, n) ==
    /\ req[c].pc = from
    /\ req' = [req EXCEPT ![c] = Fresh]
    /\ picked' = n
    /\ turn' = IF req[c].by # "ROUND_ROBIN" THEN turn
               ELSE IF req[c].alone THEN n ELSE None
    /\ UNCHANGED <<nodeList, lbSeq, active>>

\* An index out of range, a division by zero or rand.Intn(0): nothing in
\* RequestAsyncWithHead recovers.
Panics(c, from) ==
    /\ req[c].pc = from
    /\ req' = [req EXCEPT ![c] = [Fresh EXCEPT !.pc = "panicked"]]
    /\ turn' = None
    /\ UNCHANGED <<nodeList, lbSeq, active, picked>>

InFlight(c) == req[c].pc \notin {"idle", "panicked"}

SetNodes(c, l) ==
    /\ req[c].pc = "idle"
    /\ nodeList' = l
    /\ req' = [d \in Callers |->
                  IF d = c
                  THEN [Fresh EXCEPT !.pc = "get", !.given = Len(l),
                                     !.alone = ~\E e \in Callers : InFlight(e)]
                  ELSE IF InFlight(d)
                       THEN [req[d] EXCEPT !.alone = FALSE,
                                           !.resized = @ \/ req[d].given # Len(l)]
                       ELSE req[d]]
    /\ turn' = IF l = nodeList THEN turn ELSE None
    /\ picked' = None
    /\ UNCHANGED <<lbSeq, active>>

GetNode(c, policy) ==
    \/ nodeList = <<>> /\ Returns(c, "get", None)
    \/ nodeList # <<>> /\ Step(c, "get", [req[c] EXCEPT !.pc = policy, !.asked = policy,
                                                       !.by = policy])

-----------------------------------------------------------------------------
(***************************************************************************)
(* getNodeByLoadBalanceActive                                              *)
(***************************************************************************)

ActiveLen(c) ==
    Step(c, "ACTIVE", [req[c] EXCEPT !.pc = "first", !.len = Len(nodeList)])

First(c) ==
    \/ Has(0) /\ Step(c, "first",
                       [req[c] EXCEPT !.pc = "scan", !.i = 1, !.index = 0,
                                      !.least = active[At(0)]])
    \/ ~Has(0) /\ Panics(c, "first")

ScanPast(c) ==
    LET r == req[c] IN
    /\ r.i <= r.len
    /\ \/ /\ Has(r.i) /\ r.least >= active[At(r.i)]
          /\ Step(c, "scan", [r EXCEPT !.i = r.i + 1, !.index = r.i,
                                        !.least = active[At(r.i)]])
       \/ /\ Has(r.i) /\ r.least < active[At(r.i)]
          /\ Step(c, "scan", [r EXCEPT !.i = r.i + 1])
       \/ ~Has(r.i) /\ Panics(c, "scan")

ScanMost(c) ==
    LET r == req[c] IN
    /\ r.i < r.len
    /\ \/ /\ Has(r.i) /\ r.least <= active[At(r.i)]
          /\ Step(c, "scan", [r EXCEPT !.i = r.i + 1, !.index = r.i,
                                        !.least = active[At(r.i)]])
       \/ /\ Has(r.i) /\ r.least > active[At(r.i)]
          /\ Step(c, "scan", [r EXCEPT !.i = r.i + 1])
       \/ ~Has(r.i) /\ Panics(c, "scan")

\* The Active that is compared and the one that is kept are one read here.
Scan(c) ==
    LET r == req[c] IN
    /\ r.i < r.len
    /\ \/ /\ Has(r.i) /\ r.least >= active[At(r.i)]
          /\ Step(c, "scan", [r EXCEPT !.i = r.i + 1, !.index = r.i,
                                        !.least = active[At(r.i)]])
       \/ /\ Has(r.i) /\ r.least < active[At(r.i)]
          /\ Step(c, "scan", [r EXCEPT !.i = r.i + 1])
       \/ ~Has(r.i) /\ Panics(c, "scan")

\* When the last node is the least active one it is round robin's turn.
ScanEnds(c) ==
    LET r == req[c] IN
    /\ r.i >= r.len
    /\ Step(c, "scan",
             IF r.index = r.len - 1
             THEN [Done(r) EXCEPT !.pc = "ROUND_ROBIN", !.by = "ROUND_ROBIN"]
             ELSE [Done(r) EXCEPT !.pc = "index", !.index = r.index])

-----------------------------------------------------------------------------
(***************************************************************************)
(* getNodeByLoadBalanceRandom, getNodeByLoadBalanceHash and                *)
(* getNodeByLoadBalanceRoundRobin: their last statement is Index.          *)
(***************************************************************************)

Random(c) ==
    \/ \E k \in 0..(Len(nodeList) - 1) :
          Step(c, "RANDOM", [req[c] EXCEPT !.pc = "index", !.index = k])
    \/ nodeList = <<>> /\ Panics(c, "RANDOM")

Hash(c) ==
    \/ /\ nodeList # <<>>
       /\ \E h \in Hashes :
             Step(c, "HASH", [req[c] EXCEPT !.pc = "index",
                                             !.index = h % Len(nodeList)])
    \/ nodeList = <<>> /\ Panics(c, "HASH")

\* seq++ reads and writes; an increment of another request may be lost.
ReadSeq(c) ==
    Step(c, "ROUND_ROBIN", [req[c] EXCEPT !.pc = "incr", !.tmp = lbSeq])

WriteSeqTwice(c) ==
    /\ req[c].pc = "incr"
    /\ lbSeq' = (req[c].tmp + 2) % Period
    /\ req' = [req EXCEPT ![c] = [Done(@) EXCEPT !.pc = "turn"]]
    /\ UNCHANGED <<nodeList, active, picked, turn>>

WriteSeq(c) ==
    /\ req[c].pc = "incr"
    /\ lbSeq' = (req[c].tmp + 1) % Period
    /\ req' = [req EXCEPT ![c] = [Done(@) EXCEPT !.pc = "turn"]]
    /\ UNCHANGED <<nodeList, active, picked, turn>>

TurnLen(c) ==
    Step(c, "turn", [req[c] EXCEPT !.pc = "mod", !.len = Len(nodeList)])

Turn(c) ==
    \/ /\ req[c].len > 0
       /\ Step(c, "mod", [Done(req[c]) EXCEPT !.pc = "index",
                                               !.index = lbSeq % req[c].len])
    \/ req[c].len = 0 /\ Panics(c, "mod")

Index(c) ==
    \/ Has(req[c].index) /\ Returns(c, "index", At(req[c].index))
    \/ ~Has(req[c].index) /\ Panics(c, "index")

-----------------------------------------------------------------------------
(***************************************************************************)
(* getNodeByLoadBalanceRandomWeight: both loops read the length again      *)
(* before every round.                                                     *)
(***************************************************************************)

WeightStarts(c) ==
    Step(c, "RANDOM_WEIGHT", [req[c] EXCEPT !.pc = "total", !.i = 0, !.sum = 0])

TotalTest(c) ==
    Step(c, "total",
          [req[c] EXCEPT !.pc = IF Has(req[c].i) THEN "add" ELSE "draw"])

TotalAdd(c) ==
    LET r == req[c] IN
    \/ Has(r.i) /\ Step(c, "add", [r EXCEPT !.pc = "total", !.i = r.i + 1,
                                             !.sum = @ + Weight[At(r.i)]])
    \/ ~Has(r.i) /\ Panics(c, "add")

Draw(c) ==
    \/ \E k \in 0..(req[c].sum - 1) :
          Step(c, "draw", [req[c] EXCEPT !.pc = "test", !.i = 0, !.sum = k,
                                          !.drawn = k])
    \/ req[c].sum = 0 /\ Panics(c, "draw")

\* Behind the loop the code returns lb.nodeList[0].
PickTest(c) ==
    Step(c, "test",
          IF Has(req[c].i) THEN [req[c] EXCEPT !.pc = "pick"]
          ELSE [Done(req[c]) EXCEPT !.pc = "index", !.drawn = req[c].drawn])

PickForgets(c) ==
    LET r == req[c]
        w == Weight[At(r.i)]
    IN
    \/ Has(r.i) /\ r.sum - w <= 0 /\ Returns(c, "pick", At(r.i))
    \/ /\ Has(r.i) /\ r.sum - w > 0
       /\ Step(c, "pick", [r EXCEPT !.pc = "test", !.i = r.i + 1])
    \/ ~Has(r.i) /\ Panics(c, "pick")

Pick(c) ==
    LET r == req[c]
        w == Weight[At(r.i)]
    IN
    \/ Has(r.i) /\ r.sum - w <= 0 /\ Returns(c, "pick", At(r.i))
    \/ /\ Has(r.i) /\ r.sum - w > 0
       /\ Step(c, "pick", [r EXCEPT !.pc = "test", !.i = r.i + 1,
                                     !.sum = r.sum - w])
    \/ ~Has(r.i) /\ Panics(c, "pick")

-----------------------------------------------------------------------------
\* Sessions begin and end on the nodes.
LoadChanges(n, k) ==
    /\ k \in {active[n] - 1, active[n] + 1}
    /\ active' = [active EXCEPT ![n] = k]
    /\ req' = [c \in Callers |-> [req[c] EXCEPT !.alone = FALSE]]
    /\ UNCHANGED <<nodeList, lbSeq, picked, turn>>

ByActive(c) == ActiveLen(c) \/ First(c) \/ Scan(c) \/ ScanEnds(c)

ByTurn(c) == ReadSeq(c) \/ WriteSeq(c) \/ TurnLen(c) \/ Turn(c)

ByWeight(c) ==
    \/ WeightStarts(c) \/ TotalTest(c) \/ TotalAdd(c) \/ Draw(c) \/ PickTest(c)
    \/ Pick(c)

Choosing(c) ==
    \/ \E l \in Lists : SetNodes(c, l)
    \/ \E policy \in Policies : GetNode(c, policy)
    \/ ByActive(c) \/ Random(c) \/ Hash(c) \/ ByTurn(c) \/ ByWeight(c)
    \/ Index(c)

BalancerNext ==
    \/ \E c \in Callers : Choosing(c)
    \/ \E n \in Nodes, k \in 0..MaxActive : LoadChanges(n, k)

BalancerSpec == BalancerInit /\ [][BalancerNext]_balancerVars

-----------------------------------------------------------------------------
\* A request ends in a panic only if another request has stored a list of a
\* different length since it stored its own: a client used by one goroutine,
\* or whose number of nodes never changes, is safe, weights being positive.
CrashNeedsResize ==
    [][\A c \in Callers :
          req[c].pc # "panicked" /\ req'[c].pc = "panicked" => req[c].resized]_balancerVars

\* Requests that pick a node without another request or a change of a load
\* beside them.
PicksAlone(c, policy) ==
    /\ req[c].pc # "idle" /\ req'[c].pc = "idle" /\ picked' # None
    /\ req[c].alone /\ req[c].asked = policy

\* Round robin walks around the list: the node after the one the last turn fell
\* on, whoever had it and whatever requests of other policies came in between.
NextInTurn ==
    [][\A c \in Callers, l \in Lists :
          PicksAlone(c, "ROUND_ROBIN") /\ nodeList = l /\ turn # None =>
              \E k \in 1..Len(l) :
                  turn = l[k] /\ picked' = l[(k % Len(l)) + 1]]_balancerVars

LeastActive(n) == \A m \in ToSet(nodeList) : active[n] <= active[m]

\* While loads stand still the node picked by LB_ACTIVE is a least active one,
\* or the last node of the list is, and some other node had its turn.
LeastOrTurn ==
    [][\A c \in Callers :
          PicksAlone(c, "ACTIVE") =>
              LeastActive(picked') \/ LeastActive(Last(nodeList))]_balancerVars

\* The random weight policy gives every node its part of the range that is
\* drawn from, give or take the draw on the border.
NearItsShare ==
    [][\A c \in Callers :
          PicksAlone(c, "RANDOM_WEIGHT") => \E k \in 1..Len(nodeList) :
              /\ picked' = nodeList[k]
              /\ Total(nodeList, k - 1) <= req[c].drawn
              /\ req[c].drawn <= Total(nodeList, k)]_balancerVars
=============================================================================
