-------------------------- MODULE ServiceClientProofs --------------------------
(***************************************************************************)
(* Proofs about LoadBalancer, SessionManager and the ServiceClient they    *)
(* make up, for every bound, set of nodes, callers and workers.  Each      *)
(* component has an inductive invariant of its own; the client keeps both, *)
(* as each of its steps is a step of the one and of the other or stutters. *)
(***************************************************************************)
EXTENDS ServiceClient, FiniteSetTheorems, TLAPS

(***************************************************************************)
(* The balancer.  A request that has met nobody since it stored its list   *)
(* ("alone") chooses from that list at loads that stand still; the others  *)
(* are only promised indexes in range while the list keeps its length.     *)
(***************************************************************************)

Labels ==
    {"idle", "panicked", "get", "ACTIVE", "RANDOM", "HASH", "ROUND_ROBIN",
     "RANDOM_WEIGHT", "first", "scan", "incr", "turn", "mod", "index",
     "total", "add", "draw", "test", "pick"}

Locals ==
    [pc : Labels, len : Nat, i : Nat, index : Nat, least : Int, sum : Nat,
     drawn : Nat, tmp : Nat, given : Nat, resized : BOOLEAN, alone : BOOLEAN,
     asked : Policies \cup {None}, by : Policies \cup {None, "ROUND_ROBIN"}]

BalancerTypes ==
    /\ nodeList \in Seq(Nodes) /\ nodeList \in Lists \cup {<<>>}
    /\ lbSeq \in 0..(Period - 1)
    /\ active \in [Nodes -> Int]
    /\ req \in [Callers -> Locals]

\* What follows speaks of the locals r of one request, the list l that is stored
\* and the loads a.
Flies(r) == r.pc \notin {"idle", "panicked"}
Alone(r) == Flies(r) /\ r.alone

\* Which function a request runs, for which policy.
Follows(r) ==
    /\ r.pc \in {"idle", "panicked", "get"} => r.by = None /\ r.asked = None
    /\ r.pc \in {"ACTIVE", "first", "scan"} => r.by = "ACTIVE" /\ r.asked = "ACTIVE"
    /\ r.pc \in {"ROUND_ROBIN", "incr", "turn", "mod"} =>
          r.by = "ROUND_ROBIN" /\ r.asked \in {"ACTIVE", "ROUND_ROBIN"}
    /\ r.pc = "RANDOM" => r.by = "RANDOM" /\ r.asked = "RANDOM"
    /\ r.pc = "HASH" => r.by = "HASH" /\ r.asked = "HASH"
    /\ r.pc \in {"RANDOM_WEIGHT", "total", "add", "draw", "test", "pick"} =>
          r.by = "RANDOM_WEIGHT" /\ r.asked = "RANDOM_WEIGHT"
    /\ r.pc = "index" =>
          r.by = r.asked \/ (r.by = "ROUND_ROBIN" /\ r.asked = "ACTIVE")

\* While the list has kept its length every index is in range.
InRange(r, l) ==
    /\ Alone(r) => ~r.resized
    /\ Flies(r) /\ ~r.resized =>
          /\ r.given = Len(l)
          /\ r.pc # "get" => r.given > 0
          /\ r.pc \in {"first", "scan", "mod"} => r.len = r.given
          /\ r.pc \in {"scan", "index"} => r.index < r.given
          /\ r.pc = "scan" => r.i \in 1..r.len
          /\ r.pc \in {"total", "test"} => r.i <= r.given
          /\ r.pc \in {"add", "pick"} => r.i < r.given

\* The scan holds the least load it has seen, and hands a least active node on.
Least(n, l, a) == \A j \in 1..Len(l) : a[n] <= a[l[j]]

LeastSoFar(r, l, a) ==
    Alone(r) /\ r.asked = "ACTIVE" =>
        /\ r.pc = "scan" =>
              /\ r.index < r.i /\ r.least = a[l[r.index + 1]]
              /\ \A j \in 1..r.i : r.least <= a[l[j]]
        /\ r.by = "ROUND_ROBIN" => Least(l[Len(l)], l, a)
        /\ r.pc = "index" /\ r.by = "ACTIVE" => Least(l[r.index + 1], l, a)

\* What has been drawn and not yet been taken off again lies within the weights.
ShareSoFar(r, l) ==
    Alone(r) /\ r.asked = "RANDOM_WEIGHT" =>
        /\ r.pc \in {"total", "add"} => r.sum = Total(l, r.i)
        /\ r.pc = "draw" => r.sum = Total(l, Len(l))
        /\ r.pc \in {"test", "pick"} =>
              r.sum + Total(l, r.i) = r.drawn /\ r.drawn < Total(l, Len(l))
        /\ r.pc # "index"

OnItsWay(r, l, a) ==
    Follows(r) /\ InRange(r, l) /\ LeastSoFar(r, l, a) /\ ShareSoFar(r, l)

BalancerInv ==
    BalancerTypes /\ \A c \in Callers : OnItsWay(req[c], nodeList, active)

\* A request that has met nobody is the only one.
OneAlone ==
    \A c, d \in Callers : Alone(req[c]) /\ Flies(req[d]) => c = d

\* lbSeq has moved and its turn is not yet written down.
Due(r) == r.by = "ROUND_ROBIN" /\ r.pc \in {"turn", "mod", "index"}

TurnOf(r, l, s, t) ==
    Alone(r) =>
        /\ r.pc = "incr" => r.tmp = s
        /\ r.pc = "index" /\ r.by = "ROUND_ROBIN" => r.index = s % Len(l)
        /\ Due(r) /\ t # None =>
              \E k \in 1..Len(l) : t = l[k] /\ s % Len(l) = k % Len(l)

TurnInv ==
    /\ turn # None /\ (\A c \in Callers : ~Due(req[c])) =>
          nodeList # <<>> /\ turn = nodeList[(lbSeq % Len(nodeList)) + 1]
    /\ \A c \in Callers : TurnOf(req[c], nodeList, lbSeq, turn)

\* With weights above 0 the sum keeps up with the nodes it has counted.
Weighty(r) ==
    Flies(r) /\ ~r.resized =>
        /\ r.pc \in {"total", "add"} => r.i <= r.sum
        /\ r.pc = "draw" => r.sum > 0

AllWeighty == \A c \in Callers : Weighty(req[c])

-----------------------------------------------------------------------------
\* The lots of one node more.
LEMMA TotalIs ==
  ASSUME NEW l \in Seq(Nodes)
  PROVE  /\ \A k \in Nat : k <= Len(l) => Total(l, k) \in Nat
         /\ Total(l, 0) = 0
         /\ \A k \in Nat : k < Len(l) =>
               Total(l, k + 1) = Total(l, k) + Weight[l[k + 1]]
<1> DEFINE lot(i) == {i} \X (1..Weight[l[i]])
<1>1. ASSUME NEW i \in 1..Len(l)
      PROVE  IsFiniteSet(lot(i)) /\ Cardinality(lot(i)) = Weight[l[i]]
  <2>1. Weight[l[i]] \in Nat
    BY BalancerAssumption
  <2>2. /\ IsFiniteSet(1..Weight[l[i]])
        /\ Cardinality(1..Weight[l[i]]) = Weight[l[i]]
    <3> DEFINE w == Weight[l[i]]
    <3>1. w \in Nat
      BY <2>1
    <3> HIDE DEF w
    <3>2. IsFiniteSet(1..w) /\ Cardinality(1..w) = w
      BY <3>1, FS_Interval
    <3> QED
      BY <3>2 DEF w
  <2>3. IsFiniteSet({i}) /\ Cardinality({i}) = 1
    BY FS_Singleton
  <2> DEFINE T == 1..Weight[l[i]]
  <2>4. IsFiniteSet(T) /\ Cardinality(T) = Weight[l[i]]
    BY <2>2
  <2> HIDE DEF T
  <2>5. /\ IsFiniteSet({i} \X T)
        /\ Cardinality({i} \X T) = Cardinality({i}) * Cardinality(T)
    BY <2>3, <2>4, FS_Product
  <2>6. Cardinality({i} \X T) = Weight[l[i]]
    BY <2>1, <2>3, <2>4, <2>5
  <2> QED
    BY <2>5, <2>6 DEF T
<1>2. ASSUME NEW k \in Nat, k <= Len(l) PROVE IsFiniteSet(Lots(l, k))
  <2> DEFINE f == [i \in 1..k |-> lot(i)]
             T == {lot(i) : i \in 1..k}
  <2>1. f \in Surjection(1..k, T)
    BY DEF Surjection
  <2>2. IsFiniteSet(1..k)
    BY FS_Interval
  <2>3. IsFiniteSet(T)
    BY <2>1, <2>2, FS_Surjection
  <2>4. \A t \in T : IsFiniteSet(t)
    BY <1>1, <1>2
  <2> HIDE DEF lot
  <2>5. IsFiniteSet(UNION T)
    BY <2>3, <2>4, FS_UNION
  <2> QED
    BY <2>5 DEF Lots, lot
<1>3. ASSUME NEW k \in Nat, k < Len(l)
      PROVE  Total(l, k + 1) = Total(l, k) + Weight[l[k + 1]]
  <2>1. Lots(l, k + 1) = Lots(l, k) \cup lot(k + 1)
    <3>1. 1..(k + 1) = (1..k) \cup {k + 1}
      OBVIOUS
    <3> QED
      BY <3>1 DEF Lots
  <2>2. Lots(l, k) \cap lot(k + 1) = {}
    BY DEF Lots
  <2>3. IsFiniteSet(Lots(l, k)) /\ Cardinality(Lots(l, k)) \in Nat
    BY <1>2, <1>3, FS_CardinalityType
  <2>4. k + 1 \in 1..Len(l) /\ Weight[l[k + 1]] \in Nat
    BY <1>3, BalancerAssumption
  <2> HIDE DEF lot
  <2>5. IsFiniteSet(lot(k + 1)) /\ Cardinality(lot(k + 1)) = Weight[l[k + 1]]
    BY <1>1, <2>4
  <2>6. Cardinality(Lots(l, k) \cup lot(k + 1)) =
           Cardinality(Lots(l, k)) + Weight[l[k + 1]] - 0
    BY <2>2, <2>3, <2>5, FS_Union, FS_EmptySet
  <2>7. Total(l, k + 1) = Cardinality(Lots(l, k) \cup lot(k + 1))
    BY <2>1 DEF Total
  <2>8. Total(l, k) = Cardinality(Lots(l, k))
    BY DEF Total
  <2> QED
    BY <2>3, <2>4, <2>6, <2>7, <2>8
<1>4. Total(l, 0) = 0
  <2>1. Lots(l, 0) = {}
    BY DEF Lots
  <2> QED
    BY <2>1, FS_EmptySet DEF Total
<1>5. ASSUME NEW k \in Nat, k <= Len(l) PROVE Total(l, k) \in Nat
  BY <1>2, <1>5, FS_CardinalityType DEF Total
<1> QED
  BY <1>3, <1>4, <1>5

\* The remainder is the one number below the divisor.
LEMMA Divides ==
  ASSUME NEW q \in Int, NEW n \in Nat \ {0}, NEW r \in 0..(n - 1)
  PROVE  (q * n + r) % n = r
<1> DEFINE x == q * n + r
           p == x \div n
           t == x % n
<1>1. x \in Int
  OBVIOUS
<1>2. p \in Int /\ t \in 0..(n - 1) /\ x = n * p + t
  <2> HIDE DEF x
  <2> QED
    BY <1>1
<1> HIDE DEF p, t
<1>3. n * (q - p) = t - r
  BY <1>2
<1>4. q = p
  <2>1. CASE q > p
    <3>1. n * (q - p) >= n
      BY <1>2, <2>1
    <3> QED
      BY <1>2, <1>3, <3>1
  <2>2. CASE q < p
    <3>1. n * (q - p) <= 0 - n
      BY <1>2, <2>2
    <3> QED
      BY <1>2, <1>3, <3>1
  <2> QED
    BY <1>2, <2>1, <2>2
<1>5. t = r
  BY <1>2, <1>4
<1> QED
  BY <1>5 DEF t

\* The turn after the turn of s.
LEMMA NextTurn ==
  ASSUME NEW s \in Nat, NEW n \in Nat \ {0}
  PROVE  (s + 1) % n = ((s % n) + 1) % n
<1> DEFINE q == s \div n
           r == s % n
<1>1. q \in Int /\ r \in 0..(n - 1) /\ s = n * q + r
  OBVIOUS
<1> HIDE DEF q, r
<1>2. CASE r + 1 < n
  <2>1. s + 1 = q * n + (r + 1) /\ r + 1 \in 0..(n - 1)
    BY <1>1, <1>2
  <2>2. (s + 1) % n = r + 1
    BY <1>1, <2>1, Divides
  <2>3. (r + 1) % n = r + 1
    BY <1>1, <1>2
  <2> QED
    BY <2>2, <2>3 DEF r
<1>3. CASE r + 1 = n
  <2>1. s + 1 = (q + 1) * n + 0
    BY <1>1, <1>3
  <2>2. (s + 1) % n = 0
    BY <1>1, <2>1, Divides
  <2>3. n % n = 0
    OBVIOUS
  <2> QED
    BY <1>3, <2>2, <2>3 DEF r
<1> QED
  BY <1>1, <1>2, <1>3

-----------------------------------------------------------------------------
\* A request that goes on changes its own locals, and no list and no load.
Goes(c) ==
    /\ nodeList' = nodeList /\ active' = active
    /\ lbSeq' \in {lbSeq, (req[c].tmp + 1) % Period}
    /\ \E r \in Locals : req' = [req EXCEPT ![c] = r]

\* What the functions store in the locals has its type.
LEMMA LocalsSet ==
  ASSUME NEW r \in Locals, NEW j \in Nat, NEW k \in Nat
  PROVE  /\ \A a \in Int : [r EXCEPT !.i = j, !.index = k, !.least = a] \in Locals
         /\ \A p \in {"total", "test"} :
               [r EXCEPT !.pc = p, !.i = j, !.sum = k] \in Locals
         /\ \A a \in Int : [r EXCEPT !.pc = "scan", !.i = j, !.index = k,
                                     !.least = a] \in Locals
BY DEF Locals, Labels

\* Every step of a request goes on so, except SetNodes.
LEMMA Moves ==
  ASSUME NEW c \in Callers, Choosing(c), BalancerTypes
  PROVE  Goes(c) \/ \E l \in Lists : SetNodes(c, l)
<1> DEFINE r == req[c]
<1>1. r \in Locals
  BY DEF BalancerTypes
<1>s. ASSUME NEW from, NEW new \in Locals, Step(c, from, new) PROVE Goes(c)
  BY <1>s DEF Step, Goes
<1>f. Fresh \in Locals /\ [Fresh EXCEPT !.pc = "panicked"] \in Locals
  <2>1. Fresh \in Locals
    BY DEF Fresh, Locals, Labels
  <2>2. ASSUME NEW q \in Locals PROVE [q EXCEPT !.pc = "panicked"] \in Locals
    BY DEF Locals, Labels
  <2> QED
    BY <2>1, <2>2
<1>r. ASSUME NEW from, NEW n, Returns(c, from, n) PROVE Goes(c)
  BY <1>r, <1>f DEF Returns, Goes
<1>p. ASSUME NEW from, Panics(c, from) PROVE Goes(c)
  BY <1>p, <1>f DEF Panics, Goes
<1>d. Done(r) \in Locals
  <2> DEFINE a == [r EXCEPT !.len = 0, !.i = 0, !.index = 0]
             b == [a EXCEPT !.least = 0]
             d == [b EXCEPT !.sum = 0, !.drawn = 0, !.tmp = 0]
  <2>1. a \in Locals
    BY <1>1 DEF Locals
  <2> HIDE DEF a
  <2>2. b \in Locals
    BY <2>1 DEF Locals
  <2> HIDE DEF b
  <2>3. d \in Locals
    BY <2>2 DEF Locals
  <2>4. Done(r) = d
    BY <1>1 DEF Done, Locals, a, b
  <2> QED
    BY <2>3, <2>4
<1>2. \A n \in Nodes : active[n] \in Int
  BY DEF BalancerTypes
<1>3. \A j \in Nat : Has(j) => At(j) \in Nodes
  BY DEF BalancerTypes, Has, At
<1>4. nodeList \in Seq(Nodes) /\ Len(nodeList) \in Nat
  BY DEF BalancerTypes
<1>5. ASSUME NEW policy \in Policies, GetNode(c, policy) PROVE Goes(c)
  <2>1. [r EXCEPT !.pc = policy, !.asked = policy, !.by = policy] \in Locals
    BY <1>1, BalancerAssumption DEF Locals, Labels
  <2> QED
    BY <1>5, <1>s, <2>1, <1>r DEF GetNode
<1>6. ASSUME ActiveLen(c) PROVE Goes(c)
  <2>1. [r EXCEPT !.pc = "first", !.len = Len(nodeList)] \in Locals
    BY <1>1, <1>4 DEF Locals, Labels
  <2> QED
    BY <1>6, <1>s, <2>1 DEF ActiveLen
<1>7. ASSUME First(c) PROVE Goes(c)
  <2> DEFINE a == active[At(0)]
  <2>1. ASSUME Has(0)
        PROVE  [r EXCEPT !.pc = "scan", !.i = 1, !.index = 0, !.least = a] \in Locals
    <3>1. a \in Int
      BY <1>2, <1>3, <2>1
    <3> HIDE DEF a
    <3> QED
      BY <1>1, <3>1, LocalsSet
  <2> QED
    BY <1>7, <1>s, <2>1, <1>p DEF First
<1>8. ASSUME Scan(c) PROVE Goes(c)
  <2> DEFINE less == [r EXCEPT !.i = r.i + 1, !.index = r.i,
                               !.least = active[At(r.i)]]
             past == [r EXCEPT !.i = r.i + 1]
  <2>1. ASSUME Has(r.i) PROVE less \in Locals
    <3>1. r.i \in Nat /\ r.i + 1 \in Nat /\ active[At(r.i)] \in Int
      BY <1>1, <1>2, <1>3, <2>1 DEF Locals
    <3> QED
      BY <1>1, <3>1, LocalsSet
  <2>2. past \in Locals
    BY <1>1 DEF Locals, Labels
  <2>3. \/ Has(r.i) /\ Step(c, "scan", less)
        \/ Step(c, "scan", past)
        \/ Panics(c, "scan")
    BY <1>8 DEF Scan
  <2> HIDE DEF less, past
  <2> QED
    BY <1>s, <1>p, <2>1, <2>2, <2>3
<1>9. ASSUME ScanEnds(c) PROVE Goes(c)
  <2>1. /\ [Done(r) EXCEPT !.pc = "ROUND_ROBIN", !.by = "ROUND_ROBIN"] \in Locals
        /\ [Done(r) EXCEPT !.pc = "index", !.index = r.index] \in Locals
    BY <1>1, <1>d DEF Locals, Labels
  <2> QED
    BY <1>9, <1>s, <2>1 DEF ScanEnds
<1>10. ASSUME Random(c) PROVE Goes(c)
  <2>1. ASSUME NEW k \in 0..(Len(nodeList) - 1)
        PROVE  [r EXCEPT !.pc = "index", !.index = k] \in Locals
    <3>1. k \in Nat
      BY <1>4
    <3> QED
      BY <1>1, <3>1 DEF Locals, Labels
  <2> QED
    BY <1>10, <1>s, <1>p, <2>1 DEF Random
<1>11. ASSUME Hash(c) PROVE Goes(c)
  <2>1. ASSUME NEW h \in Hashes, nodeList # <<>>
        PROVE  [r EXCEPT !.pc = "index", !.index = h % Len(nodeList)] \in Locals
    <3>1. h % Len(nodeList) \in Nat
      <4>1. h \in Nat /\ Len(nodeList) \in Nat \ {0}
        BY <1>4, <2>1, BalancerAssumption
      <4> QED
        BY <4>1
    <3> QED
      BY <1>1, <3>1 DEF Locals, Labels
  <2> QED
    BY <1>11, <1>s, <1>p, <2>1 DEF Hash
<1>12. ASSUME ReadSeq(c) PROVE Goes(c)
  <2>1. [r EXCEPT !.pc = "incr", !.tmp = lbSeq] \in Locals
    <3>1. lbSeq \in Nat
      BY BalancerAssumption DEF BalancerTypes
    <3> QED
      BY <1>1, <3>1 DEF Locals, Labels
  <2> QED
    BY <1>12, <1>s, <2>1 DEF ReadSeq
<1>13. ASSUME WriteSeq(c) PROVE Goes(c)
  <2>1. [Done(r) EXCEPT !.pc = "turn"] \in Locals
    BY <1>1, <1>d DEF Locals, Labels
  <2> QED
    BY <1>13, <2>1 DEF WriteSeq, Goes
<1>14. ASSUME TurnLen(c) PROVE Goes(c)
  <2>1. [r EXCEPT !.pc = "mod", !.len = Len(nodeList)] \in Locals
    BY <1>1, <1>4 DEF Locals, Labels
  <2> QED
    BY <1>14, <1>s, <2>1 DEF TurnLen
<1>15. ASSUME Turn(c) PROVE Goes(c)
  <2>1. ASSUME r.len > 0
        PROVE  [Done(r) EXCEPT !.pc = "index", !.index = lbSeq % r.len] \in Locals
    <3>1. lbSeq % r.len \in Nat
      <4>1. lbSeq \in Nat /\ r.len \in Nat \ {0}
        BY <1>1, <2>1, BalancerAssumption DEF Locals, BalancerTypes
      <4> QED
        BY <4>1
    <3> QED
      BY <1>1, <1>d, <3>1 DEF Locals, Labels
  <2> QED
    BY <1>15, <1>s, <1>p, <2>1 DEF Turn
<1>16. ASSUME Index(c) PROVE Goes(c)
  BY <1>16, <1>r, <1>p DEF Index
<1>17. ASSUME WeightStarts(c) PROVE Goes(c)
  <2>1. [r EXCEPT !.pc = "total", !.i = 0, !.sum = 0] \in Locals
    BY <1>1, LocalsSet
  <2> QED
    BY <1>17, <1>s, <2>1 DEF WeightStarts
<1>18. ASSUME TotalTest(c) PROVE Goes(c)
  <2>1. [r EXCEPT !.pc = IF Has(r.i) THEN "add" ELSE "draw"] \in Locals
    BY <1>1 DEF Locals, Labels
  <2> QED
    BY <1>18, <1>s, <2>1 DEF TotalTest
<1>19. ASSUME TotalAdd(c) PROVE Goes(c)
  <2>1. ASSUME Has(r.i)
        PROVE  [r EXCEPT !.pc = "total", !.i = r.i + 1,
                         !.sum = @ + Weight[At(r.i)]] \in Locals
    <3>1. Weight[At(r.i)] \in Nat
      BY <1>1, <1>3, <2>1, BalancerAssumption DEF Locals
    <3>2. r.i + 1 \in Nat /\ r.sum + Weight[At(r.i)] \in Nat
      BY <1>1, <3>1 DEF Locals
    <3> QED
      BY <1>1, <3>2, LocalsSet
  <2> QED
    BY <1>19, <1>s, <1>p, <2>1 DEF TotalAdd
<1>20. ASSUME Draw(c) PROVE Goes(c)
  <2>1. ASSUME NEW k \in 0..(r.sum - 1)
        PROVE  [r EXCEPT !.pc = "test", !.i = 0, !.sum = k, !.drawn = k] \in Locals
    <3>1. k \in Nat
      BY <1>1 DEF Locals
    <3> QED
      BY <1>1, <3>1 DEF Locals, Labels
  <2> QED
    BY <1>20, <1>s, <1>p, <2>1 DEF Draw
<1>21. ASSUME PickTest(c) PROVE Goes(c)
  <2>1. /\ [r EXCEPT !.pc = "pick"] \in Locals
        /\ [Done(r) EXCEPT !.pc = "index", !.drawn = r.drawn] \in Locals
    <3> DEFINE d == Done(r)
    <3>1. d \in Locals /\ r.drawn \in Nat
      BY <1>1, <1>d DEF Locals
    <3> HIDE DEF d
    <3>2. [d EXCEPT !.pc = "index", !.drawn = r.drawn] \in Locals
      BY <3>1 DEF Locals, Labels
    <3>3. [r EXCEPT !.pc = "pick"] \in Locals
      BY <1>1 DEF Locals, Labels
    <3> QED
      BY <3>2, <3>3 DEF d
  <2> QED
    BY <1>21, <1>s, <2>1 DEF PickTest
<1>22. ASSUME Pick(c) PROVE Goes(c)
  <2> DEFINE w == Weight[At(r.i)]
             on == [r EXCEPT !.pc = "test", !.i = r.i + 1, !.sum = r.sum - w]
  <2>1. ASSUME Has(r.i), r.sum - w > 0 PROVE on \in Locals
    <3>1. w \in Nat
      BY <1>1, <1>3, <2>1, BalancerAssumption DEF Locals
    <3>2. r.i + 1 \in Nat /\ r.sum - w \in Nat
      BY <1>1, <2>1, <3>1 DEF Locals
    <3> HIDE DEF w
    <3> QED
      BY <1>1, <3>2, LocalsSet
  <2>2. \/ Returns(c, "pick", At(r.i))
        \/ Has(r.i) /\ r.sum - w > 0 /\ Step(c, "pick", on)
        \/ Panics(c, "pick")
    BY <1>22 DEF Pick
  <2> HIDE DEF w, on
  <2> QED
    BY <1>s, <1>r, <1>p, <2>1, <2>2
<1> QED
  BY <1>5, <1>6, <1>7, <1>8, <1>9, <1>10, <1>11, <1>12, <1>13, <1>14, <1>15,
     <1>16, <1>17, <1>18, <1>19, <1>20, <1>21, <1>22
     DEF Choosing, ByActive, ByTurn, ByWeight

\* The types are kept.
LEMMA BalancerTypesStep ==
  BalancerTypes /\ [BalancerNext]_balancerVars => BalancerTypes'
<1> SUFFICES ASSUME BalancerTypes, [BalancerNext]_balancerVars
             PROVE  BalancerTypes'
  OBVIOUS
<1>1. ASSUME NEW c \in Callers, Goes(c) PROVE BalancerTypes'
  <2>1. lbSeq' \in 0..(Period - 1)
    <3>1. CASE lbSeq' = lbSeq
      BY <3>1 DEF BalancerTypes
    <3>2. CASE lbSeq' = (req[c].tmp + 1) % Period
      <4>1. req[c].tmp + 1 \in Nat /\ Period \in Nat \ {0}
        BY BalancerAssumption DEF BalancerTypes, Locals
      <4> QED
        BY <3>2, <4>1
    <3> QED
      BY <1>1, <3>1, <3>2 DEF Goes
  <2> QED
    BY <1>1, <2>1 DEF Goes, BalancerTypes
<1>2. ASSUME NEW c \in Callers, NEW l \in Lists, SetNodes(c, l)
      PROVE  BalancerTypes'
  <2> DEFINE new == [Fresh EXCEPT !.pc = "get", !.given = Len(l),
                                  !.alone = ~\E e \in Callers : InFlight(e)]
             met(d) == [req[d] EXCEPT !.alone = FALSE,
                                      !.resized = @ \/ req[d].given # Len(l)]
  <2>1. new \in Locals
    <3>1. Fresh \in Locals
      BY DEF Fresh, Locals, Labels
    <3>2. Len(l) \in Nat
      BY BalancerAssumption
    <3>3. ASSUME NEW q \in Locals, NEW n \in Nat, NEW b \in BOOLEAN
          PROVE  [q EXCEPT !.pc = "get", !.given = n, !.alone = b] \in Locals
      BY DEF Locals, Labels
    <3> QED
      BY <3>1, <3>2, <3>3
  <2>2. ASSUME NEW d \in Callers PROVE met(d) \in Locals /\ req[d] \in Locals
    BY DEF BalancerTypes, Locals
  <2>3. req' \in [Callers -> Locals]
    <3> HIDE DEF new, met
    <3>1. req' = [d \in Callers |-> IF d = c THEN new
                                    ELSE IF InFlight(d) THEN met(d) ELSE req[d]]
      BY <1>2 DEF SetNodes, new, met
    <3> QED
      BY <2>1, <2>2, <3>1
  <2> QED
    BY <1>2, <2>3, BalancerAssumption DEF SetNodes, BalancerTypes
<1>3. ASSUME NEW n \in Nodes, NEW k \in 0..MaxActive, LoadChanges(n, k)
      PROVE  BalancerTypes'
  <2>1. ASSUME NEW d \in Callers PROVE [req[d] EXCEPT !.alone = FALSE] \in Locals
    BY DEF BalancerTypes, Locals
  <2>2. req' \in [Callers -> Locals]
    BY <1>3, <2>1 DEF LoadChanges
  <2>3. active' \in [Nodes -> Int]
    BY <1>3, BalancerAssumption DEF LoadChanges, BalancerTypes
  <2> QED
    BY <1>3, <2>2, <2>3 DEF LoadChanges, BalancerTypes
<1>4. CASE UNCHANGED balancerVars
  BY <1>4 DEF balancerVars, BalancerTypes
<1> QED
  BY <1>1, <1>2, <1>3, <1>4, Moves DEF BalancerNext

\* A request that goes on stays on its way.
LEMMA StaysOnItsWay ==
  ASSUME NEW c \in Callers, Choosing(c), BalancerTypes, Goes(c),
         OnItsWay(req[c], nodeList, active)
  PROVE  OnItsWay(req'[c], nodeList, active)
<1> DEFINE r == req[c]
           q == req'[c]
           l == nodeList
<1>1. r \in Locals /\ l \in Seq(Nodes) /\ req \in [Callers -> Locals]
  BY DEF BalancerTypes
<1>f. \A x \in {Fresh, [Fresh EXCEPT !.pc = "panicked"]} : OnItsWay(x, l, active)
  BY DEF Fresh, OnItsWay, Follows, InRange, LeastSoFar, ShareSoFar, Alone, Flies
<1>p. ASSUME NEW from, Panics(c, from) PROVE OnItsWay(q, l, active)
  BY <1>1, <1>f, <1>p DEF Panics
<1>r. ASSUME NEW from, NEW n, Returns(c, from, n) PROVE OnItsWay(q, l, active)
  BY <1>1, <1>f, <1>r DEF Returns
<1>s. ASSUME NEW from, NEW new, Step(c, from, new) PROVE r.pc = from /\ q = new
  BY <1>1, <1>s DEF Step
<1>2. Follows(r) /\ InRange(r, l) /\ LeastSoFar(r, l, active) /\ ShareSoFar(r, l)
  BY DEF OnItsWay
<1>3. ASSUME ActiveLen(c) PROVE OnItsWay(q, l, active)
  <2>1. r.pc = "ACTIVE" /\ q = [r EXCEPT !.pc = "first", !.len = Len(l)]
    BY <1>s, <1>3 DEF ActiveLen
  <2> QED
    BY <1>1, <1>2, <2>1 DEF OnItsWay, Follows, InRange, LeastSoFar, ShareSoFar,
                            Alone, Flies, Least, Has, At, Locals
<1>4. ASSUME First(c) PROVE OnItsWay(q, l, active)
  <2>1. CASE Panics(c, "first")
    BY <1>p, <2>1
  <2>2. ASSUME Has(0), NEW new, Step(c, "first", new),
               new = [r EXCEPT !.pc = "scan", !.i = 1, !.index = 0,
                               !.least = active[At(0)]]
        PROVE  OnItsWay(q, l, active)
    <3>1. r.pc = "first" /\ q = new
      BY <1>s, <2>2
    <3>2. Follows(q) /\ InRange(q, l)
      BY <1>1, <1>2, <2>2, <3>1 DEF Follows, InRange, Alone, Flies, Has, Locals
    <3>3. LeastSoFar(q, l, active)
      <4>1. /\ q.pc = "scan" /\ q.index = 0 /\ q.i = 1 /\ q.least = active[l[1]]
            /\ q.by = r.by
        BY <1>1, <2>2, <3>1 DEF Locals, At
      <4>2. q.by = "ACTIVE"
        BY <1>2, <3>1, <4>1 DEF Follows
      <4>3. active[l[1]] \in Int
        BY <1>1, <2>2 DEF BalancerTypes, Has
      <4> QED
        BY <4>1, <4>2, <4>3 DEF LeastSoFar
    <3>4. ShareSoFar(q, l)
      BY <1>1, <1>2, <2>2, <3>1 DEF ShareSoFar, Follows, Locals
    <3> QED
      BY <3>2, <3>3, <3>4 DEF OnItsWay
  <2> QED
    BY <1>4, <2>1, <2>2 DEF First
<1>5. ASSUME Scan(c) PROVE OnItsWay(q, l, active)
  <2> DEFINE less == [r EXCEPT !.i = r.i + 1, !.index = r.i,
                               !.least = active[At(r.i)]]
             past == [r EXCEPT !.i = r.i + 1]
  <2>1. CASE Panics(c, "scan")
    BY <1>p, <2>1
  <2>2. r.pc = "scan" /\ r.i < r.len
    BY <1>5 DEF Scan, Step, Panics
  <2>3. Alone(r) => /\ r.len = Len(l) /\ r.i \in 1..r.len /\ r.index \in Nat
                    /\ active \in [Nodes -> Int] /\ l[r.i + 1] \in Nodes
    BY <1>1, <1>2, <2>2 DEF InRange, Alone, Flies, Locals, BalancerTypes
  <2>4. ASSUME Has(r.i), r.least >= active[At(r.i)], Step(c, "scan", less)
        PROVE  OnItsWay(q, l, active)
    <3>1. q = less
      BY <1>s, <2>4
    <3>2. Follows(q) /\ InRange(q, l)
      BY <1>1, <1>2, <2>2, <2>4, <3>1 DEF Follows, InRange, Alone, Flies, Has,
                                          Locals
    <3>3. LeastSoFar(q, l, active)
      <4> SUFFICES ASSUME Alone(q), q.asked = "ACTIVE"
                   PROVE  /\ q.index < q.i /\ q.least = active[l[q.index + 1]]
                          /\ \A j \in 1..q.i : q.least <= active[l[j]]
                          /\ q.by # "ROUND_ROBIN"
        BY <1>1, <2>2, <3>1 DEF LeastSoFar, Locals
      <4>1. Alone(r) /\ r.asked = "ACTIVE" /\ q.by # "ROUND_ROBIN"
        BY <1>1, <1>2, <2>2, <3>1 DEF Alone, Flies, Locals, Follows
      <4>2. \A j \in 1..r.i : r.least <= active[l[j]] /\ l[j] \in Nodes
        BY <1>1, <1>2, <2>2, <2>3, <4>1 DEF LeastSoFar
      <4>3. /\ q.i = r.i + 1 /\ q.index = r.i /\ q.least = active[l[r.i + 1]]
            /\ r.least \in Int /\ r.i \in Nat
        BY <1>1, <3>1 DEF Locals, At
      <4>4. r.least >= active[l[r.i + 1]]
        BY <2>4 DEF At
      <4>5. active[l[r.i + 1]] \in Int /\ \A j \in 1..r.i : active[l[j]] \in Int
        BY <2>3, <4>1, <4>2
      <4> QED
        BY <4>1, <4>2, <4>3, <4>4, <4>5
    <3>4. ShareSoFar(q, l)
      BY <1>1, <1>2, <2>2, <3>1 DEF ShareSoFar, Follows, Locals
    <3> QED
      BY <3>2, <3>3, <3>4 DEF OnItsWay
  <2>5. ASSUME Has(r.i), r.least < active[At(r.i)], Step(c, "scan", past)
        PROVE  OnItsWay(q, l, active)
    <3>1. q = past
      BY <1>s, <2>5
    <3>2. Follows(q) /\ InRange(q, l)
      BY <1>1, <1>2, <2>2, <2>5, <3>1 DEF Follows, InRange, Alone, Flies, Has,
                                          Locals
    <3>3. LeastSoFar(q, l, active)
      <4> SUFFICES ASSUME Alone(q), q.asked = "ACTIVE"
                   PROVE  /\ q.index < q.i /\ q.least = active[l[q.index + 1]]
                          /\ \A j \in 1..q.i : q.least <= active[l[j]]
                          /\ q.by # "ROUND_ROBIN"
        BY <1>1, <2>2, <3>1 DEF LeastSoFar, Locals
      <4>1. Alone(r) /\ r.asked = "ACTIVE" /\ q.by # "ROUND_ROBIN"
        BY <1>1, <1>2, <2>2, <3>1 DEF Alone, Flies, Locals, Follows
      <4>2. /\ r.index < r.i /\ r.least = active[l[r.index + 1]]
            /\ \A j \in 1..r.i : r.least <= active[l[j]]
        BY <1>2, <2>2, <4>1 DEF LeastSoFar
      <4>3. /\ q.i = r.i + 1 /\ q.index = r.index /\ q.least = r.least
            /\ r.least \in Int /\ r.i \in Nat /\ r.index \in Nat
        BY <1>1, <3>1 DEF Locals
      <4>4. r.least < active[l[r.i + 1]] /\ active[l[r.i + 1]] \in Int
        BY <2>3, <2>5, <4>1 DEF At
      <4> QED
        BY <4>1, <4>2, <4>3, <4>4
    <3>4. ShareSoFar(q, l)
      BY <1>1, <1>2, <2>2, <3>1 DEF ShareSoFar, Follows, Locals
    <3> QED
      BY <3>2, <3>3, <3>4 DEF OnItsWay
  <2> QED
    BY <1>5, <2>1, <2>4, <2>5 DEF Scan
<1>6. ASSUME ScanEnds(c) PROVE OnItsWay(q, l, active)
  <2>1. r.pc = "scan" /\ r.i >= r.len
    BY <1>6 DEF ScanEnds, Step
  <2>2. CASE r.index = r.len - 1
    <3>1. q = [Done(r) EXCEPT !.pc = "ROUND_ROBIN", !.by = "ROUND_ROBIN"]
      BY <1>s, <1>6, <2>2 DEF ScanEnds
    <3> QED
      BY <1>1, <1>2, <2>1, <2>2, <3>1 DEF Done, OnItsWay, Follows, InRange,
                                          LeastSoFar, ShareSoFar, Alone, Flies,
                                          Least, Has, At, Locals
  <2>3. CASE r.index # r.len - 1
    <3>1. q = [Done(r) EXCEPT !.pc = "index", !.index = r.index]
      BY <1>s, <1>6, <2>3 DEF ScanEnds
    <3> QED
      BY <1>1, <1>2, <2>1, <2>3, <3>1 DEF Done, OnItsWay, Follows, InRange,
                                          LeastSoFar, ShareSoFar, Alone, Flies,
                                          Least, Has, At, Locals
  <2> QED
    BY <2>2, <2>3
<1>7. ASSUME Random(c) PROVE OnItsWay(q, l, active)
  <2>1. CASE Panics(c, "RANDOM")
    BY <1>p, <2>1
  <2>2. ASSUME NEW j \in 0..(Len(l) - 1),
               Step(c, "RANDOM", [r EXCEPT !.pc = "index", !.index = j])
        PROVE  OnItsWay(q, l, active)
    <3>1. r.pc = "RANDOM" /\ q = [r EXCEPT !.pc = "index", !.index = j]
      BY <1>s, <2>2
    <3>2. /\ q.pc = "index" /\ q.index = j /\ q.given = r.given
          /\ q.resized = r.resized /\ q.alone = r.alone
          /\ q.asked = r.asked /\ q.by = r.by
      BY <1>1, <3>1 DEF Locals
    <3>3. Follows(q) /\ ShareSoFar(q, l)
      <4>1. q.pc = "index" /\ q.asked = r.asked /\ q.by = r.by
        BY <3>2
      <4>2. Follows(q) /\ q.asked # "RANDOM_WEIGHT"
        BY <1>2, <3>1, <4>1 DEF Follows
      <4> QED
        BY <4>2 DEF ShareSoFar
    <3>4. InRange(q, l)
      BY <1>1, <1>2, <2>2, <3>1, <3>2 DEF InRange, Alone, Flies, Locals
    <3>5. LeastSoFar(q, l, active)
      BY <1>2, <3>1, <3>2 DEF LeastSoFar, Follows, Alone, Flies
    <3> QED
      BY <3>3, <3>4, <3>5 DEF OnItsWay
  <2> QED
    BY <1>7, <2>1, <2>2 DEF Random
<1>8. ASSUME Hash(c) PROVE OnItsWay(q, l, active)
  <2>1. CASE Panics(c, "HASH")
    BY <1>p, <2>1
  <2>2. ASSUME NEW j, j \in 0..(Len(l) - 1),
               Step(c, "HASH", [r EXCEPT !.pc = "index", !.index = j])
        PROVE  OnItsWay(q, l, active)
    <3>1. r.pc = "HASH" /\ q = [r EXCEPT !.pc = "index", !.index = j]
      BY <1>s, <2>2
    <3>2. /\ q.pc = "index" /\ q.index = j /\ q.given = r.given
          /\ q.resized = r.resized /\ q.alone = r.alone
          /\ q.asked = r.asked /\ q.by = r.by
      BY <1>1, <3>1 DEF Locals
    <3>3. Follows(q) /\ ShareSoFar(q, l)
      <4>1. q.pc = "index" /\ q.asked = r.asked /\ q.by = r.by
        BY <3>2
      <4>2. Follows(q) /\ q.asked # "RANDOM_WEIGHT"
        BY <1>2, <3>1, <4>1 DEF Follows
      <4> QED
        BY <4>2 DEF ShareSoFar
    <3>4. InRange(q, l)
      BY <1>1, <1>2, <2>2, <3>1, <3>2 DEF InRange, Alone, Flies, Locals
    <3>5. LeastSoFar(q, l, active)
      BY <1>2, <3>1, <3>2 DEF LeastSoFar, Follows, Alone, Flies
    <3> QED
      BY <3>3, <3>4, <3>5 DEF OnItsWay
  <2>3. ASSUME NEW h \in Hashes, l # <<>> PROVE h % Len(l) \in 0..(Len(l) - 1)
    <3>1. h \in Nat /\ Len(l) \in Nat \ {0}
      BY <1>1, <2>3, BalancerAssumption
    <3> QED
      BY <3>1
  <2> QED
    BY <1>8, <2>1, <2>2, <2>3 DEF Hash
<1>9. ASSUME ReadSeq(c) PROVE OnItsWay(q, l, active)
  <2>1. r.pc = "ROUND_ROBIN" /\ q = [r EXCEPT !.pc = "incr", !.tmp = lbSeq]
    BY <1>s, <1>9 DEF ReadSeq
  <2> QED
    BY <1>1, <1>2, <2>1 DEF OnItsWay, Follows, InRange, LeastSoFar, ShareSoFar,
                            Alone, Flies, Least, Has, At, Locals
<1>10. ASSUME WriteSeq(c) PROVE OnItsWay(q, l, active)
  BY <1>1, <1>10 DEF WriteSeq, Done, OnItsWay, Follows, InRange, LeastSoFar,
                     ShareSoFar, Alone, Flies, Least, Has, At, Locals
<1>11. ASSUME TurnLen(c) PROVE OnItsWay(q, l, active)
  <2>1. r.pc = "turn" /\ q = [r EXCEPT !.pc = "mod", !.len = Len(l)]
    BY <1>s, <1>11 DEF TurnLen
  <2> QED
    BY <1>1, <1>2, <2>1 DEF OnItsWay, Follows, InRange, LeastSoFar, ShareSoFar,
                            Alone, Flies, Least, Has, At, Locals
<1>12. ASSUME Turn(c) PROVE OnItsWay(q, l, active)
  <2>1. CASE Panics(c, "mod")
    BY <1>p, <2>1
  <2>2. ASSUME NEW j, j \in 0..(r.len - 1),
               Step(c, "mod", [Done(r) EXCEPT !.pc = "index", !.index = j])
        PROVE  OnItsWay(q, l, active)
    <3>1. r.pc = "mod" /\ q = [Done(r) EXCEPT !.pc = "index", !.index = j]
      BY <1>s, <2>2
    <3>2. /\ q.pc = "index" /\ q.index = j /\ q.given = r.given
          /\ q.resized = r.resized /\ q.alone = r.alone
          /\ q.asked = r.asked /\ q.by = r.by
      BY <1>1, <3>1 DEF Done, Locals
    <3>3. Follows(q) /\ ShareSoFar(q, l)
      <4>1. q.pc = "index" /\ q.asked = r.asked /\ q.by = r.by
        BY <3>2
      <4>2. Follows(q) /\ q.asked # "RANDOM_WEIGHT"
        BY <1>2, <3>1, <4>1 DEF Follows
      <4> QED
        BY <4>2 DEF ShareSoFar
    <3>4. InRange(q, l)
      BY <1>1, <1>2, <2>2, <3>1, <3>2 DEF InRange, Alone, Flies, Locals
    <3>5. LeastSoFar(q, l, active)
      BY <1>2, <3>1, <3>2 DEF LeastSoFar, Follows, Alone, Flies
    <3> QED
      BY <3>3, <3>4, <3>5 DEF OnItsWay
  <2>3. r.len > 0 => lbSeq % r.len \in 0..(r.len - 1)
    <3>1. lbSeq \in Nat /\ r.len \in Nat
      BY <1>1, BalancerAssumption DEF BalancerTypes, Locals
    <3> QED
      BY <3>1
  <2> QED
    BY <1>12, <2>1, <2>2, <2>3 DEF Turn
<1>13. ASSUME Index(c) PROVE OnItsWay(q, l, active)
  BY <1>13, <1>r, <1>p DEF Index
<1>t. /\ Total(l, 0) = 0
      /\ \A j \in 0..Len(l) : Total(l, j) \in Nat
      /\ \A j \in 0..(Len(l) - 1) : Total(l, j + 1) = Total(l, j) + Weight[l[j + 1]]
      /\ \A j \in 1..Len(l) : Weight[l[j]] \in Nat
  BY <1>1, TotalIs, BalancerAssumption
<1>14. ASSUME WeightStarts(c) PROVE OnItsWay(q, l, active)
  <2>1. /\ r.pc = "RANDOM_WEIGHT"
        /\ q = [r EXCEPT !.pc = "total", !.i = 0, !.sum = 0]
    BY <1>s, <1>14 DEF WeightStarts
  <2>2. Follows(q) /\ InRange(q, l) /\ LeastSoFar(q, l, active)
    BY <1>1, <1>2, <2>1 DEF LeastSoFar, Follows, InRange, Alone, Flies, Locals
  <2>3. ShareSoFar(q, l)
    BY <1>1, <1>t, <2>1 DEF ShareSoFar, Locals
  <2> QED
    BY <2>2, <2>3 DEF OnItsWay
<1>15. ASSUME TotalTest(c) PROVE OnItsWay(q, l, active)
  <2>1. r.pc = "total"
    BY <1>15 DEF TotalTest, Step
  <2>2. CASE Has(r.i)
    <3>1. q = [r EXCEPT !.pc = "add"]
      BY <1>s, <1>15, <2>2 DEF TotalTest
    <3> QED
      BY <1>1, <1>2, <2>1, <2>2, <3>1 DEF OnItsWay, Follows, InRange,
                                          LeastSoFar, ShareSoFar, Alone, Flies,
                                          Least, Has, At, Locals
  <2>3. CASE ~Has(r.i)
    <3>1. q = [r EXCEPT !.pc = "draw"]
      BY <1>s, <1>15, <2>3 DEF TotalTest
    <3> QED
      BY <1>1, <1>2, <2>1, <2>3, <3>1 DEF OnItsWay, Follows, InRange,
                                          LeastSoFar, ShareSoFar, Alone, Flies,
                                          Least, Has, At, Locals
  <2> QED
    BY <2>2, <2>3
<1>16. ASSUME TotalAdd(c) PROVE OnItsWay(q, l, active)
  <2> DEFINE on == [r EXCEPT !.pc = "total", !.i = r.i + 1,
                             !.sum = @ + Weight[At(r.i)]]
  <2>1. CASE Panics(c, "add")
    BY <1>p, <2>1
  <2>2. ASSUME Has(r.i), Step(c, "add", on) PROVE OnItsWay(q, l, active)
    <3>1. q = on /\ r.pc = "add"
      BY <1>s, <2>2
    <3>2. Follows(q) /\ InRange(q, l) /\ LeastSoFar(q, l, active)
      BY <1>1, <1>2, <2>2, <3>1 DEF LeastSoFar, Follows, InRange, Alone, Flies,
                                    Has, Locals
    <3>3. r.sum = Total(l, r.i) => q.sum = Total(l, q.i)
      <4>1. q.i = r.i + 1 /\ q.sum = r.sum + Weight[l[r.i + 1]]
        BY <1>1, <3>1 DEF At, Locals
      <4>2. r.i \in 0..(Len(l) - 1)
        <5>1. r.i \in Nat /\ r.i < Len(l) /\ Len(l) \in Nat
          BY <1>1, <2>2 DEF Has, Locals
        <5> QED
          BY <5>1
      <4>3. Total(l, r.i + 1) = Total(l, r.i) + Weight[l[r.i + 1]]
        <5> DEFINE i == r.i
        <5>1. i \in 0..(Len(l) - 1)
          BY <4>2
        <5> HIDE DEF i
        <5>2. Total(l, i + 1) = Total(l, i) + Weight[l[i + 1]]
          BY <1>t, <5>1
        <5> QED
          BY <5>2 DEF i
      <4> QED
        BY <4>1, <4>3
    <3>4. ShareSoFar(q, l)
      BY <1>1, <1>2, <3>1, <3>3 DEF ShareSoFar, Locals, Alone, Flies
    <3> QED
      BY <3>2, <3>4 DEF OnItsWay
  <2> QED
    BY <1>16, <2>1, <2>2 DEF TotalAdd
<1>17. ASSUME Draw(c) PROVE OnItsWay(q, l, active)
  <2>1. CASE Panics(c, "draw")
    BY <1>p, <2>1
  <2>2. ASSUME NEW j \in 0..(r.sum - 1),
               Step(c, "draw", [r EXCEPT !.pc = "test", !.i = 0, !.sum = j,
                                         !.drawn = j])
        PROVE  OnItsWay(q, l, active)
    <3>1. /\ r.pc = "draw" /\ q.pc = "test" /\ q.i = 0 /\ q.sum = j
          /\ q.drawn = j /\ j < r.sum /\ j \in Nat /\ r.sum \in Nat
          /\ q = [r EXCEPT !.pc = "test", !.i = 0, !.sum = j, !.drawn = j]
      <4>1. /\ r.pc = "draw"
            /\ q = [r EXCEPT !.pc = "test", !.i = 0, !.sum = j, !.drawn = j]
        BY <1>s, <2>2
      <4>2. r.sum \in Nat
        BY <1>1 DEF Locals
      <4> QED
        BY <1>1, <4>1, <4>2 DEF Locals
    <3>2. Follows(q) /\ InRange(q, l) /\ LeastSoFar(q, l, active)
      BY <1>1, <1>2, <3>1 DEF LeastSoFar, Follows, InRange, Alone, Flies, Has,
                              Locals
    <3>3. q.sum + Total(l, 0) = q.drawn
      BY <1>t, <3>1
    <3>4. ShareSoFar(q, l)
      BY <1>1, <1>2, <3>1, <3>3 DEF ShareSoFar, Locals, Alone, Flies
    <3> QED
      BY <3>2, <3>4 DEF OnItsWay
  <2> QED
    BY <1>17, <2>1, <2>2 DEF Draw
<1>18. ASSUME PickTest(c) PROVE OnItsWay(q, l, active)
  <2>1. r.pc = "test"
    BY <1>18 DEF PickTest, Step
  <2>2. CASE Has(r.i)
    <3>1. q = [r EXCEPT !.pc = "pick"]
      BY <1>s, <1>18, <2>2 DEF PickTest
    <3> QED
      BY <1>1, <1>2, <2>1, <2>2, <3>1 DEF OnItsWay, Follows, InRange,
                                          LeastSoFar, ShareSoFar, Alone, Flies,
                                          Least, Has, At, Locals
  <2>3. CASE ~Has(r.i)
    <3>1. q = [Done(r) EXCEPT !.pc = "index", !.drawn = r.drawn]
      BY <1>s, <1>18, <2>3 DEF PickTest
    <3>f. /\ q.pc = "index" /\ q.index = 0 /\ q.given = r.given
          /\ q.resized = r.resized /\ q.alone = r.alone
          /\ q.asked = r.asked /\ q.by = r.by
      BY <1>1, <3>1 DEF Done, Locals
    <3>2. Follows(q) /\ LeastSoFar(q, l, active)
      <4>1. q.pc = "index" /\ q.asked = r.asked /\ q.by = r.by
        BY <3>f
      <4>2. Follows(q) /\ q.asked # "ACTIVE"
        BY <1>2, <2>1, <4>1 DEF Follows
      <4> QED
        BY <4>2 DEF LeastSoFar
    <3>i. InRange(q, l)
      BY <1>1, <1>2, <2>1, <3>f DEF InRange, Alone, Flies, Locals
    <3>3. ~Alone(r)
      <4>1. Alone(r) => r.i = Len(l) /\ r.asked = "RANDOM_WEIGHT"
        BY <1>1, <1>2, <2>1, <2>3 DEF Follows, InRange, Alone, Flies, Has,
                                      Locals
      <4>2. Alone(r) => r.sum + Total(l, Len(l)) < Total(l, Len(l))
        BY <1>2, <2>1, <4>1 DEF ShareSoFar
      <4>3. r.sum \in Nat /\ Total(l, Len(l)) \in Nat
        BY <1>1, <1>t DEF Locals
      <4> QED
        BY <4>2, <4>3
    <3>4. ShareSoFar(q, l)
      BY <1>1, <2>1, <3>1, <3>3 DEF ShareSoFar, Done, Locals, Alone, Flies
    <3> QED
      BY <3>2, <3>i, <3>4 DEF OnItsWay
  <2> QED
    BY <2>2, <2>3
<1>19. ASSUME Pick(c) PROVE OnItsWay(q, l, active)
  <2> DEFINE w == Weight[At(r.i)]
             on == [r EXCEPT !.pc = "test", !.i = r.i + 1, !.sum = r.sum - w]
  <2>1. CASE Panics(c, "pick")
    BY <1>p, <2>1
  <2>2. CASE Returns(c, "pick", At(r.i))
    BY <1>r, <2>2
  <2>3. ASSUME Has(r.i), Step(c, "pick", on) PROVE OnItsWay(q, l, active)
    <3>1. q = on /\ r.pc = "pick"
      BY <1>s, <2>3
    <3> HIDE DEF w
    <3>2. Follows(q) /\ InRange(q, l) /\ LeastSoFar(q, l, active)
      BY <1>1, <1>2, <2>3, <3>1 DEF LeastSoFar, Follows, InRange, Alone, Flies,
                                    Has, Locals
    <3>3. q.sum + Total(l, q.i) = r.sum + Total(l, r.i)
      <4>1. /\ q.sum = r.sum - w /\ q.i = r.i + 1 /\ r.i \in Nat /\ r.sum \in Nat
        BY <1>1, <3>1 DEF Locals
      <4>2. r.i \in 0..(Len(l) - 1) /\ r.i + 1 \in 1..Len(l)
        BY <1>1, <2>3, <4>1 DEF Has
      <4>3. w = Weight[l[r.i + 1]] /\ w \in Nat
        BY <1>t, <4>2 DEF w, At
      <4>4. Total(l, r.i) \in Nat /\ Total(l, r.i + 1) = Total(l, r.i) + w
        BY <1>t, <4>2, <4>3
      <4> QED
        BY <4>1, <4>3, <4>4
    <3>4. ShareSoFar(q, l)
      BY <1>1, <1>2, <3>1, <3>3 DEF ShareSoFar, Locals, Alone, Flies
    <3> QED
      BY <3>2, <3>4 DEF OnItsWay
  <2> QED
    BY <1>19, <2>1, <2>2, <2>3 DEF Pick
<1>20. ASSUME NEW policy \in Policies, GetNode(c, policy)
      PROVE  OnItsWay(q, l, active)
  <2>1. ASSUME NEW n, Returns(c, "get", n) PROVE OnItsWay(q, l, active)
    BY <1>r, <2>1
  <2>2. ASSUME l # <<>>, Step(c, "get", [r EXCEPT !.pc = policy, !.asked = policy,
                                                  !.by = policy])
        PROVE  OnItsWay(q, l, active)
    <3>1. policy \in {"ACTIVE", "RANDOM", "HASH", "ROUND_ROBIN", "RANDOM_WEIGHT"}
      BY BalancerAssumption
    <3> QED
      <4>1. r.pc = "get" /\ q = [r EXCEPT !.pc = policy, !.asked = policy,
                                         !.by = policy]
        BY <1>s, <2>2
      <4>2. /\ q.pc = policy /\ q.asked = policy /\ q.by = policy
            /\ q.given = r.given /\ q.resized = r.resized /\ q.alone = r.alone
        BY <1>1, <4>1 DEF Locals
      <4>3. Follows(q) /\ LeastSoFar(q, l, active) /\ ShareSoFar(q, l)
        BY <3>1, <4>2 DEF Follows, LeastSoFar, ShareSoFar
      <4>4. InRange(q, l)
        BY <1>1, <1>2, <2>2, <3>1, <4>1, <4>2 DEF InRange, Alone, Flies
      <4> QED
        BY <4>3, <4>4 DEF OnItsWay
  <2> QED
    BY <1>20, <2>1, <2>2 DEF GetNode
<1>21. ASSUME NEW m \in Lists, SetNodes(c, m) PROVE OnItsWay(q, l, active)
  <2>1. l = m
    BY <1>21 DEF Goes, SetNodes
  <2>2. /\ q.pc = "get" /\ q.given = Len(l) /\ q.resized = FALSE
        /\ q.asked = None /\ q.by = None
    BY <1>1, <1>21, <2>1 DEF SetNodes, Fresh
  <2> QED
    BY <2>2, BalancerAssumption
       DEF OnItsWay, Follows, InRange, LeastSoFar, ShareSoFar
<1> QED
  BY <1>3, <1>4, <1>5, <1>6, <1>7, <1>8, <1>9, <1>10, <1>11, <1>12, <1>13,
     <1>14, <1>15, <1>16, <1>17, <1>18, <1>19, <1>20, <1>21
     DEF Choosing, ByActive, ByTurn, ByWeight

-----------------------------------------------------------------------------
\* A balancer that has met no request satisfies the invariant.
LEMMA BalancerInitInv == BalancerInit => BalancerInv
<1> SUFFICES ASSUME BalancerInit PROVE BalancerInv
  OBVIOUS
<1>1. BalancerTypes
  <2>1. Fresh \in Locals
    BY DEF Fresh, Locals, Labels
  <2>2. active \in [Nodes -> Int]
    BY BalancerAssumption DEF BalancerInit
  <2>3. 0 \in 0..(Period - 1)
    BY BalancerAssumption
  <2> QED
    BY <2>1, <2>2, <2>3 DEF BalancerInit, BalancerTypes
<1>2. ASSUME NEW c \in Callers PROVE OnItsWay(req[c], nodeList, active)
  BY DEF BalancerInit, Fresh, OnItsWay, Follows, InRange, LeastSoFar,
         ShareSoFar, Alone, Flies
<1> QED
  BY <1>1, <1>2 DEF BalancerInv

\* The other requests: a list of another length or a change of a load is
\* noticed, and nothing else touches them.
LEMMA BalancerInvStep == BalancerInv /\ [BalancerNext]_balancerVars => BalancerInv'
<1> SUFFICES ASSUME BalancerInv, [BalancerNext]_balancerVars
             PROVE  \A d \in Callers : OnItsWay(req'[d], nodeList', active')
  BY BalancerTypesStep DEF BalancerInv
<1>1. BalancerTypes /\ req \in [Callers -> Locals]
  BY DEF BalancerInv, BalancerTypes
<1>2. ASSUME NEW c \in Callers, Choosing(c), Goes(c), NEW d \in Callers
      PROVE  OnItsWay(req'[d], nodeList', active')
  <2>1. nodeList' = nodeList /\ active' = active
    BY <1>2 DEF Goes
  <2>2. CASE d = c
    BY <1>1, <1>2, <2>1, <2>2, StaysOnItsWay DEF BalancerInv
  <2>3. CASE d # c
    <3>1. req'[d] = req[d]
      BY <1>1, <1>2, <2>3 DEF Goes
    <3> QED
      BY <2>1, <3>1 DEF BalancerInv
  <2> QED
    BY <2>2, <2>3
<1>3. ASSUME NEW c \in Callers, NEW l \in Lists, SetNodes(c, l), NEW d \in Callers
      PROVE  OnItsWay(req'[d], nodeList', active')
  <2> DEFINE r == req[d]
             q == req'[d]
  <2>1. nodeList' = l /\ active' = active /\ r \in Locals /\ Len(l) \in Nat
        /\ OnItsWay(r, nodeList, active)
    <3>1. Len(l) \in Nat
      BY BalancerAssumption
    <3>2. nodeList' = l /\ active' = active
      BY <1>3 DEF SetNodes
    <3> QED
      BY <1>1, <3>1, <3>2 DEF BalancerInv
  <2>2. CASE d = c
    <3>1. /\ q.pc = "get" /\ q.given = Len(l) /\ q.resized = FALSE
          /\ q.asked = None /\ q.by = None
      BY <1>1, <1>3, <2>2 DEF SetNodes, Fresh
    <3> QED
      BY <2>1, <3>1, BalancerAssumption
         DEF OnItsWay, Follows, InRange, LeastSoFar, ShareSoFar
  <2>3. CASE d # c /\ InFlight(d)
    <3>1. q = [r EXCEPT !.alone = FALSE, !.resized = @ \/ r.given # Len(l)]
      BY <1>3, <2>3 DEF SetNodes
    <3>2. /\ ~Alone(q) /\ Follows(q)
          /\ ~q.resized => ~r.resized /\ r.given = Len(l)
      BY <2>1, <3>1 DEF OnItsWay, Alone, Follows, Locals
    <3>3. InRange(q, l)
      BY <2>1, <3>1, <3>2 DEF OnItsWay, InRange, Flies, Locals
    <3> QED
      BY <2>1, <3>2, <3>3 DEF OnItsWay, LeastSoFar, ShareSoFar
  <2>4. CASE d # c /\ ~InFlight(d)
    <3>1. q = r /\ ~Flies(q)
      BY <1>3, <2>4 DEF SetNodes, InFlight, Flies
    <3> QED
      BY <2>1, <3>1 DEF OnItsWay, InRange, LeastSoFar, ShareSoFar, Alone
  <2> QED
    BY <2>2, <2>3, <2>4
<1>4. ASSUME NEW n \in Nodes, NEW k \in 0..MaxActive, LoadChanges(n, k),
             NEW d \in Callers
      PROVE  OnItsWay(req'[d], nodeList', active')
  <2> DEFINE r == req[d]
             q == req'[d]
  <2>1. /\ nodeList' = nodeList /\ q = [r EXCEPT !.alone = FALSE]
        /\ r \in Locals /\ OnItsWay(r, nodeList, active)
    BY <1>1, <1>4 DEF LoadChanges, BalancerInv
  <2>2. ~Alone(q) /\ Follows(q) /\ InRange(q, nodeList)
    BY <2>1 DEF OnItsWay, Alone, Follows, InRange, Flies, Locals
  <2> QED
    BY <2>1, <2>2 DEF OnItsWay, LeastSoFar, ShareSoFar
<1>5. CASE UNCHANGED balancerVars
  BY <1>5 DEF balancerVars, BalancerInv
<1> QED
  BY <1>1, <1>2, <1>3, <1>4, <1>5, Moves DEF BalancerNext

\* So the invariant holds in every behaviour.
LEMMA BalancerInvAlways == BalancerSpec => []BalancerInv
BY BalancerInitInv, BalancerInvStep, PTL DEF BalancerSpec

-----------------------------------------------------------------------------
\* How a step of a request ends: it goes on in the same function or in another,
\* it panics for want of an index, a length or a sum, or it returns a node.
Continues(c) ==
    /\ Flies(req[c]) /\ Flies(req'[c]) /\ req'[c].alone = req[c].alone
    /\ turn' = turn /\ picked' = picked

Lacks(r) ==
    \/ r.pc = "first" /\ ~Has(0)
    \/ r.pc = "scan" /\ r.i < r.len /\ ~Has(r.i)
    \/ r.pc \in {"RANDOM", "HASH"} /\ nodeList = <<>>
    \/ r.pc = "mod" /\ r.len = 0
    \/ r.pc = "index" /\ ~Has(r.index)
    \/ r.pc \in {"add", "pick"} /\ ~Has(r.i)
    \/ r.pc = "draw" /\ r.sum = 0

PanicsFor(c) == Lacks(req[c]) /\ Panics(c, req[c].pc)

IndexReturns(c) ==
    Has(req[c].index) /\ Returns(c, "index", At(req[c].index))

PickReturns(c) ==
    /\ Has(req[c].i) /\ req[c].sum - Weight[At(req[c].i)] <= 0
    /\ Returns(c, "pick", At(req[c].i))

\* Every step of a request ends in one of these ways.
LEMMA Endings ==
  ASSUME NEW c \in Callers, Choosing(c), BalancerTypes
  PROVE  \/ \E l \in Lists : SetNodes(c, l)
         \/ Continues(c) \/ PanicsFor(c) \/ IndexReturns(c) \/ PickReturns(c)
         \/ nodeList = <<>> /\ Returns(c, "get", None)
<1> DEFINE r == req[c]
           Ends == \/ Continues(c) \/ PanicsFor(c) \/ IndexReturns(c)
                   \/ PickReturns(c)
                   \/ nodeList = <<>> /\ Returns(c, "get", None)
<1>1. req \in [Callers -> Locals] /\ r \in Locals
  BY DEF BalancerTypes
<1>2. ASSUME ActiveLen(c) PROVE Ends
  BY <1>1, <1>2 DEF ActiveLen, Step, Panics, PanicsFor, Lacks, Continues, Flies,
                    Locals
<1>3. ASSUME First(c) PROVE Ends
  <2>1. CASE ~Has(0) /\ Panics(c, "first")
    BY <2>1 DEF Panics, PanicsFor, Lacks
  <2>2. ASSUME NEW k,
               Step(c, "first", [r EXCEPT !.pc = "scan", !.i = 1, !.index = 0, !.least = k])
        PROVE  Ends
    BY <1>1, <2>2 DEF Step, Continues, Flies, Locals
  <2> QED
    BY <1>3, <2>1, <2>2 DEF First
<1>4. ASSUME Scan(c) PROVE Ends
  <2>1. CASE r.i < r.len /\ ~Has(r.i) /\ Panics(c, "scan")
    BY <2>1 DEF Panics, PanicsFor, Lacks
  <2>2. ASSUME NEW k, Step(c, "scan", [r EXCEPT !.i = k])
        PROVE  Ends
    BY <1>1, <2>2 DEF Step, Continues, Flies, Locals
  <2>3. ASSUME NEW k, NEW j, NEW a,
               Step(c, "scan", [r EXCEPT !.i = k, !.index = j, !.least = a])
        PROVE  Ends
    BY <1>1, <2>3 DEF Step, Continues, Flies, Locals
  <2> QED
    BY <1>4, <2>1, <2>2, <2>3 DEF Scan
<1>5. ASSUME ScanEnds(c) PROVE Ends
  BY <1>1, <1>5 DEF ScanEnds, Done, Step, Panics, PanicsFor, Lacks, Continues,
                    Flies, Locals
<1>6. ASSUME Random(c) PROVE Ends
  <2>1. CASE nodeList = <<>> /\ Panics(c, "RANDOM")
    BY <2>1 DEF Panics, PanicsFor, Lacks
  <2>2. ASSUME NEW k, Step(c, "RANDOM", [r EXCEPT !.pc = "index", !.index = k])
        PROVE  Ends
    BY <1>1, <2>2 DEF Step, Continues, Flies, Locals
  <2> QED
    BY <1>6, <2>1, <2>2 DEF Random
<1>7. ASSUME Hash(c) PROVE Ends
  <2>1. CASE nodeList = <<>> /\ Panics(c, "HASH")
    BY <2>1 DEF Panics, PanicsFor, Lacks
  <2>2. ASSUME NEW k, Step(c, "HASH", [r EXCEPT !.pc = "index", !.index = k])
        PROVE  Ends
    BY <1>1, <2>2 DEF Step, Continues, Flies, Locals
  <2> QED
    BY <1>7, <2>1, <2>2 DEF Hash
<1>8. ASSUME ReadSeq(c) PROVE Ends
  BY <1>1, <1>8 DEF ReadSeq, Step, Panics, PanicsFor, Lacks, Continues, Flies,
                    Locals
<1>9. ASSUME TurnLen(c) PROVE Ends
  BY <1>1, <1>9 DEF TurnLen, Step, Panics, PanicsFor, Lacks, Continues, Flies,
                    Locals
<1>10. ASSUME Turn(c) PROVE Ends
  <2>1. CASE r.len = 0 /\ Panics(c, "mod")
    BY <2>1 DEF Panics, PanicsFor, Lacks
  <2>2. ASSUME NEW k, Step(c, "mod", [Done(r) EXCEPT !.pc = "index", !.index = k])
        PROVE  Ends
    BY <1>1, <2>2 DEF Step, Done, Continues, Flies, Locals
  <2> QED
    BY <1>10, <2>1, <2>2 DEF Turn
<1>11. ASSUME WeightStarts(c) PROVE Ends
  BY <1>1, <1>11 DEF WeightStarts, Step, Panics, PanicsFor, Lacks, Continues,
                     Flies, Locals
<1>12. ASSUME TotalTest(c) PROVE Ends
  BY <1>1, <1>12 DEF TotalTest, Step, Panics, PanicsFor, Lacks, Continues,
                     Flies, Locals
<1>13. ASSUME TotalAdd(c) PROVE Ends
  <2>1. CASE ~Has(r.i) /\ Panics(c, "add")
    BY <2>1 DEF Panics, PanicsFor, Lacks
  <2>2. ASSUME NEW k, NEW n,
               Step(c, "add", [r EXCEPT !.pc = "total", !.i = k, !.sum = n])
        PROVE  Ends
    BY <1>1, <2>2 DEF Step, Continues, Flies, Locals
  <2> QED
    BY <1>13, <2>1, <2>2 DEF TotalAdd
<1>14. ASSUME Draw(c) PROVE Ends
  <2>1. CASE r.sum = 0 /\ Panics(c, "draw")
    BY <2>1 DEF Panics, PanicsFor, Lacks
  <2>2. ASSUME NEW k,
               Step(c, "draw", [r EXCEPT !.pc = "test", !.i = 0, !.sum = k, !.drawn = k])
        PROVE  Ends
    BY <1>1, <2>2 DEF Step, Continues, Flies, Locals
  <2> QED
    BY <1>14, <2>1, <2>2 DEF Draw
<1>15. ASSUME PickTest(c) PROVE Ends
  BY <1>1, <1>15 DEF PickTest, Done, Step, Panics, PanicsFor, Lacks, Continues,
                     Flies, Locals
<1>16. ASSUME WriteSeq(c) PROVE Ends
  BY <1>1, <1>16 DEF WriteSeq, Done, Continues, Flies, Locals
<1>17. ASSUME Index(c) PROVE Ends
  BY <1>17 DEF Index, IndexReturns, Panics, PanicsFor, Lacks
<1>18. ASSUME Pick(c) PROVE Ends
  <2>1. CASE ~Has(r.i) /\ Panics(c, "pick")
    BY <2>1 DEF Panics, PanicsFor, Lacks
  <2>2. CASE PickReturns(c)
    BY <2>2
  <2>3. ASSUME NEW k, NEW n,
               Step(c, "pick", [r EXCEPT !.pc = "test", !.i = k, !.sum = n])
        PROVE  Ends
    BY <1>1, <2>3 DEF Step, Continues, Flies, Locals
  <2> QED
    BY <1>18, <2>1, <2>2, <2>3 DEF Pick, PickReturns
<1>19. ASSUME NEW policy \in Policies, GetNode(c, policy) PROVE Ends
  <2>1. policy \notin {"idle", "panicked"}
    BY BalancerAssumption
  <2>2. CASE nodeList = <<>> /\ Returns(c, "get", None)
    BY <2>2
  <2>3. CASE Step(c, "get", [r EXCEPT !.pc = policy, !.asked = policy,
                                      !.by = policy])
    <3>1. r.pc = "get" /\ req'[c].pc = policy /\ req'[c].alone = r.alone
      BY <1>1, <2>3 DEF Step, Locals
    <3>2. turn' = turn /\ picked' = picked
      BY <2>3 DEF Step
    <3> QED
      BY <2>1, <3>1, <3>2 DEF Continues, Flies
  <2> QED
    BY <1>19, <2>2, <2>3 DEF GetNode
<1> QED
  BY <1>2, <1>3, <1>4, <1>5, <1>6, <1>7, <1>8, <1>9, <1>10, <1>11, <1>12,
     <1>13, <1>14, <1>15, <1>16, <1>17, <1>18, <1>19
     DEF Choosing, ByActive, ByTurn, ByWeight

\* Only a request's own step ends it.
LEMMA EndsSo ==
  ASSUME NEW c \in Callers, BalancerTypes, [BalancerNext]_balancerVars,
         req'[c].pc \in {"idle", "panicked"}, req[c].pc # req'[c].pc
  PROVE  \/ PanicsFor(c) \/ IndexReturns(c) \/ PickReturns(c)
         \/ Returns(c, "get", None)
<1>1. req \in [Callers -> Locals]
  BY DEF BalancerTypes
<1>2. ASSUME NEW d \in Callers, NEW l \in Lists, SetNodes(d, l) PROVE FALSE
  <2>1. CASE d = c
    <3>1. req'[c].pc = "get"
      BY <1>1, <1>2, <2>1 DEF SetNodes, Fresh, Locals
    <3> QED
      BY <3>1
  <2>2. CASE d # c
    <3>1. req'[c].pc = req[c].pc
      BY <1>1, <1>2, <2>2 DEF SetNodes, Locals
    <3> QED
      BY <3>1
  <2> QED
    BY <2>1, <2>2
<1>3. ASSUME NEW n \in Nodes, NEW k \in 0..MaxActive, LoadChanges(n, k)
      PROVE  FALSE
  BY <1>1, <1>3 DEF LoadChanges, Locals
<1>4. ASSUME NEW d \in Callers, d # c, Choosing(d) PROVE FALSE
  BY <1>1, <1>2, <1>4, Moves DEF Goes
<1>5. CASE UNCHANGED balancerVars
  BY <1>5 DEF balancerVars
<1>6. CASE Choosing(c)
  BY <1>2, <1>6, Endings DEF Continues, Flies
<1> QED
  BY <1>3, <1>4, <1>5, <1>6 DEF BalancerNext

-----------------------------------------------------------------------------
\* Panics.
\* The request that goes on.
LEMMA WeightyGoesOn ==
  ASSUME NEW c \in Callers, Choosing(c), BalancerInv, Goes(c), Weighty(req[c]),
         \A n \in Nodes : Weight[n] > 0
  PROVE  Weighty(req'[c])
<1> DEFINE r == req[c]
           q == req'[c]
           l == nodeList
<1>1. /\ r \in Locals /\ l \in Seq(Nodes) /\ req \in [Callers -> Locals]
      /\ Follows(r) /\ InRange(r, l)
  BY DEF BalancerInv, BalancerTypes, OnItsWay
<1>2. ASSUME WeightStarts(c) PROVE Weighty(q)
  BY <1>1, <1>2 DEF WeightStarts, Step, Weighty, Locals
<1>3. ASSUME TotalTest(c) PROVE Weighty(q)
  <2>1. CASE Has(r.i)
    BY <1>1, <1>3, <2>1 DEF TotalTest, Step, Weighty, Flies, Locals
  <2>2. CASE ~Has(r.i)
    <3>1. r.pc = "total" /\ q = [r EXCEPT !.pc = "draw"]
      BY <1>1, <1>3, <2>2 DEF TotalTest, Step
    <3>2. Flies(r) /\ ~r.resized => r.sum > 0
      BY <1>1, <2>2, <3>1 DEF Weighty, InRange, Flies, Has, Locals
    <3> QED
      BY <1>1, <3>1, <3>2 DEF Weighty, Flies, Locals
  <2> QED
    BY <2>1, <2>2
<1>4. ASSUME TotalAdd(c) PROVE Weighty(q)
  <2>1. CASE Panics(c, "add")
    BY <1>1, <2>1 DEF Panics, Weighty, Flies, Fresh
  <2>2. CASE /\ Has(r.i)
             /\ Step(c, "add", [r EXCEPT !.pc = "total", !.i = r.i + 1,
                                         !.sum = @ + Weight[At(r.i)]])
    <3>1. Weight[At(r.i)] \in Nat /\ Weight[At(r.i)] > 0
      <4>1. At(r.i) \in Nodes
        <5>1. r.i \in Nat /\ nodeList \in Seq(Nodes)
          BY <1>1 DEF Locals, BalancerTypes
        <5>2. r.i + 1 \in 1..Len(nodeList)
          BY <2>2, <5>1 DEF Has
        <5> QED
          BY <5>1, <5>2 DEF At
      <4> QED
        BY <4>1, BalancerAssumption
    <3>2. /\ r.pc = "add" /\ q.pc = "total" /\ q.i = r.i + 1
          /\ q.sum = r.sum + Weight[At(r.i)] /\ q.resized = r.resized
      BY <1>1, <2>2 DEF Step, Locals
    <3> QED
      BY <1>1, <3>1, <3>2 DEF Weighty, Flies, Locals
  <2> QED
    BY <1>4, <2>1, <2>2 DEF TotalAdd
<1>5. ASSUME ~(WeightStarts(c) \/ TotalTest(c) \/ TotalAdd(c))
      PROVE  q.pc \notin {"total", "add", "draw"}
  <2>1. ASSUME ActiveLen(c) PROVE q.pc \notin {"total", "add", "draw"}
    BY <1>1, <2>1 DEF ActiveLen, Step, Returns, Panics, Fresh, Locals
  <2>2. ASSUME First(c) PROVE q.pc \notin {"total", "add", "draw"}
    <3>1. CASE Panics(c, "first")
      BY <1>1, <3>1 DEF Panics, Fresh
    <3>2. ASSUME NEW k,
               Step(c, "first", [r EXCEPT !.pc = "scan", !.i = 1, !.index = 0, !.least = k])
          PROVE  q.pc \notin {"total", "add", "draw"}
      BY <1>1, <3>2 DEF Step, Locals
    <3> QED
      BY <2>2, <3>1, <3>2 DEF First
  <2>3. ASSUME Scan(c) PROVE q.pc \notin {"total", "add", "draw"}
    <3>1. CASE Panics(c, "scan")
      BY <1>1, <3>1 DEF Panics, Fresh
    <3>2. ASSUME NEW k, Step(c, "scan", [r EXCEPT !.i = k]) PROVE q.pc \notin {"total", "add", "draw"}
      BY <1>1, <3>2 DEF Step, Locals
    <3>3. ASSUME NEW k, NEW n, NEW a,
                 Step(c, "scan", [r EXCEPT !.i = k, !.index = n, !.least = a])
          PROVE  q.pc \notin {"total", "add", "draw"}
      BY <1>1, <3>3 DEF Step, Locals
    <3> QED
      BY <2>3, <3>1, <3>2, <3>3 DEF Scan
  <2>4. ASSUME ScanEnds(c) PROVE q.pc \notin {"total", "add", "draw"}
    BY <1>1, <2>4 DEF ScanEnds, Step, Returns, Panics, Fresh, Locals, Done
  <2>5. ASSUME Random(c) PROVE q.pc \notin {"total", "add", "draw"}
    <3>1. CASE Panics(c, "RANDOM")
      BY <1>1, <3>1 DEF Panics, Fresh
    <3>2. ASSUME NEW k,
               Step(c, "RANDOM", [r EXCEPT !.pc = "index", !.index = k])
          PROVE  q.pc \notin {"total", "add", "draw"}
      BY <1>1, <3>2 DEF Step, Locals
    <3> QED
      BY <2>5, <3>1, <3>2 DEF Random
  <2>6. ASSUME Hash(c) PROVE q.pc \notin {"total", "add", "draw"}
    <3>1. CASE Panics(c, "HASH")
      BY <1>1, <3>1 DEF Panics, Fresh
    <3>2. ASSUME NEW k,
               Step(c, "HASH", [r EXCEPT !.pc = "index", !.index = k])
          PROVE  q.pc \notin {"total", "add", "draw"}
      BY <1>1, <3>2 DEF Step, Locals
    <3> QED
      BY <2>6, <3>1, <3>2 DEF Hash
  <2>7. ASSUME ReadSeq(c) PROVE q.pc \notin {"total", "add", "draw"}
    BY <1>1, <2>7 DEF ReadSeq, Step, Returns, Panics, Fresh, Locals
  <2>8. ASSUME WriteSeq(c) PROVE q.pc \notin {"total", "add", "draw"}
    BY <1>1, <2>8 DEF WriteSeq, Step, Returns, Panics, Fresh, Locals, Done
  <2>9. ASSUME TurnLen(c) PROVE q.pc \notin {"total", "add", "draw"}
    BY <1>1, <2>9 DEF TurnLen, Step, Returns, Panics, Fresh, Locals
  <2>10. ASSUME Turn(c) PROVE q.pc \notin {"total", "add", "draw"}
    <3>1. CASE Panics(c, "mod")
      BY <1>1, <3>1 DEF Panics, Fresh
    <3>2. ASSUME NEW k,
               Step(c, "mod", [Done(r) EXCEPT !.pc = "index", !.index = k])
          PROVE  q.pc \notin {"total", "add", "draw"}
      BY <1>1, <3>2 DEF Step, Locals, Done
    <3> QED
      BY <2>10, <3>1, <3>2 DEF Turn
  <2>11. ASSUME Index(c) PROVE q.pc \notin {"total", "add", "draw"}
    BY <1>1, <2>11 DEF Index, Step, Returns, Panics, Fresh, Locals
  <2>12. ASSUME Draw(c) PROVE q.pc \notin {"total", "add", "draw"}
    <3>1. CASE Panics(c, "draw")
      BY <1>1, <3>1 DEF Panics, Fresh
    <3>2. ASSUME NEW k,
               Step(c, "draw", [r EXCEPT !.pc = "test", !.i = 0, !.sum = k, !.drawn = k])
          PROVE  q.pc \notin {"total", "add", "draw"}
      BY <1>1, <3>2 DEF Step, Locals
    <3> QED
      BY <2>12, <3>1, <3>2 DEF Draw
  <2>13. ASSUME PickTest(c) PROVE q.pc \notin {"total", "add", "draw"}
    BY <1>1, <2>13 DEF PickTest, Step, Returns, Panics, Fresh, Locals, Done
  <2>14. ASSUME Pick(c) PROVE q.pc \notin {"total", "add", "draw"}
    <3>1. CASE Panics(c, "pick") \/ Returns(c, "pick", At(r.i))
      BY <1>1, <3>1 DEF Panics, Returns, Fresh
    <3>2. ASSUME NEW k, NEW n,
                 Step(c, "pick", [r EXCEPT !.pc = "test", !.i = k, !.sum = n])
          PROVE  q.pc \notin {"total", "add", "draw"}
      BY <1>1, <3>2 DEF Step, Locals
    <3> QED
      BY <2>14, <3>1, <3>2 DEF Pick
  <2>15. ASSUME NEW policy \in Policies, GetNode(c, policy)
        PROVE  q.pc \notin {"total", "add", "draw"}
    <3>1. policy \notin {"total", "add", "draw"}
      BY BalancerAssumption
    <3>2. CASE Returns(c, "get", None)
      BY <1>1, <3>2 DEF Returns, Fresh
    <3>3. CASE Step(c, "get", [r EXCEPT !.pc = policy, !.asked = policy,
                                        !.by = policy])
      BY <1>1, <3>1, <3>3 DEF Step, Locals
    <3> QED
      BY <2>15, <3>2, <3>3 DEF GetNode
  <2>16. ASSUME NEW m \in Lists, SetNodes(c, m)
        PROVE  q.pc \notin {"total", "add", "draw"}
    BY <1>1, <2>16 DEF SetNodes, Fresh, Locals
  <2> QED
    BY <1>5, <2>1, <2>2, <2>3, <2>4, <2>5, <2>6, <2>7, <2>8, <2>9, <2>10,
       <2>11, <2>12, <2>13, <2>14, <2>15, <2>16
       DEF Choosing, ByActive, ByTurn, ByWeight
<1> QED
  BY <1>2, <1>3, <1>4, <1>5 DEF Weighty

\* The others, beside it.
LEMMA WeightyStep ==
  ASSUME BalancerInv, AllWeighty, [BalancerNext]_balancerVars,
         \A n \in Nodes : Weight[n] > 0
  PROVE  AllWeighty'
<1> SUFFICES ASSUME NEW d \in Callers PROVE Weighty(req'[d])
  BY DEF AllWeighty
<1>1. BalancerTypes /\ req \in [Callers -> Locals] /\ Weighty(req[d])
  BY DEF BalancerInv, BalancerTypes, AllWeighty
<1>2. ASSUME NEW c \in Callers, Choosing(c), Goes(c) PROVE Weighty(req'[d])
  <2>1. CASE c = d
    BY <1>1, <1>2, <2>1, WeightyGoesOn
  <2>2. CASE c # d
    BY <1>1, <1>2, <2>2 DEF Goes
  <2> QED
    BY <2>1, <2>2
<1>3. ASSUME NEW c \in Callers, NEW l \in Lists, SetNodes(c, l)
      PROVE  Weighty(req'[d])
  <2>1. CASE d = c
    <3>1. req'[d].pc = "get"
      BY <1>1, <1>3, <2>1 DEF SetNodes, Fresh, Locals
    <3> QED
      BY <3>1 DEF Weighty
  <2>2. CASE d # c
    <3> DEFINE before == req[d]  after == req'[d]
    <3>1. \/ after = before
          \/ after = [before EXCEPT !.alone = FALSE,
                                    !.resized = @ \/ before.given # Len(l)]
      BY <1>3, <2>2 DEF SetNodes
    <3>2. before \in Locals /\ Weighty(before)
      BY <1>1
    <3> HIDE DEF before, after
    <3>3. /\ after.pc = before.pc /\ after.i = before.i
          /\ after.sum = before.sum
      BY <3>1, <3>2 DEF Locals
    <3>4. before.resized => after.resized
      BY <3>1, <3>2 DEF Locals
    <3>5. Weighty(after)
      BY <3>2, <3>3, <3>4 DEF Weighty, Flies
    <3> QED
      BY <3>5 DEF after
  <2> QED
    BY <2>1, <2>2
<1>4. ASSUME NEW n \in Nodes, NEW k \in 0..MaxActive, LoadChanges(n, k)
      PROVE  Weighty(req'[d])
  BY <1>1, <1>4 DEF LoadChanges, Weighty, Flies, Locals
<1>5. CASE UNCHANGED balancerVars
  BY <1>1, <1>5 DEF balancerVars
<1> QED
  BY <1>1, <1>2, <1>3, <1>4, <1>5, Moves DEF BalancerNext

\* Where every node has a weight, a request panics only after another one has
\* stored a list of a different length.
THEOREM PanicNeedsResize ==
  ASSUME \A n \in Nodes : Weight[n] > 0
  PROVE  BalancerSpec => CrashNeedsResize
<1>1. ASSUME BalancerInv, AllWeighty, [BalancerNext]_balancerVars,
             NEW c \in Callers, req[c].pc # "panicked", req'[c].pc = "panicked"
      PROVE  req[c].resized
  <2> DEFINE r == req[c]
  <2>1. /\ BalancerTypes /\ r \in Locals /\ Follows(r) /\ InRange(r, nodeList)
        /\ Weighty(r) /\ req \in [Callers -> Locals] /\ nodeList \in Seq(Nodes)
    BY <1>1 DEF BalancerInv, BalancerTypes, OnItsWay, AllWeighty
  <2>2. Lacks(r)
    BY <1>1, <2>1, EndsSo
       DEF IndexReturns, PickReturns, Returns, Fresh, PanicsFor
  <2> SUFFICES ASSUME ~r.resized PROVE FALSE
    OBVIOUS
  <2>3. Flies(r)
    BY <2>2 DEF Lacks, Flies
  <2> QED
    BY <2>1, <2>2, <2>3 DEF Lacks, InRange, Weighty, Has, Locals
<1>2. BalancerInit => AllWeighty
  BY DEF BalancerInit, Fresh, AllWeighty, Weighty, Flies
<1>3. BalancerInv /\ AllWeighty /\ [BalancerNext]_balancerVars => AllWeighty'
  BY WeightyStep
<1>4. BalancerInv /\ AllWeighty /\ [BalancerNext]_balancerVars =>
         [\A c \in Callers : req[c].pc # "panicked" /\ req'[c].pc = "panicked" =>
             req[c].resized]_balancerVars
  BY <1>1
<1> QED
  BY <1>2, <1>3, <1>4, BalancerInvAlways, PTL DEF BalancerSpec, CrashNeedsResize

-----------------------------------------------------------------------------
\* Choices.  A request that has met nobody finds nobody beside it.
LEMMA OneAloneStep ==
  BalancerTypes /\ OneAlone /\ [BalancerNext]_balancerVars => OneAlone'
<1> SUFFICES ASSUME BalancerTypes, OneAlone, [BalancerNext]_balancerVars,
                    NEW d \in Callers, NEW e \in Callers,
                    Alone(req'[d]), Flies(req'[e])
             PROVE  d = e
  BY DEF OneAlone
<1>1. req \in [Callers -> Locals]
  BY DEF BalancerTypes
<1>2. ASSUME NEW c \in Callers, NEW l \in Lists, SetNodes(c, l) PROVE d = e
  <2>1. d = c
    BY <1>1, <1>2 DEF SetNodes, InFlight, Alone, Flies, Locals
  <2>2. \A x \in Callers : ~Flies(req[x])
    BY <1>1, <1>2, <2>1 DEF SetNodes, InFlight, Alone, Flies, Fresh
  <2> QED
    BY <1>1, <1>2, <2>1, <2>2 DEF SetNodes, InFlight, Flies
<1>3. ASSUME NEW c \in Callers, Choosing(c), Goes(c),
             ~\E l \in Lists : SetNodes(c, l)
      PROVE  d = e
  <2>1. \A x \in Callers \ {c} : req'[x] = req[x]
    BY <1>1, <1>3 DEF Goes
  <2>2. Flies(req'[c]) => Continues(c)
    BY <1>1, <1>3, Endings
       DEF PanicsFor, IndexReturns, PickReturns, Panics, Returns, Fresh, Flies
  <2>3. Alone(req[d]) /\ Flies(req[e])
    BY <2>1, <2>2 DEF Continues, Alone
  <2> QED
    BY <2>3 DEF OneAlone
<1>4. ASSUME NEW n \in Nodes, NEW k \in 0..MaxActive, LoadChanges(n, k)
      PROVE  d = e
  BY <1>1, <1>4 DEF LoadChanges, Alone, Locals
<1>5. CASE UNCHANGED balancerVars
  BY <1>5 DEF balancerVars, OneAlone
<1> QED
  BY <1>2, <1>3, <1>4, <1>5, Moves DEF BalancerNext

\* The node picked is the one at the index, or where the draw ran out.
LEMMA PickedFrom ==
  ASSUME BalancerInv, [BalancerNext]_balancerVars, NEW c \in Callers,
         NEW policy, PicksAlone(c, policy)
  PROVE  /\ req[c] \in Locals /\ nodeList \in Seq(Nodes) /\ Alone(req[c])
         /\ Follows(req[c]) /\ InRange(req[c], nodeList)
         /\ LeastSoFar(req[c], nodeList, active) /\ ShareSoFar(req[c], nodeList)
         /\ req[c].asked = policy /\ nodeList' = nodeList
         /\ \/ /\ req[c].pc = "index" /\ req[c].index < Len(nodeList)
               /\ picked' = nodeList[req[c].index + 1]
            \/ /\ req[c].pc = "pick" /\ req[c].i < Len(nodeList)
               /\ req[c].sum - Weight[nodeList[req[c].i + 1]] <= 0
               /\ picked' = nodeList[req[c].i + 1]
<1>1. BalancerTypes /\ OnItsWay(req[c], nodeList, active)
  BY DEF BalancerInv
<1>2. IndexReturns(c) \/ PickReturns(c)
  BY <1>1, EndsSo DEF PicksAlone, PanicsFor, Panics, Fresh, Returns,
                      BalancerTypes
<1> QED
  BY <1>1, <1>2
     DEF IndexReturns, PickReturns, Returns, PicksAlone, OnItsWay, Alone, Flies,
         Has, At, BalancerTypes

\* LB_ACTIVE picks a least active node, or the turn falls on another while the
\* last node of the list is a least active one.
LEMMA PicksLeast ==
  ASSUME BalancerInv, [BalancerNext]_balancerVars, NEW c \in Callers,
         PicksAlone(c, "ACTIVE")
  PROVE  LeastActive(picked') \/ LeastActive(Last(nodeList))
<1> DEFINE r == req[c]
           l == nodeList
<1>1. \A k \in 1..Len(l) : Least(l[k], l, active) => LeastActive(l[k])
  BY PickedFrom DEF Least, LeastActive, ToSet
<1>2. r.pc = "index" /\ picked' = l[r.index + 1] /\ r.index + 1 \in 1..Len(l)
  BY PickedFrom DEF Follows, Locals
<1>3. r.by \in {"ACTIVE", "ROUND_ROBIN"}
  BY <1>2, PickedFrom DEF Follows
<1>4. Len(l) \in 1..Len(l) /\ Last(l) = l[Len(l)]
  BY <1>2, PickedFrom DEF Last
<1>5. IF r.by = "ROUND_ROBIN" THEN Least(l[Len(l)], l, active)
                              ELSE Least(l[r.index + 1], l, active)
  BY <1>2, <1>3, PickedFrom DEF LeastSoFar
<1> QED
  BY <1>1, <1>2, <1>4, <1>5

\* So while loads stand still LB_ACTIVE picks a least active node, unless the
\* last node is one and round robin has chosen.
THEOREM PicksLeastOrTurn == BalancerSpec => LeastOrTurn
<1>1. BalancerInv /\ [BalancerNext]_balancerVars =>
         [\A c \in Callers : PicksAlone(c, "ACTIVE") =>
             LeastActive(picked') \/ LeastActive(Last(nodeList))]_balancerVars
  BY PicksLeast
<1> QED
  BY <1>1, BalancerInvAlways, PTL DEF BalancerSpec, LeastOrTurn

\* The random weight policy picks the node in whose part of the range the draw
\* lies, its borders included.
LEMMA PicksByWeight ==
  ASSUME BalancerInv, [BalancerNext]_balancerVars, NEW c \in Callers,
         PicksAlone(c, "RANDOM_WEIGHT")
  PROVE  \E k \in 1..Len(nodeList) :
            /\ picked' = nodeList[k]
            /\ Total(nodeList, k - 1) <= req[c].drawn
            /\ req[c].drawn <= Total(nodeList, k)
<1> DEFINE r == req[c]
           l == nodeList
<1>1. /\ r.pc = "pick" /\ picked' = l[r.i + 1] /\ r.i + 1 \in 1..Len(l)
      /\ r.sum - Weight[l[r.i + 1]] <= 0 /\ r.sum + Total(l, r.i) = r.drawn
      /\ r.i \in Nat /\ r.sum \in Nat
  BY PickedFrom DEF ShareSoFar, Locals
<1>2. /\ l[r.i + 1] \in Nodes
      /\ Total(l, r.i) \in Nat /\ Weight[l[r.i + 1]] \in Nat
      /\ Total(l, r.i + 1) = Total(l, r.i) + Weight[l[r.i + 1]]
  <2>1. l \in Seq(Nodes)
    BY PickedFrom
  <2>2. l[r.i + 1] \in Nodes /\ Weight[l[r.i + 1]] \in Nat
    BY <1>1, <2>1, BalancerAssumption
  <2>3. r.i \in Nat /\ r.i < Len(l) /\ r.i <= Len(l)
    BY <1>1
  <2> QED
    BY <2>1, <2>2, <2>3, TotalIs
<1> DEFINE k == r.i + 1
<1>3. k \in 1..Len(l) /\ k - 1 = r.i
  BY <1>1
<1>4. Total(l, k - 1) <= r.drawn /\ r.drawn <= Total(l, k)
  <2>1. Total(l, r.i) <= r.drawn /\ r.drawn <= Total(l, r.i + 1)
    BY <1>1, <1>2
  <2> QED
    BY <1>3, <2>1
<1> QED
  BY <1>1, <1>3, <1>4

\* So getNodeByLoadBalanceRandomWeight gives every node its part of the draws.
THEOREM PicksNearItsShare == BalancerSpec => NearItsShare
<1>1. BalancerInv /\ [BalancerNext]_balancerVars =>
         [\A c \in Callers : PicksAlone(c, "RANDOM_WEIGHT") =>
             \E k \in 1..Len(nodeList) :
                /\ picked' = nodeList[k]
                /\ Total(nodeList, k - 1) <= req[c].drawn
                /\ req[c].drawn <= Total(nodeList, k)]_balancerVars
  BY PicksByWeight
<1> QED
  BY <1>1, BalancerInvAlways, PTL DEF BalancerSpec, NearItsShare

-----------------------------------------------------------------------------
\* Turns.
\* The same where seq starts again, as Period is a multiple of every length.
LEMMA TurnAfter ==
  ASSUME NEW s \in 0..(Period - 1), NEW n \in Nat \ {0}, Period % n = 0
  PROVE  ((s + 1) % Period) % n = ((s % n) + 1) % n
<1>1. (s + 1) % n = ((s % n) + 1) % n
  <2>1. s \in Nat
    BY BalancerAssumption
  <2> QED
    BY <2>1, NextTurn
<1>2. CASE s + 1 < Period
  <2>1. (s + 1) % Period = s + 1
    BY <1>2, BalancerAssumption
  <2> QED
    BY <1>1, <2>1
<1>3. CASE s + 1 = Period
  <2>1. Period % Period = 0 /\ 0 % n = 0
    BY BalancerAssumption
  <2> QED
    BY <1>1, <1>3, <2>1
<1> QED
  BY <1>2, <1>3, BalancerAssumption

\* The steps of a request that has nothing to do with turns.
Unturned(c) ==
    /\ ~Due(req[c]) /\ ~Due(req'[c]) /\ req'[c].pc # "incr"
    /\ lbSeq' = lbSeq /\ turn' \in {turn, None}

\* All steps but those of round robin are such.
LEMMA Unturning ==
  ASSUME NEW c \in Callers, Choosing(c), BalancerInv
  PROVE  \/ Unturned(c) \/ ReadSeq(c) \/ WriteSeq(c) \/ TurnLen(c) \/ Turn(c)
         \/ Index(c) \/ \E l \in Lists : SetNodes(c, l)
<1> DEFINE r == req[c]
           q == req'[c]
<1>1. req \in [Callers -> Locals] /\ r \in Locals /\ Follows(r)
  BY DEF BalancerInv, BalancerTypes, OnItsWay
<1>p. ASSUME NEW from, Panics(c, from), from \notin {"turn", "mod", "index"}
      PROVE  Unturned(c)
  BY <1>1, <1>p DEF Panics, Fresh, Unturned, Due
<1>r. ASSUME NEW from, NEW n, Returns(c, from, n), from \in {"get", "pick"}
      PROVE  Unturned(c)
  <2>1. r.by # "ROUND_ROBIN"
    BY <1>1, <1>r, BalancerAssumption DEF Returns, Follows
  <2> QED
    BY <1>1, <1>r, <2>1 DEF Returns, Fresh, Unturned, Due
<1>2. ASSUME ActiveLen(c) PROVE Unturned(c)
  BY <1>1, <1>2 DEF ActiveLen, Step, Returns, Panics, Fresh, Locals, Follows,
                    Due, Unturned
<1>3. ASSUME First(c) PROVE Unturned(c)
  <2>1. CASE Panics(c, "first")
    BY <1>p, <2>1
  <2>2. ASSUME NEW a, Step(c, "first", [r EXCEPT !.pc = "scan", !.i = 1, !.index = 0,
                                                 !.least = a])
        PROVE  Unturned(c)
    BY <1>1, <2>2 DEF Step, Locals, Unturned, Due
  <2> QED
    BY <1>3, <2>1, <2>2 DEF First
<1>4. ASSUME Scan(c) PROVE Unturned(c)
  <2>1. CASE Panics(c, "scan")
    BY <1>p, <2>1
  <2>2. ASSUME NEW k, Step(c, "scan", [r EXCEPT !.i = k])
        PROVE  Unturned(c)
    BY <1>1, <2>2 DEF Step, Locals, Unturned, Due
  <2>3. ASSUME NEW k, NEW j, NEW a,
               Step(c, "scan", [r EXCEPT !.i = k, !.index = j, !.least = a])
        PROVE  Unturned(c)
    BY <1>1, <2>3 DEF Step, Locals, Unturned, Due
  <2> QED
    BY <1>4, <2>1, <2>2, <2>3 DEF Scan
<1>5. ASSUME ScanEnds(c) PROVE Unturned(c)
  BY <1>1, <1>5 DEF ScanEnds, Step, Returns, Panics, Fresh, Locals, Done,
                    Follows, Due, Unturned
<1>6. ASSUME Random(c) PROVE Unturned(c)
  <2>1. CASE Panics(c, "RANDOM")
    BY <1>p, <2>1
  <2>2. ASSUME NEW k, Step(c, "RANDOM", [r EXCEPT !.pc = "index", !.index = k])
        PROVE  Unturned(c)
    BY <1>1, <2>2 DEF Step, Locals, Follows, Unturned, Due
  <2> QED
    BY <1>6, <2>1, <2>2 DEF Random
<1>7. ASSUME Hash(c) PROVE Unturned(c)
  <2>1. CASE Panics(c, "HASH")
    BY <1>p, <2>1
  <2>2. ASSUME NEW k, Step(c, "HASH", [r EXCEPT !.pc = "index", !.index = k])
        PROVE  Unturned(c)
    BY <1>1, <2>2 DEF Step, Locals, Follows, Unturned, Due
  <2> QED
    BY <1>7, <2>1, <2>2 DEF Hash
<1>8. ASSUME WeightStarts(c) PROVE Unturned(c)
  BY <1>1, <1>8 DEF WeightStarts, Step, Returns, Panics, Fresh, Locals, Follows,
                    Due, Unturned
<1>9. ASSUME TotalTest(c) PROVE Unturned(c)
  BY <1>1, <1>9 DEF TotalTest, Step, Returns, Panics, Fresh, Locals, Follows,
                    Due, Unturned
<1>10. ASSUME TotalAdd(c) PROVE Unturned(c)
  <2>1. CASE Panics(c, "add")
    BY <1>p, <2>1
  <2>2. ASSUME NEW k, NEW n,
               Step(c, "add", [r EXCEPT !.pc = "total", !.i = k, !.sum = n])
        PROVE  Unturned(c)
    BY <1>1, <2>2 DEF Step, Locals, Unturned, Due
  <2> QED
    BY <1>10, <2>1, <2>2 DEF TotalAdd
<1>11. ASSUME Draw(c) PROVE Unturned(c)
  <2>1. CASE Panics(c, "draw")
    BY <1>p, <2>1
  <2>2. ASSUME NEW k,
               Step(c, "draw", [r EXCEPT !.pc = "test", !.i = 0, !.sum = k, !.drawn = k])
        PROVE  Unturned(c)
    BY <1>1, <2>2 DEF Step, Locals, Unturned, Due
  <2> QED
    BY <1>11, <2>1, <2>2 DEF Draw
<1>12. ASSUME PickTest(c) PROVE Unturned(c)
  BY <1>1, <1>12 DEF PickTest, Step, Returns, Panics, Fresh, Locals, Done,
                     Follows, Due, Unturned
<1>13. ASSUME Pick(c) PROVE Unturned(c)
  <2>1. CASE Panics(c, "pick") \/ Returns(c, "pick", At(r.i))
    BY <1>p, <1>r, <2>1
  <2>2. ASSUME NEW j, NEW n,
               Step(c, "pick", [r EXCEPT !.pc = "test", !.i = j, !.sum = n])
        PROVE  Unturned(c)
    BY <1>1, <2>2 DEF Step, Locals, Unturned, Due
  <2> QED
    BY <1>13, <2>1, <2>2 DEF Pick
<1>14. ASSUME NEW policy \in Policies, GetNode(c, policy) PROVE Unturned(c)
  <2>1. policy \notin {"turn", "mod", "index", "incr"}
    BY BalancerAssumption
  <2>2. CASE Returns(c, "get", None)
    BY <1>r, <2>2
  <2>3. CASE Step(c, "get", [r EXCEPT !.pc = policy, !.asked = policy,
                                      !.by = policy])
    BY <1>1, <2>1, <2>3 DEF Step, Locals, Unturned, Due
  <2> QED
    BY <1>14, <2>2, <2>3 DEF GetNode
<1> QED
  BY <1>2, <1>3, <1>4, <1>5, <1>6, <1>7, <1>8, <1>9, <1>10, <1>11, <1>12,
     <1>13, <1>14
     DEF Choosing, ByActive, ByTurn, ByWeight

TurnsInv == BalancerInv /\ OneAlone /\ TurnInv

\* No step loses the place of the last turn.
LEMMA TurnStep == TurnsInv /\ [BalancerNext]_balancerVars => TurnInv'
<1> SUFFICES ASSUME TurnsInv, [BalancerNext]_balancerVars PROVE TurnInv'
  OBVIOUS
<1> DEFINE l == nodeList
           n == Len(nodeList)
<1>1. /\ req \in [Callers -> Locals] /\ l \in Seq(Nodes) /\ n \in Nat
      /\ lbSeq \in 0..(Period - 1) /\ lbSeq \in Nat
      /\ l # <<>> => n \in Nat \ {0} /\ Period % n = 0
  BY BalancerAssumption DEF TurnsInv, BalancerInv, BalancerTypes
<1>2. /\ turn # None /\ (\A d \in Callers : ~Due(req[d])) =>
            l # <<>> /\ turn = l[(lbSeq % n) + 1]
      /\ \A d \in Callers : TurnOf(req[d], l, lbSeq, turn)
  BY DEF TurnsInv, TurnInv
<1>3. ASSUME NEW c \in Callers, NEW m \in Lists, SetNodes(c, m) PROVE TurnInv'
  <2>1. \A d \in Callers : ~Alone(req'[d]) \/ req'[d].pc = "get"
    BY <1>1, <1>3 DEF SetNodes, InFlight, Alone, Flies, Fresh, Locals
  <2>2. \A d \in Callers : Due(req[d]) => Due(req'[d])
    BY <1>1, <1>3 DEF SetNodes, InFlight, Due, Locals
  <2>3. turn' # None => turn' = turn /\ nodeList' = l
    BY <1>3 DEF SetNodes
  <2>4. lbSeq' = lbSeq
    BY <1>3 DEF SetNodes
  <2>5. \A d \in Callers : TurnOf(req'[d], nodeList', lbSeq', turn')
    BY <2>1 DEF TurnOf, Due
  <2> QED
    BY <1>2, <2>2, <2>3, <2>4, <2>5 DEF TurnInv
<1>4. ASSUME NEW x \in Nodes, NEW k \in 0..MaxActive, LoadChanges(x, k)
      PROVE  TurnInv'
  <2>1. \A d \in Callers : ~Alone(req'[d]) /\ (Due(req[d]) => Due(req'[d]))
    BY <1>1, <1>4 DEF LoadChanges, Alone, Due, Locals
  <2>2. nodeList' = l /\ lbSeq' = lbSeq /\ turn' = turn
    BY <1>4 DEF LoadChanges
  <2> QED
    BY <1>2, <2>1, <2>2 DEF TurnInv, TurnOf
<1>5. CASE UNCHANGED balancerVars
  BY <1>5 DEF balancerVars, TurnsInv, TurnInv
<1>6. ASSUME NEW c \in Callers, Choosing(c), Goes(c) PROVE TurnInv'
  <2> DEFINE r == req[c]
             q == req'[c]
  <2>1. /\ nodeList' = l /\ r \in Locals /\ Follows(r) /\ InRange(r, l)
        /\ \A d \in Callers \ {c} : req'[d] = req[d]
    BY <1>1, <1>6 DEF Goes, TurnsInv, BalancerInv, OnItsWay
  <2>o. ASSUME NEW d \in Callers \ {c}, Alone(req[d]) PROVE ~Flies(r)
    BY <2>o DEF TurnsInv, OneAlone
  <2>a. ASSUME NEW d \in Callers \ {c}, Alone(r) PROVE ~Flies(req[d])
    BY <2>a DEF TurnsInv, OneAlone
  <2>2. CASE Unturned(c)
    <3>1. lbSeq' = lbSeq /\ turn' \in {turn, None}
      BY <2>2 DEF Unturned
    <3>2. \A d \in Callers : Due(req'[d]) <=> Due(req[d])
      BY <2>1, <2>2 DEF Unturned
    <3>3. \A d \in Callers \ {c} : TurnOf(req'[d], l, lbSeq, turn')
      BY <1>2, <2>1, <3>1 DEF TurnOf
    <3>4. TurnOf(q, l, lbSeq, turn')
      BY <2>2 DEF Unturned, TurnOf, Due
    <3> QED
      BY <1>2, <2>1, <3>1, <3>2, <3>3, <3>4 DEF TurnInv
  <2>3. CASE ReadSeq(c)
    <3>1. /\ lbSeq' = lbSeq /\ turn' = turn /\ r.pc = "ROUND_ROBIN"
          /\ q.pc = "incr" /\ q.tmp = lbSeq
      BY <1>1, <2>3 DEF ReadSeq, Step, Locals
    <3>2. \A d \in Callers : Due(req'[d]) <=> Due(req[d])
      BY <2>1, <3>1 DEF Due
    <3>3. TurnOf(q, l, lbSeq, turn)
      BY <3>1 DEF TurnOf, Due
    <3> QED
      BY <1>2, <2>1, <3>1, <3>2, <3>3 DEF TurnInv
  <2>4. CASE WriteSeq(c)
    <3>1. /\ lbSeq' = (r.tmp + 1) % Period /\ turn' = turn /\ r.pc = "incr"
          /\ q.pc = "turn" /\ q.by = r.by /\ q.alone = r.alone
      BY <1>1, <2>4 DEF WriteSeq, Done, Locals
    <3>2. Due(q) /\ ~Due(r)
      BY <2>1, <3>1 DEF Due, Follows
    <3>3. \A d \in Callers \ {c} : TurnOf(req'[d], l, lbSeq', turn)
      BY <2>1, <2>o, <3>1 DEF TurnOf, Flies
    <3>4. ASSUME Alone(q), turn # None
          PROVE  \E k \in 1..n : turn = l[k] /\ lbSeq' % n = k % n
      <4>1. Alone(r)
        BY <3>1, <3>4 DEF Alone, Flies
      <4>2. r.tmp = lbSeq
        BY <1>2, <3>1, <4>1 DEF TurnOf
      <4>3. \A d \in Callers : ~Due(req[d])
        BY <2>a, <3>2, <4>1 DEF Due, Flies
      <4>4. l # <<>> /\ turn = l[(lbSeq % n) + 1]
        BY <1>2, <3>4, <4>3
      <4>5. n \in Nat \ {0} /\ Period % n = 0
        BY <1>1, <4>4
      <4>6. lbSeq' % n = ((lbSeq % n) + 1) % n
        BY <1>1, <3>1, <4>2, <4>5, TurnAfter
      <4>7. (lbSeq % n) + 1 \in 1..n
        BY <1>1, <4>5
      <4> QED
        BY <4>4, <4>6, <4>7
    <3>5. TurnOf(q, l, lbSeq', turn)
      BY <3>1, <3>4 DEF TurnOf
    <3> QED
      BY <2>1, <3>1, <3>2, <3>3, <3>5 DEF TurnInv
  <2>5. CASE TurnLen(c)
    <3>1. /\ lbSeq' = lbSeq /\ turn' = turn /\ r.pc = "turn"
          /\ q.pc = "mod" /\ q.by = r.by /\ q.alone = r.alone
      BY <1>1, <2>5 DEF TurnLen, Step, Locals
    <3>2. \A d \in Callers : Due(req'[d]) <=> Due(req[d])
      BY <2>1, <3>1 DEF Due
    <3>3. TurnOf(q, l, lbSeq, turn)
      BY <1>2, <3>1 DEF TurnOf, Due, Alone, Flies
    <3> QED
      BY <1>2, <2>1, <3>1, <3>2, <3>3 DEF TurnInv
  <2>p. ASSUME NEW from, Panics(c, from) PROVE TurnInv'
    <3>1. lbSeq' = lbSeq /\ turn' = None /\ q.pc = "panicked"
      BY <1>1, <2>p DEF Panics, Fresh
    <3>2. \A d \in Callers \ {c} : TurnOf(req'[d], l, lbSeq, None)
      BY <1>2, <2>1 DEF TurnOf
    <3>3. TurnOf(q, l, lbSeq, None)
      BY <3>1 DEF TurnOf, Alone, Flies
    <3> QED
      BY <2>1, <3>1, <3>2, <3>3 DEF TurnInv
  <2>6. CASE Turn(c)
    <3>1. CASE Panics(c, "mod")
      BY <2>p, <3>1
    <3>2. CASE Step(c, "mod", [Done(r) EXCEPT !.pc = "index",
                                              !.index = lbSeq % r.len])
      <4>1. /\ lbSeq' = lbSeq /\ turn' = turn /\ r.pc = "mod"
            /\ q.pc = "index" /\ q.by = r.by /\ q.alone = r.alone
            /\ q.index = lbSeq % r.len
        BY <1>1, <3>2 DEF Step, Done, Locals
      <4>2. \A d \in Callers : Due(req'[d]) <=> Due(req[d])
        BY <2>1, <4>1 DEF Due
      <4>3. Alone(q) => Alone(r) /\ r.len = n
        BY <2>1, <4>1 DEF Alone, Flies, InRange
      <4>4. TurnOf(q, l, lbSeq, turn)
        BY <1>2, <4>1, <4>3 DEF TurnOf, Due
      <4> QED
        BY <1>2, <2>1, <4>1, <4>2, <4>4 DEF TurnInv
    <3> QED
      BY <2>6, <3>1, <3>2 DEF Turn
  <2>7. CASE Index(c)
    <3>1. CASE Panics(c, "index")
      BY <2>p, <3>1
    <3>2. CASE Has(r.index) /\ Returns(c, "index", At(r.index))
      <4>1. /\ lbSeq' = lbSeq /\ r.pc = "index" /\ q.pc = "idle" /\ l # <<>>
            /\ turn' = IF r.by # "ROUND_ROBIN" THEN turn
                       ELSE IF r.alone THEN l[r.index + 1] ELSE None
        BY <1>1, <3>2 DEF Returns, Fresh, Has, At, Locals
      <4>2. \A d \in Callers \ {c} : ~Alone(req'[d])
        BY <2>1, <2>o, <4>1 DEF Flies
      <4>3. \A d \in Callers : TurnOf(req'[d], l, lbSeq, turn')
        BY <4>1, <4>2 DEF TurnOf, Alone, Flies
      <4>4. CASE r.by # "ROUND_ROBIN"
        <5>1. turn' = turn /\ \A d \in Callers : Due(req'[d]) <=> Due(req[d])
          BY <2>1, <4>1, <4>4 DEF Due
        <5> QED
          BY <1>2, <2>1, <4>1, <4>3, <5>1 DEF TurnInv
      <4>5. CASE r.by = "ROUND_ROBIN"
        <5>1. turn' # None => r.index = lbSeq % n /\ turn' = l[r.index + 1]
          BY <1>2, <4>1, <4>5 DEF TurnOf, Alone, Flies
        <5> QED
          BY <2>1, <4>1, <4>3, <5>1 DEF TurnInv
      <4> QED
        BY <4>4, <4>5
    <3> QED
      BY <2>7, <3>1, <3>2 DEF Index
  <2> QED
    BY <1>3, <1>6, <2>2, <2>3, <2>4, <2>5, <2>6, <2>7, Unturning DEF TurnsInv
<1>7. BalancerTypes
  BY DEF TurnsInv, BalancerInv
<1> QED
  BY <1>3, <1>4, <1>5, <1>6, <1>7, Moves DEF BalancerNext

\* Round robin walks around the list.
LEMMA PicksNext ==
  ASSUME TurnsInv, [BalancerNext]_balancerVars, NEW c \in Callers,
         NEW l \in Lists, PicksAlone(c, "ROUND_ROBIN"), nodeList = l, turn # None
  PROVE  \E k \in 1..Len(l) : turn = l[k] /\ picked' = l[(k % Len(l)) + 1]
<1> DEFINE r == req[c]
<1>1. BalancerInv /\ TurnOf(r, l, lbSeq, turn)
  BY DEF TurnsInv, TurnInv
<1>2. /\ r.pc = "index" /\ r.by = "ROUND_ROBIN" /\ Alone(r)
      /\ picked' = l[r.index + 1]
  BY <1>1, PickedFrom DEF Follows
<1>3. r.index = lbSeq % Len(l)
      /\ \E k \in 1..Len(l) : turn = l[k] /\ lbSeq % Len(l) = k % Len(l)
  BY <1>1, <1>2 DEF TurnOf, Due
<1> QED
  BY <1>2, <1>3

\* So the turn goes around the list, whichever requests take it.
THEOREM PicksNextInTurn == BalancerSpec => NextInTurn
<1>1. BalancerInit => OneAlone /\ TurnInv
  BY DEF BalancerInit, Fresh, OneAlone, TurnInv, TurnOf, Alone, Flies
<1>2. BalancerInv /\ OneAlone /\ [BalancerNext]_balancerVars => OneAlone'
  BY OneAloneStep DEF BalancerInv
<1>3. BalancerInv /\ OneAlone /\ TurnInv /\ [BalancerNext]_balancerVars => TurnInv'
  BY TurnStep DEF TurnsInv
<1>4. BalancerInv /\ OneAlone /\ TurnInv /\ [BalancerNext]_balancerVars =>
         [\A c \in Callers, l \in Lists :
             PicksAlone(c, "ROUND_ROBIN") /\ nodeList = l /\ turn # None =>
                 \E k \in 1..Len(l) :
                     turn = l[k] /\ picked' = l[(k % Len(l)) + 1]]_balancerVars
  BY PicksNext DEF TurnsInv
<1> QED
  BY <1>1, <1>2, <1>3, <1>4, BalancerInvAlways, PTL DEF BalancerSpec, NextInTurn

-----------------------------------------------------------------------------
(***************************************************************************)
(* The sessions.  Their safety properties are not inductive: each of them  *)
(* rests on how far the session's caller and its goroutine have come,      *)
(* which Inv ties to the session's channel, timer, mutex and place in      *)
(* sessionMap.                                                             *)
(***************************************************************************)

\* A goroutine in the destruction of a session works on one that was opened.
Destroying(p) == pc[p] \in {"delete", "lock", "send", "finish"}

WorksOnASession ==
    /\ \A s \in Seqs : sess[s] = s
    /\ \A p \in Procs : Destroying(p) => sess[p] \in 1..seq
    /\ \A w \in Workers : pc[w] \notin {"timer", "done"}

\* What a session is before it is opened and how long its channel is open.
Lifetime ==
    \A s \in Seqs :
        /\ caller[s] = "none" <=> s > seq
        /\ respChan[s] = "none" <=> s > seq
        /\ respChan[s] = "nil" => caller[s] \in {"answered", "timedout"}
        /\ node[s] = None <=> s > seq

\* The session's goroutine and the timer it waits for.
OwnGoroutine ==
    \A s \in Seqs :
        /\ pc[s] = "idle" <=>
              InTheCall(s) \/ caller[s] \in {"none", "panicked"}
        /\ pc[s] # "process"
        /\ pc[s] = "done" => respChan[s] = "nil"
        /\ pc[s] \in {"idle", "timer"} => timer[s] # "drained"
        /\ timer[s] = "none" => s > seq
        /\ timer[s] = "stopped" => respChan[s] = "nil"

\* The mutex is held exactly from LockFirst to Finish.
MutexHeld ==
    \A s \in Seqs, p \in Procs :
        mutex[s] = p <=> p \in Holders(s)

HolderFoundItOpen ==
    \A s \in Seqs, p \in Procs : p \in Holders(s) => respChan[s] = "open"

\* A caller that waits has not been sent anything; one that has been served
\* has a channel that is closed or about to be.
Outcome ==
    \A s \in Seqs :
        /\ caller[s] = "waiting" => respChan[s] = "open"
        /\ caller[s] \in {"answered", "timedout"} /\ respChan[s] = "open" =>
              mutex[s] # None
        /\ \A p \in Holders(s) :
              pc[p] = "finish" <=> caller[s] \in {"answered", "timedout"}

\* Nobody is past the deletion of a session that is still in the map.
Mapped ==
    \A s \in sessionMap :
        /\ respChan[s] = "open"
        /\ caller[s] \notin {"answered", "timedout"}
        /\ \A p \in Procs :
              sess[p] = s => pc[p] \notin {"lock", "send", "finish", "done"}

Inv ==
    /\ TypeOK /\ WorksOnASession /\ Lifetime /\ OwnGoroutine
    /\ MutexHeld /\ HolderFoundItOpen /\ Outcome /\ Mapped

-----------------------------------------------------------------------------
USE DEF Seqs, Procs, CallerStates, ProcStates, Stopped, Returned, Holders,
        InTheCall

\* The initial state satisfies the invariant.
LEMMA InitInv == SessionInit => Inv
<1> SUFFICES ASSUME SessionInit PROVE Inv
    OBVIOUS
<1> USE SessionAssumption DEF SessionInit
<1>1. TypeOK
  <2>1. sess \in [Procs -> 0..MaxSeq]
    <3>1. 0 \in 0..MaxSeq /\ \A s \in Seqs : s \in 0..MaxSeq
      OBVIOUS
    <3> QED
      BY <3>1, Zenon
  <2> QED
    BY <2>1 DEF TypeOK
<1>2. WorksOnASession /\ Lifetime /\ OwnGoroutine
    BY DEF WorksOnASession, Destroying, Lifetime, OwnGoroutine
<1>3. MutexHeld /\ HolderFoundItOpen /\ Outcome /\ Mapped
    BY DEF MutexHeld, HolderFoundItOpen, Outcome, Mapped
<1> QED
    BY <1>1, <1>2, <1>3 DEF Inv

\* No step of a caller, timer, worker or server breaks the types.
LEMMA TypeStep == TypeOK /\ [SessionNext]_sessionVars => TypeOK'
<1> SUFFICES ASSUME TypeOK, [SessionNext]_sessionVars PROVE TypeOK'
    OBVIOUS
<1> USE SessionAssumption DEF TypeOK
<1>1. ASSUME NEW s \in Seqs, NEW n \in Nodes, InitSession(s, n) PROVE TypeOK'
    BY <1>1 DEF InitSession, Registered
<1>2. ASSUME NEW s \in Seqs, EncodeOk(s) PROVE TypeOK'
    BY <1>2 DEF EncodeOk
<1>3. ASSUME NEW s \in Seqs, EncodeFails(s) PROVE TypeOK'
    BY <1>3 DEF EncodeFails
<1>4. ASSUME NEW s \in Seqs, SendRequest(s) PROVE TypeOK'
  <2>1. wire' \in [0..MaxSeq -> Nat]
    <3>1. PICK q \in {0, s}, k \in 0..MaxReplies :
             wire' = [wire EXCEPT ![q] = wire[q] + k]
      BY <1>4 DEF SendRequest
    <3>2. q \in 0..MaxSeq /\ wire[q] + k \in Nat
      BY <3>1 DEF Seqs
    <3> QED
      BY <3>1, <3>2
  <2>2. caller' \in [Seqs -> CallerStates]
    BY <1>4 DEF SendRequest, CallerStates
  <2>3. UNCHANGED <<seq, sessionMap, node, active, respChan, timer, mutex,
                    pc, sess>>
    BY <1>4 DEF SendRequest
  <2> QED
    BY <2>1, <2>2, <2>3
<1>4p. ASSUME NEW s \in Seqs, SendPanics(s) PROVE TypeOK'
    BY <1>4p DEF SendPanics
<1>5. ASSUME NEW s \in Seqs, SpawnTimer(s) PROVE TypeOK'
    BY <1>5 DEF SpawnTimer
<1>6. ASSUME NEW s \in Seqs, Receive(s) PROVE TypeOK'
    BY <1>6 DEF Receive
<1>7. ASSUME NEW s \in Seqs, Abandon(s) PROVE TypeOK'
    BY <1>7 DEF Abandon
<1>8. ASSUME NEW s \in Seqs, TimerFires(s) PROVE TypeOK'
    BY <1>8 DEF TimerFires
<1>9. ASSUME NEW s \in Seqs, TimerWakes(s) PROVE TypeOK'
    BY <1>9 DEF TimerWakes
<1>10. ASSUME NEW q \in 0..MaxSeq, Dispatch(q) PROVE TypeOK'
  <2>1. wire' \in [0..MaxSeq -> Nat]
    <3>1. wire[q] \in Nat /\ wire[q] > 0
      BY <1>10 DEF Dispatch
    <3>2. wire[q] - 1 \in Nat /\ wire' = [wire EXCEPT ![q] = wire[q] - 1]
      BY <1>10, <3>1 DEF Dispatch
    <3> QED
      BY <3>2
  <2>2. pc' \in [Procs -> ProcStates] /\ sess' \in [Procs -> 0..MaxSeq]
    <3>1. CASE UNCHANGED <<pc, sess>>
      BY <3>1
    <3>2. ASSUME NEW w \in Workers,
                 pc' = [pc EXCEPT ![w] = "process"],
                 sess' = [sess EXCEPT ![w] = q]
          PROVE  pc' \in [Procs -> ProcStates] /\ sess' \in [Procs -> 0..MaxSeq]
      BY <3>2
    <3> QED
      BY <1>10, <3>1, <3>2 DEF Dispatch
  <2> QED
    BY <1>10, <2>1, <2>2 DEF Dispatch
<1>11. ASSUME NEW w \in Workers, DecodeFails(w) PROVE TypeOK'
    BY <1>11 DEF DecodeFails
<1>12. ASSUME NEW w \in Workers, Process(w) PROVE TypeOK'
    BY <1>12 DEF Process
<1>13. ASSUME NEW p \in Procs, DeleteSession(p) PROVE TypeOK'
    BY <1>13 DEF DeleteSession
<1>14. ASSUME NEW p \in Procs, LockFirst(p) PROVE TypeOK'
    BY <1>14 DEF LockFirst, MutexFree, StillOpen
<1>15. ASSUME NEW p \in Procs, LockLate(p) PROVE TypeOK'
    BY <1>15 DEF LockLate, MutexFree, StillOpen
<1>16. ASSUME NEW p \in Procs, Deliver(p) PROVE TypeOK'
    BY <1>16 DEF Deliver
<1>17. ASSUME NEW p \in Procs, Finish(p) PROVE TypeOK'
  <2>1. /\ respChan' \in [Seqs -> {"none", "open", "nil"}]
        /\ timer' \in
              [Seqs -> {"none", "armed", "fired", "drained", "stopped"}]
        /\ mutex' \in [Seqs -> Procs \cup {None}]
        /\ pc' \in [Procs -> ProcStates]
    BY <1>17 DEF Finish
  <2>2. active' \in [Nodes -> Int]
    <3> DEFINE n == node[sess[p]]
    <3>1. active' = [active EXCEPT ![n] = active[n] - 1]
      BY <1>17, Zenon DEF Finish
    <3> HIDE DEF n
    <3>2. CASE n \in Nodes
      BY <3>1, <3>2
    <3>3. CASE n \notin Nodes
      BY <3>1, <3>3
    <3> QED
      BY <3>2, <3>3
  <2> QED
    BY <1>17, <2>1, <2>2 DEF Finish
<1>18. CASE UNCHANGED sessionVars
    BY <1>18 DEF sessionVars
<1> QED
    BY <1>1, <1>2, <1>3, <1>4, <1>4p, <1>5, <1>6, <1>7, <1>8, <1>9, <1>10,
       <1>11, <1>12, <1>13, <1>14, <1>15, <1>16, <1>17, <1>18
       DEF SessionNext, Request, Timer, Response, Destroy

\* Every step preserves the strengthened invariant.
LEMMA InvStep == Inv /\ [SessionNext]_sessionVars => Inv'
<1> SUFFICES ASSUME Inv, [SessionNext]_sessionVars PROVE Inv'
    OBVIOUS
<1> USE SessionAssumption
<1>a. TypeOK
    BY DEF Inv
<1>b. TypeOK'
    BY <1>a, TypeStep
<1>1. ASSUME NEW s \in Seqs, NEW n \in Nodes, InitSession(s, n) PROVE Inv'
  <2> USE <1>1, <1>a DEF InitSession, Registered, Inv, TypeOK
  <2>1. WorksOnASession'
    BY DEF WorksOnASession, Destroying
  <2>2. Lifetime'
    BY DEF Lifetime
  <2>3. OwnGoroutine'
    BY DEF OwnGoroutine, Lifetime
  <2>4. HolderFoundItOpen'
    BY DEF HolderFoundItOpen, WorksOnASession, Destroying
  <2>5. Outcome'
    BY DEF Outcome, Lifetime, WorksOnASession, Destroying, MutexHeld
  <2>6. Mapped'
    BY DEF Mapped, WorksOnASession, Destroying, Lifetime, OwnGoroutine
  <2> QED
    BY <1>b, <2>1, <2>2, <2>3, <2>4, <2>5, <2>6
       DEF MutexHeld
<1>2. ASSUME NEW s \in Seqs, EncodeOk(s) PROVE Inv'
  <2> USE <1>2, <1>a DEF EncodeOk, Inv, TypeOK
  <2>1. WorksOnASession'
    BY DEF WorksOnASession, Destroying
  <2>2. Lifetime'
    BY DEF Lifetime
  <2>3. OwnGoroutine'
    BY DEF OwnGoroutine
  <2>4. MutexHeld'
    BY DEF MutexHeld
  <2>5. HolderFoundItOpen'
    BY DEF HolderFoundItOpen
  <2>6. Outcome'
    BY DEF Outcome, Lifetime
  <2>7. Mapped'
    BY DEF Mapped
  <2> QED
    BY <1>b, <2>1, <2>2, <2>3, <2>4, <2>5, <2>6, <2>7
<1>3. ASSUME NEW s \in Seqs, EncodeFails(s) PROVE Inv'
  <2> USE <1>3, <1>a DEF EncodeFails, Inv, TypeOK
  <2>1. WorksOnASession'
    BY DEF WorksOnASession, Destroying, Lifetime
  <2>2. Lifetime'
    BY DEF Lifetime
  <2>3. OwnGoroutine'
    BY DEF OwnGoroutine
  <2>4. MutexHeld'
    BY DEF MutexHeld, OwnGoroutine, WorksOnASession, Destroying
  <2>5. HolderFoundItOpen'
    BY DEF HolderFoundItOpen, WorksOnASession, Destroying, OwnGoroutine
  <2>6. Outcome'
    BY DEF Outcome, WorksOnASession, Destroying, OwnGoroutine, Lifetime
  <2>7. Mapped'
    BY DEF Mapped, WorksOnASession, Destroying
  <2> QED
    BY <1>b, <2>1, <2>2, <2>3, <2>4, <2>5, <2>6, <2>7
<1>4. ASSUME NEW s \in Seqs, SendRequest(s) PROVE Inv'
  <2> USE <1>4, <1>a DEF SendRequest, Inv, TypeOK
  <2>1. WorksOnASession'
    BY DEF WorksOnASession, Destroying
  <2>2. Lifetime'
    BY DEF Lifetime
  <2>3. OwnGoroutine'
    BY DEF OwnGoroutine
  <2>4. MutexHeld'
    BY DEF MutexHeld
  <2>5. HolderFoundItOpen'
    BY DEF HolderFoundItOpen
  <2>6. Outcome'
    BY DEF Outcome, Lifetime
  <2>7. Mapped'
    BY DEF Mapped
  <2> QED
    BY <1>b, <2>1, <2>2, <2>3, <2>4, <2>5, <2>6, <2>7
<1>4p. ASSUME NEW s \in Seqs, SendPanics(s) PROVE Inv'
  <2> USE <1>4p, <1>a DEF SendPanics, Inv, TypeOK
  <2>1. WorksOnASession'
    BY DEF WorksOnASession, Destroying
  <2>2. Lifetime'
    BY DEF Lifetime
  <2>3. OwnGoroutine'
    BY DEF OwnGoroutine
  <2>4. MutexHeld'
    BY DEF MutexHeld
  <2>5. HolderFoundItOpen'
    BY DEF HolderFoundItOpen
  <2>6. Outcome'
    BY DEF Outcome, Lifetime
  <2>7. Mapped'
    BY DEF Mapped
  <2> QED
    BY <1>b, <2>1, <2>2, <2>3, <2>4, <2>5, <2>6, <2>7
<1>5. ASSUME NEW s \in Seqs, SpawnTimer(s) PROVE Inv'
  <2> USE <1>5, <1>a DEF SpawnTimer, Inv, TypeOK
  <2>1. WorksOnASession'
    BY DEF WorksOnASession, Destroying
  <2>2. Lifetime'
    BY DEF Lifetime
  <2>3. OwnGoroutine'
    BY DEF OwnGoroutine
  <2>4. MutexHeld'
    BY DEF MutexHeld, OwnGoroutine, WorksOnASession, Destroying
  <2>5. HolderFoundItOpen'
    BY DEF HolderFoundItOpen, WorksOnASession, Destroying, OwnGoroutine
  <2>6. Outcome'
    BY DEF Outcome, WorksOnASession, Destroying, OwnGoroutine, Lifetime
  <2>7. Mapped'
    BY DEF Mapped, WorksOnASession, Destroying
  <2> QED
    BY <1>b, <2>1, <2>2, <2>3, <2>4, <2>5, <2>6, <2>7
<1>6. ASSUME NEW s \in Seqs, Receive(s) PROVE Inv'
  <2> USE <1>6, <1>a DEF Receive, Inv, TypeOK
  <2>1. Lifetime'
    BY DEF Lifetime
  <2>2. OwnGoroutine'
    BY DEF OwnGoroutine
  <2>3. Outcome'
    BY DEF Outcome, Lifetime
  <2>4. Mapped'
    BY DEF Mapped
  <2> QED
    BY <1>b, <2>1, <2>2, <2>3, <2>4
       DEF WorksOnASession, Destroying, MutexHeld, HolderFoundItOpen
<1>7. ASSUME NEW s \in Seqs, Abandon(s) PROVE Inv'
  <2> USE <1>7, <1>a DEF Abandon, Inv, TypeOK
  <2>1. Lifetime'
    BY DEF Lifetime
  <2>2. OwnGoroutine'
    BY DEF OwnGoroutine
  <2>3. Outcome'
    BY DEF Outcome, Lifetime
  <2>4. Mapped'
    BY DEF Mapped
  <2> QED
    BY <1>b, <2>1, <2>2, <2>3, <2>4
       DEF WorksOnASession, Destroying, MutexHeld, HolderFoundItOpen
<1>8. ASSUME NEW s \in Seqs, TimerFires(s) PROVE Inv'
  <2> USE <1>8, <1>a DEF TimerFires, Inv, TypeOK
  <2>1. OwnGoroutine'
    BY DEF OwnGoroutine
  <2>2. WorksOnASession' /\ Lifetime'
    BY DEF WorksOnASession, Destroying, Lifetime
  <2>3. MutexHeld' /\ HolderFoundItOpen'
    BY DEF MutexHeld, HolderFoundItOpen, Destroying
  <2>4. Outcome'
    BY DEF Outcome
  <2>5. Mapped'
    BY DEF Mapped, Destroying
  <2> QED
    BY <1>b, <2>1, <2>2, <2>3, <2>4, <2>5
<1>9. ASSUME NEW s \in Seqs, TimerWakes(s) PROVE Inv'
  <2> USE <1>9, <1>a DEF TimerWakes, Inv, TypeOK
  <2>1. WorksOnASession'
    BY DEF WorksOnASession, Destroying, OwnGoroutine, Lifetime
  <2>2. OwnGoroutine'
    BY DEF OwnGoroutine
  <2>3. MutexHeld'
    BY DEF MutexHeld, WorksOnASession, Destroying
  <2>4. HolderFoundItOpen'
    BY DEF HolderFoundItOpen, WorksOnASession, Destroying
  <2>5. Outcome'
    BY DEF Outcome, WorksOnASession, Destroying
  <2>6. Mapped'
    BY DEF Mapped, WorksOnASession, Destroying
  <2> QED
    BY <1>b, <2>1, <2>2, <2>3, <2>4, <2>5, <2>6
       DEF Lifetime
<1>10. ASSUME NEW q \in 0..MaxSeq, Dispatch(q) PROVE Inv'
  <2>1. CASE UNCHANGED <<pc, sess>>
    BY <1>10, <1>b, <2>1
       DEF Dispatch, Inv, WorksOnASession, Destroying, Lifetime, OwnGoroutine,
           MutexHeld, HolderFoundItOpen, Outcome, Mapped
  <2>2. ASSUME NEW w \in Workers, pc[w] = "idle",
               pc' = [pc EXCEPT ![w] = "process"],
               sess' = [sess EXCEPT ![w] = q]
        PROVE  Inv'
    <3> USE <1>10, <2>2, <1>a DEF Dispatch, Inv, TypeOK
    <3>1. WorksOnASession'
      BY DEF WorksOnASession, Destroying
    <3>2. OwnGoroutine'
      BY DEF OwnGoroutine, WorksOnASession, Destroying
    <3>3. MutexHeld'
      BY DEF MutexHeld, WorksOnASession, Destroying
    <3>4. HolderFoundItOpen'
      BY DEF HolderFoundItOpen, WorksOnASession, Destroying
    <3>5. Outcome'
      BY DEF Outcome, WorksOnASession, Destroying
    <3>6. Mapped'
      BY DEF Mapped, WorksOnASession, Destroying
    <3> QED
      BY <1>b, <3>1, <3>2, <3>3, <3>4, <3>5, <3>6 DEF Lifetime
  <2> QED
    BY <1>10, <2>1, <2>2 DEF Dispatch
<1>11. ASSUME NEW w \in Workers, DecodeFails(w) PROVE Inv'
  <2> USE <1>11, <1>a DEF DecodeFails, Inv, TypeOK
  <2>1. WorksOnASession'
    BY DEF WorksOnASession, Destroying
  <2>2. OwnGoroutine'
    BY DEF OwnGoroutine, WorksOnASession, Destroying
  <2>3. MutexHeld'
    BY DEF MutexHeld, WorksOnASession, Destroying
  <2>4. HolderFoundItOpen'
    BY DEF HolderFoundItOpen, WorksOnASession, Destroying
  <2>5. Outcome'
    BY DEF Outcome, WorksOnASession, Destroying
  <2>6. Mapped'
    BY DEF Mapped, WorksOnASession, Destroying
  <2> QED
    BY <1>b, <2>1, <2>2, <2>3, <2>4, <2>5, <2>6
       DEF Lifetime
<1>12. ASSUME NEW w \in Workers, Process(w) PROVE Inv'
  <2> USE <1>12, <1>a DEF Process, Inv, TypeOK
  <2>1. WorksOnASession'
    BY DEF WorksOnASession, Destroying
  <2>2. OwnGoroutine'
    BY DEF OwnGoroutine, WorksOnASession, Destroying
  <2>3. MutexHeld'
    BY DEF MutexHeld, WorksOnASession, Destroying
  <2>4. HolderFoundItOpen'
    BY DEF HolderFoundItOpen, WorksOnASession, Destroying
  <2>5. Outcome'
    BY DEF Outcome, WorksOnASession, Destroying
  <2>6. Mapped'
    BY DEF Mapped, WorksOnASession, Destroying
  <2> QED
    BY <1>b, <2>1, <2>2, <2>3, <2>4, <2>5, <2>6
       DEF Lifetime
<1>13. ASSUME NEW p \in Procs, DeleteSession(p) PROVE Inv'
  <2> USE <1>13, <1>a DEF DeleteSession, Inv, TypeOK
  <2>1. WorksOnASession'
    BY DEF WorksOnASession, Destroying
  <2>2. OwnGoroutine'
    BY DEF OwnGoroutine, WorksOnASession, Destroying
  <2>3. MutexHeld'
    BY DEF MutexHeld, WorksOnASession, Destroying
  <2>4. HolderFoundItOpen'
    BY DEF HolderFoundItOpen, WorksOnASession, Destroying
  <2>5. Outcome'
    BY DEF Outcome, WorksOnASession, Destroying
  <2>6. Mapped'
    BY DEF Mapped, WorksOnASession, Destroying
  <2> QED
    BY <1>b, <2>1, <2>2, <2>3, <2>4, <2>5, <2>6
       DEF Lifetime
<1>14. ASSUME NEW p \in Procs, LockFirst(p) PROVE Inv'
  <2> USE <1>14, <1>a DEF LockFirst, MutexFree, StillOpen, Inv, TypeOK
  <2>1. WorksOnASession'
    BY DEF WorksOnASession, Destroying
  <2>2. OwnGoroutine'
    BY DEF OwnGoroutine, WorksOnASession, Destroying
  <2>3. MutexHeld'
    BY DEF MutexHeld, WorksOnASession, Destroying
  <2>4. HolderFoundItOpen'
    BY DEF HolderFoundItOpen, WorksOnASession, Destroying
  <2>5. Outcome'
    BY DEF Outcome, WorksOnASession, Destroying, MutexHeld
  <2>6. Mapped'
    BY DEF Mapped, WorksOnASession, Destroying
  <2> QED
    BY <1>b, <2>1, <2>2, <2>3, <2>4, <2>5, <2>6
       DEF Lifetime
<1>15. ASSUME NEW p \in Procs, LockLate(p) PROVE Inv'
  <2> USE <1>15, <1>a DEF LockLate, MutexFree, StillOpen, Inv, TypeOK
  <2>1. WorksOnASession'
    BY DEF WorksOnASession, Destroying
  <2>2. OwnGoroutine'
    BY DEF OwnGoroutine, WorksOnASession, Destroying, Lifetime
  <2>3. MutexHeld'
    BY DEF MutexHeld, WorksOnASession, Destroying
  <2>4. HolderFoundItOpen'
    BY DEF HolderFoundItOpen, WorksOnASession, Destroying
  <2>5. Outcome'
    BY DEF Outcome, WorksOnASession, Destroying
  <2>6. Mapped'
    <3>1. sess[p] \notin sessionMap
      BY DEF Mapped
    <3>2. \A q \in Procs : q # p => pc'[q] = pc[q]
      OBVIOUS
    <3> QED
      BY <3>1, <3>2 DEF Mapped
  <2> QED
    BY <1>b, <2>1, <2>2, <2>3, <2>4, <2>5, <2>6
       DEF Lifetime
<1>16. ASSUME NEW p \in Procs, Deliver(p) PROVE Inv'
  <2> USE <1>16, <1>a DEF Deliver, Inv, TypeOK
  <2>1. WorksOnASession'
    BY DEF WorksOnASession, Destroying
  <2>2. Lifetime'
    BY DEF Lifetime, HolderFoundItOpen, WorksOnASession, Destroying
  <2>3. OwnGoroutine'
    BY DEF OwnGoroutine, WorksOnASession, Destroying, Lifetime
  <2>4. MutexHeld'
    BY DEF MutexHeld, WorksOnASession, Destroying
  <2>5. HolderFoundItOpen'
    BY DEF HolderFoundItOpen, WorksOnASession, Destroying
  <2>6. Outcome'
    BY DEF Outcome, WorksOnASession, Destroying, HolderFoundItOpen, MutexHeld
  <2>7. Mapped'
    BY DEF Mapped, WorksOnASession, Destroying, HolderFoundItOpen
  <2> QED
    BY <1>b, <2>1, <2>2, <2>3, <2>4, <2>5, <2>6, <2>7
<1>17. ASSUME NEW p \in Procs, Finish(p) PROVE Inv'
  <2> USE <1>17, <1>a DEF Finish, Inv, TypeOK
  <2>1. WorksOnASession'
    BY DEF WorksOnASession, Destroying
  <2>2. Lifetime'
    BY DEF Lifetime, Outcome, WorksOnASession, Destroying
  <2>3. OwnGoroutine'
    BY DEF OwnGoroutine, WorksOnASession, Destroying, HolderFoundItOpen
  <2>4. MutexHeld'
    BY DEF MutexHeld, WorksOnASession, Destroying
  <2>5. HolderFoundItOpen'
    BY DEF HolderFoundItOpen, WorksOnASession, Destroying, MutexHeld
  <2>6. Outcome'
    BY DEF Outcome, WorksOnASession, Destroying, HolderFoundItOpen, MutexHeld
  <2>7. Mapped'
    BY DEF Mapped, WorksOnASession, Destroying, HolderFoundItOpen, MutexHeld
  <2> QED
    BY <1>b, <2>1, <2>2, <2>3, <2>4, <2>5, <2>6, <2>7
<1>18. CASE UNCHANGED sessionVars
    BY <1>18 DEF sessionVars, Inv, TypeOK, WorksOnASession, Destroying,
                 Lifetime, OwnGoroutine, MutexHeld, HolderFoundItOpen, Outcome,
                 Mapped
<1> QED
    BY <1>1, <1>2, <1>3, <1>4, <1>4p, <1>5, <1>6, <1>7, <1>8, <1>9, <1>10,
       <1>11, <1>12, <1>13, <1>14, <1>15, <1>16, <1>17, <1>18
       DEF SessionNext, Request, Timer, Response, Destroy

-----------------------------------------------------------------------------
\* What the invariant says of the safety properties.
LEMMA InvImplies ==
    Inv => OneDeliverer /\ WaiterIsServed /\ MapEntryIsOwned
<1> SUFFICES ASSUME Inv PROVE OneDeliverer /\ WaiterIsServed /\ MapEntryIsOwned
    OBVIOUS
<1> USE SessionAssumption DEF Inv, TypeOK
<1>1. OneDeliverer
    BY DEF OneDeliverer, MutexHeld, HolderFoundItOpen
<1>2. WaiterIsServed
  <2> SUFFICES ASSUME NEW s \in Seqs, caller[s] = "waiting"
               PROVE  TimerPending(s) /\ \A p \in Holders(s) : pc[p] = "send"
    BY DEF WaiterIsServed
  <2>1. respChan[s] = "open" /\ \A p \in Holders(s) : pc[p] # "finish"
    BY DEF Outcome
  <2>2. pc[s] # "finish"
    BY <2>1 DEF WorksOnASession
  <2>3. pc[s] \in {"timer", "delete", "lock", "send"}
    BY <2>1, <2>2 DEF OwnGoroutine
  <2>4. pc[s] = "timer" => timer[s] \in {"armed", "fired"}
    BY <2>1, <2>3 DEF OwnGoroutine, Lifetime
  <2> QED
    BY <2>1, <2>3, <2>4 DEF TimerPending
<1>3. MapEntryIsOwned
  <2> SUFFICES ASSUME NEW s \in sessionMap
               PROVE  /\ caller[s] \notin {"answered", "timedout"}
                      /\ timer[s] # "stopped"
                      /\ \/ InTheCall(s) \/ caller[s] = "panicked"
                         \/ pc[s] = "delete"
                         \/ pc[s] = "timer" /\ timer[s] \in {"armed", "fired"}
    BY DEF MapEntryIsOwned
  <2>1. s \in Seqs /\ s <= seq
    OBVIOUS
  <2>2. respChan[s] = "open" /\ caller[s] \notin {"answered", "timedout"}
    BY DEF Mapped
  <2>3. pc[s] \in {"idle", "timer", "delete"}
    BY <2>1 DEF Mapped, WorksOnASession, OwnGoroutine
  <2> QED
    BY <2>1, <2>2, <2>3 DEF OwnGoroutine, Lifetime
<1> QED
    BY <1>1, <1>2, <1>3

\* The strengthened invariant holds in every behaviour.
THEOREM InvAlways == SessionSpec => []Inv
BY InitInv, InvStep, PTL DEF SessionSpec

\* The state of the sessions keeps its types.
THEOREM TypeCorrect == SessionSpec => []TypeOK
BY InvAlways, PTL DEF Inv

\* The response and the timer of a session are never both inside
\* DestorySessionAndRespPkg's critical section, and whoever is found the
\* channel open: respChan is sent on and closed once.
THEOREM DeliversAlone == SessionSpec => []OneDeliverer
BY InvAlways, InvImplies, PTL

\* A caller blocked on its channel always has a timer goroutine to come that
\* has not been satisfied by a response.
THEOREM WaiterNeverStranded == SessionSpec => []WaiterIsServed
BY InvAlways, InvImplies, PTL

\* A session in sessionMap whose Send has neither panicked nor kept its caller
\* has somebody left to delete it, and none outlives its outcome there.
THEOREM OrphanedBySendOnly == SessionSpec => []MapEntryIsOwned
BY InvAlways, InvImplies, PTL

-----------------------------------------------------------------------------
\* The sessions counted as load of a node are finitely many.
LEMMA OpenOnFinite == \A n \in Nodes : IsFiniteSet(OpenOn(n))
<1>1. IsFiniteSet(Seqs)
    BY SessionAssumption, FS_Interval
<1> QED
    BY <1>1, FS_Subset DEF OpenOn

\* Only InitSession and the destruction's Finish move a session in or out of
\* the count, and they move Active with it.
LEMMA ActiveStep ==
    Inv /\ ActiveCountsSessions /\ [SessionNext]_sessionVars => ActiveCountsSessions'
<1> SUFFICES ASSUME Inv, ActiveCountsSessions, [SessionNext]_sessionVars, NEW n \in Nodes
             PROVE  active'[n] = Cardinality(OpenOn(n)')
    BY DEF ActiveCountsSessions
<1> USE SessionAssumption
<1>a. active[n] = Cardinality(OpenOn(n)) /\ IsFiniteSet(OpenOn(n))
    BY OpenOnFinite DEF ActiveCountsSessions
<1>1. ASSUME NEW s \in Seqs, NEW m \in Nodes, InitSession(s, m)
      PROVE  active'[n] = Cardinality(OpenOn(n)')
  <2>1. CASE n = m
    <3>1. s \notin OpenOn(n)
      BY <1>1 DEF InitSession, Inv, TypeOK, OpenOn, Lifetime
    <3>2. OpenOn(n)' = OpenOn(n) \cup {s}
      BY <1>1, <2>1 DEF InitSession, Inv, TypeOK, OpenOn
    <3>3. Cardinality(OpenOn(n)') = Cardinality(OpenOn(n)) + 1
      <4>1. PICK S : S = OpenOn(n)
        OBVIOUS
      <4>2. Cardinality(S \cup {s}) = Cardinality(S) + 1
        BY <1>a, <3>1, <4>1, FS_AddElement
      <4> QED
        BY <3>2, <4>1, <4>2
    <3>4. active'[n] = active[n] + 1
      BY <1>1, <2>1 DEF InitSession, Inv, TypeOK
    <3> QED
      BY <1>a, <3>3, <3>4
  <2>2. CASE n # m
    <3>1. OpenOn(n)' = OpenOn(n)
      BY <1>1, <2>2 DEF InitSession, Inv, TypeOK, OpenOn, Lifetime
    <3>2. active'[n] = active[n]
      BY <1>1, <2>2 DEF InitSession, Inv, TypeOK
    <3> QED
      BY <1>a, <3>1, <3>2
  <2> QED
    BY <2>1, <2>2
<1>2. ASSUME NEW p \in Procs, Finish(p)
      PROVE  active'[n] = Cardinality(OpenOn(n)')
  <2> DEFINE s == sess[p]
  <2>1. /\ s \in Seqs /\ respChan[s] = "open" /\ node[s] \in Nodes
        /\ respChan' = [respChan EXCEPT ![s] = "nil"]
        /\ active' = [active EXCEPT ![node[s]] = @ - 1]
        /\ node' = node
    BY <1>2 DEF Finish, Inv, TypeOK, WorksOnASession, Destroying,
                HolderFoundItOpen, Lifetime
  <2> HIDE DEF s
  <2>2. CASE n = node[s]
    <3>1. s \in OpenOn(n)
      BY <2>1, <2>2 DEF OpenOn
    <3>2. OpenOn(n)' = OpenOn(n) \ {s}
      BY <2>1, <2>2 DEF OpenOn, Inv, TypeOK
    <3>3. Cardinality(OpenOn(n)') = Cardinality(OpenOn(n)) - 1
      BY <1>a, <3>1, <3>2, FS_RemoveElement
    <3> QED
      BY <1>a, <2>1, <2>2, <3>3 DEF Inv, TypeOK
  <2>3. CASE n # node[s]
    <3>1. OpenOn(n)' = OpenOn(n)
      BY <2>1, <2>3 DEF OpenOn, Inv, TypeOK
    <3> QED
      BY <1>a, <2>1, <2>3, <3>1 DEF Inv, TypeOK
  <2> QED
    BY <2>2, <2>3
<1>3. CASE UNCHANGED <<active, respChan, node>>
    BY <1>a, <1>3 DEF OpenOn
<1> QED
  <2>1. \/ \E s \in Seqs, m \in Nodes : InitSession(s, m)
        \/ \E p \in Procs : Finish(p)
        \/ UNCHANGED <<active, respChan, node>>
    BY DEF SessionNext, sessionVars, Request, Timer, Response, Destroy,
           EncodeOk, EncodeFails, SendRequest, SendPanics, SpawnTimer, Receive, Abandon,
           TimerFires, TimerWakes, Dispatch, DecodeFails, Process,
           DeleteSession, LockFirst, LockLate, Deliver
  <2> QED
    BY <1>1, <1>2, <1>3, <2>1

\* A client that has made no request has loaded no node.
LEMMA ActiveInit == SessionInit => ActiveCountsSessions
<1> SUFFICES ASSUME SessionInit, NEW n \in Nodes
             PROVE  active[n] = Cardinality(OpenOn(n))
    BY DEF ActiveCountsSessions
<1>1. OpenOn(n) = {}
    BY DEF SessionInit, OpenOn
<1> QED
    BY <1>1, FS_EmptySet DEF SessionInit

\* Node.Active is the number of sessions opened on the node and not yet
\* destroyed, for any number of nodes, requests and workers.
THEOREM ActiveIsLoad == SessionSpec => []ActiveCountsSessions
BY ActiveInit, InvAlways, ActiveStep, PTL DEF SessionSpec

-----------------------------------------------------------------------------
\* No request has begun in either specification.
LEMMA PromiseInit == SessionInit => Promise!Init
BY SessionAssumption DEF SessionInit, Promise!Init, StatusOf

\* Every step of the sessions is a step of the promise, or leaves what it is
\* about as it was.
LEMMA PromiseStep == Inv /\ [SessionNext]_sessionVars => [Promise!Next]_(Promise!vars)
<1> SUFFICES ASSUME Inv, [SessionNext]_sessionVars PROVE [Promise!Next]_(Promise!vars)
    OBVIOUS
<1> USE SessionAssumption
<1> DEFINE status == [s \in Seqs |-> StatusOf(s)]
           loaded == {s \in Seqs : respChan[s] = "open"}
<1>1. ASSUME NEW s \in Seqs, NEW n \in Nodes, InitSession(s, n)
      PROVE  Promise!Begin(s, n)
  <2>1. status[s] = "unborn"
    BY <1>1 DEF InitSession, Inv, TypeOK, Lifetime, StatusOf
  <2>2. \A i \in Seqs : StatusOf(i)' = IF i = s THEN "pending" ELSE StatusOf(i)
    BY <1>1 DEF InitSession, Inv, TypeOK, StatusOf
  <2>3. status' = [status EXCEPT ![s] = "pending"]
    BY <2>2
  <2>4. loaded' = loaded \cup {s}
    BY <1>1 DEF InitSession, Inv, TypeOK
  <2> QED
    BY <1>1, <2>1, <2>3, <2>4 DEF InitSession, Promise!Begin
<1>2. ASSUME NEW s \in Seqs, Receive(s) PROVE Promise!Listen(s)
  <2>1. status[s] = "pending" /\ status' = [status EXCEPT ![s] = "listening"]
    BY <1>2 DEF Receive, Inv, TypeOK, StatusOf
  <2> QED
    BY <1>2, <2>1 DEF Receive, Promise!Listen
<1>3. ASSUME NEW p \in Procs, NEW s \in Seqs, s = sess[p], Deliver(p)
      PROVE  Promise!Resolve(s)
  <2>1. \E r \in {"answered", "timedout"} : status' = [status EXCEPT ![s] = r]
    <3>1. PICK r \in {"answered", "timedout"} :
             caller' = [caller EXCEPT ![s] = r]
      BY <1>3 DEF Deliver
    <3>2. \A i \in Seqs : caller'[i] = IF i = s THEN r ELSE caller[i]
      BY <3>1 DEF Inv, TypeOK
    <3>3. \A i \in Seqs : StatusOf(i)' = IF i = s THEN r ELSE StatusOf(i)
      BY <3>2 DEF StatusOf
    <3> QED
      BY <3>3
  <2>2. status[s] = "listening"
    BY <1>3 DEF Deliver, StatusOf
  <2> QED
    BY <1>3, <2>1, <2>2 DEF Deliver, Promise!Resolve, Promise!Outcomes
<1>4. ASSUME NEW p \in Procs, NEW s \in Seqs, s = sess[p], Finish(p)
      PROVE  Promise!Retire(s)
  <2>1. respChan[s] = "open"
    BY <1>4 DEF Finish, HolderFoundItOpen, Inv
  <2>2. status[s] \in {"answered", "timedout"} /\ status' = status
    BY <1>4, <2>1 DEF Finish, Inv, TypeOK, Outcome, StatusOf
  <2>3. s \in loaded /\ loaded' = loaded \ {s}
    BY <1>4, <2>1 DEF Finish, Inv, TypeOK
  <2>4. active' = [active EXCEPT ![node[s]] = @ - 1] /\ node' = node
    BY <1>4, Zenon DEF Finish
  <2> QED
    BY <2>2, <2>3, <2>4 DEF Promise!Retire, Promise!Outcomes
<1>5. ASSUME NEW s \in Seqs,
             \/ EncodeOk(s) \/ EncodeFails(s) \/ SendRequest(s)
             \/ SendPanics(s) \/ SpawnTimer(s) \/ Abandon(s)
      PROVE  UNCHANGED Promise!vars
  <2>1. status' = status
    BY <1>5 DEF EncodeOk, EncodeFails, SendRequest, SendPanics, SpawnTimer, Abandon, Inv,
                TypeOK, StatusOf
  <2> QED
    BY <1>5, <2>1 DEF EncodeOk, EncodeFails, SendRequest, SendPanics, SpawnTimer, Abandon,
                      Promise!vars
<1>6. CASE UNCHANGED <<caller, respChan, node, active>>
    BY <1>6 DEF Promise!vars, StatusOf
<1> QED
  <2>1. \/ \E s \in Seqs, n \in Nodes : InitSession(s, n)
        \/ \E s \in Seqs : Receive(s)
        \/ \E p \in Procs : Deliver(p) \/ Finish(p)
        \/ \E s \in Seqs : \/ EncodeOk(s) \/ EncodeFails(s) \/ SendRequest(s)
                          \/ SendPanics(s) \/ SpawnTimer(s) \/ Abandon(s)
        \/ UNCHANGED <<caller, respChan, node, active>>
    BY DEF SessionNext, sessionVars, Request, Timer, Response, Destroy,
           TimerFires, TimerWakes, Dispatch, DecodeFails, Process,
           DeleteSession, LockFirst, LockLate
  <2>2. \A p \in Procs : Deliver(p) \/ Finish(p) => sess[p] \in Seqs
    BY DEF Deliver, Finish, Inv, TypeOK, WorksOnASession, Destroying
  <2>3. ASSUME NEW s \in Seqs, NEW n \in Nodes, InitSession(s, n)
        PROVE  Promise!Next
    BY <1>1, <2>3 DEF Promise!Next
  <2>4. ASSUME NEW s \in Seqs, Receive(s) PROVE Promise!Next
    BY <1>2, <2>4 DEF Promise!Next
  <2>5. ASSUME NEW p \in Procs, Deliver(p) PROVE Promise!Next
    <3>1. PICK s \in Seqs : s = sess[p]
      BY <2>2, <2>5
    <3> QED
      BY <1>3, <2>5, <3>1 DEF Promise!Next
  <2>6. ASSUME NEW p \in Procs, Finish(p) PROVE Promise!Next
    <3>1. PICK s \in Seqs : s = sess[p]
      BY <2>2, <2>6
    <3> QED
      BY <1>4, <2>6, <3>1 DEF Promise!Next
  <2> QED
    BY <1>5, <1>6, <2>1, <2>3, <2>4, <2>5, <2>6

\* The sessions implement the safety half of the promise: at most one outcome
\* per request, only for a listening caller, and load counted until then.
THEOREM SessionsKeepPromise == SessionSpec => Promise!Safety
BY PromiseInit, PromiseStep, InvAlways, PTL DEF SessionSpec, Promise!Safety

-----------------------------------------------------------------------------
(***************************************************************************)
(* The client.                                                             *)
(***************************************************************************)

ChosenInv == chosen \in [Callers -> Nodes \cup {None}]

ClientInv == Inv /\ ActiveCountsSessions /\ BalancerInv /\ ChosenInv

\* A load stays within its bound, as there are no more sessions than seqs.
LEMMA LoadBounded ==
  ASSUME NEW S \in SUBSET Seqs PROVE Cardinality(S) \in 0..MaxActive
<1>1. IsFiniteSet(Seqs) /\ Cardinality(Seqs) = MaxSeq
  BY SessionAssumption, FS_Interval
<1>2. Cardinality(S) \in Nat /\ Cardinality(S) <= MaxSeq
  BY <1>1, FS_Subset, FS_CardinalityType
<1> QED
  BY <1>2, SessionAssumption, BalancerAssumption, ClientAssumption

\* A step of the client is a step of the sessions, or none of theirs.
LEMMA SessionsMove == ClientInv /\ [Next]_vars => [SessionNext]_sessionVars
<1> SUFFICES ASSUME ClientInv, [Next]_vars PROVE [SessionNext]_sessionVars
  OBVIOUS
<1>1. ASSUME NEW c \in Callers, OpenSession(c) PROVE SessionNext
  <2>1. seq + 1 \in Seqs
    BY <1>1, SessionAssumption DEF OpenSession, ClientInv, Inv, TypeOK
  <2>2. chosen[c] \in Nodes
    BY <1>1 DEF OpenSession, ClientInv, ChosenInv
  <2> QED
    BY <1>1, <2>1, <2>2 DEF OpenSession, SessionNext, Request
<1> QED
  BY <1>1 DEF Next, vars, PickNode, AcquireFails, SessionMoves

\* A step of the client is a step of the balancer, or none of its own.
LEMMA BalancerMoves == ClientInv /\ [Next]_vars => [BalancerNext]_balancerVars
<1> SUFFICES ASSUME ClientInv, [Next]_vars PROVE [BalancerNext]_balancerVars
  OBVIOUS
<1>1. ActiveCountsSessions'
  BY SessionsMove, ActiveStep DEF ClientInv
<1>2. ASSUME NEW n \in Nodes, NEW k, LoadChanges(n, k) PROVE BalancerNext
  <2>1. active' = [active EXCEPT ![n] = k] /\ active \in [Nodes -> Int]
    BY <1>2 DEF LoadChanges, ClientInv, Inv, TypeOK
  <2>2. active'[n] = Cardinality(OpenOn(n)')
    BY <1>1 DEF ActiveCountsSessions
  <2>3. Cardinality(OpenOn(n)') \in 0..MaxActive
    <3>1. PICK S \in SUBSET Seqs : S = OpenOn(n)'
      BY DEF OpenOn
    <3> QED
      BY <3>1, LoadBounded
  <2>4. k \in 0..MaxActive
    BY <2>1, <2>2, <2>3
  <2> QED
    BY <1>2, <2>4 DEF BalancerNext
<1>3. ASSUME NEW c \in Callers, OpenSession(c) PROVE BalancerNext
  <2>1. chosen[c] \in Nodes
    BY <1>3 DEF OpenSession, ClientInv, ChosenInv
  <2> QED
    BY <1>2, <1>3, <2>1 DEF OpenSession
<1>4. CASE SessionMoves
  BY <1>2, <1>4 DEF SessionMoves, balancerVars
<1>5. ASSUME NEW c \in Callers, PickNode(c) PROVE BalancerNext
  BY <1>5 DEF PickNode, BalancerNext
<1> QED
  BY <1>3, <1>4, <1>5 DEF Next, vars, AcquireFails

\* GetNode returns a node or none.
LEMMA ChosenStep == ClientInv /\ [Next]_vars => ChosenInv'
<1> SUFFICES ASSUME ClientInv, [Next]_vars PROVE ChosenInv'
  OBVIOUS
<1>1. ASSUME NEW c \in Callers, PickNode(c) PROVE ChosenInv'
  <2>1. CASE req[c].pc # "idle" /\ req'[c].pc = "idle"
    <3>1. /\ BalancerTypes /\ nodeList \in Seq(Nodes)
          /\ req \in [Callers -> Locals] /\ req[c] \in Locals
      BY DEF ClientInv, BalancerInv, BalancerTypes
    <3>2. \/ PanicsFor(c) \/ IndexReturns(c) \/ PickReturns(c)
          \/ Returns(c, "get", None)
      BY <2>1, <3>1, BalancerMoves, EndsSo
    <3>3. ~PanicsFor(c)
      BY <2>1, <3>1 DEF PanicsFor, Panics, Fresh
    <3>4. picked' \in Nodes \cup {None}
      BY <3>1, <3>2, <3>3 DEF IndexReturns, PickReturns, Returns, Has, At,
                              Locals
    <3> QED
      BY <1>1, <2>1, <3>4 DEF PickNode, ClientInv, ChosenInv
  <2> QED
    BY <1>1, <2>1 DEF PickNode, ClientInv, ChosenInv
<1> QED
  BY <1>1 DEF Next, vars, AcquireFails, OpenSession, SessionMoves, ClientInv,
              ChosenInv

\* The three invariants hold together.
LEMMA ClientInvStep == ClientInv /\ [Next]_vars => ClientInv'
BY SessionsMove, BalancerMoves, ChosenStep, InvStep, ActiveStep, BalancerInvStep
   DEF ClientInv

\* A client that has made no request satisfies them.
LEMMA ClientInitInv == Init => ClientInv
BY InitInv, ActiveInit, BalancerInitInv DEF Init, ClientInv, ChosenInv

\* The client implements the sessions, whose theorems are its own, except for
\* their fairness.
THEOREM ClientHasSessions == Spec => SessionInit /\ [][SessionNext]_sessionVars
<1>1. Init => SessionInit
  BY DEF Init
<1> QED
  BY <1>1, ClientInitInv, ClientInvStep, SessionsMove, PTL DEF Spec

\* The client implements the balancer: what is proved of the choice of a node
\* holds while sessions begin and end on the nodes chosen from.
THEOREM ClientHasBalancer == Spec => BalancerSpec
<1>1. Init => BalancerInit
  BY DEF Init
<1> QED
  BY <1>1, ClientInitInv, ClientInvStep, BalancerMoves, PTL
     DEF Spec, BalancerSpec

\* A node that is least active has the fewest open sessions.
LEMMA PicksFewest ==
  ASSUME ClientInv, [Next]_vars, NEW c \in Callers, PicksAlone(c, "ACTIVE")
  PROVE  HasFewest(picked') \/ HasFewest(Last(nodeList))
<1>1. BalancerInv /\ [BalancerNext]_balancerVars /\ nodeList \in Seq(Nodes)
  BY BalancerMoves DEF ClientInv, BalancerInv, BalancerTypes
<1>2. LeastActive(picked') \/ LeastActive(Last(nodeList))
  BY <1>1, PicksLeast
<1>3. picked' \in Nodes /\ nodeList # <<>>
  <2>1. /\ req[c] \in Locals /\ nodeList \in Seq(Nodes)
        /\ \/ /\ req[c].index < Len(nodeList)
              /\ picked' = nodeList[req[c].index + 1]
           \/ /\ req[c].i < Len(nodeList) /\ picked' = nodeList[req[c].i + 1]
    BY <1>1, PickedFrom
  <2>2. PICK k \in Nat : k < Len(nodeList) /\ picked' = nodeList[k + 1]
    BY <2>1 DEF Locals
  <2>3. k + 1 \in 1..Len(nodeList) /\ nodeList # <<>>
    BY <2>1, <2>2
  <2> QED
    BY <2>1, <2>2, <2>3
<1>4. Last(nodeList) \in Nodes
  BY <1>1, <1>3 DEF Last
<1>5. \A m \in ToSet(nodeList) : m \in Nodes
  BY <1>1 DEF ToSet
<1>6. \A m \in Nodes : active[m] = Cardinality(OpenOn(m))
  BY DEF ClientInv, ActiveCountsSessions
<1>7. \A n \in Nodes : LeastActive(n) => HasFewest(n)
  BY <1>5, <1>6 DEF LeastActive, HasFewest
<1>p. PICK n \in Nodes : n = picked'
  BY <1>3
<1> QED
  BY <1>2, <1>4, <1>7, <1>p

\* LB_ACTIVE goes by the sessions of this client that are open.
THEOREM PicksFewestSessions == Spec => FewestSessions
<1>1. ClientInv /\ [Next]_vars =>
         [\A c \in Callers : PicksAlone(c, "ACTIVE") =>
             HasFewest(picked') \/ HasFewest(Last(nodeList))]_vars
  BY PicksFewest
<1> QED
  BY <1>1, ClientInitInv, ClientInvStep, PTL DEF Spec, FewestSessions
=============================================================================
