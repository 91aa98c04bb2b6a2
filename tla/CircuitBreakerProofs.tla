-------------------------- MODULE CircuitBreakerProofs --------------------------
(***************************************************************************)
(* Proofs about CircuitBreaker for every number of callers, all settings   *)
(* and all bounds that its assumption allows.  Whoever clears the counts   *)
(* is a caller that is not running, so that at most the others can still   *)
(* fail into the new ones; and the ages that the decisions compare run     *)
(* ahead of the real time in a status by no more than a decision's delay.  *)
(***************************************************************************)
EXTENDS CircuitBreaker, FiniteSetTheorems, TLAPS

\* The times of an open and of a half-open breaker are hardly older than its
\* status.
AgesFollowStatus ==
    /\ status = "open" => openAge <= since + MaxDelay
    /\ status = "limit" => limitAge <= since + MaxDelay

running == Cardinality(Running)
others == Cardinality(Callers) - 1

Inv == TypeOK /\ AgesFollowStatus /\ StraysBounded

-----------------------------------------------------------------------------
\* The callers that run are finitely many.
LEMMA RunningFinite ==
    /\ IsFiniteSet(Running) /\ running \in Nat
    /\ Cardinality(Callers) \in Nat /\ others \in Nat
<1>1. IsFiniteSet(Running)
    BY BreakerAssumption, FS_Subset DEF Running
<1>2. Cardinality(Callers) \in Nat /\ Cardinality(Callers) # 0
    BY BreakerAssumption, FS_CardinalityType, FS_EmptySet
<1> QED
    BY <1>1, <1>2, FS_CardinalityType DEF running, others

\* A caller that is not running leaves only the others to run.
LEMMA OthersRun ==
    ASSUME NEW c \in Callers, pc[c] # "run"
    PROVE  running <= others
<1>1. Running \subseteq Callers \ {c}
    BY DEF Running
<1>2. Cardinality(Callers \ {c}) = others
    BY BreakerAssumption, FS_RemoveElement DEF others
<1>3. IsFiniteSet(Callers \ {c})
    BY BreakerAssumption, FS_RemoveElement
<1> QED
    BY <1>1, <1>2, <1>3, FS_Subset DEF running

\* What a caller's move does to the number of those that run.
LEMMA Moves ==
    ASSUME TypeOK, NEW c \in Callers,
           NEW l \in {"idle", "lock", "gate", "rate", "decide", "begin", "run"},
           Goto(c, l)
    PROVE  /\ pc[c] # "run" /\ l # "run" => running' = running
           /\ pc[c] # "run" /\ l = "run" => running' = running + 1
           /\ pc[c] = "run" /\ l # "run" => running' = running - 1
<1>1. CASE pc[c] # "run" /\ l # "run"
  <2>1. Running' = Running
    BY <1>1 DEF TypeOK, Goto, Running
  <2> QED
    BY <1>1, <2>1 DEF running
<1>2. CASE pc[c] # "run" /\ l = "run"
  <2>1. Running' = Running \cup {c} /\ c \notin Running
    BY <1>2 DEF TypeOK, Goto, Running
  <2> QED
    BY <1>2, <2>1, RunningFinite, FS_AddElement DEF running
<1>3. CASE pc[c] = "run" /\ l # "run"
  <2>1. Running' = Running \ {c} /\ c \in Running
    BY <1>3 DEF TypeOK, Goto, Running
  <2> QED
    BY <1>3, <2>1, RunningFinite, FS_RemoveElement DEF running
<1> QED
    BY <1>1, <1>2, <1>3

\* No period is so long that the ages could not tell when it has passed.
LEMMA DelayFits ==
    ASSUME TypeOK
    PROVE  /\ MaxDelay \in Nat /\ MaxAge \in Nat /\ MaxCount \in Nat \ {0}
           /\ MaxDelay < MaxAge
           /\ config.failTime \in Nat /\ config.limitTime \in Nat
BY BreakerAssumption DEF TypeOK, Periods

\* The invariant holds of a breaker that CbCall or CbConfigure has made.
LEMMA InitInv == Init => Inv
<1> SUFFICES ASSUME Init PROVE Inv
    OBVIOUS
<1>1. TypeOK
    BY BreakerAssumption DEF Init, TypeOK, Ages
<1>2. Running = {} /\ AgesFollowStatus
    BY DEF Init, Running, AgesFollowStatus
<1>3. StraysBounded
    BY <1>2, RunningFinite, FS_EmptySet DEF Init, StraysBounded, others
<1> QED
    BY <1>1, <1>2, <1>3 DEF Inv

\* A step that clears the counts leaves the other callers' failures only.
LEMMA Cleared ==
    ASSUME TypeOK, NEW c \in Callers, pc[c] # "run", running' = running,
           failCount' = 0, invokeCount' = 1
    PROVE  StraysBounded'
BY OthersRun, RunningFinite DEF StraysBounded, running, others

\* A step that leaves the counts and the running callers alone.
LEMMA Kept ==
    ASSUME StraysBounded, running' = running, UNCHANGED <<failCount, invokeCount>>
    PROVE  StraysBounded'
BY DEF StraysBounded, running

\* Every step keeps the invariant.
LEMMA InvStep == Inv /\ [Next]_vars => Inv'
<1> SUFFICES ASSUME Inv, [Next]_vars PROVE Inv'
    OBVIOUS
<1>a. TypeOK /\ AgesFollowStatus /\ StraysBounded
    BY DEF Inv
<1>b. /\ MaxDelay \in Nat /\ MaxAge \in Nat /\ MaxCount \in Nat \ {0}
      /\ MaxDelay < MaxAge
    BY <1>a, DelayFits
<1> USE <1>a, <1>b DEF TypeOK, Ages, AgesFollowStatus, Goto, info
<1>1. CASE Tick
  <2>1. TypeOK' /\ AgesFollowStatus'
    BY <1>1 DEF Tick, Older, Deciding
  <2>2. running' = running
    BY <1>1 DEF Tick, running, Running
  <2> QED
    BY <1>1, <2>1, <2>2, Kept DEF Tick, Inv
<1>2. ASSUME NEW cfg \in Configs, Configure(cfg) PROVE Inv'
  <2>1. TypeOK' /\ AgesFollowStatus' /\ running' = running
    BY <1>2 DEF Configure, running, Running
  <2> QED
    BY <1>2, <2>1, Kept DEF Configure, Inv
<1>3. ASSUME NEW c \in Callers, Call(c) PROVE Inv'
  <2>1. TypeOK' /\ AgesFollowStatus'
    BY <1>3 DEF Call
  <2>2. running' = running
    BY <1>3, Moves DEF Call
  <2> QED
    BY <1>3, <2>1, <2>2, Kept DEF Call, Inv
<1>4. ASSUME NEW c \in Callers, Lock(c) PROVE Inv'
  <2>1. running' = running
    BY <1>4, Moves DEF Lock
  <2>2. CASE HalfOpen(c)
    <3>1. TypeOK' /\ AgesFollowStatus'
      BY <1>4, <2>2 DEF Lock, HalfOpen
    <3>2. StraysBounded'
      BY <1>4, <2>1, <2>2, Cleared DEF Lock, HalfOpen
    <3> QED
      BY <3>1, <3>2 DEF Inv
  <2>3. CASE UNCHANGED <<status, info, since>>
    <3>1. TypeOK' /\ AgesFollowStatus'
      BY <1>4, <2>3 DEF Lock
    <3> QED
      BY <2>1, <2>3, <3>1, Kept DEF Inv
  <2> QED
    BY <1>4, <2>2, <2>3 DEF Lock
<1>5. ASSUME NEW c \in Callers, Reject(c) PROVE Inv'
  <2>1. TypeOK' /\ AgesFollowStatus'
    BY <1>5 DEF Reject
  <2>2. running' = running
    BY <1>5, Moves DEF Reject
  <2> QED
    BY <1>5, <2>1, <2>2, Kept DEF Reject, Inv
<1>6. ASSUME NEW c \in Callers, Pass(c) PROVE Inv'
  <2>1. TypeOK' /\ AgesFollowStatus' /\ running' = running
    BY <1>6, Moves DEF Pass
  <2> QED
    BY <1>6, <2>1, Kept DEF Pass, Inv
<1>7. ASSUME NEW c \in Callers, ReadFails(c) PROVE Inv'
  <2>1. TypeOK' /\ AgesFollowStatus' /\ running' = running
    BY <1>7, Moves DEF ReadFails
  <2> QED
    BY <1>7, <2>1, Kept DEF ReadFails, Inv
<1>8. ASSUME NEW c \in Callers, Trip(c) PROVE Inv'
  <2>1. TypeOK' /\ AgesFollowStatus'
    BY <1>8 DEF Trip
  <2>2. running' = running
    BY <1>8, Moves DEF Trip
  <2> QED
    BY <1>8, <2>1, <2>2, Kept DEF Trip, Inv
<1>9. ASSUME NEW c \in Callers, Admit(c) PROVE Inv'
  <2>1. running' = running /\ pc[c] # "run"
    BY <1>9, Moves DEF Admit
  <2>2. TypeOK' /\ AgesFollowStatus'
    BY <1>9 DEF Admit
  <2>3. \/ failCount' = 0 /\ invokeCount' = 1
        \/ UNCHANGED <<failCount, invokeCount>>
    BY <1>9 DEF Admit
  <2> QED
    BY <2>1, <2>2, <2>3, Cleared, Kept DEF Inv
<1>10. ASSUME NEW c \in Callers, Begin(c) PROVE Inv'
  <2>1. TypeOK' /\ AgesFollowStatus'
    BY <1>10 DEF Begin, More
  <2>2. running' = running + 1
    BY <1>10, Moves DEF Begin
  <2>3. StraysBounded'
    BY <1>10, <2>2, RunningFinite DEF Begin, More, StraysBounded, running,
       others
  <2> QED
    BY <2>1, <2>3 DEF Inv
<1>11. ASSUME NEW c \in Callers, RunSucceeds(c) PROVE Inv'
  <2>1. TypeOK' /\ AgesFollowStatus'
    BY <1>11 DEF RunSucceeds
  <2>2. running' = running - 1
    BY <1>11, Moves DEF RunSucceeds
  <2>3. StraysBounded'
    BY <1>11, <2>2, RunningFinite DEF RunSucceeds, StraysBounded, running,
       others
  <2> QED
    BY <2>1, <2>3 DEF Inv
<1>12. ASSUME NEW c \in Callers, RunFails(c) PROVE Inv'
  <2>1. TypeOK' /\ AgesFollowStatus'
    BY <1>12 DEF RunFails, More
  <2>2. running' = running - 1
    BY <1>12, Moves DEF RunFails
  <2>3. StraysBounded'
    BY <1>12, <2>2, RunningFinite DEF RunFails, More, StraysBounded, running,
       others
  <2> QED
    BY <2>1, <2>3 DEF Inv
<1>13. CASE UNCHANGED vars
  <2>1. TypeOK' /\ AgesFollowStatus' /\ running' = running
    BY <1>13 DEF vars, running, Running
  <2> QED
    BY <1>13, <2>1, Kept DEF vars, Inv
<1> QED
    BY <1>1, <1>2, <1>3, <1>4, <1>5, <1>6, <1>7, <1>8, <1>9, <1>10, <1>11,
       <1>12,
       <1>13 DEF Next, Decision, Run

-----------------------------------------------------------------------------
\* The invariant holds in every behaviour.
THEOREM InvAlways == Spec => []Inv
BY InitInv, InvStep, PTL DEF Spec

\* The breaker's state keeps its types and its counts their ranges.
THEOREM TypeCorrect == Spec => []TypeOK
<1>1. Inv => TypeOK
    BY DEF Inv
<1> QED
    BY <1>1, InvAlways, PTL

\* Failures counted without the lock into counts that were cleared in between never
\* outnumber the other callers.
THEOREM StraysAlwaysBounded == Spec => []StraysBounded
<1>1. Inv => StraysBounded
    BY DEF Inv
<1> QED
    BY <1>1, InvAlways, PTL

\* A breaker stays open for failTime and half open for limitTime, up to the time a
\* decision may take, and goes from one status to the next in the cycle's order.
THEOREM StatusLasts == Spec => StaysLongEnough
<1> DEFINE Lasts ==
        /\ status = "close" => status' \in {"close", "open"}
        /\ status = "open" /\ status' # "open" =>
              status' = "limit" /\ since + MaxDelay > config.failTime
        /\ status = "limit" /\ status' = "close" =>
              since + MaxDelay > config.limitTime
<1>1. Inv /\ [Next]_vars => [Lasts]_vars
  <2> SUFFICES ASSUME Inv, Next PROVE Lasts
      OBVIOUS
  <2>0. TypeOK /\ AgesFollowStatus
      BY DEF Inv
  <2> HIDE DEF Lasts
  <2>1. ASSUME NEW c \in Callers, Lock(c) PROVE Lasts
    <3>1. CASE status' = status
        BY <3>1, <2>0 DEF Lasts, TypeOK
    <3>2. CASE status = "open" /\ Past(c, openAge, config.failTime) /\ HalfOpen(c)
      <4>1. since \in Nat /\ openAge \in Nat /\ delay[c] \in Nat
          BY <2>0, <2>1, DelayFits DEF TypeOK, Ages
      <4> QED
          BY <2>0, <3>2, <4>1, DelayFits DEF Lasts, Past, HalfOpen,
             AgesFollowStatus
    <3> QED
        BY <2>1, <3>1, <3>2 DEF Lock
  <2>2. ASSUME NEW c \in Callers, Trip(c) PROVE Lasts
      BY <2>2 DEF Trip, Lasts
  <2>3. ASSUME NEW c \in Callers, Admit(c) PROVE Lasts
    <3>1. CASE status' = status
        BY <3>1, <2>0 DEF Lasts, TypeOK
    <3>2. CASE /\ status = "limit" /\ status' = "close"
               /\ Past(c, limitAge, config.limitTime)
      <4>1. since \in Nat /\ limitAge \in Nat /\ delay[c] \in Nat
          BY <2>0, <2>3, DelayFits DEF TypeOK, Ages
      <4> QED
          BY <2>0, <3>2, <4>1, DelayFits DEF Lasts, Past, AgesFollowStatus
    <3> QED
        BY <2>3, <3>1, <3>2 DEF Admit
  <2>4. CASE status' = status
      BY <2>0, <2>4 DEF Lasts, TypeOK
  <2>5. status' = status \/ \E c \in Callers : Lock(c) \/ Trip(c) \/ Admit(c)
      BY DEF Next, Decision, Run, Tick, Configure, Call, Reject, Pass,
         ReadFails,
             Begin, RunSucceeds, RunFails
  <2> QED
      BY <2>1, <2>2, <2>3, <2>4, <2>5
<1> QED
    BY <1>1, InvAlways, PTL DEF StaysLongEnough, Spec
=============================================================================
