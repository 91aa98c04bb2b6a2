----------------------------- MODULE CircuitBreaker -----------------------------
(***************************************************************************)
(* One circuit breaker, called by concurrent goroutines through CbCall and *)
(* configured through CbConfigure.  The decision is made under the         *)
(* breaker's lock with a time that was read before the lock was taken; the *)
(* two counters are also increased outside the lock, when a call starts    *)
(* and when it fails.                                                      *)
(*                                                                         *)
(* A point in time is represented by its age, the ticks passed since, up   *)
(* to MaxAge; zero, the time the code sets when it clears one, is as old   *)
(* as can be.  The comparison "last + period < timeNow" is the one of Past.*)
(***************************************************************************)
EXTENDS Integers, FiniteSets

(* An operator that stands just before the definition it resembles is a bug
   that definition could have, used to test that a property notices it. *)

CONSTANTS
    Callers,   \* goroutines that call CbCall
    Configs,   \* the parameters CbConfigure may set
    MaxDelay,  \* bound on the ticks between GetTimeNow and the decision
    MaxAge,    \* ages from here on are not told apart
    MaxCount,  \* counts from here on are not told apart
    None

Periods(cfg) == {cfg.failTime, cfg.limitTime, cfg.resetTime}

ASSUME BreakerAssumption ==
    /\ IsFiniteSet(Callers) /\ Callers # {} /\ None \notin Callers
    /\ MaxDelay \in Nat /\ MaxAge \in Nat /\ MaxCount \in Nat \ {0}
    /\ \A cfg \in Configs :
          /\ cfg.failRate \in 0..100 /\ cfg.countBase \in Nat
          /\ \A t \in Periods(cfg) : t \in Nat /\ t + MaxDelay < MaxAge

VARIABLES
    status,       \* CbInfo.status
    invokeCount,  \* CbInfo.invokeCount
    failCount,    \* CbInfo.failCount
    openAge,      \* age of lastCircuitBreakerTime
    limitAge,     \* age of lastLimitPassTime
    resetAge,     \* age of lastResetTime
    config,       \* the rates and periods of CbInfo
    lock,         \* who holds the breaker's mutex
    pc,           \* where a caller stands
    delay,        \* delay[c]: age of the caller's timeNow
    seen,         \* seen[c]: the failCount the caller has read
    since         \* ticks since status last changed: no part of the code

info == <<invokeCount, failCount, openAge, limitAge, resetAge>>
vars == <<status, info, config, lock, pc, delay, seen, since>>

-----------------------------------------------------------------------------
Ages == 0..MaxAge

TypeOK ==
    /\ status \in {"close", "open", "limit"}
    /\ invokeCount \in 1..MaxCount /\ failCount \in 0..MaxCount
    /\ openAge \in Ages /\ limitAge \in Ages /\ resetAge \in Ages
    /\ config \in Configs
    /\ lock \in Callers \cup {None}
    /\ pc \in [Callers -> {"idle", "lock", "gate", "rate", "decide", "begin",
                           "run"}]
    /\ delay \in [Callers -> 0..MaxDelay]
    /\ seen \in [Callers -> 0..MaxCount]
    /\ since \in Ages

\* CbInfo as CbCall or CbConfigure creates it, under cbMutex.
Init ==
    /\ status = "close"
    /\ invokeCount = 1 /\ failCount = 0
    /\ openAge = MaxAge /\ limitAge = MaxAge /\ resetAge = 0
    /\ config \in Configs
    /\ lock = None
    /\ pc = [c \in Callers |-> "idle"]
    /\ delay = [c \in Callers |-> 0]
    /\ seen = [c \in Callers |-> 0]
    /\ since = MaxAge

-----------------------------------------------------------------------------
Older(age) == IF age < MaxAge THEN age + 1 ELSE age

More(count) == IF count < MaxCount THEN count + 1 ELSE count

\* Is last + period < timeNow, for a last of this age and c's timeNow?
Past(c, age, period) == age - delay[c] > period

Goto(c, label) == pc' = [pc EXCEPT ![c] = label]

Deciding == {"lock", "gate", "rate", "decide"}

\* Time passes.  A caller spends at most MaxDelay between reading the clock
\* and deciding.
Tick ==
    /\ \A c \in Callers : pc[c] \in Deciding => delay[c] < MaxDelay
    /\ openAge' = Older(openAge) /\ limitAge' = Older(limitAge)
    /\ resetAge' = Older(resetAge) /\ since' = Older(since)
    /\ delay' = [c \in Callers |->
                    IF pc[c] \in Deciding THEN delay[c] + 1 ELSE delay[c]]
    /\ UNCHANGED <<status, invokeCount, failCount, config, lock, pc, seen>>

Configure(cfg) ==
    /\ lock = None
    /\ config' = cfg
    /\ UNCHANGED <<status, info, lock, pc, delay, seen, since>>

\* CbCall reads the clock and finds the breaker.
Call(c) ==
    /\ pc[c] = "idle"
    /\ Goto(c, "lock")
    /\ delay' = [delay EXCEPT ![c] = 0]
    /\ UNCHANGED <<status, info, config, lock, seen, since>>

HalfOpenForgetsTime(c) ==
    /\ status' = "limit" /\ since' = 0
    /\ failCount' = 0 /\ invokeCount' = 1
    /\ openAge' = MaxAge
    /\ UNCHANGED <<limitAge, resetAge>>

HalfOpenFromZero(c) ==
    /\ status' = "limit" /\ since' = 0
    /\ failCount' = 0 /\ invokeCount' = 0
    /\ limitAge' = delay[c] /\ openAge' = MaxAge
    /\ UNCHANGED resetAge

\* An open breaker whose failTime has passed is half open.
HalfOpen(c) ==
    /\ status' = "limit" /\ since' = 0
    /\ failCount' = 0 /\ invokeCount' = 1
    /\ limitAge' = delay[c] /\ openAge' = MaxAge
    /\ UNCHANGED resetAge

Lock(c) ==
    /\ pc[c] = "lock" /\ lock = None
    /\ lock' = c
    /\ Goto(c, "gate")
    /\ IF status = "open" /\ Past(c, openAge, config.failTime)
       THEN HalfOpen(c)
       ELSE UNCHANGED <<status, info, since>>
    /\ UNCHANGED <<config, delay, seen>>

RejectExtends(c) ==
    /\ pc[c] = "gate" /\ status \in {"open", "limit"}
    /\ lock' = None
    /\ openAge' = IF status = "open" THEN delay[c] ELSE openAge
    /\ limitAge' = IF status = "limit" THEN delay[c] ELSE limitAge
    /\ Goto(c, "idle")
    /\ delay' = [delay EXCEPT ![c] = 0]
    /\ UNCHANGED <<status, invokeCount, failCount, resetAge, config, seen, since>>

\* The fallback runs, or the call returns nil, after the unlock.
Reject(c) ==
    /\ pc[c] = "gate" /\ status \in {"open", "limit"}
    /\ lock' = None
    /\ Goto(c, "idle")
    /\ delay' = [delay EXCEPT ![c] = 0]
    /\ UNCHANGED <<status, info, config, seen, since>>

\* A half-open breaker lets a random share of the calls through.
Pass(c) ==
    /\ pc[c] = "gate" /\ status \in {"close", "limit"}
    /\ Goto(c, "rate")
    /\ UNCHANGED <<status, info, config, lock, delay, seen, since>>

\* failCount is read before invokeCount, and other callers' calls may start
\* or fail in between.
ReadFails(c) ==
    /\ pc[c] = "rate"
    /\ seen' = [seen EXCEPT ![c] = failCount]
    /\ Goto(c, "decide")
    /\ UNCHANGED <<status, info, config, lock, delay, since>>

OverThreshold(c) ==
    /\ seen[c] * 100 > config.failRate * invokeCount
    /\ invokeCount > config.countBase

Trip(c) ==
    /\ pc[c] = "decide" /\ OverThreshold(c)
    /\ status' = "open" /\ since' = 0
    /\ openAge' = delay[c]
    /\ lock' = None
    /\ Goto(c, "idle")
    /\ delay' = [delay EXCEPT ![c] = 0]
    /\ seen' = [seen EXCEPT ![c] = 0]
    /\ UNCHANGED <<invokeCount, failCount, limitAge, resetAge, config>>

\* Not over the threshold: a half-open breaker closes once limitTime has
\* passed, and a closed one starts new counts once resetTime has passed.
Admit(c) ==
    /\ pc[c] = "decide" /\ ~OverThreshold(c)
    /\ LET closes == status = "limit" /\ Past(c, limitAge, config.limitTime)
           closed == closes \/ status = "close"
           resets == closed /\ Past(c, resetAge, config.resetTime)
       IN
       /\ status' = IF closes THEN "close" ELSE status
       /\ since' = IF closes THEN 0 ELSE since
       /\ limitAge' = IF closes THEN MaxAge ELSE limitAge
       /\ resetAge' = IF resets THEN delay[c] ELSE resetAge
       /\ invokeCount' = IF closes \/ resets THEN 1 ELSE invokeCount
       /\ failCount' = IF closes \/ resets THEN 0 ELSE failCount
    /\ lock' = None
    /\ Goto(c, "begin")
    /\ delay' = [delay EXCEPT ![c] = 0]
    /\ seen' = [seen EXCEPT ![c] = 0]
    /\ UNCHANGED <<openAge, config>>

BeginUncounted(c) ==
    /\ pc[c] = "begin"
    /\ Goto(c, "run")
    /\ UNCHANGED <<status, info, config, lock, delay, seen, since>>

Begin(c) ==
    /\ pc[c] = "begin"
    /\ invokeCount' = More(invokeCount)
    /\ Goto(c, "run")
    /\ UNCHANGED <<status, failCount, openAge, limitAge, resetAge, config, lock,
                   delay, seen, since>>

RunSucceeds(c) ==
    /\ pc[c] = "run"
    /\ Goto(c, "idle")
    /\ UNCHANGED <<status, info, config, lock, delay, seen, since>>

RunFails(c) ==
    /\ pc[c] = "run"
    /\ failCount' = More(failCount)
    /\ Goto(c, "idle")
    /\ UNCHANGED <<status, invokeCount, openAge, limitAge, resetAge, config,
                   lock, delay, seen, since>>

-----------------------------------------------------------------------------
Decision(c) ==
    Lock(c) \/ Reject(c) \/ Pass(c) \/ ReadFails(c) \/ Trip(c) \/ Admit(c)

Run(c) == Begin(c) \/ RunSucceeds(c) \/ RunFails(c)

Next ==
    \/ Tick
    \/ \E cfg \in Configs : Configure(cfg)
    \/ \E c \in Callers : Call(c) \/ Decision(c) \/ Run(c)

Spec == Init /\ [][Next]_vars

\* The clock runs, goroutines run and calls come to an end.  Calls go on
\* being made, and the random gate of a half-open breaker is not closed for
\* ever (limitRate > 0).
Fairness ==
    /\ WF_vars(Tick)
    /\ \A c \in Callers :
          /\ WF_vars(Call(c)) /\ WF_vars(Run(c))
          /\ SF_vars(Lock(c)) /\ SF_vars(Pass(c))
          /\ WF_vars(Decision(c))

LiveSpec == Spec /\ Fairness

-----------------------------------------------------------------------------
Running == {c \in Callers : pc[c] = "run"}

\* Failures are counted without the lock, so a call that began before the
\* counts were cleared fails into the new counts.  Such strays never outnumber
\* the other callers: apart from them no failure is counted without its call.
StraysBounded ==
    invokeCount < MaxCount =>
        failCount + Cardinality(Running)
            <= (invokeCount - 1) + (Cardinality(Callers) - 1)

\* A closed breaker opens first and an open one is half open before it closes.
\* Measured by the real clock it stays open for failTime and half open for
\* limitTime, short of the time that the deciding callers spent between reading
\* the clock and getting the lock.
StaysLongEnough ==
    [][/\ status = "close" => status' \in {"close", "open"}
       /\ status = "open" /\ status' # "open" =>
             status' = "limit" /\ since + MaxDelay > config.failTime
       /\ status = "limit" /\ status' = "close" =>
             since + MaxDelay > config.limitTime]_vars

\* Under traffic the breaker gets stuck in no state: an open one is tried again,
\* and a half-open one opens again or closes.
NeverStuck ==
    /\ status = "open" ~> status = "limit"
    /\ status = "limit" ~> status # "limit"
=============================================================================
