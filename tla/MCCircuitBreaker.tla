---------------------------- MODULE MCCircuitBreaker ----------------------------
(* Instances of CircuitBreaker for TLC. *)
EXTENDS CircuitBreaker

Config(rate, base, t) ==
    [failRate |-> rate, countBase |-> base, failTime |-> t, limitTime |-> t,
     resetTime |-> t]

\* The defaults, in ticks and with a small base, and a stricter setting.
SmallConfigs == {Config(50, 1, 2), Config(20, 2, 1)}
=============================================================================
