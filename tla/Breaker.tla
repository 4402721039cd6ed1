------------------------------- MODULE Breaker -------------------------------
(* The circuit breaker around a resource's health check                     *)
(* (circuit_breaker.rs): three atomics that concurrent checks read and      *)
(* write one at a time. Time enters only through the cooldown: age is how   *)
(* long ago last_opened_nanos was stored, up to the cooldown.               *)
EXTENDS Integers, FiniteSets

CONSTANTS Checkers,       \* threads calling health_check
          Threshold,      \* failure_threshold, at least 1 (the builder clamps it)
          Cooldown        \* cooldown in clock ticks, at least 1 (clamped too)

ASSUME BreakerAssumption == Threshold \in Nat \ {0} /\ Cooldown \in Nat \ {0}

VARIABLES circuit,          \* CLOSED, OPEN or HALF_OPEN
          failures,       \* consecutive_failures
          age,            \* time since last_opened_nanos; Cooldown + 1 while NO_TIMESTAMP
          inner,          \* what a check of the inner resource does now: "ok", "err", "panic"
          checkStep,           \* checkStep[c]: the check's next step
          prior,           \* prior[c]: the failure count c's record_failure loop read
          unwound          \* a half-open probe panicked since the circuit was last written

breakerVars == <<circuit, failures, age, inner, checkStep, prior, unwound>>
NoTimestamp == Cooldown + 1
InnerChecks == {"ok", "err", "panic"}

BreakerInit ==
    /\ circuit = "CLOSED" /\ failures = 0 /\ age = NoTimestamp /\ inner \in InnerChecks
    /\ checkStep = [c \in Checkers |-> "out"] /\ prior = [c \in Checkers |-> 0]
    /\ unwound = FALSE

CheckTo(c, s) == checkStep' = [checkStep EXCEPT ![c] = s]

-----------------------------------------------------------------------------
(* health_check dispatches on the circuit it reads.                         *)
HealthCheck(c) ==
    /\ checkStep[c] = "out"
    /\ CheckTo(c, CASE circuit = "OPEN" -> "open" [] circuit = "HALF_OPEN" -> "half open" [] OTHER -> "closed")
    /\ UNCHANGED <<circuit, failures, age, inner, prior, unwound>>

(* health_check_open: the cooldown first; without a timestamp none has      *)
(* passed. Then the exchange that admits a probe.                           *)
CheckCooldown(c) ==
    /\ checkStep[c] = "open"
    /\ CheckTo(c, IF age = Cooldown THEN "admit" ELSE "out")
    /\ UNCHANGED <<circuit, failures, age, inner, prior, unwound>>
AdmitProbe(c) ==
    /\ checkStep[c] = "admit"
    /\ IF circuit = "OPEN" THEN circuit' = "HALF_OPEN" /\ unwound' = FALSE /\ CheckTo(c, "half open")
       ELSE CheckTo(c, "out") /\ UNCHANGED <<circuit, unwound>>
    /\ UNCHANGED <<failures, age, inner, prior>>

(* health_check_closed and health_check_half_open: the inner probe. One     *)
(* that panics unwinds the check and leaves the atomics as they are ...     *)
ProbeClosed(c) ==
    /\ checkStep[c] = "closed"
    /\ CheckTo(c, IF inner = "err" THEN "read" ELSE "out")
    /\ failures' = IF inner = "ok" THEN 0 ELSE failures
    /\ UNCHANGED <<circuit, age, inner, prior, unwound>>
ProbeHalfOpen(c) ==
    /\ checkStep[c] = "half open"
    /\ CheckTo(c, CASE inner = "ok" -> "close" [] inner = "err" -> "stamp" [] OTHER -> "out")
    /\ failures' = IF inner = "ok" THEN 0 ELSE failures
    /\ unwound' = (unwound \/ inner = "panic")
    /\ UNCHANGED <<circuit, age, inner, prior>>
StoreClosed(c) ==
    /\ checkStep[c] = "close" /\ circuit' = "CLOSED" /\ unwound' = FALSE /\ CheckTo(c, "out")
    /\ UNCHANGED <<failures, age, inner, prior>>

(* ... record_failure: at the threshold already, the circuit opens without  *)
(* counting; a lost exchange reads again.                                   *)
ReadFailures(c) ==
    /\ checkStep[c] = "read" /\ prior' = [prior EXCEPT ![c] = failures]
    /\ CheckTo(c, IF failures >= Threshold THEN "stamp" ELSE "count")
    /\ UNCHANGED <<circuit, failures, age, inner, unwound>>
CountFailure(c) ==
    /\ checkStep[c] = "count"
    /\ IF failures = prior[c]
       THEN failures' = failures + 1 /\ CheckTo(c, IF failures + 1 >= Threshold THEN "stamp" ELSE "out")
       ELSE CheckTo(c, "read") /\ UNCHANGED failures
    /\ UNCHANGED <<circuit, age, inner, prior, unwound>>

(* open_circuit: the time, then the circuit.                                *)
StampOpen(c) ==
    /\ checkStep[c] = "stamp" /\ age' = 0 /\ CheckTo(c, "store")
    /\ UNCHANGED <<circuit, failures, inner, prior, unwound>>
StoreOpen(c) ==
    /\ checkStep[c] = "store" /\ circuit' = "OPEN" /\ unwound' = FALSE /\ CheckTo(c, "out")
    /\ UNCHANGED <<failures, age, inner, prior>>

CooldownTick ==
    /\ age < Cooldown /\ age' = age + 1
    /\ UNCHANGED <<circuit, failures, inner, checkStep, prior, unwound>>
(* The resource recovers, fails or begins to panic.                         *)
ResourceChanges ==
    /\ inner' \in InnerChecks \ {inner}
    /\ UNCHANGED <<circuit, failures, age, checkStep, prior, unwound>>

CheckProgress ==
    \E c \in Checkers :
        \/ HealthCheck(c) \/ CheckCooldown(c) \/ AdmitProbe(c) \/ ProbeClosed(c) \/ ProbeHalfOpen(c)
        \/ StoreClosed(c) \/ ReadFailures(c) \/ CountFailure(c) \/ StampOpen(c) \/ StoreOpen(c)
BreakerNext == CooldownTick \/ ResourceChanges \/ CheckProgress
BreakerSpec == BreakerInit /\ [][BreakerNext]_breakerVars
(* Health checks are called again and again, and time passes.               *)
FairBreakerSpec ==
    BreakerSpec /\ WF_breakerVars(CooldownTick) /\ WF_breakerVars(CheckProgress)
-----------------------------------------------------------------------------
(* An open or half-open circuit carries the time it opened, so a cooldown   *)
(* can expire whichever store of a racing check comes last; the failure     *)
(* count never passes the threshold it is compared with; and a half-open    *)
(* circuit has a check on its way to close or reopen it, unless the probe   *)
(* of one panicked (circuit_breaker.rs): no interleaving of the three       *)
(* atomics alone leaves it undecided.                                       *)
BreakerSound ==
    /\ failures \in 0..Threshold /\ age \in 0..NoTimestamp
    /\ circuit # "CLOSED" => age # NoTimestamp
    /\ (\E c \in Checkers : checkStep[c] = "store") => age # NoTimestamp
    /\ circuit = "HALF_OPEN" =>
         unwound \/ \E c \in Checkers : checkStep[c] \in {"half open", "close", "stamp", "store"}

(* A resource that stays healthy is trusted again: the circuit closes       *)
(* after the cooldown, whatever checks were in flight when it healed and    *)
(* although a panicking probe may have left it half open.                   *)
BreakerRests == inner = "ok" => circuit = "CLOSED"
BreakerRecovers == []<>BreakerRests
=============================================================================
