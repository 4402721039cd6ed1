-------------------------- MODULE RuntimeLifecycle --------------------------
(***************************************************************************)
(* One RuntimeBuilder::run from the readiness pass to its result, and the  *)
(* resource callbacks it coordinates.                                      *)
(*                                                                         *)
(* crates/camber/src/runtime.rs (run_inner_impl, account_for_teardown,     *)
(* finish_runtime), resource_lifecycle.rs, resource_lifecycle/worker.rs,   *)
(* resource/entry.rs.                                                      *)
(*                                                                         *)
(* Resources are numbered in registration order.  The driver runs the      *)
(* startup pass forwards and the shutdown pass backwards; the health       *)
(* coordinator is one root-scope child.  Each callback runs on a worker    *)
(* thread that owns the resource's claim and may never return.  The drain  *)
(* is TaskScope's, reduced to what it means for the coordinator.           *)
(***************************************************************************)
EXTENDS Naturals

CONSTANT N      \* the number of registered resources

ASSUME NAssumption == N \in Nat

Res == 1 .. N
Phases == {"startup", "periodic", "shutdown"}
Coordinators == {"driver", "health"}

\* CallbackOutcome: None is "ok"; Returned and Panicked are "failed".
Outcomes == {"ok", "failed", "lost", "deadline", "blocked"}

\* The teardown participants other than the resources, as one log entry.
RootScope == 0

VARIABLES
    pc,         \* where the driver's thread stands
    scoped,     \* what run_scoped produced
    signals,    \* ScopeClosing or ShutdownSignal has fired
    forced,     \* the drain went through the forced stop
    health,     \* the health coordinator's task
    gate,       \* resources whose CallbackGate is active
    workers,    \* callback workers that have not delivered yet
    cursor,     \* the resource each coordinator is visiting
    wait,       \* each coordinator's wait for its worker
    published,  \* ResourceEntry::published
    startLog,   \* resources the startup aggregate names
    log,        \* what the teardown aggregate names
    stopped,    \* resources whose shutdown callback returned Ok
    served,     \* the user closure was called
    result      \* what run() answered with

vars == <<pc, scoped, signals, forced, health, gate, workers, cursor, wait, published,
          startLog, log, stopped, served, result>>

\* A worker thread: its resource and phase, who still waits for it, how far it
\* has come, and what the callback returned.
Workers ==
    [res : Res, phase : Phases, for : Coordinators \cup {"nobody"},
     at : {"calling", "returned", "released"}, out : {"none", "ok", "failed"}]

TypeOK ==
    /\ pc \in {"startup", "serving", "closing", "draining", "shutdown", "executor", "returned"}
    /\ scoped \in {"none", "value", "refused", "unwound"}
    /\ signals \in BOOLEAN /\ forced \in BOOLEAN /\ served \in BOOLEAN
    /\ health \in {"absent", "sleeping", "polling", "waiting", "resumed", "done"}
    /\ gate \subseteq Res
    /\ workers \subseteq Workers
    /\ cursor \in [Coordinators -> 0 .. N + 1]
    /\ wait \in [Coordinators -> Outcomes \cup {"no", "running"}]
    /\ published \in [Res -> Outcomes]
    /\ startLog \subseteq Res /\ log \subseteq Res \cup {RootScope} /\ stopped \subseteq Res
    /\ result \in {"none", "Ok", "Teardown", "Refusal", "Unwind"}

Init ==
    /\ pc = "startup" /\ scoped = "none"
    /\ signals = FALSE /\ forced = FALSE /\ served = FALSE
    /\ health = "absent"
    /\ gate = {} /\ workers = {}
    /\ cursor = [c \in Coordinators |-> 1]
    /\ wait = [c \in Coordinators |-> "no"]
    /\ published = [r \in Res |-> "ok"]
    /\ startLog = {} /\ log = {} /\ stopped = {}
    /\ result = "none"

driverVars == <<pc, scoped, forced, startLog, log, served, result>>

-----------------------------------------------------------------------------
(* Callbacks: the gate, the worker and the coordinator's bounded wait.     *)

\* try_claim or claim_within, then admit_worker: the worker owns the claim.
Claim(c, r, ph) ==
    /\ r \notin gate
    /\ gate' = gate \cup {r}
    /\ workers' = workers \cup
         {[res |-> r, phase |-> ph, for |-> c, at |-> "calling", out |-> "none"]}
    /\ wait' = [wait EXCEPT ![c] = "running"]

\* No worker was available: the claim is dropped on the way out.
LoseWorker(c, r) ==
    /\ r \notin gate
    /\ wait' = [wait EXCEPT ![c] = "lost"]
    /\ UNCHANGED <<gate, workers>>

\* The slot is held by an earlier callback: read at once by try_claim, at the
\* limit by claim_within.
Blocked(c, r) ==
    /\ r \in gate
    /\ wait' = [wait EXCEPT ![c] = "blocked"]
    /\ UNCHANGED <<gate, workers>>

\* invoke(): the callback returned or unwound.
CallbackReturns(w, out) ==
    /\ w.at = "calling"
    /\ workers' = (workers \ {w}) \cup {[w EXCEPT !.at = "returned", !.out = out]}
    /\ stopped' = IF w.phase = "shutdown" /\ out = "ok" THEN stopped \cup {w.res} ELSE stopped
    /\ UNCHANGED <<driverVars, signals, health, gate, cursor, wait, published>>

\* drop(claim) precedes the delivery; an abandoned worker has nobody to deliver
\* to and is done.
ReleaseClaim(w) ==
    /\ w.at = "returned"
    /\ gate' = gate \ {w.res}
    /\ workers' = (workers \ {w}) \cup
         (IF w.for = "nobody" THEN {} ELSE {[w EXCEPT !.at = "released"]})
    /\ UNCHANGED <<driverVars, signals, health, cursor, wait, published, stopped>>

\* Mutant: the result is sent while the claim is still held.
DeliverEarly(w) ==
    /\ w.at \in {"returned", "released"}
    /\ wait' = [c \in Coordinators |-> IF w.for = c THEN w.out ELSE wait[c]]
    /\ workers' = IF w.at = "released" THEN workers \ {w}
                   ELSE (workers \ {w}) \cup {[w EXCEPT !.for = "nobody"]}
    /\ UNCHANGED <<driverVars, signals, health, gate, cursor, published, stopped>>

\* deliver(outcome) to the coordinator that waits.
Deliver(w) ==
    /\ w.at = "released"
    /\ wait' = [c \in Coordinators |-> IF w.for = c THEN w.out ELSE wait[c]]
    /\ workers' = workers \ {w}
    /\ UNCHANGED <<driverVars, signals, health, gate, cursor, published, stopped>>

\* The coordinator drops its end; the worker keeps the resource.
Abandon(c) ==
    {IF w.for = c THEN [w EXCEPT !.for = "nobody"] ELSE w :
        w \in {v \in workers : v.for = c => v.at # "released"}}

\* The phase limit, or what the aggregate shutdown left, ran out first.
Expire(c) ==
    /\ wait[c] = "running"
    /\ wait' = [wait EXCEPT ![c] = "deadline"]
    /\ workers' = Abandon(c)
    /\ UNCHANGED <<driverVars, signals, health, gate, cursor, published, stopped>>

-----------------------------------------------------------------------------
(* The driver.                                                             *)

\* Mutant: claim_within waits for the slot without a limit.
VisitUnbounded ==
    LET r == cursor["driver"] IN
    /\ pc \in {"startup", "shutdown"}
    /\ r \in Res /\ wait["driver"] = "no"
    /\ Claim("driver", r, pc) \/ LoseWorker("driver", r)
    /\ UNCHANGED <<driverVars, signals, health, cursor, published, stopped>>

\* Enter the driver's current resource for the pass it is in.
Visit ==
    LET r == cursor["driver"] IN
    /\ pc \in {"startup", "shutdown"}
    /\ r \in Res /\ wait["driver"] = "no"
    /\ Claim("driver", r, pc) \/ LoseWorker("driver", r) \/ Blocked("driver", r)
    /\ UNCHANGED <<driverVars, signals, health, cursor, published, stopped>>

\* Mutant: an expired shutdown is published but not logged.
RecordUnlessLate ==
    LET r == cursor["driver"]
        out == wait["driver"]
    IN  /\ out \in Outcomes
        /\ published' = [published EXCEPT ![r] = out]
        /\ startLog' = IF pc = "startup" /\ out # "ok" THEN startLog \cup {r} ELSE startLog
        /\ log' = IF pc = "shutdown" /\ out \notin {"ok", "deadline"} THEN log \cup {r} ELSE log
        /\ cursor' = [cursor EXCEPT !["driver"] = IF pc = "startup" THEN r + 1 ELSE r - 1]
        /\ wait' = [wait EXCEPT !["driver"] = "no"]
        /\ UNCHANGED <<pc, scoped, signals, forced, health, gate, workers, stopped, served, result>>

\* record(): publish the outcome, log a failure, go on to the next resource.
Record ==
    LET r == cursor["driver"]
        out == wait["driver"]
    IN  /\ out \in Outcomes
        /\ published' = [published EXCEPT ![r] = out]
        /\ startLog' = IF pc = "startup" /\ out # "ok" THEN startLog \cup {r} ELSE startLog
        /\ log' = IF pc = "shutdown" /\ out # "ok" THEN log \cup {r} ELSE log
        /\ cursor' = [cursor EXCEPT !["driver"] = IF pc = "startup" THEN r + 1 ELSE r - 1]
        /\ wait' = [wait EXCEPT !["driver"] = "no"]
        /\ UNCHANGED <<pc, scoped, signals, forced, health, gate, workers, stopped, served, result>>

startupFrame == <<signals, forced, gate, workers, cursor, wait, published, startLog, log,
                  stopped, result>>

\* start_dns01 failed before the readiness pass.
Dns01Refuses ==
    /\ pc = "startup" /\ cursor["driver"] = 1 /\ wait["driver"] = "no"
    /\ pc' = "closing" /\ scoped' = "refused"
    /\ UNCHANGED <<startupFrame, health, served>>

\* The readiness pass is over: refuse, or admit the health coordinator - which
\* a root scope already closed turns away - and call the closure.
StartupEnds ==
    /\ pc = "startup" /\ cursor["driver"] = N + 1
    /\ IF startLog # {}
         THEN /\ pc' = "closing" /\ scoped' = "refused"
              /\ UNCHANGED <<served, health>>
         ELSE /\ pc' = "serving" /\ served' = TRUE
              /\ health' = IF N > 0 /\ ~signals THEN "sleeping" ELSE "absent"
              /\ UNCHANGED scoped
    /\ UNCHANGED startupFrame

\* The closure returns or unwinds; run_scoped catches the unwind.
ClosureEnds ==
    /\ pc = "serving"
    /\ pc' = "closing"
    /\ scoped' \in {"value", "unwound"}
    /\ UNCHANGED <<startupFrame, health, served>>

\* request_shutdown, from any thread.
RequestShutdown ==
    /\ ~signals
    /\ signals' = TRUE
    /\ UNCHANGED <<driverVars, health, gate, workers, cursor, wait, published, stopped>>

\* close_and_drain: ScopeClosing fires before the wait.
CloseScope ==
    /\ pc = "closing"
    /\ signals' = TRUE
    /\ pc' = "draining"
    /\ UNCHANGED <<scoped, forced, health, gate, workers, cursor, wait, published, startLog,
                   log, stopped, served, result>>

drainFrame == <<scoped, signals, health, gate, workers, wait, published, startLog, stopped,
                served, result>>

\* Mutant: resources are shut down without waiting for the root scope.
DrainSkipped ==
    /\ pc = "draining"
    /\ pc' = "shutdown"
    /\ cursor' = [cursor EXCEPT !["driver"] = N]
    /\ UNCHANGED <<drainFrame, forced, log>>

\* The drain ends: the coordinator, or another child, is outstanding and is
\* forced; or everyone left, perhaps with a panic or an integration failure to
\* report.  The teardown pass starts at the last registered resource.
DrainEnds ==
    /\ pc = "draining"
    /\ \E others, faults \in BOOLEAN :
          /\ forced' = (others \/ health \notin {"absent", "done"})
          /\ log' = IF forced' \/ faults THEN {RootScope} ELSE {}
    /\ pc' = "shutdown"
    /\ cursor' = [cursor EXCEPT !["driver"] = N]
    /\ UNCHANGED drainFrame

\* Every resource has been disposed of.
ShutdownEnds ==
    /\ pc = "shutdown" /\ cursor["driver"] = 0
    /\ pc' = "executor"
    /\ UNCHANGED <<drainFrame, cursor, forced, log>>

finishFrame == <<scoped, signals, forced, health, gate, workers, cursor, wait, published,
                 startLog, log, stopped, served>>

\* Mutant: the closure's value outranks the teardown's failures.
FinishValueFirst ==
    /\ pc = "executor"
    /\ pc' = "returned"
    /\ result' = CASE scoped = "unwound" -> "Unwind"
                   [] scoped = "refused" -> "Refusal"
                   [] OTHER              -> "Ok"
    /\ UNCHANGED finishFrame

\* finish_runtime: an unwind outranks a refusal, a refusal what teardown found,
\* and that the closure's value.
Finish ==
    /\ pc = "executor"
    /\ pc' = "returned"
    /\ result' = IF scoped = "unwound" THEN "Unwind"
                 ELSE IF scoped = "refused" THEN "Refusal"
                 ELSE IF log # {} THEN "Teardown" ELSE "Ok"
    /\ UNCHANGED finishFrame

-----------------------------------------------------------------------------
(* The health coordinator.  "polling" is inside a poll, between two await  *)
(* points; "waiting" is suspended in run_callback and "resumed" has been   *)
(* polled again with the outcome ready.  A task the forced stop aborted    *)
(* finishes the poll it is in and is dropped at its next await point.      *)

\* tick(): the interval passes, unless a signal has fired.
Tick ==
    /\ health = "sleeping" /\ ~forced
    /\ IF signals
         THEN health' = "done" /\ UNCHANGED cursor
         ELSE health' = "polling" /\ cursor' = [cursor EXCEPT !["health"] = 1]
    /\ UNCHANGED <<driverVars, signals, gate, workers, wait, published, stopped>>

\* publish() and the next resource of the pass.
PublishNext(out) ==
    /\ published' = [published EXCEPT ![cursor["health"]] = out]
    /\ cursor' = [cursor EXCEPT !["health"] = @ + 1]

\* The pass's next resource: its worker starts and is awaited, or the failure
\* to start one is published within the same poll.
VisitHealth ==
    LET r == cursor["health"] IN
    /\ health = "polling" /\ r \in Res
    /\ \/ /\ Claim("health", r, "periodic")
          /\ health' = "waiting"
          /\ UNCHANGED <<cursor, published>>
       \/ /\ PublishNext(IF r \in gate THEN "blocked" ELSE "lost")
          /\ UNCHANGED <<health, gate, workers, wait>>
    /\ UNCHANGED <<driverVars, signals, stopped>>

\* The pass is over: back to tick().
PassEnds ==
    /\ health = "polling" /\ cursor["health"] = N + 1
    /\ health' = "sleeping"
    /\ UNCHANGED <<driverVars, signals, gate, workers, cursor, wait, published, stopped>>

\* run_callback's wait is over and the task is polled again.
ResumeHealth ==
    /\ health = "waiting" /\ wait["health"] \in Outcomes /\ ~forced
    /\ health' = "resumed"
    /\ UNCHANGED <<driverVars, signals, gate, workers, cursor, wait, published, stopped>>

\* guard(): the outcome won the select.
PublishHealth ==
    /\ health = "resumed"
    /\ PublishNext(wait["health"])
    /\ wait' = [wait EXCEPT !["health"] = "no"]
    /\ health' = "polling"
    /\ UNCHANGED <<driverVars, signals, gate, workers, stopped>>

\* guard(): a signal won the select and the probe is left to its worker; or the
\* forced stop dropped the task where it was suspended.
StopHealth ==
    /\ \/ signals /\ health \in {"polling", "waiting", "resumed"}
       \/ forced /\ health \in {"sleeping", "waiting"}
    /\ health' = "done"
    /\ wait' = [wait EXCEPT !["health"] = "no"]
    /\ workers' = Abandon("health")
    /\ UNCHANGED <<driverVars, signals, gate, cursor, published, stopped>>

-----------------------------------------------------------------------------

DriverStep ==
    \/ Visit \/ Record \/ StartupEnds \/ CloseScope \/ DrainEnds \/ ShutdownEnds \/ Finish
    \/ Expire("driver")

HealthStep ==
    \/ Tick \/ VisitHealth \/ PassEnds \/ ResumeHealth \/ PublishHealth \/ StopHealth
    \/ Expire("health")

WorkerStep ==
    \E w \in workers :
        \/ \E out \in {"ok", "failed"} : CallbackReturns(w, out)
        \/ ReleaseClaim(w)
        \/ Deliver(w)

Next == DriverStep \/ HealthStep \/ WorkerStep \/ Dns01Refuses \/ ClosureEnds \/ RequestShutdown

Spec == Init /\ [][Next]_vars

(* The driver's thread runs on and its bounded waits expire.  Callbacks,   *)
(* the closure and the health coordinator owe nothing.                     *)
FairSpec == Spec /\ WF_vars(DriverStep)

-----------------------------------------------------------------------------
(* Properties.                                                             *)

InCallback == {w \in workers : w.at = "calling"}

\* A resource is never entered twice at once: shutdown() does not run beside a
\* probe that never returned (CallbackGate, claim_within).
OneCallbackPerResource ==
    \A v, w \in InCallback : v.res = w.res => v = w

\* A claim is held exactly while its worker is short of releasing it, so neither
\* a failed spawn nor an abandoned wait leaves a resource claimed for ever.
GateExact == gate = {w.res : w \in {v \in workers : v.at # "released"}}

\* A coordinator that has read an outcome never finds the callback it came from
\* in its way (run_worker releases the claim before it delivers).
OwnCallbackGone ==
    \A c \in Coordinators, w \in workers :
        (wait[c] \in {"ok", "failed"} /\ w.res = cursor[c]) =>
            w.phase # IF c = "health" THEN "periodic" ELSE pc

\* Claims and callbacks agree: one callback per resource at a time, no claim
\* without a worker that will release it, none in its own coordinator's way.
ClaimsExact == OneCallbackPerResource /\ GateExact /\ OwnCallbackGone

\* run() answers Ok only for a runtime that served and came down whole: every
\* resource's shutdown callback had returned Ok and was not merely abandoned.
OkMeansStopped == result = "Ok" => served /\ stopped = Res /\ ~forced

\* Every resource is accounted for by teardown: its shutdown returned Ok or the
\* log names it, whatever its probes left behind and whenever they return.
TeardownAccounts ==
    pc \in {"executor", "returned"} => Res \subseteq stopped \cup log

\* A drain that completed keeps the health coordinator out of teardown: once the
\* shutdown pass has started no probe begins, and no probe result that arrives
\* late overwrites the health that pass has published.
TeardownUndisturbed ==
    [][(pc \in {"shutdown", "executor", "returned"} /\ ~forced) =>
          /\ \A w \in InCallback' : w.phase = "periodic" => w \in workers
          /\ \A r \in Res : r > cursor["driver"] => published'[r] = published[r]]_vars

\* The runtime comes down although callbacks never return.
TeardownEnds == []<>(pc \in {"startup", "serving", "returned"})

\* RuntimeBuilder::resource: a resource may depend on anything registered before
\* it still being up while it shuts down.
DependenciesUp ==
    \A v \in InCallback : v.phase = "shutdown" =>
        /\ \A w \in InCallback : w.phase = "shutdown" => w.res >= v.res
        /\ \A d \in Res : d < v.res => d \notin stopped

=============================================================================
