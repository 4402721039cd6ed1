----------------------------- MODULE TaskScope -----------------------------
(***************************************************************************)
(* The runtime's root task scope: admission, the joinable-handle registry, *)
(* closing, the bounded drain and the forced stop.                         *)
(*                                                                         *)
(* crates/camber/src/runtime_state.rs (RuntimeInner::admit_async,          *)
(* TaskScope, ScopeSlot, gated_child, drain_root_scope) with the callers   *)
(* in runtime.rs (close_and_drain, account_for_teardown, stop_executor).   *)
(*                                                                         *)
(* Every critical section under ScopeState's mutex is one action.  What    *)
(* happens between two of them - a spawn, a latch, an abort - is an action *)
(* of its own, so admitters, children, closers and the drain interleave    *)
(* exactly where the code lets them.  Each member of Kids is one call of   *)
(* spawn / spawn_async / admit_internal_async by some thread.              *)
(***************************************************************************)
EXTENDS Naturals, FiniteSets

CONSTANTS
    AsyncKids,      \* children admitted through admit_async
    BlockingKids,   \* children admitted through admit_blocking
    Internal,       \* async children Camber owns: no user handle carries a panic
    Requesters,     \* threads that call request_shutdown
    Driver          \* the thread inside RuntimeBuilder::run

Kids == AsyncKids \cup BlockingKids
Closers == Requesters \cup {Driver}

ASSUME KidsAssumption ==
    /\ IsFiniteSet(Kids)
    /\ AsyncKids \cap BlockingKids = {}
    /\ Internal \subseteq AsyncKids

ASSUME DriverAssumption == Driver \notin Requesters

VARIABLES
    admission,      \* Admission: "Open", "Closing" or "Closed"
    count,          \* ScopeState::count
    entry,          \* async_children: "none", "seeded" (None) or "handle" (Some)
    blocking,       \* blocking_children
    stopped,        \* TaskScope::stopped
    minted,         \* the aggregate deadline has been fixed
    closing,        \* the ScopeClosing latch
    shutdown,       \* the shutdown latch
    slots,          \* children whose ScopeSlot has not been dropped
    admit,          \* where each admitting call stands
    task,           \* where each child's task stands on the executor
    aborted,        \* children whose JoinHandle::abort was called
    gate,           \* children whose start gate was notified
    bodies,         \* children whose body has been polled
    panicked,       \* internal children whose body unwound
    slotPanic,      \* internal_panic holds a report
    closer,         \* where each closing thread stands
    swept,          \* handles force_stop took out of the registry
    joined,         \* handles force_stop joined within its grace
    outstanding,    \* what wait_timeout returned
    panicReported,  \* account_for_teardown found a panic in the slot
    executorUp      \* the Tokio runtime has not been shut down

scopeState == <<admission, count, entry, blocking, slots>>
latches == <<minted, closing, shutdown>>
bodyVars == <<bodies, panicked, slotPanic>>
drainVars == <<stopped, swept, joined, outstanding, panicReported, executorUp>>
vars == <<scopeState, latches, bodyVars, drainVars, admit, task, aborted, gate, closer>>

AdmitPC == {"idle", "counted", "spawned", "unowned", "registered", "admitted", "refused"}
TaskState == {"none", "queued", "gated", "polling", "parked", "unwound", "gone"}
CloserPC == {"idle", "minted", "closed", "signalled", "done",
             "sweeping", "aborting", "joining", "drained", "accounted", "stopped"}

TypeOK ==
    /\ admission \in {"Open", "Closing", "Closed"}
    /\ count \in Nat
    /\ entry \in [AsyncKids -> {"none", "seeded", "handle"}]
    /\ blocking \subseteq BlockingKids
    /\ slots \subseteq Kids
    /\ stopped \in BOOLEAN /\ minted \in BOOLEAN /\ closing \in BOOLEAN /\ shutdown \in BOOLEAN
    /\ slotPanic \in BOOLEAN /\ panicReported \in BOOLEAN /\ executorUp \in BOOLEAN
    /\ admit \in [Kids -> AdmitPC]
    /\ task \in [Kids -> TaskState]
    /\ aborted \subseteq AsyncKids
    /\ gate \subseteq AsyncKids
    /\ bodies \subseteq Kids
    /\ panicked \subseteq Internal
    /\ closer \in [Closers -> CloserPC]
    /\ swept \subseteq AsyncKids
    /\ joined \subseteq AsyncKids
    /\ outstanding \in Nat

Init ==
    /\ admission = "Open"
    /\ count = 0
    /\ entry = [c \in AsyncKids |-> "none"]
    /\ blocking = {}
    /\ slots = {}
    /\ stopped = FALSE /\ minted = FALSE /\ closing = FALSE /\ shutdown = FALSE
    /\ slotPanic = FALSE /\ panicReported = FALSE /\ executorUp = TRUE
    /\ admit = [c \in Kids |-> "idle"]
    /\ task = [c \in Kids |-> "none"]
    /\ aborted = {} /\ gate = {} /\ bodies = {} /\ panicked = {}
    /\ closer = [k \in Closers |-> "idle"]
    /\ swept = {} /\ joined = {}
    /\ outstanding = 0

-----------------------------------------------------------------------------
(* Admission.                                                              *)

OnDrained(a) == IF a = "Open" THEN "Open" ELSE "Closed"

\* Mutant: closing an idle scope does not settle it.
OnCloseIdleStaysOpen(a, n) == IF a = "Open" /\ n > 0 THEN "Closing" ELSE a

OnClose(a, n) ==
    IF a # "Open" THEN a ELSE IF n = 0 THEN "Closed" ELSE "Closing"

\* TaskScope::admit with ScopeState::count_child.
Admit(c) ==
    /\ admit[c] = "idle"
    /\ admission = "Open"
    /\ count' = count + 1
    /\ IF c \in AsyncKids
         THEN /\ entry' = [entry EXCEPT ![c] = "seeded"]
              /\ UNCHANGED blocking
         ELSE /\ blocking' = blocking \cup {c}
              /\ UNCHANGED entry
    /\ slots' = slots \cup {c}
    /\ admit' = [admit EXCEPT ![c] = "counted"]
    /\ UNCHANGED <<admission, latches, bodyVars, drainVars, task, aborted, gate, closer>>

\* The same call once admission has closed: ScopeClosed, and nothing was built.
Refuse(c) ==
    /\ admit[c] = "idle"
    /\ admission # "Open"
    /\ admit' = [admit EXCEPT ![c] = "refused"]
    /\ UNCHANGED <<scopeState, latches, bodyVars, drainVars, task, aborted, gate, closer>>

\* Mutant: the count is lowered only when the registry still had the child.
FinishIfRegistered(c) ==
    /\ slots' = slots \ {c}
    /\ IF c \in AsyncKids
         THEN /\ entry' = [entry EXCEPT ![c] = "none"]
              /\ count' = IF entry[c] = "none" THEN count ELSE count - 1
              /\ UNCHANGED blocking
         ELSE /\ blocking' = blocking \ {c}
              /\ count' = count - 1
              /\ UNCHANGED entry
    /\ admission' = IF count = 1 THEN OnDrained(admission) ELSE admission

\* TaskScope::finish, run by ScopeSlot::drop on every way a child can end.
Finish(c) ==
    /\ slots' = slots \ {c}
    /\ IF c \in AsyncKids
         THEN /\ entry' = [entry EXCEPT ![c] = "none"]
              /\ UNCHANGED blocking
         ELSE /\ blocking' = blocking \ {c}
              /\ UNCHANGED entry
    /\ count' = IF count = 0 THEN 0 ELSE count - 1
    /\ admission' = IF count = 1 THEN OnDrained(admission) ELSE admission

\* executor.spawn (admit_async) or executor.spawn_blocking
\* (launch_on_admitting_executor).  A runtime that has been shut down drops the
\* future or closure at once, and the slot inside it with it.
Spawn(c) ==
    /\ admit[c] = "counted"
    /\ admit' = [admit EXCEPT ![c] = IF c \in AsyncKids THEN "spawned" ELSE "admitted"]
    /\ IF executorUp
         THEN /\ task' = [task EXCEPT ![c] = IF c \in AsyncKids THEN "gated" ELSE "queued"]
              /\ UNCHANGED scopeState
         ELSE /\ task' = [task EXCEPT ![c] = "gone"]
              /\ Finish(c)
    /\ UNCHANGED <<latches, bodyVars, drainVars, aborted, gate, closer>>

\* Mutant: registration inserts the handle whether or not the entry survived.
RegisterAlways(c) ==
    /\ admit[c] = "spawned"
    /\ admit' = [admit EXCEPT ![c] = "registered"]
    /\ entry' = [entry EXCEPT ![c] = "handle"]
    /\ UNCHANGED <<admission, count, blocking, slots, latches, bodyVars, drainVars,
                   task, aborted, gate, closer>>

\* TaskScope::register_async: fill the seeded entry, or hand the handle back.
Register(c) ==
    /\ admit[c] = "spawned"
    /\ IF stopped \/ entry[c] = "none"
         THEN /\ admit' = [admit EXCEPT ![c] = "unowned"]
              /\ UNCHANGED entry
         ELSE /\ admit' = [admit EXCEPT ![c] = "registered"]
              /\ entry' = [entry EXCEPT ![c] = "handle"]
    /\ UNCHANGED <<admission, count, blocking, slots, latches, bodyVars, drainVars,
                   task, aborted, gate, closer>>

\* admit_async aborts a handle the scope did not keep and reports ScopeClosed.
AbortUnowned(c) ==
    /\ admit[c] = "unowned"
    /\ aborted' = aborted \cup {c}
    /\ admit' = [admit EXCEPT ![c] = "refused"]
    /\ UNCHANGED <<scopeState, latches, bodyVars, drainVars, task, gate, closer>>

\* gate.notify_one() stores a permit, so it is not lost if the child has not
\* been polled yet.
OpenGate(c) ==
    /\ admit[c] = "registered"
    /\ gate' = gate \cup {c}
    /\ admit' = [admit EXCEPT ![c] = "admitted"]
    /\ UNCHANGED <<scopeState, latches, bodyVars, drainVars, task, aborted, closer>>

-----------------------------------------------------------------------------
(* Children on the executor.  An async child is "gated" before its body,   *)
(* "polling" while a worker runs it, "parked" at an await point.  A        *)
(* blocking child is "queued", then "polling" until it returns.            *)

taskOnly == <<scopeState, latches, drainVars, admit, aborted, gate, closer>>

\* Mutant: no start gate.
PollUngated(c) ==
    /\ task[c] \in {"queued", "gated", "parked"} /\ c \notin aborted
    /\ task' = [task EXCEPT ![c] = "polling"]
    /\ bodies' = bodies \cup {c}
    /\ UNCHANGED <<taskOnly, panicked, slotPanic>>

\* The worker begins or continues the body.  An aborted task is never polled
\* again; a gated one also needs its gate.
Poll(c) ==
    /\ \/ task[c] = "queued"
       \/ task[c] = "gated" /\ c \in gate /\ c \notin aborted
       \/ task[c] = "parked" /\ c \notin aborted
    /\ task' = [task EXCEPT ![c] = "polling"]
    /\ bodies' = bodies \cup {c}
    /\ UNCHANGED <<taskOnly, panicked, slotPanic>>

Park(c) ==
    /\ task[c] = "polling" /\ c \in AsyncKids
    /\ task' = [task EXCEPT ![c] = "parked"]
    /\ UNCHANGED <<taskOnly, bodyVars>>

\* Mutant: the child was admitted without capture_child_panic.
LosePanic(c) ==
    /\ task[c] = "polling" /\ c \in Internal
    /\ task' = [task EXCEPT ![c] = "unwound"]
    /\ panicked' = panicked \cup {c}
    /\ UNCHANGED <<taskOnly, bodies, slotPanic>>

\* capture_child_panic: the report is stored, first one kept, before the slot
\* is dropped.
RecordPanic(c) ==
    /\ task[c] = "polling" /\ c \in Internal
    /\ task' = [task EXCEPT ![c] = "unwound"]
    /\ panicked' = panicked \cup {c}
    /\ slotPanic' = TRUE
    /\ UNCHANGED <<taskOnly, bodies>>

\* The body returned, or its unwind was delivered elsewhere: drop(slot).
Return(c) ==
    /\ task[c] \in {"polling", "unwound"}
    /\ task' = [task EXCEPT ![c] = "gone"]
    /\ Finish(c)
    /\ UNCHANGED <<latches, bodyVars, drainVars, admit, aborted, gate, closer>>

\* The executor drops an aborted task at its await point, and on shutdown
\* everything it has not started or is not polling.
Drop(c) ==
    /\ \/ task[c] \in {"gated", "parked"} /\ (c \in aborted \/ ~executorUp)
       \/ task[c] = "queued" /\ ~executorUp
    /\ task' = [task EXCEPT ![c] = "gone"]
    /\ Finish(c)
    /\ UNCHANGED <<latches, bodyVars, drainVars, admit, aborted, gate, closer>>

-----------------------------------------------------------------------------
(* Closing: RuntimeInner::request_shutdown on any thread, and              *)
(* close_and_drain on the driver once the closure has returned.            *)

Goto(k, pc) == closer' = [closer EXCEPT ![k] = pc]

closeOnly == <<bodyVars, drainVars, admit, task, aborted, gate>>

Mint(k) ==
    /\ closer[k] = "idle"
    /\ minted' = TRUE
    /\ Goto(k, "minted")
    /\ UNCHANGED <<scopeState, closing, shutdown, closeOnly>>

\* TaskScope::close, the transition under the guard.
Close(k) ==
    /\ closer[k] = "minted"
    /\ admission' = OnClose(admission, count)
    /\ Goto(k, "closed")
    /\ UNCHANGED <<count, entry, blocking, slots, latches, closeOnly>>

FireClosing(k) ==
    /\ closer[k] = "closed"
    /\ closing' = TRUE
    /\ Goto(k, "signalled")
    /\ UNCHANGED <<scopeState, minted, shutdown, closeOnly>>

FireShutdown(k) ==
    /\ k \in Requesters
    /\ closer[k] = "signalled"
    /\ shutdown' = TRUE
    /\ Goto(k, "done")
    /\ UNCHANGED <<scopeState, minted, closing, closeOnly>>

-----------------------------------------------------------------------------
(* The driver's drain: drain_root_scope, then the rest of teardown.        *)

drainOnly == <<scopeState, latches, bodyVars, admit, task, gate>>

\* wait_timeout saw a count of zero, in time or at the boundary itself.
DrainComplete ==
    /\ closer[Driver] = "signalled"
    /\ count = 0
    /\ Goto(Driver, "drained")
    /\ UNCHANGED <<drainOnly, drainVars, aborted>>

\* The aggregate expiry passed with children outstanding.
DrainExpire ==
    /\ closer[Driver] = "signalled"
    /\ count > 0
    /\ outstanding' = count
    /\ Goto(Driver, "sweeping")
    /\ UNCHANGED <<drainOnly, stopped, swept, joined, panicReported, executorUp, aborted>>

\* take_async_children: mark the scope stopped and empty the registry.
Sweep ==
    /\ closer[Driver] = "sweeping"
    /\ stopped' = TRUE
    /\ swept' = {c \in AsyncKids : entry[c] = "handle"}
    /\ entry' = [c \in AsyncKids |-> "none"]
    /\ Goto(Driver, "aborting")
    /\ UNCHANGED <<admission, count, blocking, slots, latches, bodyVars, joined, outstanding,
                   panicReported, executorUp, admit, task, aborted, gate>>

ForceAbort(c) ==
    /\ closer[Driver] = "aborting"
    /\ c \in swept
    /\ aborted' = aborted \cup {c}
    /\ UNCHANGED <<drainOnly, drainVars, closer>>

AllAborted ==
    /\ closer[Driver] = "aborting"
    /\ swept \subseteq aborted
    /\ Goto(Driver, "joining")
    /\ UNCHANGED <<drainOnly, drainVars, aborted>>

\* One join resolves: CancelledAndJoined.
Join(c) ==
    /\ closer[Driver] = "joining"
    /\ c \in swept \ joined
    /\ task[c] = "gone"
    /\ joined' = joined \cup {c}
    /\ UNCHANGED <<drainOnly, stopped, swept, outstanding, panicReported, executorUp,
                   aborted, closer>>

\* Mutant: the joins are awaited without a grace.
ForceStopJoinsAll ==
    /\ closer[Driver] = "joining"
    /\ swept = joined
    /\ Goto(Driver, "drained")
    /\ UNCHANGED <<drainOnly, drainVars, aborted>>

\* Every join resolved, or FORCED_JOIN_GRACE expired and the rest are Named.
ForceStopEnds ==
    /\ closer[Driver] = "joining"
    /\ Goto(Driver, "drained")
    /\ UNCHANGED <<drainOnly, drainVars, aborted>>

\* record_internal_panic: take the slot into the teardown log.
TakePanic ==
    /\ closer[Driver] = "drained"
    /\ panicReported' = slotPanic
    /\ slotPanic' = FALSE
    /\ Goto(Driver, "accounted")
    /\ UNCHANGED <<scopeState, latches, bodies, panicked, admit, task, gate, aborted,
                   stopped, swept, joined, outstanding, executorUp>>

StopExecutor ==
    /\ closer[Driver] = "accounted"
    /\ executorUp' = FALSE
    /\ Goto(Driver, "stopped")
    /\ UNCHANGED <<drainOnly, stopped, swept, joined, outstanding, panicReported, aborted>>

-----------------------------------------------------------------------------

AdmitStep(c) ==
    Admit(c) \/ Refuse(c) \/ Spawn(c) \/ Register(c) \/ AbortUnowned(c) \/ OpenGate(c)

TaskStep(c) == Poll(c) \/ Park(c) \/ RecordPanic(c) \/ Return(c) \/ Drop(c)

CloseStep(k) == Mint(k) \/ Close(k) \/ FireClosing(k) \/ FireShutdown(k)

DrainStep ==
    \/ DrainComplete \/ DrainExpire \/ Sweep \/ AllAborted \/ ForceStopEnds
    \/ TakePanic \/ StopExecutor
    \/ \E c \in AsyncKids : ForceAbort(c) \/ Join(c)

Next ==
    \/ \E c \in Kids : AdmitStep(c) \/ TaskStep(c)
    \/ \E k \in Closers : CloseStep(k)
    \/ DrainStep

Spec == Init /\ [][Next]_vars

(* The driver's and the closers' threads run on; so does an admitting      *)
(* call once it holds a slot; the executor drops what it may drop.  A      *)
(* child's body owes nothing: it may poll, park or hang for ever.          *)
AdmitFairly(c) == Spawn(c) \/ Register(c) \/ AbortUnowned(c) \/ OpenGate(c)

Fairness ==
    /\ \A c \in Kids : WF_vars(AdmitFairly(c)) /\ WF_vars(Drop(c))
    /\ \A k \in Closers : WF_vars(Close(k) \/ FireClosing(k) \/ FireShutdown(k))
    /\ WF_vars(DrainStep)

FairSpec == Spec /\ Fairness

-----------------------------------------------------------------------------
(* Properties.                                                             *)

PastDrain == closer[Driver] \in {"drained", "accounted", "stopped"}

\* The count the drain waits on is the number of children whose ScopeSlot is
\* still alive: no exit path - return, panic, abort of an unpolled child,
\* executor shutdown - releases a claim twice or forgets one.
CountExact == count = Cardinality(slots)

\* The admission state tells the drain the truth: "Closed" only when nothing is
\* outstanding, "Closing" only while something is (Admission::on_close and
\* on_drained agree with the count whichever of close and finish comes last).
AdmissionExact ==
    /\ admission = "Closed" => count = 0
    /\ admission = "Closing" => count > 0

\* Before the forced stop the registry holds an entry for exactly the live
\* children; after the sweep it stays empty, so no handle is retained by an
\* owner that will never look again (register_async, take_async_children).
RegistryExact ==
    /\ blocking = slots \cap BlockingKids
    /\ \A c \in AsyncKids : entry[c] # "none" <=> (c \in slots /\ ~stopped)

\* request_shutdown's order: whoever sees the shutdown latch is refused
\* admission, and whoever the closing latch wakes finds the deadline minted.
SignalsOrdered ==
    /\ shutdown => closing
    /\ closing => minted /\ admission # "Open"

\* The scope's books agree with each other and with the children that exist,
\* whichever of admission, exit, close and sweep interleave: the count, the
\* admission state, the registry and the order of the two latches.
ScopeConsistent == CountExact /\ AdmissionExact /\ RegistryExact /\ SignalsOrdered

\* An admission reported as ScopeClosed is refused, not merely stopped: its body
\* is never polled, even when the sweep overtook the spawn.
RefusedNeverRuns ==
    \A c \in Kids : admit[c] \in {"unowned", "refused"} => c \notin bodies

\* What the drain reports is final: after one that left nothing outstanding no
\* child holds a claim at any later time, and a child the forced stop settled as
\* CancelledAndJoined never holds one, so neither can still reach a resource.
DrainIsFinal ==
    /\ (PastDrain /\ outstanding = 0) => slots = {}
    /\ joined \cap slots = {}

\* An internal child's panic is never lost by a drain that completed: it was in
\* the slot before the child's claim was released (capture_child_panic), so
\* account_for_teardown finds it.
PanicSurvives ==
    (closer[Driver] \in {"accounted", "stopped"} /\ outstanding = 0 /\ panicked # {})
        => panicReported

\* Once drain_root_scope has returned, no async body is started or resumed: only
\* one that was on a worker throughout may still be running when resource
\* shutdown begins.
NoBodyAfterDrain ==
    [][\A c \in AsyncKids :
         (PastDrain /\ task'[c] = "polling") => task[c] = "polling"]_vars

\* Teardown is bounded even when children never return: the driver gets from
\* the close transition to a stopped executor.
TeardownEnds == []<>(closer[Driver] \in {"idle", "stopped"})

=============================================================================
