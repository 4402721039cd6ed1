----------------------------- MODULE CancelWatch -----------------------------
(* External cancellation of a runtime (runtime_state.rs): on_cancel installs*)
(* a future whose completion requests shutdown. Installing another replaces *)
(* it, and the identity kept under the lock decides which watcher may still *)
(* act. Aborting a task only stops it at its next await.                    *)
EXTENDS Integers, FiniteSets

CONSTANTS Watchers, NoWatcher

VARIABLES current,        \* CancelWatcherState::current
          watchTask,           \* watchTask[w]: the watcher's task
          installing,        \* installing[w]: what its installer has still to do
          displaced,      \* displaced[w]: the watcher w's installation replaced
          requestedBy,      \* watchers that requested the shutdown
          watchPanics,         \* watcher panics recorded in the scope's slot
          watchStop,       \* how far the driver's teardown is with the watchers
          revoked          \* watchers the driver took out of the state

watchVars == <<current, watchTask, installing, displaced, requestedBy, watchPanics, watchStop, revoked>>

WatchInit ==
    /\ current = NoWatcher /\ watchTask = [w \in Watchers |-> "none"]
    /\ installing = [w \in Watchers |-> "none"] /\ displaced = [w \in Watchers |-> NoWatcher]
    /\ requestedBy = {} /\ watchPanics = {} /\ watchStop = "no" /\ revoked = {}

WatchSet(f, w, v) == [f EXCEPT ![w] = v]
(* abort_cancel_watcher: the task stops at its next await, not before.      *)
Aborted(gone) ==
    [v \in Watchers |-> IF v \in gone /\ watchTask[v] \in {"gated", "watching"} THEN "aborting" ELSE watchTask[v]]

(* watch_cancel: spawn gated and replace under the lock; nothing asks how   *)
(* far the teardown is, but a stopped executor drops what it is given ...   *)
Watch(w) ==
    /\ watchTask[w] = "none" /\ current' = w
    /\ watchTask' = WatchSet(watchTask, w, IF watchStop = "stopped" THEN "over" ELSE "gated")
    /\ displaced' = WatchSet(displaced, w, current) /\ installing' = WatchSet(installing, w, "abort")
    /\ UNCHANGED <<requestedBy, watchPanics, watchStop, revoked>>
(* ... then abort the displaced one and open the gate.                      *)
AbortDisplaced(w) ==
    /\ installing[w] = "abort" /\ installing' = WatchSet(installing, w, "open")
    /\ watchTask' = Aborted({displaced[w]})
    /\ UNCHANGED <<current, displaced, requestedBy, watchPanics, watchStop, revoked>>
OpenWatchGate(w) ==
    /\ installing[w] = "open" /\ installing' = WatchSet(installing, w, "none")
    /\ watchTask' = IF watchTask[w] = "gated" THEN WatchSet(watchTask, w, "watching") ELSE watchTask
    /\ UNCHANGED <<current, displaced, requestedBy, watchPanics, watchStop, revoked>>

(* The watched future completes, or panics.                                 *)
Complete(w) ==
    /\ watchTask[w] \in {"watching", "aborting"}
    /\ \E r \in {"complete", "panicking"} : watchTask' = WatchSet(watchTask, w, r)
    /\ UNCHANGED <<current, installing, displaced, requestedBy, watchPanics, watchStop, revoked>>
\* A mutant of RequestIfCurrent: the abort is trusted to have stopped the
\* displaced watcher.
RequestIfRunning(w) ==
    /\ watchTask[w] = "complete" /\ watchTask' = WatchSet(watchTask, w, "over")
    /\ current' = IF current = w THEN NoWatcher ELSE current
    /\ requestedBy' = requestedBy \cup {w}
    /\ UNCHANGED <<installing, displaced, watchPanics, watchStop, revoked>>
(* finish_cancel_watcher: the shutdown is requested under the lock that     *)
(* decided this watcher is still the current one.                           *)
RequestIfCurrent(w) ==
    /\ watchTask[w] = "complete" /\ watchTask' = WatchSet(watchTask, w, "over")
    /\ IF current = w
       THEN current' = NoWatcher /\ requestedBy' = requestedBy \cup {w}
       ELSE UNCHANGED <<current, requestedBy>>
    /\ UNCHANGED <<installing, displaced, watchPanics, watchStop, revoked>>
RecordWatcherPanic(w) ==
    /\ watchTask[w] = "panicking" /\ watchTask' = WatchSet(watchTask, w, "over")
    /\ current' = IF current = w THEN NoWatcher ELSE current
    /\ watchPanics' = watchPanics \cup {w}
    /\ UNCHANGED <<installing, displaced, requestedBy, watchStop, revoked>>
(* An aborted task is dropped at an await; dropping what it holds may panic.*)
DropAborted(w) ==
    /\ watchTask[w] = "aborting"
    /\ \E r \in {"over", "broken"} : watchTask' = WatchSet(watchTask, w, r)
    /\ UNCHANGED <<current, installing, displaced, requestedBy, watchPanics, watchStop, revoked>>

(* take_current_cancel_watcher, then the abort.                             *)
TakeCurrent ==
    /\ current' = NoWatcher /\ revoked' = revoked \cup ({current} \ {NoWatcher})
    /\ watchTask' = Aborted({current})
    /\ UNCHANGED <<installing, displaced, requestedBy, watchPanics>>
(* stop_cancel_watcher: revoke and abort before the resources shut down ... *)
StopWatcher ==
    /\ watchStop = "no" /\ TakeCurrent
    /\ watchStop' = IF current = NoWatcher THEN "done" ELSE "joining"
(* ... and join within the grace. A panic the handle carries is recorded.   *)
JoinEnds ==
    /\ watchStop = "joining" /\ watchStop' = "done"
    /\ watchPanics' = watchPanics \cup {w \in revoked : watchTask[w] = "broken"}
    /\ UNCHANGED <<current, watchTask, installing, displaced, requestedBy, revoked>>
(* teardown_runtime: abort the watcher installed meanwhile, unjoined.       *)
TeardownWatcher == watchStop = "done" /\ watchStop' = "torn" /\ TakeCurrent
(* External: the executor is stopped and drops its tasks as an abort would. *)
ExecutorStops ==
    /\ watchStop = "torn" /\ watchStop' = "stopped" /\ watchTask' = Aborted(Watchers)
    /\ UNCHANGED <<current, installing, displaced, requestedBy, watchPanics, revoked>>

WatchNext ==
    \/ StopWatcher \/ JoinEnds \/ TeardownWatcher \/ ExecutorStops
    \/ \E w \in Watchers :
         \/ Watch(w) \/ AbortDisplaced(w) \/ OpenWatchGate(w) \/ Complete(w)
         \/ RequestIfCurrent(w) \/ RecordWatcherPanic(w) \/ DropAborted(w)
WatchSpec == WatchInit /\ [][WatchNext]_watchVars
-----------------------------------------------------------------------------
(* Only the watcher installed last may stop the runtime: one that another   *)
(* installation displaced, or that the driver's stop or the teardown took,  *)
(* requests nothing although its future completes before the abort reaches  *)
(* it (runtime_state.rs). One installed after the driver's stop is current  *)
(* until the teardown takes it.                                             *)
OnlyCurrentStops ==
    \A w \in requestedBy' \ requestedBy :
        w \notin revoked /\ \A v \in Watchers : displaced[v] # w

(* The current watcher is one whose task may still finish, until the        *)
(* executor is stopped, and neither displaced nor taken; and a watcher that *)
(* is not current has been aborted, or its displacer is about to.           *)
WatchConsistent ==
    /\ current # NoWatcher =>
         /\ current \notin revoked /\ \A v \in Watchers : displaced[v] # current
         /\ watchTask[current] \in {"gated", "watching", "complete", "panicking"} \/ watchStop = "stopped"
    /\ \A w \in Watchers : watchTask[w] \in {"gated", "watching"} =>
         w = current \/ \E v \in Watchers : displaced[v] = w /\ installing[v] = "abort"
    /\ \A w \in requestedBy : watchTask[w] = "over"
=============================================================================
