-------------------------------- MODULE Loops --------------------------------
(* Camber's perpetual loops and the signals that stop them: LatchSignal and *)
(* LifecycleSignals (runtime_state.rs), the interval and cron schedules     *)
(* (schedule.rs), the backend health checker (http/health.rs) and the OS    *)
(* signal watcher (signals.rs). A latch is a flag and a Notify that wakes   *)
(* only the waits registered when it fires; a schedule's trigger is a       *)
(* Notify that stores one permit.                                           *)
EXTENDS Integers, FiniteSets

CONSTANTS Kinds,          \* the loops to run: some of AllKinds
          Period,         \* the interval of a schedule or a health check
          Occurrences,    \* the instants a cron expression names
          LoopTime         \* the clock of the model stops here

AllKinds == {"interval", "cron", "health", "watcher"}
ASSUME LoopsAssumption ==
    /\ Kinds \subseteq AllKinds /\ Period \in Nat \ {0} /\ LoopTime \in Nat
    /\ Occurrences \subseteq Nat

Latches == {"closing", "shutdown"}

VARIABLES kind,           \* which loop this is
          place,             \* where it is
          now, at,        \* the clock, and when the loop is due
          looked,           \* looked[l]: "no", "armed" (Notified enabled) or "looked" (flag read)
          noticed,        \* latches whose notification has reached the wait
          fired,          \* latches whose flag is set
          request,        \* steps the shutdown requester has taken
          halted,      \* ScheduleHandle::cancelled is set
          halting,     \* cancel() has stored the flag but not yet notified
          permit,         \* the trigger Notify holds a permit
          wake,           \* what woke the loop last
          woke,           \* when the loop last woke; Never before the first time
          afterStop,      \* invocations started although a stop was asked for
          arrived         \* the OS signal has arrived (watcher)

loopVars == <<kind, place, now, at, looked, noticed, fired, request, halted, halting,
              permit, wake, woke, afterStop, arrived>>
waitVars == <<looked, noticed>>
stopVars == <<fired, request, halted, halting>>

Never == -1 - Period
Unseen == [l \in Latches |-> "no"]
StopAsked == halted \/ fired # {}

(* The instant a cron loop sleeps to; 0 when the expression is exhausted.   *)
NextOccurrence(t) ==
    IF \E o \in Occurrences : o > t
    THEN CHOOSE o \in Occurrences : o > t /\ \A p \in Occurrences : p > t => o <= p
    ELSE 0

(* Where a loop of kind k starts. reject_exhausted refuses a cron expression*)
(* without a future instant; an interval skips its immediate first tick.    *)
LoopsInit ==
    /\ kind \in Kinds
    /\ kind = "cron" => NextOccurrence(0) # 0
    /\ place = "wait" /\ now = 0
    /\ at = CASE kind = "cron" -> NextOccurrence(0) [] kind = "watcher" -> 0 [] OTHER -> Period
    /\ looked = Unseen /\ noticed = {} /\ fired = {} /\ request = 0
    /\ halted = FALSE /\ halting = FALSE /\ permit = FALSE
    /\ wake = "none" /\ woke = Never /\ afterStop = 0 /\ arrived = FALSE

-----------------------------------------------------------------------------
(* LatchSignal::wait, once per latch inside LifecycleSignals::wait: enable  *)
(* the notification, read the flag, sleep; a notification starts it again.  *)
InWait == place \in {"wait", "guard"}
WaitEnable(l) ==
    /\ InWait /\ looked[l] = "no"
    /\ looked' = [looked EXCEPT ![l] = "armed"] /\ noticed' = noticed \ {l}
    /\ UNCHANGED <<kind, place, now, at, stopVars, permit, wake, woke, afterStop, arrived>>
WaitLook(l) ==
    /\ InWait /\ looked[l] = "armed"
    /\ looked' = [looked EXCEPT ![l] = "looked"]
    /\ place' = IF l \in fired THEN "ended" ELSE place
    /\ UNCHANGED <<kind, now, at, noticed, stopVars, permit, wake, woke, afterStop, arrived>>
WaitAgain(l) ==
    /\ InWait /\ looked[l] = "looked" /\ l \in noticed
    /\ looked' = [looked EXCEPT ![l] = "no"]
    /\ UNCHANGED <<kind, place, now, at, noticed, stopVars, permit, wake, woke, afterStop, arrived>>

(* LatchSignal::fire sets the flag, then wakes the registered waits. The    *)
(* requester is request_shutdown: the scope's latch, then the shutdown's.   *)
Order(l) == IF l = "closing" THEN 0 ELSE 2
FireStore(l) ==
    /\ request = Order(l) /\ request' = request + 1
    /\ fired' = fired \cup {l}
    /\ UNCHANGED <<kind, place, now, at, waitVars, halted, halting, permit, wake, woke,
                   afterStop, arrived>>
FireNotify(l) ==
    /\ request = Order(l) + 1 /\ request' = request + 1
    /\ noticed' = IF looked[l] # "no" THEN noticed \cup {l} ELSE noticed
    /\ UNCHANGED <<kind, place, now, at, looked, fired, halted, halting, permit, wake, woke,
                   afterStop, arrived>>

(* ScheduleHandle::cancel and trigger.                                      *)
Scheduled == kind \in {"interval", "cron"}
CancelSchedule ==
    /\ Scheduled /\ ~halted /\ halted' = TRUE /\ halting' = TRUE
    /\ UNCHANGED <<kind, place, now, at, waitVars, fired, request, permit, wake, woke, afterStop, arrived>>
CancelNotify ==
    /\ halting /\ halting' = FALSE /\ permit' = TRUE
    /\ UNCHANGED <<kind, place, now, at, waitVars, fired, request, halted, wake, woke, afterStop, arrived>>
TriggerSchedule ==
    /\ Scheduled /\ ~permit /\ permit' = TRUE
    /\ UNCHANGED <<kind, place, now, at, waitVars, stopVars, wake, woke, afterStop, arrived>>

(* Time passes; the OS signal arrives.                                      *)
LoopTick ==
    /\ now < LoopTime /\ now' = now + 1
    /\ UNCHANGED <<kind, place, at, waitVars, stopVars, permit, wake, woke, afterStop, arrived>>
Arrive ==
    /\ kind = "watcher" /\ ~arrived /\ arrived' = TRUE
    /\ UNCHANGED <<kind, place, now, at, waitVars, stopVars, permit, wake, woke, afterStop>>

-----------------------------------------------------------------------------
(* next_wake and LifecycleSignals::tick: an unbiased select, so a wake may  *)
(* win over a stop that is ready too; the stop is looked for again after.   *)
WakeWith(w) == place' = "decide" /\ wake' = w /\ woke' = now /\ looked' = Unseen /\ noticed' = {}
WakeDue ==
    /\ place = "wait" /\ kind # "watcher" /\ now >= at
    /\ WakeWith("due")
    /\ at' = IF kind = "interval" THEN now + Period ELSE at
    /\ UNCHANGED <<kind, now, stopVars, permit, afterStop, arrived>>
WakeTriggered ==
    /\ place = "wait" /\ Scheduled /\ permit /\ permit' = FALSE
    /\ WakeWith("triggered")
    /\ UNCHANGED <<kind, now, at, stopVars, afterStop, arrived>>

(* should_stop / tick_until's second look.                                  *)
Decide ==
    /\ place = "decide"
    /\ place' = CASE StopAsked -> "ended"
               [] ~StopAsked /\ kind = "cron" /\ wake = "triggered" -> "resume"
               [] OTHER -> "start"
    /\ UNCHANGED <<kind, now, at, waitVars, stopVars, permit, wake, woke, afterStop, arrived>>

(* The callback starts; a health check's probe races the stop instead.      *)
CallbackStarts ==
    /\ place = "start" /\ place' = IF kind = "health" THEN "guard" ELSE "run"
    /\ afterStop' = IF StopAsked THEN afterStop + 1 ELSE afterStop
    /\ UNCHANGED <<kind, now, at, waitVars, stopVars, permit, wake, woke, arrived>>

(* The callback returns; a triggered run replaces the interval's period.    *)
CallbackEnds ==
    /\ place = "run" /\ place' = "resume"
    /\ at' = IF kind = "interval" /\ wake = "triggered" THEN now + Period ELSE at
    /\ UNCHANGED <<kind, now, waitVars, stopVars, permit, wake, woke, afterStop, arrived>>

(* LifecycleSignals::guard: the probe completes, and its result is kept     *)
(* although a stop may be ready in the same poll.                           *)
Probed ==
    /\ place = "guard" /\ place' = "resume" /\ looked' = Unseen /\ noticed' = {}
    /\ UNCHANGED <<kind, now, at, stopVars, permit, wake, woke, afterStop, arrived>>

(* Back to the wait: cron finds its next instant or stops for good, the     *)
(* health check sleeps a full interval.                                     *)
ResumeLoop ==
    /\ place = "resume"
    /\ place' = IF kind = "cron" /\ NextOccurrence(now) = 0 THEN "ended" ELSE "wait"
    /\ at' = CASE kind = "cron" -> NextOccurrence(now) [] kind = "health" -> now + Period [] OTHER -> at
    /\ UNCHANGED <<kind, now, waitVars, stopVars, permit, wake, woke, afterStop, arrived>>

(* signal_watcher_loop: the OS signal won the guard; it is applied once.    *)
ApplySignal ==
    /\ place = "wait" /\ kind = "watcher" /\ arrived
    /\ place' = "ended" /\ wake' = "applied"
    /\ UNCHANGED <<kind, now, at, waitVars, stopVars, permit, woke, afterStop, arrived>>

-----------------------------------------------------------------------------
LoopProgress ==
    \/ WakeDue \/ WakeTriggered \/ Decide \/ CallbackStarts \/ CallbackEnds \/ ResumeLoop \/ Probed \/ ApplySignal
    \/ \E l \in Latches : WaitEnable(l) \/ WaitLook(l) \/ WaitAgain(l)
RequestProgress == CancelNotify \/ FireStore("shutdown") \/ \E l \in Latches : FireNotify(l)

LoopsNext ==
    \/ LoopProgress \/ RequestProgress
    \/ FireStore("closing") \/ CancelSchedule \/ TriggerSchedule \/ LoopTick \/ Arrive

LoopsSpec == LoopsInit /\ [][LoopsNext]_loopVars
(* The executor polls a woken loop, and callbacks and probes return; a      *)
(* thread inside cancel() or request_shutdown() goes on.                    *)
FairLoopsSpec ==
    LoopsSpec /\ WF_loopVars(LoopProgress) /\ WF_loopVars(RequestProgress)
-----------------------------------------------------------------------------
(* Once a stop is asked for, at most the one invocation whose decision was  *)
(* already made still starts; a due wake comes a full period after the wake *)
(* before it, early triggered runs included; a cron callback runs at        *)
(* no trigger; and the watcher applies a shutdown only for an OS signal.    *)
LoopsDisciplined ==
    /\ kind \in Kinds /\ now \in 0..LoopTime /\ afterStop \in 0..1
    /\ (place = "wait" /\ kind \in {"interval", "health"}) => at >= woke + Period
    /\ (place \in {"start", "run"} /\ kind = "cron") => wake = "due"
    /\ wake = "applied" => arrived

(* A stop is never slept through: whichever latch fires, or flag is         *)
(* cancelled, between a loop's look and its sleep, the loop ends; and a     *)
(* trigger makes an interval schedule run although nothing was due.         *)
LoopsRest ==
    /\ StopAsked => place = "ended"
    /\ (kind = "interval" /\ permit) => place = "ended"
LoopsStop == []<>LoopsRest
=============================================================================
