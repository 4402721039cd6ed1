----------------------------- MODULE TaskHandle -----------------------------
(* A spawned task and the handle its caller holds (task.rs, task/result.rs, *)
(* channel/sync.rs): admission or refusal, the one result that crosses from *)
(* the task to the caller, cancellation of a blocking task (a flag and a    *)
(* token in a channel of one), of an async one (a stored notification) and  *)
(* of a renewal (a stop latch), and the receive in which a blocking task    *)
(* observes its cancellation. The scope's admission is TaskScope.           *)
EXTENDS Integers, FiniteSets

CONSTANTS MaxMessages     \* messages the peer of the task's channel sends

VARIABLES flavour,        \* spawn, spawn_async or spawn_async_stoppable_on
          source,         \* what the caller holds of the handle
          body,           \* where the task's body is
          verdict,        \* what the body came to
          slot,           \* the value in the result channel
          sender,         \* its sender: "held", "sent", "gone" or "woken"
          waker,          \* a waker is registered with the result
          caller,         \* where the caller is
          got,            \* every outcome the caller was given, in order
          cancelCall,      \* how far a cancel() call has come
          cancelFlag,           \* the cancel flag, notification or stop latch
          cancelToken,          \* the cancel channel holds its token
          cancelTx,       \* the handle still owns the cancel channel's sender
          inbox,          \* messages waiting in the task's own channel
          sent,           \* messages its peer has sent
          peerAlive,           \* the peer of that channel is alive
          recv            \* the task's current receive: phase, whether it
                          \* began after a cancel() returned, and its result

cancelVars == <<cancelCall, cancelFlag, cancelToken, cancelTx>>
channelVars == <<inbox, sent, peerAlive, recv>>
handleVars == <<flavour, source, body, verdict, slot, sender, waker, caller, got, cancelCall,
                cancelFlag, cancelToken, cancelTx, inbox, sent, peerAlive, recv>>

Nothing == "none"
Refusal == {"NoRuntime", "ScopeClosed"}
Outcomes == {"ok", "panicked", "Cancelled", "channel closed"} \cup Refusal
Idle == [phase |-> "out", late |-> FALSE, result |-> Nothing]

HandleTypeOK ==
    /\ flavour \in {Nothing, "blocking", "async", "stoppable"}
    /\ source \in {Nothing, "task", "refused", "future", "spent", "released"}
    /\ body \in {Nothing, "queued", "running", "ended", "dropped"}
    /\ verdict \in Outcomes \cup {Nothing} /\ slot \in Outcomes \cup {Nothing}
    /\ sender \in {"held", "sent", "gone", "woken"} /\ waker \in BOOLEAN
    /\ caller \in {"idle", "joining", "registered", "parked", "notified"}
    /\ cancelCall \in {"no", "storing", "done"} /\ cancelFlag \in BOOLEAN /\ cancelToken \in BOOLEAN
    /\ cancelTx \in BOOLEAN /\ inbox \in 0..MaxMessages /\ sent \in 0..MaxMessages
    /\ peerAlive \in BOOLEAN
    /\ recv.phase \in {"out", "checked", "uncancellable"}

HandleInit ==
    /\ flavour = Nothing /\ source = Nothing /\ body = Nothing /\ verdict = Nothing
    /\ slot = Nothing /\ sender = "held" /\ waker = FALSE /\ caller = "idle" /\ got = {}
    /\ cancelCall = "no" /\ cancelFlag = FALSE /\ cancelToken = FALSE /\ cancelTx = FALSE
    /\ inbox = 0 /\ sent = 0 /\ peerAlive = TRUE /\ recv = Idle

-----------------------------------------------------------------------------
(* spawn / spawn_async / spawn_async_stoppable_on: the scope admits the     *)
(* child and its executor takes the body, or the handle is born refused.    *)
SpawnTask(f) ==
    /\ source = Nothing /\ flavour' = f
    /\ source' = "task" /\ body' = "queued" /\ cancelTx' = (f = "blocking")
    /\ UNCHANGED <<verdict, slot, sender, waker, caller, got, cancelCall, cancelFlag, cancelToken, channelVars>>
SpawnRefused(f, error) ==
    /\ source = Nothing /\ flavour' = f
    /\ source' = "refused" /\ verdict' = error /\ sender' = "woken"
    /\ UNCHANGED <<body, slot, waker, caller, got, cancelVars, channelVars>>

(* JoinHandle::cancel: the flag, then the token (a full channel keeps the   *)
(* one it has). AsyncJoinHandle::cancel is one stored notification.         *)
CancelStore ==
    /\ source = "task" /\ caller = "idle" /\ cancelCall # "storing"
    /\ cancelFlag' = TRUE
    /\ cancelCall' = IF flavour = "blocking" THEN "storing" ELSE "done"
    /\ UNCHANGED <<flavour, source, body, verdict, slot, sender, waker, caller, got, cancelToken, cancelTx, channelVars>>
CancelSend ==
    /\ cancelCall = "storing" /\ cancelCall' = "done" /\ cancelToken' = TRUE
    /\ UNCHANGED <<flavour, source, body, verdict, slot, sender, waker, caller, got, cancelFlag, cancelTx, channelVars>>

-----------------------------------------------------------------------------
(* run_in_spawner_context, run_async_task: the executor starts the body, or *)
(* drops it unstarted when it shuts down.                                   *)
StartBody ==
    /\ body = "queued" /\ body' = "running"
    /\ UNCHANGED <<flavour, source, verdict, slot, sender, waker, caller, got, cancelVars, channelVars>>
DropBody ==
    /\ \/ body = "queued"
       \/ body = "running" /\ flavour # "blocking"
    /\ body' = "dropped" /\ sender' = "gone"
    /\ verdict' = "channel closed"
    /\ UNCHANGED <<flavour, source, slot, waker, caller, got, cancelVars, channelVars>>

(* deliver_task_result, run_async_task: the body returns or panics, and a   *)
(* cancelled async body is dropped in favour of the cancellation, which the *)
(* biased select polls first.                                               *)
EndBody(v) ==
    /\ body = "running" /\ recv.phase = "out"
    /\ IF flavour = "async" /\ cancelFlag THEN v = "Cancelled" ELSE v \in {"ok", "panicked"}
    /\ body' = "ended" /\ verdict' = v
    /\ UNCHANGED <<flavour, source, slot, sender, waker, caller, got, cancelVars, channelVars>>

(* TaskResultSender::send puts the value in the channel unless its receiver *)
(* is gone, drops the channel's sender, and wakes the registered waker.     *)
SendResult ==
    /\ body = "ended" /\ sender = "held" /\ sender' = "sent"
    /\ slot' = IF source \in {"task", "future"} \/ caller = "joining" THEN verdict ELSE Nothing
    /\ UNCHANGED <<flavour, source, body, verdict, waker, caller, got, cancelVars, channelVars>>
DropSender ==
    /\ sender = "sent" /\ sender' = "gone"
    /\ UNCHANGED <<flavour, source, body, verdict, slot, waker, caller, got, cancelVars, channelVars>>
WakeCaller ==
    /\ sender = "gone" /\ sender' = "woken"
    /\ waker' = FALSE
    /\ caller' = IF waker /\ caller = "parked" THEN "notified" ELSE caller
    /\ UNCHANGED <<flavour, source, body, verdict, slot, got, cancelVars, channelVars>>

-----------------------------------------------------------------------------
(* JoinHandle::join: a blocking receive of the value, or of the news that   *)
(* the sender is gone. A refused handle answers at once.                    *)
JoinTask ==
    /\ source = "task" /\ flavour = "blocking" /\ caller = "idle" /\ cancelCall # "storing"
    /\ caller' = "joining"
    /\ UNCHANGED <<flavour, source, body, verdict, slot, sender, waker, got, cancelVars, channelVars>>
Deliver(v) == got' = got \cup {<<Cardinality(got) + 1, v>>}
JoinReturns ==
    /\ caller = "joining"
    /\ IF slot # Nothing THEN Deliver(slot) ELSE sender \in {"gone", "woken"} /\ Deliver("channel closed")
    /\ slot' = Nothing /\ caller' = "idle" /\ source' = "spent" /\ cancelTx' = FALSE
    /\ UNCHANGED <<flavour, body, verdict, sender, waker, cancelCall, cancelFlag, cancelToken, channelVars>>
JoinRefused ==
    /\ source = "refused" /\ caller = "idle"
    /\ Deliver(verdict) /\ source' = "spent"
    /\ UNCHANGED <<flavour, body, verdict, slot, sender, waker, caller, cancelVars, channelVars>>

(* IntoFuture: the future takes the result; the rest of the handle, and the *)
(* cancel channel's sender with it, is dropped.                             *)
IntoFuture ==
    /\ source = "task" /\ caller = "idle" /\ cancelCall # "storing"
    /\ source' = "future" /\ cancelTx' = FALSE
    /\ UNCHANGED <<flavour, body, verdict, slot, sender, waker, caller, got, cancelCall, cancelFlag, cancelToken, channelVars>>

(* TaskResult::poll: register the waker, then look; poll_delivery keeps the *)
(* task only while the answer is Pending.                                   *)
PollRegister ==
    /\ source = "future" /\ caller \in {"idle", "notified"}
    /\ waker' = TRUE /\ caller' = "registered"
    /\ UNCHANGED <<flavour, source, body, verdict, slot, sender, got, cancelVars, channelVars>>
PollResult ==
    /\ source = "future" /\ caller = "registered"
    /\ \/ /\ slot # Nothing \/ sender \in {"gone", "woken"}
          /\ Deliver(IF slot # Nothing THEN slot ELSE "channel closed")
          /\ slot' = Nothing /\ source' = "spent" /\ caller' = "idle" /\ waker' = FALSE
       \/ /\ slot = Nothing /\ sender \in {"held", "sent"}
          /\ caller' = "parked"
          /\ UNCHANGED <<got, slot, source, waker>>
    /\ UNCHANGED <<flavour, body, verdict, sender, cancelVars, channelVars>>

(* The caller drops the handle or the future; the task goes on.             *)
ReleaseHandle ==
    /\ source \in {"task", "future", "refused"} /\ caller \in {"idle", "parked", "notified"}
    /\ cancelCall # "storing"
    /\ source' = "released" /\ cancelTx' = FALSE /\ waker' = FALSE /\ caller' = "idle" /\ slot' = Nothing
    /\ UNCHANGED <<flavour, body, verdict, sender, got, cancelCall, cancelFlag, cancelToken, channelVars>>

-----------------------------------------------------------------------------
(* Receiver::recv in a blocking task: check_cancel, then a select over the  *)
(* channel and the cancel channel; a cancel channel whose handle is gone    *)
(* leaves a plain receive.                                                  *)
RecvEnds(result) == recv' = [recv EXCEPT !.phase = "out", !.result = result]
RecvBegin ==
    /\ body = "running" /\ flavour = "blocking" /\ recv.phase = "out"
    /\ recv' = [phase |-> IF cancelFlag THEN "out" ELSE "checked", late |-> cancelCall = "done",
                result |-> IF cancelFlag THEN "Cancelled" ELSE Nothing]
    /\ UNCHANGED <<flavour, source, body, verdict, slot, sender, waker, caller, got, cancelVars, inbox, sent, peerAlive>>
RecvSelect ==
    /\ recv.phase # "out"
    /\ \/ inbox > 0 /\ inbox' = inbox - 1 /\ RecvEnds("message") /\ UNCHANGED cancelToken
       \/ inbox = 0 /\ ~peerAlive /\ RecvEnds("ChannelClosed") /\ UNCHANGED <<inbox, cancelToken>>
       \/ /\ recv.phase = "checked" /\ cancelToken
          /\ cancelToken' = FALSE /\ RecvEnds("Cancelled") /\ UNCHANGED inbox
       \/ /\ recv.phase = "checked" /\ ~cancelToken /\ ~cancelTx
          /\ recv' = [recv EXCEPT !.phase = "uncancellable"] /\ UNCHANGED <<inbox, cancelToken>>
    /\ UNCHANGED <<flavour, source, body, verdict, slot, sender, waker, caller, got, cancelCall, cancelFlag, cancelTx, sent, peerAlive>>

(* The peer of the task's channel sends, or goes.                           *)
PeerSends ==
    /\ peerAlive /\ sent < MaxMessages /\ sent' = sent + 1 /\ inbox' = inbox + 1
    /\ UNCHANGED <<flavour, source, body, verdict, slot, sender, waker, caller, got, cancelVars, peerAlive, recv>>
PeerGoes ==
    /\ peerAlive /\ peerAlive' = FALSE
    /\ UNCHANGED <<flavour, source, body, verdict, slot, sender, waker, caller, got, cancelVars, inbox, sent, recv>>

-----------------------------------------------------------------------------
(* The task's thread or worker; the caller that joins, or whose future is   *)
(* polled when woken; the thread inside cancel().                           *)
TaskProgress == StartBody \/ SendResult \/ DropSender \/ WakeCaller \/ RecvSelect
CallerProgress == JoinReturns \/ PollResult \/ (caller = "notified" /\ PollRegister)

HandleNext ==
    \/ \E f \in {"blocking", "async", "stoppable"} :
         SpawnTask(f) \/ \E e \in Refusal : SpawnRefused(f, e)
    \/ CancelStore \/ DropBody \/ \E v \in Outcomes : EndBody(v)
    \/ JoinTask \/ JoinRefused \/ IntoFuture \/ PollRegister \/ ReleaseHandle
    \/ RecvBegin \/ PeerSends \/ PeerGoes
    \/ TaskProgress \/ CallerProgress \/ CancelSend

HandleSpec == HandleInit /\ [][HandleNext]_handleVars
FairHandleSpec ==
    /\ HandleSpec /\ WF_handleVars(TaskProgress) /\ WF_handleVars(CallerProgress)
    /\ WF_handleVars(CancelSend)

-----------------------------------------------------------------------------
(* A handle tells the truth, once: the caller is given at most one outcome, *)
(* it is the one the body came to (or that the body was dropped unfinished),*)
(* Cancelled means cancel() was called, a refused handle's body never ran,  *)
(* and a value the caller can still take is never lost.                     *)
HandleHonest ==
    /\ HandleTypeOK
    /\ Cardinality(got) <= 1
    /\ \A g \in got : g[2] = verdict /\ (g[2] \in Refusal => body = Nothing)
    /\ verdict = "Cancelled" => cancelFlag /\ flavour = "async"
    /\ slot # Nothing => slot = verdict /\ source \in {"task", "future"}
    /\ (sender # "held" /\ body = "ended" /\ source \in {"task", "future"}) => slot = verdict
    /\ caller = "parked" => source = "future" /\ (waker \/ sender \in {"held", "sent", "gone"})

(* Cancellation is never missed by a receive: one that begins after a       *)
(* cancel() returned is refused, whatever its channel holds.                *)
CancelObserved == recv.late => recv.result = "Cancelled"

(* A parked or joining caller is answered once the task is over, although   *)
(* the result may arrive between the caller's look and its sleep; and a     *)
(* task waiting in a receive comes back from it once it is cancelled.       *)
HandleRests ==
    /\ body \in {"ended", "dropped"} => caller \notin {"parked", "joining", "notified"}
    /\ cancelFlag => recv.phase # "checked"
HandleAnswers == []<>HandleRests
=============================================================================
