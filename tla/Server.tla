------------------------------- MODULE Server -------------------------------
(***************************************************************************)
(* One owned HTTP server: the public handle, the supervisor, the           *)
(* connections it owns and the upgrade bridge a connection may take as its *)
(* child.                                                                  *)
(*                                                                         *)
(* crates/camber/src/http: server.rs (ServerHandle), server_lifecycle/*,   *)
(* server_stop.rs (through ServerStop), conn.rs (serve_owned_io) and       *)
(* ws_proxy/ownership.rs (the offer).  What a connection says to its peer  *)
(* is left out: it serves, drains, panics or ends.  Deadlines expire at    *)
(* any time once armed.                                                    *)
(***************************************************************************)
EXTENDS ServerStop, FiniteSets

CONSTANTS
    Conns,      \* the sockets that may be accepted
    Limit,      \* the connection limit; 0 is no limit
    InRuntime,  \* the server was started inside a Camber runtime
    HandleCommands \* the handle's commands its holder may give

ASSUME LimitAssumption == Limit \in Nat
ASSUME InRuntimeAssumption == InRuntime \in BOOLEAN
ASSUME HandleAssumption == HandleCommands \subseteq {"shutdown", "cancel", "abandon"}

VARIABLES
    control,        \* the published ServerControl
    unseen,         \* the supervisor's receiver has an edge to read
    sends,          \* commands that have committed and not yet published
    armed,          \* the handle still holds its stop authority
    fired,          \* the runtime's ShutdownSignal
    listening,      \* runtime_shutdown is still selected on
    pc,             \* where the supervisor stands
    applied,        \* the phase the supervisor has acted on
    listener,       \* the listener is still held
    pending,        \* an accepted socket waits for a permit
    cleanup,        \* removing the listener's socket path failed
    deadline,       \* the supervisor's deadline: none, graceful or forced
    abortStarted,   \* begin_forced_abort or force_abort has run
    told,           \* OwnedConnections::supervisor_aborted
    conn,           \* each connection task
    bridge,         \* each connection's upgrade bridge
    answer          \* what the supervisor returned

ctlVars == <<control, unseen, sends, armed, fired>>
supVars == <<listening, applied, listener, pending, cleanup, deadline, abortStarted, told>>
vars == <<stopVars, ctlVars, pc, supVars, conn, bridge, answer>>

\* A connection task that runs on to its next suspension, and one suspended.
Running == {"taking", "deciding"}
Suspended == {"serving", "refusing", "draining", "owning", "joining"}

Live == Running \cup Suspended

Controls == {"Running", "Graceful", "Abort"}

TypeOK ==
    /\ StopTypeOK
    /\ control \in Controls /\ sends \subseteq {"Graceful", "Abort"}
    /\ unseen \in BOOLEAN /\ armed \in BOOLEAN /\ fired \in BOOLEAN
    /\ pc \in {"step", "select", "accepted", "permitted", "spawning", "apply", "publish",
               "finish", "unwound", "drain", "sweep", "returned"}
    /\ applied \in Phases \ {"Finished"}
    /\ listening \in BOOLEAN /\ listener \in BOOLEAN /\ pending \in BOOLEAN
    /\ cleanup \in BOOLEAN /\ abortStarted \in BOOLEAN /\ told \in BOOLEAN
    /\ deadline \in {"none", "graceful", "forced"}
    /\ conn \in [Conns -> [at : Live \cup {"new", "ended", "collected"}, abort : BOOLEAN,
                           held : BOOLEAN, end : {"none", "ok", "panicked", "cancelled"}]]
    /\ bridge \in [Conns -> [alive : BOOLEAN, abort : BOOLEAN,
                             owner : {"none", "channel", "connection", "refused", "retention",
                                      "nobody"}]]
    /\ answer \in {"none", "Ok", "Failed", "Cancelled", "TimedOut", "Panicked"}

Init ==
    /\ StopInit
    /\ control = "Running" /\ unseen = FALSE /\ sends = {} /\ armed = TRUE /\ fired = FALSE
    /\ pc = "step" /\ applied = "Running"
    /\ listening = InRuntime /\ listener = TRUE /\ pending = FALSE /\ cleanup = FALSE
    /\ deadline = "none" /\ abortStarted = FALSE /\ told = FALSE
    /\ conn = [c \in Conns |-> [at |-> "new", abort |-> FALSE, held |-> FALSE, end |-> "none"]]
    /\ bridge = [c \in Conns |-> [alive |-> FALSE, abort |-> FALSE, owner |-> "none"]]
    /\ answer = "none"

-----------------------------------------------------------------------------
(* The handle and the runtime.                                             *)

\* request_graceful: commit, then publish.
Shutdown ==
    /\ "shutdown" \in HandleCommands /\ armed
    /\ ApplyGraceful
    /\ sends' = sends \cup {"Graceful"}
    /\ UNCHANGED <<control, unseen, armed, fired, pc, supVars, conn, bridge, answer>>

\* request_cancel.
Cancel ==
    /\ "cancel" \in HandleCommands /\ armed
    /\ ApplyForced(TRUE)
    /\ sends' = sends \cup {"Abort"}
    /\ UNCHANGED <<control, unseen, armed, fired, pc, supVars, conn, bridge, answer>>

\* The pending handle is dropped; nobody is inside one of its calls.
Abandon ==
    /\ "abandon" \in HandleCommands /\ armed /\ sends = {} /\ pc # "returned"
    /\ ApplyForced(FALSE)
    /\ armed' = FALSE
    /\ sends' = {"Abort"}
    /\ UNCHANGED <<control, unseen, fired, pc, supVars, conn, bridge, answer>>

\* The control a send leaves: a later request never weakens an earlier one.
Published(request) ==
    CASE request = "Abort"   -> "Abort"
      [] control = "Running" -> request
      [] OTHER               -> control

\* send_graceful or send_abort: an edge exists only if the value moved.
Send(request) ==
    /\ request \in sends
    /\ sends' = sends \ {request}
    /\ control' = Published(request)
    /\ unseen' = (unseen \/ control' # control)
    /\ UNCHANGED <<stopVars, armed, fired, pc, supVars, conn, bridge, answer>>

\* The runtime fires its ShutdownSignal.
FireRuntime ==
    /\ InRuntime /\ ~fired
    /\ fired' = TRUE
    /\ UNCHANGED <<stopVars, control, unseen, sends, armed, pc, supVars, conn, bridge, answer>>

-----------------------------------------------------------------------------
(* The supervisor's loop.                                                  *)

Owned == {c \in Conns : conn[c].at \notin {"new", "collected"}}

\* Abort the tasks of a set of connections; an ended task is past it.
Aborted(cs) ==
    [c \in Conns |-> IF c \in cs /\ conn[c].at \in Live
                       THEN [conn[c] EXCEPT !.abort = TRUE] ELSE conn[c]]

AppliedForced == applied \in Forced

\* abort_without_retained_upgrade
ForcedAbort == Aborted({c \in Owned : ~conn[c].held})

\* Mutant: only connections that still serve are waited for.
DrainedServing ==
    /\ AppliedForced \/ applied = "Graceful"
    /\ \A c \in Owned : conn[c].at # "serving"

\* graceful_drain_complete or abort_drain_complete
Drained == (AppliedForced \/ applied = "Graceful") /\ Owned = {}

\* The head of step(): start the abort, then settle a finished drain or select.
Step ==
    /\ pc = "step"
    /\ IF AppliedForced /\ ~abortStarted
         THEN abortStarted' = TRUE /\ told' = TRUE /\ conn' = ForcedAbort
         ELSE UNCHANGED <<abortStarted, told, conn>>
    /\ pc' = IF Drained THEN "finish" ELSE "select"
    /\ UNCHANGED <<stopVars, ctlVars, listening, applied, listener, pending, cleanup, deadline,
                   bridge, answer>>

RuntimeReady == listening /\ fired

\* Nothing the biased selector asks first is ready.
Quiet == pc = "select" /\ ~unseen /\ ~RuntimeReady

\* Mutant: the deadline of a forced stop is not acted on.
OnDrainDeadline ==
    /\ pc = "select" /\ deadline # "none" /\ ~AppliedForced
    /\ ApplyDeadline
    /\ pc' = "apply"
    /\ UNCHANGED <<ctlVars, supVars, conn, bridge, answer>>

\* The deadline: commit the expiry of a drain, or end a forced stop's wait.
OnDeadline ==
    /\ pc = "select" /\ deadline # "none"
    /\ IF AppliedForced
         THEN /\ deadline' = "none" /\ abortStarted' = TRUE /\ told' = TRUE
              /\ conn' = Aborted(Owned)
              /\ pc' = "step"
              /\ UNCHANGED stopVars
         ELSE /\ ApplyDeadline
              /\ pc' = "apply"
              /\ UNCHANGED <<deadline, abortStarted, told, conn>>
    /\ UNCHANGED <<ctlVars, listening, applied, listener, pending, cleanup, bridge, answer>>

\* An edge of the control watch: there may be a committed phase to act on.
OnControl ==
    /\ pc = "select" /\ unseen
    /\ unseen' = FALSE
    /\ pc' = "apply"
    /\ UNCHANGED <<stopVars, control, sends, armed, fired, supVars, conn, bridge, answer>>

\* The runtime's signal commits a graceful stop; it is selected on once.
OnRuntime ==
    /\ pc = "select" /\ ~unseen /\ RuntimeReady
    /\ listening' = FALSE
    /\ ApplyGraceful
    /\ pc' = "apply"
    /\ UNCHANGED <<ctlVars, applied, listener, pending, cleanup, deadline, abortStarted, told,
                   conn, bridge, answer>>

\* A socket is accepted.
OnAccept ==
    /\ Quiet /\ listener /\ ~pending
    /\ \E c \in Conns : conn[c].at = "new"
    /\ pc' = "accepted"
    /\ UNCHANGED <<stopVars, ctlVars, supVars, conn, bridge, answer>>

\* accept() failed for good.
OnAcceptError ==
    /\ Quiet /\ listener /\ ~pending
    /\ ApplyFatal
    /\ pc' = "apply"
    /\ UNCHANGED <<ctlVars, supVars, conn, bridge, answer>>

\* Mutant: the permit goes back with the connection task, not with its bridge.
HoldsPermitTask(c) == conn[c].at \in Live

\* The ConnectionPermit is shared by the connection task and its bridge.
HoldsPermit(c) == conn[c].at \in Live \/ bridge[c].alive

PermitFree == Cardinality({c \in Conns : HoldsPermit(c)}) < Limit

\* The limit has a permit for the socket that waits.
OnPermit ==
    /\ Quiet /\ pending
    /\ PermitFree
    /\ pending' = FALSE
    /\ pc' = "permitted"
    /\ UNCHANGED <<stopVars, ctlVars, listening, applied, listener, cleanup, deadline,
                   abortStarted, told, conn, bridge, answer>>

AdmissionOpen == listener /\ ~RuntimeReady

\* handle_accepted: park the socket, go on to serve it, or close it.
HandleAccepted ==
    /\ pc = "accepted"
    /\ pending' = (pending \/ (AdmissionOpen /\ Limit > 0))
    /\ pc' = IF AdmissionOpen /\ Limit = 0 THEN "spawning" ELSE "step"
    /\ UNCHANGED <<stopVars, ctlVars, listening, applied, listener, cleanup, deadline,
                   abortStarted, told, conn, bridge, answer>>

\* admit_and_spawn after the permit: admission is asked again.
HandlePermitted ==
    /\ pc = "permitted"
    /\ pc' = IF AdmissionOpen THEN "spawning" ELSE "step"
    /\ UNCHANGED <<stopVars, ctlVars, supVars, conn, bridge, answer>>

\* spawn_connection: what admission answered is not asked again.
SpawnConnection ==
    /\ pc = "spawning"
    /\ \E c \in Conns :
          /\ conn[c].at = "new"
          /\ conn' = [conn EXCEPT ![c].at = "serving"]
    /\ pc' = "step"
    /\ UNCHANGED <<stopVars, ctlVars, supVars, bridge, answer>>

\* Mutant: a connection counts as ended while the bridge it left is alive.
EndedTask(c) == conn[c].at = "ended"

\* poll_ended: the task's result, once the child it left behind is joined too.
Ended(c) ==
    /\ conn[c].at = "ended"
    /\ bridge[c].owner = "retention" => ~bridge[c].alive

\* Mutant: a connection's panic is settled and not reported.
FaultOnlyIfCancelled(c) == conn[c].end = "cancelled" /\ ~told

\* classify_completion: a cancellation the supervisor did not ask for is a fault.
Fault(c) == conn[c].end = "panicked" \/ (conn[c].end = "cancelled" /\ ~told)

\* One connection's join comes back.
OnCompletion(c) ==
    /\ Quiet /\ Ended(c) /\ ~(pending /\ PermitFree)
    /\ conn' = [conn EXCEPT ![c].at = "collected"]
    /\ IF Fault(c) THEN ApplyFatal /\ pc' = "apply"
                   ELSE pc' = "step" /\ UNCHANGED stopVars
    /\ UNCHANGED <<ctlVars, supVars, bridge, answer>>

\* apply_committed_phase reads what is committed; the effects follow.
ApplyCommitted ==
    /\ pc = "apply"
    /\ IF phase # applied /\ applied \in {"Running", "Graceful"}
         THEN /\ applied' = phase
              /\ deadline' = IF phase = "Graceful" THEN "graceful" ELSE "forced"
              /\ pc' = "publish"
         ELSE pc' = "step" /\ UNCHANGED <<applied, deadline>>
    /\ UNCHANGED <<stopVars, ctlVars, listening, listener, pending, cleanup, abortStarted, told,
                   conn, bridge, answer>>

\* close_admission: give the listener up, publish, consume the edge, close the
\* socket that waits.
CloseAdmission ==
    /\ listener' = FALSE
    /\ cleanup' \in {cleanup, cleanup \/ listener}
    /\ control' = Published(IF AppliedForced THEN "Abort" ELSE "Graceful")
    /\ unseen' = FALSE
    /\ pending' = FALSE
    /\ UNCHANGED <<stopVars, sends, armed, fired, listening, applied, abortStarted, told, conn,
                   bridge, answer>>

\* Mutant: the listener and the waiting socket survive the transition.
PublishOnly ==
    /\ pc = "publish"
    /\ pc' = "step"
    /\ control' = Published(IF AppliedForced THEN "Abort" ELSE "Graceful")
    /\ unseen' = FALSE
    /\ UNCHANGED <<stopVars, sends, armed, fired, supVars, conn, bridge, answer>>

Publish ==
    /\ pc = "publish"
    /\ pc' = "step"
    /\ CloseAdmission
    /\ UNCHANGED deadline

\* finish: settle, take the result, and let a cleanup failure replace an Ok.
Finish ==
    /\ pc = "finish"
    /\ Settle
    /\ answer' = IF outcome' \in {"Failed", "Cancelled", "TimedOut"} THEN outcome'
                 ELSE IF cleanup THEN "Failed" ELSE "Ok"
    /\ pc' = "returned"
    /\ UNCHANGED <<ctlVars, supVars, conn, bridge>>

-----------------------------------------------------------------------------
(* The supervisor unwinds: run() commits an abandonment and drains.        *)

Unwind ==
    /\ pc = "select"
    /\ ApplyForced(FALSE)
    /\ applied' = "Cancelled"
    /\ pc' = "unwound"
    /\ UNCHANGED <<ctlVars, listening, listener, pending, cleanup, deadline, abortStarted, told,
                   conn, bridge, answer>>

\* begin_abort on the unwound path.
AbortAfterUnwind ==
    /\ pc = "unwound"
    /\ pc' = "drain"
    /\ deadline' = "forced"
    /\ CloseAdmission

\* drain_owned_after_panic: completions are only logged.
LogCompletion(c) ==
    /\ pc \in {"drain", "sweep"} /\ Ended(c)
    /\ conn' = [conn EXCEPT ![c].at = "collected"]
    /\ UNCHANGED <<stopVars, ctlVars, pc, supVars, bridge, answer>>

\* The drain's own timer, or its end.
SweepAfterUnwind ==
    /\ pc = "drain"
    /\ told' = TRUE
    /\ conn' = Aborted(Owned)
    /\ pc' = "sweep"
    /\ UNCHANGED <<stopVars, ctlVars, listening, applied, listener, pending, cleanup, deadline,
                   abortStarted, bridge, answer>>

ReturnPanic ==
    /\ pc = "sweep" /\ Owned = {}
    /\ pc' = "returned"
    /\ answer' = "Panicked"
    /\ UNCHANGED <<stopVars, ctlVars, supVars, conn, bridge>>

-----------------------------------------------------------------------------
(* A connection task.                                                      *)

connFrame == <<stopVars, ctlVars, pc, supVars, answer>>

\* A handler launches a gated bridge and offers it to its connection.
Offer(c) ==
    /\ conn[c].at = "serving" /\ bridge[c].owner = "none"
    /\ bridge' = [bridge EXCEPT ![c] = [alive |-> TRUE, abort |-> FALSE, owner |-> "channel"]]
    /\ UNCHANGED <<connFrame, conn>>

\* The channel is closed already: submit ends the bridge itself.
OfferLate(c) ==
    /\ conn[c].at = "draining" /\ bridge[c].owner = "none"
    /\ bridge' = [bridge EXCEPT ![c] = [alive |-> TRUE, abort |-> TRUE, owner |-> "nobody"]]
    /\ UNCHANGED <<connFrame, conn>>

\* next_owned_connection_event: an offer is taken only while no stop is heard.
TakeOffer(c) ==
    /\ conn[c].at = "serving" /\ bridge[c].owner = "channel" /\ control = "Running"
    /\ conn' = [conn EXCEPT ![c].at = "taking"]
    /\ UNCHANGED <<connFrame, bridge>>

\* Mutant: the retention record is never told.
NoHold(c) ==
    /\ conn[c].at = "taking"
    /\ conn' = [conn EXCEPT ![c].at = "deciding"]
    /\ UNCHANGED <<connFrame, bridge>>

\* serve_upgrade_handoff: held before it is decided.
Hold(c) ==
    /\ conn[c].at = "taking"
    /\ conn' = [conn EXCEPT ![c].at = "deciding", ![c].held = TRUE]
    /\ UNCHANGED <<connFrame, bridge>>

\* UpgradeTransportOwner::accept: refuse a gone peer's offer, or any offer once
\* a stop is committed, and keep the hold; or take the bridge as a child.
Decide(c) ==
    /\ conn[c].at = "deciding"
    /\ \/ /\ bridge' = [bridge EXCEPT ![c].owner = "nobody", ![c].abort = TRUE]
          /\ conn' = [conn EXCEPT ![c].at = "serving"]
       \/ /\ phase = "Running"
          /\ bridge' = [bridge EXCEPT ![c].owner = "connection"]
          /\ conn' = [conn EXCEPT ![c].at = "owning"]
    /\ UNCHANGED connFrame

\* finish_upgrade_handoff: the 101 reached the wire, or the child is cancelled.
CommitTransport(c) ==
    /\ conn[c].at = "owning"
    /\ \E cancelled \in BOOLEAN : bridge' = [bridge EXCEPT ![c].abort = @ \/ cancelled]
    /\ conn' = [conn EXCEPT ![c].at = "joining"]
    /\ UNCHANGED connFrame

\* upgrade.join() returns: the hold is released and the transport closed.
JoinBridge(c) ==
    /\ conn[c].at = "joining" /\ ~bridge[c].alive
    /\ conn' = [conn EXCEPT ![c].at = "draining", ![c].held = FALSE]
    /\ UNCHANGED <<connFrame, bridge>>

\* The connection completes, or hears a shutdown: offers still on the channel
\* are refused and their bridges joined before the drain.
WindDown(c) ==
    /\ conn[c].at = "serving"
    /\ conn' = [conn EXCEPT ![c].at = "refusing"]
    /\ bridge' = IF bridge[c].owner = "channel"
                   THEN [bridge EXCEPT ![c].owner = "refused", ![c].abort = TRUE] ELSE bridge
    /\ UNCHANGED connFrame

\* abort_pending is through.
Refused(c) ==
    /\ conn[c].at = "refusing"
    /\ bridge[c].owner = "refused" => ~bridge[c].alive
    /\ conn' = [conn EXCEPT ![c].at = "draining"]
    /\ UNCHANGED <<connFrame, bridge>>

\* The peer's last response is out.
EndConnection(c) ==
    /\ conn[c].at = "draining"
    /\ conn' = [conn EXCEPT ![c].at = "ended", ![c].end = "ok"]
    /\ UNCHANGED <<connFrame, bridge>>

\* What dropping the task's future does to its bridge: UpgradeOwner's drop
\* leaves an aborted child for the server, an unanswered offer only aborts it.
Orphaned(c) ==
    [bridge[c] EXCEPT !.abort = bridge[c].alive,
                      !.owner = CASE @ = "connection" /\ bridge[c].alive -> "retention"
                                  [] @ \in {"channel", "refused"} -> "nobody"
                                  [] OTHER -> @]

\* The task unwinds, or is dropped where an abort finds it suspended.
LoseConnection(c) ==
    /\ conn[c].at \in Suspended
    /\ \E how \in {"panicked", "cancelled"} :
          /\ how = "cancelled" => conn[c].abort
          /\ conn' = [conn EXCEPT ![c].at = "ended", ![c].end = how]
    /\ bridge' = [bridge EXCEPT ![c] = Orphaned(c)]
    /\ UNCHANGED connFrame

\* The bridge's task ends: by itself once it has been released, or aborted.
BridgeEnds(c) ==
    /\ bridge[c].alive
    /\ bridge[c].abort \/ bridge[c].owner = "connection"
    /\ bridge' = [bridge EXCEPT ![c].alive = FALSE]
    /\ UNCHANGED <<connFrame, conn>>

-----------------------------------------------------------------------------

SupervisorStep ==
    \/ Step \/ OnDeadline \/ OnControl \/ OnRuntime \/ OnAccept \/ OnPermit
    \/ HandleAccepted \/ HandlePermitted \/ SpawnConnection \/ ApplyCommitted \/ Publish \/ Finish
    \/ AbortAfterUnwind \/ SweepAfterUnwind \/ ReturnPanic
    \/ \E c \in Conns : OnCompletion(c) \/ LogCompletion(c)

ConnectionStep(c) ==
    \/ Offer(c) \/ OfferLate(c) \/ TakeOffer(c) \/ Hold(c) \/ Decide(c) 
    \/ CommitTransport(c) \/ JoinBridge(c) \/ WindDown(c) \/ Refused(c) \/ EndConnection(c) \/ LoseConnection(c) \/ BridgeEnds(c)

Publishing == \E request \in {"Graceful", "Abort"} : Send(request)

Next ==
    \/ Shutdown \/ Cancel \/ Abandon \/ Publishing \/ FireRuntime
    \/ SupervisorStep \/ OnAcceptError \/ Unwind
    \/ \E c \in Conns : ConnectionStep(c)

Spec == Init /\ [][Next]_vars

(* The supervisor's task is polled, a command that committed goes on to    *)
(* publish, a running task reaches its next await, and Tokio drops an      *)
(* aborted task that is suspended.  What connections and bridges do by     *)
(* themselves is owed by nobody.                                           *)
Fairness ==
    /\ WF_vars(SupervisorStep)
    /\ WF_vars(Publishing)
    /\ \A c \in Conns :
          /\ WF_vars(Hold(c)) /\ WF_vars(Decide(c))
          /\ WF_vars(conn[c].abort /\ LoseConnection(c))
          /\ WF_vars(bridge[c].abort /\ BridgeEnds(c))

FairSpec == Spec /\ Fairness

-----------------------------------------------------------------------------
(* Properties.                                                             *)

\* A join that has returned proves that every accepted connection ended, was
\* collected, and left no registered bridge alive (ServerHandleFuture).
JoinProvesEnd ==
    pc = "returned" => \A c \in Conns :
        /\ conn[c].at \in {"new", "collected"}
        /\ bridge[c].owner \in {"connection", "retention"} => ~bridge[c].alive

\* An Ok server drained: no forced phase and no connection that panicked or was
\* taken away stands behind it.  (Every field holds a value of its type.)
OkMeansDrained ==
    /\ TypeOK
    /\ answer = "Ok" => /\ outcome = "Completed"
                        /\ \A c \in Conns : conn[c].end \in {"none", "ok"}

\* The transports in use, connections and the bridges that outlive their task,
\* never exceed the limit.
LimitHeld ==
    Limit > 0 => Cardinality({c \in Conns : conn[c].at \in Live \/ bridge[c].alive}) <= Limit

\* A forced stop leaves an upgrade it has taken on to settle itself: a connection
\* that owns a bridge is aborted only when the forced deadline is spent.
UpgradeSpared ==
    \A c \in Conns :
        (conn[c].at \in {"owning", "joining"} /\ conn[c].abort) =>
            (AppliedForced /\ deadline = "none") \/ pc \in {"unwound", "drain", "sweep", "returned"}

\* Once the supervisor has acted on a stop, no socket is held for service and none
\* is served.
AdmissionCloses ==
    [][(applied # "Running" /\ pc \notin {"publish", "unwound"}) =>
          /\ ~pending'
          /\ \A c \in Conns : conn[c].at = "new" => conn'[c].at = "new"]_vars

\* Once a stop is committed, or the runtime alone asks for shutdown, the join comes
\* back, although connections never finish and bridges never close, and whatever
\* socket was past its admission check when the signal fired.
StopEnds == phase # "Running" \/ fired ~> pc = "returned"

\* The server as its caller sees it: serving while it holds the listener, then
\* at the stage the supervisor has acted on.
Promise == INSTANCE ServerContract WITH
    Sockets  <- Conns,
    stage    <- IF listener THEN "serving" ELSE IF AppliedForced THEN "forced" ELSE "draining",
    working  <- {c \in Conns : conn[c].at \in Live},
    cut      <- {c \in Conns : conn[c].at \in Live /\ conn[c].abort},
    answered <- pc = "returned"

\* The supervisor, its connections and the handle's commands together implement
\* the caller's contract: nothing is taken on once a stop has been acted on, a
\* stop never relaxes, a connection is aborted by a forced stop alone, and join
\* answers once, with no connection left.
PromiseKept == Promise!ContractSpec

\* ServerHandleFuture::cancel: a committed cancellation is acted on whatever the
\* aggregate has left - the supervisor waiting in its selector has applied it, or
\* has an edge to read it by.
CancelHeard ==
    (phase = "Cancelled" /\ pc = "select" /\ sends = {}) => AppliedForced \/ unseen

=============================================================================
