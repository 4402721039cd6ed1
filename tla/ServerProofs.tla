---------------------------- MODULE ServerProofs ----------------------------
(***************************************************************************)
(* The safety of an owned HTTP server, for every limit and every set of    *)
(* sockets.                                                                *)
(*                                                                         *)
(* ServerInductive holds of every state: what the supervisor has acted on  *)
(* was committed, admission ends with the transition, the drain with the   *)
(* return, an abort needs a forced stop, an owned bridge its owner, and a  *)
(* loss leaves its mark.  What the join proves, what an Ok means, who is   *)
(* spared by a forced stop and when admission closes follow from it.       *)
(*                                                                         *)
(* The limit: the permits in use are counted together with the one a       *)
(* socket has been given and not yet taken.  Without that the count is not *)
(* inductive, because the supervisor asks for the permit in one step and   *)
(* serves in a later one.  Last the contract of ServerContract, step by    *)
(* step.                                                                   *)
(***************************************************************************)
EXTENDS ServerSteps, FiniteSetTheorems

\* A connection that was collected after a panic or a loss left its mark.
Faulted ==
    pc # "returned" => \A c \in Conns :
        conn[c].at = "collected" /\ conn[c].end \notin {"none", "ok"} => fatal \/ phase \in Forced

\* An Ok was earned.
Answered ==
    answer = "Ok" => /\ pc = "returned" /\ outcome = "Completed"
                     /\ \A c \in Conns : conn[c].end \in {"none", "ok"}

\* The inductive invariant: with the types, each conjunct needs the ones before it.
ServerInductive ==
    /\ TypeOK /\ Acted /\ Closed /\ Tasks /\ Bridges /\ Faulted /\ Answered /\ UpgradeSpared

-----------------------------------------------------------------------------
(* Every conjunct is kept by every step.                                   *)

\* A supervisor that has returned takes no further step.
LEMMA ReturnedRests ==
    ASSUME pc = "returned"
    PROVE  ~SupervisorStep /\ ~OnAcceptError /\ ~Unwind
<1>1. ~Step /\ ~OnDeadline /\ ~OnControl /\ ~OnRuntime /\ ~OnAccept /\ ~OnPermit
    BY Zenon DEF Step, OnDeadline, OnControl, OnRuntime, OnAccept, OnPermit, Quiet
<1>2. ~HandleAccepted /\ ~HandlePermitted /\ ~SpawnConnection /\ ~ApplyCommitted /\ ~Publish /\ ~Finish
    BY DEF HandleAccepted, HandlePermitted, SpawnConnection, ApplyCommitted, Publish, Finish
<1>3. ~AbortAfterUnwind /\ ~SweepAfterUnwind /\ ~ReturnPanic /\ ~OnAcceptError /\ ~Unwind
    BY DEF AbortAfterUnwind, SweepAfterUnwind, ReturnPanic, OnAcceptError, Quiet, Unwind
<1>4. \A c \in Conns : ~OnCompletion(c) /\ ~LogCompletion(c)
    BY DEF OnCompletion, LogCompletion, Quiet
<1> QED
    BY <1>1, <1>2, <1>3, <1>4 DEF SupervisorStep

\* Nor does anybody else move it.
LEMMA ReturnedStays ==
    ASSUME TypeOK, [Next]_vars, pc = "returned"
    PROVE  pc' = "returned" /\ answer' = answer
<1>1. CASE Commands
    BY <1>1, CommandsFrame
<1>2. ASSUME NEW c \in Conns, ConnectionStep(c) PROVE pc' = pc /\ answer' = answer
    BY <1>2, ConnectionAlone DEF connFrame
<1>3. CASE UNCHANGED vars
    BY <1>3 DEF vars
<1> QED
    BY <1>1, <1>2, <1>3, StepCases, ReturnedRests

\* What explains an unclean drain is kept until the result is fixed.
LEMMA MarkStays ==
    ASSUME [StopNext]_stopVars, phase' # "Finished", fatal \/ phase \in Forced
    PROVE  fatal' \/ phase' \in Forced
<1> USE DEF Forced
<1>1. CASE ApplyGraceful \/ ApplyFatal \/ ApplyDeadline
    BY <1>1, Zenon DEF ApplyGraceful, ApplyFatal, ApplyDeadline
<1>2. ASSUME NEW asked \in BOOLEAN, ApplyForced(asked) PROVE fatal' \/ phase' \in Forced
    BY <1>2 DEF ApplyForced
<1>3. CASE Settle
    BY <1>3 DEF Settle, stopVars
<1> QED
    BY <1>1, <1>2, <1>3 DEF StopNext, stopVars

\* classify_completion reports each loss it meets or a forced phase explains it:
\* every step keeps Faulted.
LEMMA KeepsFaulted == TypeOK /\ Acted /\ Acted' /\ Faulted /\ [Next]_vars => Faulted'
<1> SUFFICES ASSUME TypeOK, Acted, Acted', Faulted, [Next]_vars, pc' # "returned",
                    NEW c \in Conns, conn'[c].at = "collected", conn'[c].end \notin {"none", "ok"}
             PROVE  fatal' \/ phase' \in Forced
    BY DEF Faulted
<1>0. conn \in [Conns -> Connection]
    BY RecordsTyped
<1>1. pc # "returned" /\ phase' # "Finished" /\ phase # "Finished" /\ phase \in Phases
    BY ReturnedStays DEF Acted, TypeOK, StopTypeOK
<1>2. (fatal \/ phase \in Forced) => (fatal' \/ phase' \in Forced)
    BY <1>1, MarkStays, StepsImplement
<1>3. CASE conn[c].at = "collected" /\ conn'[c].end = conn[c].end
    BY <1>1, <1>2, <1>3 DEF Faulted
<1>4. ASSUME NEW d \in Conns, ConnectionStep(d) PROVE conn'[c] = conn[c]
    BY <1>4, ConnectionSettled
<1>5. CASE SupervisorStep
  <2>1. CASE conn' = conn \/ Cuts
      BY <1>3, <2>1 DEF Cuts
  <2>2. ASSUME NEW d \in Conns, Serves(d) PROVE conn'[c] = conn[c]
      BY <1>0, <2>2 DEF Serves, Connection
  <2>3. ASSUME NEW d \in Conns, Collects(d), conn[c].at # "collected" PROVE FALSE \/ c = d
      BY <1>0, <2>3 DEF Collects, Connection
  <2>4. ASSUME NEW d \in Conns, Collects(d) PROVE conn'[c].end = conn[c].end
      BY <1>0, <2>4 DEF Collects, Connection
  <2>5. CASE OnCompletion(c) /\ conn'[c].end = conn[c].end
    <3>1. CASE Fault(c)
        BY <1>1, <2>5, <3>1, Zenon DEF OnCompletion, ApplyFatal, Phases, Forced
    <3>2. CASE ~Fault(c)
      <4>1. told
          BY <1>0, <2>5, <3>2 DEF Fault, Connection, Ends
      <4> QED
          BY <1>1, <1>2, <4>1 DEF Acted
    <3> QED
        BY <3>1, <3>2
  <2>6. CASE LogCompletion(c)
      BY <1>1, <1>2, <2>6 DEF LogCompletion, Acted
  <2>7. ASSUME NEW d \in Conns, OnCompletion(d) \/ LogCompletion(d) PROVE Collects(d)
      BY <2>7 DEF OnCompletion, LogCompletion, Collects
  <2>8. CASE \E d \in Conns : OnCompletion(d) \/ LogCompletion(d)
      BY <1>3, <2>3, <2>4, <2>5, <2>6, <2>7, <2>8
  <2>9. CASE ~\E d \in Conns : OnCompletion(d) \/ LogCompletion(d)
    <3>1. CASE HandleAccepted \/ HandlePermitted \/ SpawnConnection
        BY <1>0, <1>3, <3>1 DEF HandleAccepted, HandlePermitted, SpawnConnection, Connection
    <3>2. CASE Step \/ OnDeadline \/ SweepAfterUnwind
      <4>1. conn' = conn \/ \E cs : conn' = Aborted(cs)
          BY <3>2 DEF Step, OnDeadline, SweepAfterUnwind, ForcedAbort
      <4> QED
          BY <1>3, <4>1, AbortsOnly
    <3>3. CASE OnControl \/ OnRuntime \/ OnAccept \/ OnPermit \/ ApplyCommitted
        BY <1>3, <3>3 DEF OnControl, OnRuntime, OnAccept, OnPermit, ApplyCommitted
    <3>4. CASE Publish \/ Finish \/ AbortAfterUnwind \/ ReturnPanic
        BY <1>3, <3>4 DEF Publish, Finish, AbortAfterUnwind, CloseAdmission, ReturnPanic
    <3> QED
        BY <1>5, <2>9, <3>1, <3>2, <3>3, <3>4 DEF SupervisorStep
  <2> QED
      BY <2>8, <2>9
<1>6. CASE Commands \/ OnAcceptError \/ Unwind \/ UNCHANGED vars
    BY <1>3, <1>6, CommandsFrame, Zenon DEF OnAcceptError, Unwind, vars
<1> QED
    BY <1>3, <1>4, <1>5, <1>6, StepCases

\* The answer is given by the two steps that return.
LEMMA AnswerGiven ==
    ASSUME TypeOK, Acted, [Next]_vars, answer' = "Ok", pc # "returned"
    PROVE  Finish
<1>1. answer = "none"
    BY DEF Acted
<1>2. CASE Commands \/ UNCHANGED vars
    BY <1>1, <1>2, CommandsFrame DEF vars
<1>3. ASSUME NEW c \in Conns, ConnectionStep(c) PROVE answer' = answer
    BY <1>3, ConnectionAlone DEF connFrame
<1>4. CASE Step \/ OnDeadline \/ OnControl \/ OnRuntime \/ OnAccept \/ OnPermit
    BY <1>1, <1>4 DEF Step, OnDeadline, OnControl, OnRuntime, OnAccept, OnPermit
<1>5. CASE HandleAccepted \/ HandlePermitted \/ SpawnConnection \/ ApplyCommitted \/ Publish
    BY <1>1, <1>5 DEF HandleAccepted, HandlePermitted, SpawnConnection, ApplyCommitted, Publish,
                      CloseAdmission
<1>6. CASE AbortAfterUnwind \/ SweepAfterUnwind \/ ReturnPanic \/ OnAcceptError \/ Unwind
    BY <1>1, <1>6 DEF AbortAfterUnwind, CloseAdmission, SweepAfterUnwind, ReturnPanic, OnAcceptError, Unwind
<1>7. ASSUME NEW c \in Conns, OnCompletion(c) \/ LogCompletion(c) PROVE answer' = answer
    BY <1>7 DEF OnCompletion, LogCompletion
<1> QED
    BY <1>1, <1>2, <1>3, <1>4, <1>5, <1>6, <1>7, StepCases DEF SupervisorStep

\* After the return nothing of a connection changes, and the result is fixed.
LEMMA ReturnedKeeps ==
    ASSUME TypeOK, Closed, [Next]_vars, pc = "returned"
    PROVE  (\A c \in Conns : conn'[c].end = conn[c].end) /\ outcome' = outcome
<1>1. CASE Commands \/ UNCHANGED vars
    BY <1>1, CommandsFrame DEF vars, stopVars
<1>2. ASSUME NEW c \in Conns, ConnectionStep(c)
      PROVE  (\A d \in Conns : conn'[d].end = conn[d].end) /\ outcome' = outcome
    BY <1>2, ConnectionAlone, ConnectionSettled, Zenon DEF Closed, connFrame, stopVars
<1> QED
    BY <1>1, <1>2, StepCases, ReturnedRests

\* finish() returns Ok only for a drain without a fault, and nothing changes after:
\* every step keeps Answered.
LEMMA KeepsAnswered ==
    TypeOK /\ Acted /\ Closed /\ Tasks /\ Faulted /\ Answered /\ [Next]_vars => Answered'
<1> SUFFICES ASSUME TypeOK, Acted, Closed, Tasks, Faulted, Answered, [Next]_vars, answer' = "Ok"
             PROVE  pc' = "returned" /\ outcome' = "Completed" /\ \A c \in Conns : conn'[c].end \in {"none", "ok"}
    BY DEF Answered
<1>1. CASE pc = "returned"
    BY <1>1, ReturnedStays, ReturnedKeeps DEF Answered
<1>2. CASE pc # "returned"
  <2>1. Finish
      BY <1>2, AnswerGiven
  <2>2. phase # "Finished" /\ phase \in Phases /\ phase # "Running"
      BY <2>1 DEF Finish, Acted, Closed, TypeOK, StopTypeOK
  <2>3. outcome' \notin {"Failed", "Cancelled", "TimedOut"}
      BY <2>1 DEF Finish
  <2>4. phase \notin Forced /\ ~fatal /\ outcome' = "Completed"
      BY <2>1, <2>2, <2>3 DEF Finish, Settle, Forced
  <2>5. \A c \in Conns : conn[c].at \in {"new", "collected"}
      BY <2>1 DEF Finish, Closed
  <2>6. \A c \in Conns : conn[c].end \in {"none", "ok"}
      BY <1>2, <2>4, <2>5 DEF Faulted, Tasks
  <2> QED
      BY <2>1, <2>4, <2>6 DEF Finish
<1> QED
    BY <1>1, <1>2

\* The drain's deadline is armed by a transition, and the supervisor leaves the
\* unwound path only by its return.
LEMMA ForcedDeadlineSpent ==
    ASSUME TypeOK, [Next]_vars,
           (AppliedForced /\ deadline = "none") \/ pc \in {"unwound", "drain", "sweep", "returned"}
    PROVE  (AppliedForced' /\ deadline' = "none") \/ pc' \in {"unwound", "drain", "sweep", "returned"}
<1> USE DEF AppliedForced, Forced
<1>1. CASE Commands
    BY <1>1, CommandsFrame DEF supVars
<1>2. CASE Step \/ OnControl \/ OnRuntime \/ OnAccept
    BY <1>2 DEF Step, OnControl, OnRuntime, OnAccept, Quiet, supVars
<1>3. CASE OnPermit \/ OnDeadline
    BY <1>3 DEF OnPermit, OnDeadline, Quiet
<1>4. CASE HandleAccepted \/ HandlePermitted \/ SpawnConnection \/ ApplyCommitted
    BY <1>4 DEF HandleAccepted, HandlePermitted, SpawnConnection, ApplyCommitted, supVars
<1>5. CASE Publish \/ AbortAfterUnwind
    BY <1>5 DEF Publish, AbortAfterUnwind, CloseAdmission
<1>6. CASE Finish \/ SweepAfterUnwind \/ ReturnPanic
    BY <1>6 DEF Finish, SweepAfterUnwind, ReturnPanic
<1>7. ASSUME NEW c \in Conns, OnCompletion(c) \/ LogCompletion(c)
      PROVE  (AppliedForced' /\ deadline' = "none") \/ pc' \in {"unwound", "drain", "sweep", "returned"}
    BY <1>7 DEF OnCompletion, LogCompletion, Quiet, supVars
<1>8. CASE OnAcceptError \/ Unwind
    BY <1>8, Zenon DEF OnAcceptError, Quiet, Unwind, supVars
<1>9. ASSUME NEW c \in Conns, ConnectionStep(c) PROVE UNCHANGED <<pc, supVars>>
    BY <1>9, ConnectionAlone DEF connFrame
<1>10. CASE UNCHANGED vars
    BY <1>10 DEF vars, supVars
<1> QED
    BY <1>1, <1>2, <1>3, <1>4, <1>5, <1>6, <1>7, <1>8, <1>9, <1>10, StepCases DEF SupervisorStep, supVars

\* A connection that owns a bridge is aborted by the spent deadline or by the
\* sweep of an unwound supervisor, and by nothing else.
LEMMA OwnerAborted ==
    ASSUME TypeOK, Acted, Tasks, SupervisorStep, NEW c \in Conns,
           conn'[c].at \in {"owning", "joining"}, conn'[c].abort
    PROVE  \/ conn[c].at = conn'[c].at /\ conn[c].abort
           \/ AppliedForced' /\ deadline' = "none"
           \/ pc' = "sweep"
<1>0. conn \in [Conns -> Connection]
    BY RecordsTyped
<1>1. CASE Step
  <2>1. CASE conn' = ForcedAbort
      BY <2>1, AbortsOnly DEF ForcedAbort, Tasks
  <2> QED
      BY <1>1, <2>1, Zenon DEF Step
<1>2. CASE OnDeadline
    BY <1>2, Zenon DEF OnDeadline, AppliedForced
<1>3. CASE SweepAfterUnwind
    BY <1>3 DEF SweepAfterUnwind
<1>4. CASE HandleAccepted \/ HandlePermitted \/ SpawnConnection
    BY <1>0, <1>4 DEF HandleAccepted, HandlePermitted, SpawnConnection, Connection
<1>5. ASSUME NEW d \in Conns, OnCompletion(d) \/ LogCompletion(d) PROVE conn[c].at = conn'[c].at /\ conn[c].abort
    BY <1>0, <1>5 DEF OnCompletion, LogCompletion, Connection
<1>6. ASSUME OnControl \/ OnRuntime \/ OnAccept \/ OnPermit \/ ApplyCommitted
      PROVE  conn' = conn
    BY <1>6, Zenon DEF OnControl, OnRuntime, OnAccept, OnPermit, ApplyCommitted
<1>7. ASSUME Publish \/ Finish \/ AbortAfterUnwind \/ ReturnPanic
      PROVE  conn' = conn
    BY <1>7, Zenon DEF Publish, Finish, AbortAfterUnwind, CloseAdmission, ReturnPanic
<1> QED
    BY <1>1, <1>2, <1>3, <1>4, <1>5, <1>6, <1>7 DEF SupervisorStep

\* abort_without_retained_upgrade passes over the held connections: every step keeps
\* UpgradeSpared.
LEMMA KeepsSpared == TypeOK /\ Acted /\ Tasks /\ UpgradeSpared /\ [Next]_vars => UpgradeSpared'
<1> SUFFICES ASSUME TypeOK, Acted, Tasks, UpgradeSpared, [Next]_vars,
                    NEW c \in Conns, conn'[c].at \in {"owning", "joining"}, conn'[c].abort
             PROVE  (AppliedForced' /\ deadline' = "none") \/ pc' \in {"unwound", "drain", "sweep", "returned"}
    BY DEF UpgradeSpared
<1>1. CASE conn[c].at \in {"owning", "joining"} /\ conn[c].abort
    BY <1>1, ForcedDeadlineSpent DEF UpgradeSpared
<1>2. CASE SupervisorStep
    BY <1>1, <1>2, OwnerAborted
<1>3. ASSUME NEW d \in Conns, ConnectionStep(d) PROVE conn[c].at \in {"owning", "joining"} /\ conn[c].abort
  <2>1. CASE c # d
      BY <1>3, <2>1, ConnectionAlone
  <2>2. CASE c = d
    <3>1. Moves(c) /\ Holds(c)
        BY <1>3, <2>2, ConnectionMoves, ConnectionHolds
    <3>2. conn[c].abort => phase # "Running"
        BY DEF Tasks, Acted, Forced
    <3> QED
        BY <3>1, <3>2 DEF Moves, Holds
  <2> QED
      BY <2>1, <2>2
<1>4. CASE Commands \/ OnAcceptError \/ Unwind \/ UNCHANGED vars
    BY <1>1, <1>4, CommandsFrame, Zenon DEF OnAcceptError, Unwind, vars
<1> QED
    BY <1>1, <1>2, <1>3, <1>4, StepCases

\* A server starts with nothing owned and nothing committed.
LEMMA ServerStarts == Init => ServerInductive
<1> SUFFICES ASSUME Init PROVE ServerInductive
    OBVIOUS
<1>0. \A c \in Conns : /\ conn[c].at = "new" /\ conn[c].abort = FALSE /\ conn[c].held = FALSE /\ conn[c].end = "none"
                        /\ bridge[c].alive = FALSE /\ bridge[c].abort = FALSE /\ bridge[c].owner = "none"
    BY DEF Init
<1>1. TypeOK
  <2>1. StopTypeOK
      BY Zenon DEF Init, StopInit, StopTypeOK, Phases
  <2>2. Switches
      BY InRuntimeAssumption, Zenon DEF Init, Switches
  <2>3. Names
      BY DEF Init, Names, Controls, Phases
  <2>4. "new" \in Ats /\ "none" \in Ends /\ "none" \in Owners
      BY DEF Ats, Ends, Owners
  <2>5. conn \in [Conns -> Connection]
      BY <2>4, Zenon DEF Init, Connection
  <2>6. bridge \in [Conns -> Bridge]
      BY <2>4, Zenon DEF Init, Bridge
  <2> QED
      BY <2>1, <2>2, <2>3, <2>5, <2>6, TypeParts
<1>2. Acted /\ Closed /\ Answered
    BY DEF Init, StopInit, Acted, Closed, Answered, AppliedForced, Forced
<1>3. Tasks /\ Bridges /\ Faulted /\ UpgradeSpared
    BY <1>0 DEF Tasks, Bridges, Faulted, UpgradeSpared
<1> QED
    BY <1>1, <1>2, <1>3 DEF ServerInductive

\* The conjunction is inductive.
LEMMA ServerKeeps == ServerInductive /\ [Next]_vars => ServerInductive'
    BY KeepsType, KeepsActed, KeepsClosed, KeepsTasks, KeepsBridges, KeepsFaulted,
       KeepsAnswered, KeepsSpared, Zenon DEF ServerInductive

\* The conjunction is an invariant of every server.
THEOREM ServerSafe == Spec => []ServerInductive
    BY ServerStarts, ServerKeeps, PTL DEF Spec

\* A join that has returned proves that every accepted connection ended, was
\* collected, and left no registered bridge alive (ServerHandleFuture).
THEOREM JoinIsProof == Spec => []JoinProvesEnd
<1>1. ServerInductive => JoinProvesEnd
    BY DEF ServerInductive, Closed, Bridges, JoinProvesEnd
<1> QED
    BY <1>1, ServerSafe, PTL

\* A server whose join answers Ok drained: its result is Completed and none of its
\* connections panicked or was taken away (classify_completion and finish).
THEOREM OkIsDrained == Spec => []OkMeansDrained
<1>1. ServerInductive => OkMeansDrained
    BY DEF ServerInductive, Answered, OkMeansDrained
<1> QED
    BY <1>1, ServerSafe, PTL

\* A forced stop aborts a connection that owns a bridge only when the forced
\* deadline is spent (abort_without_retained_upgrade).
THEOREM UpgradesAreSpared == Spec => []UpgradeSpared
<1>1. ServerInductive => UpgradeSpared
    BY DEF ServerInductive
<1> QED
    BY <1>1, ServerSafe, PTL

\* The only step that takes a new socket on.
LEMMA OnlyServed ==
    ASSUME TypeOK, Acted, [Next]_vars, NEW c \in Conns, conn[c].at = "new", conn'[c].at # "new"
    PROVE  pc = "spawning"
<1>0. conn \in [Conns -> Connection]
    BY RecordsTyped
<1>1. ASSUME NEW d \in Conns, ConnectionStep(d) PROVE FALSE
    BY <1>1, ConnectionSettled
<1>2. CASE SupervisorStep
  <2>1. ASSUME NEW d \in Conns, Collects(d) PROVE FALSE
      BY <1>0, <2>1 DEF Collects, Ended, Connection
  <2>2. ASSUME NEW d \in Conns, Serves(d) PROVE pc = "spawning"
      BY <2>2 DEF Serves
  <2> QED
      BY <1>2, <2>1, <2>2, SupervisorMoves DEF Cuts
<1>3. CASE UNCHANGED conn
    BY <1>3
<1>4. CASE Commands \/ OnAcceptError \/ Unwind \/ UNCHANGED vars
    BY <1>3, <1>4, CommandsFrame, Zenon DEF OnAcceptError, Unwind, vars
<1> QED
    BY <1>1, <1>2, <1>4, StepCases

\* A socket waits for a permit only while the listener is held.
LEMMA OnlyParked ==
    ASSUME TypeOK, [Next]_vars, pending'
    PROVE  pending \/ (listener /\ pc = "accepted")
<1>1. CASE Commands \/ UNCHANGED vars
    BY <1>1, CommandsFrame, Zenon DEF vars, supVars
<1>2. ASSUME NEW c \in Conns, ConnectionStep(c) PROVE pending' = pending
    BY <1>2, ConnectionAlone, Zenon DEF connFrame, supVars
<1>3. CASE Step \/ OnDeadline \/ OnControl \/ OnRuntime \/ OnAccept
    BY <1>3, Zenon DEF Step, OnDeadline, OnControl, OnRuntime, OnAccept, supVars
<1>4. CASE OnPermit
    BY <1>4, Zenon DEF OnPermit
<1>5. CASE HandleAccepted
    BY <1>5, Zenon DEF HandleAccepted, AdmissionOpen
<1>6. CASE HandlePermitted \/ SpawnConnection \/ ApplyCommitted \/ Finish
    BY <1>6, Zenon DEF HandlePermitted, SpawnConnection, ApplyCommitted, Finish, supVars
<1>7. CASE Publish \/ AbortAfterUnwind
    BY <1>7, Zenon DEF Publish, AbortAfterUnwind, CloseAdmission
<1>8. CASE SweepAfterUnwind \/ ReturnPanic \/ OnAcceptError \/ Unwind
    BY <1>8, Zenon DEF SweepAfterUnwind, ReturnPanic, OnAcceptError, Unwind, supVars
<1>9. ASSUME NEW c \in Conns, OnCompletion(c) \/ LogCompletion(c) PROVE pending' = pending
    BY <1>9, Zenon DEF OnCompletion, LogCompletion, supVars
<1> QED
    BY <1>1, <1>2, <1>3, <1>4, <1>5, <1>6, <1>7, <1>8, <1>9, StepCases, Zenon DEF SupervisorStep

\* Once the supervisor has acted on a stop, no socket is held for service and none
\* is served (close_admission).
THEOREM AdmissionIsClosed == Spec => AdmissionCloses
<1>1. ServerInductive /\ [Next]_vars =>
        [(applied # "Running" /\ pc \notin {"publish", "unwound"}) =>
            /\ ~pending'
            /\ \A c \in Conns : conn[c].at = "new" => conn'[c].at = "new"]_vars
    BY OnlyServed, OnlyParked DEF ServerInductive, Closed
<1> QED
    BY <1>1, ServerSafe, PTL DEF Spec, AdmissionCloses

-----------------------------------------------------------------------------
(* The limit.                                                              *)

\* The permits in use, with the one a permitted socket is about to take.
InUse == {c \in Conns : HoldsPermit(c)}

\* The supervisor holds a permit for the socket it is about to serve.
Granted == pc \in {"permitted", "spawning"}

\* The limit, kept with room for a socket that has been given its permit.
Permits ==
    Limit > 0 => /\ IsFiniteSet(InUse)
                 /\ Cardinality(InUse) <= Limit
                 /\ Granted => Cardinality(InUse) < Limit

-----------------------------------------------------------------------------

\* A permit is taken by a socket that is served with one, and by nobody else.
LEMMA PermitTaken ==
    ASSUME TypeOK, Acted, [Next]_vars
    PROVE  \/ InUse' \subseteq InUse
           \/ Granted /\ pc' = "step" /\ \E c \in Conns : InUse' \subseteq InUse \cup {c}
<1>0. conn \in [Conns -> Connection]
    BY RecordsTyped
<1>1. ASSUME NEW c \in Conns, ConnectionStep(c) PROVE InUse' \subseteq InUse
  <2>1. Moves(c) /\ \A d \in Conns : d # c => conn'[d] = conn[d] /\ bridge'[d] = bridge[d]
      BY <1>1, ConnectionMoves, ConnectionAlone
  <2> QED
      BY <2>1 DEF InUse, HoldsPermit, Moves
<1>2. CASE UNCHANGED <<conn, bridge>>
    BY <1>2 DEF InUse, HoldsPermit
<1>3. CASE SupervisorStep
  <2>1. bridge' = bridge
      BY <1>3, SupervisorMoves
  <2>2. CASE Cuts
      BY <2>1, <2>2 DEF Cuts, InUse, HoldsPermit
  <2>3. ASSUME NEW c \in Conns, Collects(c) PROVE InUse' \subseteq InUse
      BY <1>0, <2>1, <2>3 DEF Collects, InUse, HoldsPermit, Connection, Live, Running, Suspended
  <2>4. ASSUME NEW c \in Conns, Serves(c) PROVE InUse' \subseteq InUse \cup {c}
      BY <1>0, <2>1, <2>4 DEF Serves, InUse, HoldsPermit, Connection
  <2>5. ASSUME NEW c \in Conns, Serves(c) PROVE Granted /\ pc' = "step"
      BY <2>5 DEF Serves, Granted
  <2> QED
      BY <1>2, <1>3, <2>1, <2>2, <2>3, <2>4, <2>5, SupervisorMoves
<1>4. CASE Commands \/ OnAcceptError \/ Unwind \/ UNCHANGED vars
    BY <1>2, <1>4, CommandsFrame, Zenon DEF OnAcceptError, Unwind, vars
<1> QED
    BY <1>1, <1>3, <1>4, StepCases

\* Only the limit's permit lets the supervisor go on to serve a waiting socket.
LEMMA PermitAsked ==
    ASSUME TypeOK, [Next]_vars, Granted', Limit # 0
    PROVE  Granted \/ (PermitFree /\ UNCHANGED <<conn, bridge>>)
<1> USE DEF Granted
<1>1. CASE Commands \/ UNCHANGED vars
    BY <1>1, CommandsFrame DEF vars
<1>2. ASSUME NEW c \in Conns, ConnectionStep(c) PROVE pc' = pc
    BY <1>2, ConnectionAlone DEF connFrame
<1>3. CASE OnPermit
    BY <1>3 DEF OnPermit
<1>4. CASE Step \/ OnDeadline \/ OnControl \/ OnRuntime \/ OnAccept
    BY <1>4 DEF Step, OnDeadline, OnControl, OnRuntime, OnAccept
<1>5. CASE HandleAccepted \/ HandlePermitted \/ SpawnConnection \/ ApplyCommitted \/ Publish \/ Finish
    BY <1>5 DEF HandleAccepted, HandlePermitted, SpawnConnection, ApplyCommitted, Publish, Finish
<1>6. CASE AbortAfterUnwind \/ SweepAfterUnwind \/ ReturnPanic \/ OnAcceptError \/ Unwind
    BY <1>6 DEF AbortAfterUnwind, SweepAfterUnwind, ReturnPanic, OnAcceptError, Unwind
<1>7. ASSUME NEW c \in Conns, OnCompletion(c) \/ LogCompletion(c) PROVE pc' = pc \/ pc' \in {"apply", "step"}
    BY <1>7 DEF OnCompletion, LogCompletion
<1> QED
    BY <1>1, <1>2, <1>3, <1>4, <1>5, <1>6, <1>7, StepCases DEF SupervisorStep

\* Every step keeps the permits within the limit.
LEMMA KeepsPermits == TypeOK /\ Acted /\ Permits /\ [Next]_vars => Permits'
<1> SUFFICES ASSUME TypeOK, Acted, Permits, [Next]_vars, Limit > 0
             PROVE  /\ IsFiniteSet(InUse') /\ Cardinality(InUse') <= Limit
                    /\ Granted' => Cardinality(InUse') < Limit
    BY DEF Permits
<1>0. IsFiniteSet(InUse) /\ Cardinality(InUse) \in Nat /\ Cardinality(InUse) <= Limit /\ Limit \in Nat
    BY FS_CardinalityType, LimitAssumption DEF Permits
<1>1. CASE InUse' \subseteq InUse
  <2>1. IsFiniteSet(InUse') /\ Cardinality(InUse') \in Nat /\ Cardinality(InUse') <= Cardinality(InUse)
      BY <1>0, <1>1, FS_Subset, FS_CardinalityType
  <2>2. Granted' => Cardinality(InUse) < Limit
      BY <1>0, PermitAsked DEF Permits, PermitFree, InUse
  <2> QED
      BY <1>0, <2>1, <2>2
<1>2. ASSUME NEW c \in Conns, InUse' \subseteq InUse \cup {c}, Granted, pc' = "step"
      PROVE  IsFiniteSet(InUse') /\ Cardinality(InUse') <= Limit
  <2>1. /\ IsFiniteSet(InUse \cup {c}) /\ Cardinality(InUse \cup {c}) \in Nat
        /\ Cardinality(InUse \cup {c}) <= Cardinality(InUse) + 1
    <3>1. IsFiniteSet(InUse \cup {c})
        BY <1>0, FS_AddElement
    <3>2. Cardinality(InUse \cup {c}) \in {Cardinality(InUse), Cardinality(InUse) + 1}
        BY <1>0, FS_AddElement
    <3> QED
        BY <1>0, <3>1, <3>2
  <2>2. IsFiniteSet(InUse') /\ Cardinality(InUse') \in Nat /\ Cardinality(InUse') <= Cardinality(InUse \cup {c})
      BY <1>2, <2>1, FS_Subset, FS_CardinalityType
  <2>3. Cardinality(InUse) < Limit
      BY <1>2 DEF Permits
  <2> QED
      BY <1>0, <2>1, <2>2, <2>3
<1> QED
    BY <1>1, <1>2, PermitTaken DEF Granted

\* No permit is in use when a server starts.
LEMMA PermitsStart == Init => Permits
<1> SUFFICES ASSUME Init PROVE Permits
    OBVIOUS
<1>1. \A c \in Conns : conn[c].at = "new" /\ bridge[c].alive = FALSE
    BY DEF Init
<1>2. InUse = {}
    BY <1>1 DEF InUse, HoldsPermit, Live, Running, Suspended
<1> QED
    BY <1>2, FS_EmptySet, LimitAssumption DEF Permits, Granted, Init

\* For every limit and every set of sockets: the transports in use, connections and
\* the bridges that outlive their task, never exceed the limit (ConnectionPermit).
THEOREM LimitIsHeld == Spec => []LimitHeld
<1>1. Permits => LimitHeld
    BY DEF Permits, LimitHeld, InUse, HoldsPermit
<1>2. ServerInductive /\ Permits /\ [Next]_vars => Permits'
    BY KeepsPermits DEF ServerInductive
<1> QED
    BY <1>1, <1>2, PermitsStart, ServerSafe, PTL DEF Spec

-----------------------------------------------------------------------------
(* The caller's contract.                                                  *)

\* What the contract sees of a server.
Stage == IF listener THEN "serving" ELSE IF AppliedForced THEN "forced" ELSE "draining"
Working == {c \in Conns : conn[c].at \in Live}
CutOff == {c \in Conns : conn[c].at \in Live /\ conn[c].abort}

\* A step the contract allows.
Kept == Promise!ContractNext \/ UNCHANGED Promise!contractVars

\* A step that changes nothing a caller can see.
LEMMA Unseen ==
    ASSUME UNCHANGED <<listener, applied>>, Working' = Working, CutOff' = CutOff,
           pc' = "returned" <=> pc = "returned"
    PROVE  Kept
    BY DEF Kept, Promise!contractVars, Working, CutOff, AppliedForced

\* A socket is taken on while the listener is held.
LEMMA TakesOn ==
    ASSUME UNCHANGED <<listener, applied>>, listener, NEW c \in Conns, c \notin Working,
           Working' = Working \cup {c}, CutOff' = CutOff, pc # "returned", pc' # "returned"
    PROVE  Kept
<1>0. listener'
    BY Zenon
<1>1. Stage = "serving" /\ Stage' = "serving"
    BY <1>0, Zenon DEF Stage
<1>2. Promise!TakeOn(c)
    BY <1>1 DEF Promise!TakeOn, Working, CutOff, Stage
<1> QED
    BY <1>2 DEF Kept, Promise!ContractNext

\* A task ends before the join has answered.
LEMMA Leaves ==
    ASSUME UNCHANGED <<listener, applied, pc>>, NEW c \in Conns, c \in Working, pc # "returned",
           Working' = Working \ {c}, CutOff' = CutOff \ {c}
    PROVE  Kept
<1>1. Promise!End(c)
    BY DEF Promise!End, Working, CutOff, AppliedForced
<1> QED
    BY <1>1 DEF Kept, Promise!ContractNext

\* Tasks are told to go by a forced stop.
LEMMA CutsOff ==
    ASSUME UNCHANGED <<listener, applied>>, ~listener, AppliedForced, pc # "returned", pc' # "returned",
           Working' = Working, CutOff \subseteq CutOff', CutOff' \subseteq Working
    PROVE  Kept
<1>1. Promise!Cut
    BY DEF Promise!Cut, Working, CutOff, AppliedForced
<1> QED
    BY <1>1 DEF Kept, Promise!ContractNext

\* The listener is given up, or a forced phase applied.
LEMMA Tightens ==
    ASSUME UNCHANGED <<conn>>, listener' => listener, AppliedForced => AppliedForced',
           pc # "returned", pc' # "returned"
    PROVE  Kept
<1>1. CASE Stage' = Stage
    BY <1>1 DEF Kept, Promise!contractVars, Stage, AppliedForced
<1>2. ASSUME Stage' # Stage PROVE Promise!Tighten("draining") \/ Promise!Tighten("forced")
    BY <1>2 DEF Promise!Tighten, Stage, AppliedForced
<1> QED
    BY <1>1, <1>2 DEF Kept, Promise!ContractNext

\* The join answers with nothing left.
LEMMA Answers ==
    ASSUME UNCHANGED <<conn, listener, applied>>, ~listener, Working = {}, pc # "returned", pc' = "returned"
    PROVE  Kept
<1>1. Promise!Answer
    BY DEF Promise!Answer, Working, CutOff, AppliedForced
<1> QED
    BY <1>1 DEF Kept, Promise!ContractNext

\* Every step of the server is a step of its contract, or invisible in it.
LEMMA PromiseStep == ServerInductive /\ [Next]_vars => Kept
<1> SUFFICES ASSUME ServerInductive, [Next]_vars PROVE Kept
    OBVIOUS
<1>0. TypeOK /\ Acted /\ Closed /\ Tasks /\ conn \in [Conns -> Connection]
    BY RecordsTyped DEF ServerInductive
<1>1. ASSUME UNCHANGED conn PROVE Working' = Working /\ CutOff' = CutOff
    BY <1>1 DEF Working, CutOff
<1>2. CASE Commands \/ UNCHANGED vars
  <2>1. UNCHANGED <<listener, applied, conn, pc>>
      BY <1>2, CommandsFrame, Zenon DEF vars, supVars
  <2> QED
      BY <1>1, <2>1, Unseen
<1>3. ASSUME NEW c \in Conns, ConnectionStep(c) PROVE Kept
  <2>1. UNCHANGED <<listener, applied, pc>>
      BY <1>0, <1>3, ConnectionAlone, Zenon DEF connFrame, supVars
  <2>2. Moves(c) /\ \A d \in Conns : d # c => conn'[d] = conn[d]
      BY <1>0, <1>3, ConnectionMoves, ConnectionAlone
  <2>3. CASE conn'[c] = conn[c] \/ (conn[c].at \in Live /\ conn'[c].at \in Live)
    <3>1. Working' = Working /\ CutOff' = CutOff
        BY <2>2, <2>3 DEF Moves, Working, CutOff
    <3> QED
        BY <2>1, <3>1, Unseen
  <2>4. CASE conn[c].at \in Live /\ conn'[c].at = "ended"
    <3>1. pc # "returned"
        BY <1>0, <2>4 DEF Closed, Live, Running, Suspended
    <3>2. c \in Working /\ Working' = Working \ {c} /\ CutOff' = CutOff \ {c}
        BY <2>2, <2>4 DEF Working, CutOff, Live, Running, Suspended
    <3> QED
        BY <2>1, <3>1, <3>2, Leaves
  <2> QED
      BY <2>2, <2>3, <2>4 DEF Moves
<1>4. CASE Step \/ OnDeadline \/ SweepAfterUnwind
  <2>1. UNCHANGED <<listener, applied>> /\ pc \in {"step", "select", "drain"} /\ pc' # "returned"
      BY <1>4 DEF Step, OnDeadline, SweepAfterUnwind
  <2>2. conn' = conn \/ (AppliedForced /\ \E cs \in SUBSET Conns : conn' = Aborted(cs))
      BY <1>0, <1>4 DEF Step, OnDeadline, SweepAfterUnwind, ForcedAbort, Owned, Acted
  <2>3. CASE conn' = conn
      BY <1>1, <2>1, <2>3, Unseen
  <2>4. ASSUME NEW cs, conn' = Aborted(cs), AppliedForced PROVE Kept
    <3>1. ~listener
        BY <1>0, <2>1, <2>4 DEF Closed, AppliedForced, Forced
    <3>2. Working' = Working /\ CutOff \subseteq CutOff' /\ CutOff' \subseteq Working
        BY <1>0, <2>4, AbortsOnly DEF Working, CutOff
    <3> QED
        BY <2>1, <2>4, <3>1, <3>2, CutsOff
  <2> QED
      BY <2>2, <2>3, <2>4
<1>5. CASE SpawnConnection
  <2>1. UNCHANGED <<listener, applied>> /\ pc # "returned" /\ pc' # "returned" /\ listener
      BY <1>0, <1>5 DEF SpawnConnection, Closed, supVars
  <2>2. ASSUME NEW c \in Conns, conn[c].at = "new", conn' = [conn EXCEPT ![c].at = "serving"]
        PROVE  Kept
    <3>1. \A d \in Conns : conn'[d] = IF d = c THEN [conn[c] EXCEPT !.at = "serving"] ELSE conn[d]
        BY <1>0, <2>2
    <3>2. conn'[c].at = "serving" /\ conn'[c].abort = conn[c].abort /\ ~conn[c].abort
        BY <1>0, <2>2 DEF Tasks, Connection
    <3>3. c \notin Working /\ Working' = Working \cup {c} /\ CutOff' = CutOff
        BY <2>2, <3>1, <3>2 DEF Working, CutOff, Live, Running, Suspended
    <3> QED
        BY <2>1, <2>2, <3>3, TakesOn
  <2> QED
      BY <1>5, <2>2 DEF SpawnConnection
<1>6. ASSUME NEW c \in Conns, OnCompletion(c) \/ LogCompletion(c) PROVE Kept
  <2>1. /\ UNCHANGED <<listener, applied>> /\ pc # "returned" /\ pc' # "returned"
        /\ conn[c].at = "ended" /\ conn' = [conn EXCEPT ![c].at = "collected"]
      BY <1>6 DEF OnCompletion, LogCompletion, Quiet, Ended, supVars
  <2>2. \A d \in Conns : conn'[d].at = (IF d = c THEN "collected" ELSE conn[d].at) /\ conn'[d].abort = conn[d].abort
      BY <1>0, <2>1 DEF Connection
  <2>3. Working' = Working /\ CutOff' = CutOff
      BY <2>1, <2>2 DEF Working, CutOff, Live, Running, Suspended
  <2> QED
      BY <2>1, <2>3, Unseen
<1>7. CASE OnControl \/ OnRuntime \/ OnAccept \/ OnPermit \/ OnAcceptError \/ HandleAccepted
           \/ HandlePermitted
  <2>1. UNCHANGED <<listener, applied, conn>> /\ pc # "returned" /\ pc' # "returned"
      BY <1>7 DEF OnControl, OnRuntime, OnAccept, OnPermit, OnAcceptError, HandleAccepted,
                  HandlePermitted, Quiet, supVars
  <2> QED
      BY <1>1, <2>1, Unseen
<1>8. CASE ApplyCommitted \/ Publish \/ AbortAfterUnwind \/ Unwind
  <2>1. UNCHANGED conn /\ pc # "returned" /\ pc' # "returned" /\ (listener' => listener)
    <3>1. UNCHANGED conn /\ (listener' => listener)
      <4>1. CASE ApplyCommitted \/ Unwind
        <5>1. UNCHANGED <<conn, listener>>
            BY <4>1, Zenon DEF ApplyCommitted, Unwind
        <5> QED
            BY <5>1, Zenon
      <4>2. CASE Publish \/ AbortAfterUnwind
          BY <4>2, Zenon DEF Publish, AbortAfterUnwind, CloseAdmission
      <4> QED
          BY <1>8, <4>1, <4>2, Zenon
    <3>2. pc # "returned" /\ pc' # "returned"
        BY <1>8, Zenon DEF ApplyCommitted, Publish, AbortAfterUnwind, Unwind
    <3> QED
        BY <3>1, <3>2
  <2>2. AppliedForced => AppliedForced'
      BY <1>0, ForcedStays
  <2> QED
      BY <2>1, <2>2, Tightens
<1>9. CASE Finish \/ ReturnPanic
  <2>1. UNCHANGED <<conn, listener, applied>> /\ pc \in {"finish", "sweep"} /\ pc' = "returned"
      BY <1>9 DEF Finish, ReturnPanic, supVars
  <2>2. ~listener
      BY <1>0, <2>1 DEF Closed, Acted, AppliedForced, Forced
  <2>3. \A c \in Conns : conn[c].at \in {"new", "collected"}
      BY <1>0, <1>9 DEF Finish, ReturnPanic, Closed, Owned
  <2>4. Working = {}
      BY <2>3 DEF Working, Live, Running, Suspended
  <2> QED
      BY <2>1, <2>2, <2>4, Answers
<1> QED
    BY <1>2, <1>3, <1>4, <1>5, <1>6, <1>7, <1>8, <1>9, StepCases, Zenon DEF SupervisorStep

\* Server implements ServerContract, for every set of sockets, every limit, inside a
\* runtime or outside one: nothing is taken on once a stop has been acted on, a stop
\* never relaxes, a connection is aborted by a forced stop alone, and join answers
\* once, with no connection left (http/server.rs).
THEOREM ServerKeepsPromise == Spec => PromiseKept
<1>1. Init => Promise!ContractInit
    BY DEF Init, Promise!ContractInit, AppliedForced, Forced, Live, Running, Suspended
<1>2. ServerInductive /\ [Next]_vars => [Promise!ContractNext]_(Promise!contractVars)
    BY PromiseStep DEF Kept
<1> QED
    BY <1>1, <1>2, ServerSafe, PTL DEF Spec, PromiseKept, Promise!ContractSpec

=============================================================================
