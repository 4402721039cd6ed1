----------------------------- MODULE ServerSteps -----------------------------
(***************************************************************************)
(* What the steps of an owned HTTP server may do, whatever its sockets,    *)
(* its limit and its runtime.                                              *)
(*                                                                         *)
(* First the stop state of server_stop.rs alone: StopConsistent is         *)
(* inductive with the types.  Then that a server implements it: the        *)
(* supervisor and the handle move it by its own five events and by nothing *)
(* else.  Then what a step of a connection, and one of the supervisor, may *)
(* change, and that every step keeps the types, what the supervisor has    *)
(* acted on, and what it owns.                                             *)
(***************************************************************************)
EXTENDS Server, TLAPS

-----------------------------------------------------------------------------
(* The stop state.                                                         *)

StopInv == StopTypeOK /\ StopConsistent

\* Every event keeps the types and the consistency of the committed stop state.
LEMMA StopInductive == StopInv /\ [StopNext]_stopVars => StopInv'
<1> SUFFICES ASSUME StopInv, [StopNext]_stopVars
             PROVE  StopInv'
    OBVIOUS
<1> USE DEF StopInv, StopTypeOK, StopConsistent, Phases, Forced
<1>1. CASE ApplyGraceful
    BY <1>1, Zenon DEF ApplyGraceful
<1>2. ASSUME NEW asked \in BOOLEAN, ApplyForced(asked)
      PROVE  StopInv'
    BY <1>2 DEF ApplyForced
<1>3. CASE ApplyFatal
    BY <1>3, Zenon DEF ApplyFatal
<1>4. CASE ApplyDeadline
    BY <1>4 DEF ApplyDeadline
<1>5. CASE Settle
  <2>1. CASE phase \in {"Running", "Finished"}
      BY <1>5, <2>1 DEF Settle, stopVars
  <2>2. CASE phase \in Forced
      BY <1>5, <2>2, Zenon DEF Settle
  <2>3. CASE phase = "Graceful"
    <3>1. outcome' = IF fatal THEN "Failed" ELSE "Completed"
        BY <1>5, <2>3 DEF Settle
    <3>2. outcome' \in {"Failed", "Completed"}
        BY <3>1
    <3> QED
        BY <1>5, <2>3, <3>2, Zenon DEF Settle
  <2> QED
      BY <2>1, <2>2, <2>3
<1>6. CASE UNCHANGED stopVars
    BY <1>6 DEF stopVars
<1> QED
    BY <1>1, <1>2, <1>3, <1>4, <1>5, <1>6 DEF StopNext

\* The committed stop state is consistent in every state: a result exists exactly
\* when the server is finished, a drain or a timeout has its minted deadline, and
\* only a drain holds a fatal fact (CommittedStop).
THEOREM StopSafety == StopSpec => [](StopTypeOK /\ StopConsistent)
<1>1. StopInit => StopInv
    BY Zenon DEF StopInit, StopInv, StopTypeOK, StopConsistent, Phases, Forced
<1> QED
    BY <1>1, StopInductive, PTL DEF StopSpec, StopInv

\* The guards of apply_locked never take a phase back: admission never reopens and
\* a forced phase is not exchanged for the other.
THEOREM PhasesAdvance == StopSpec => PhaseOnlyAdvances
<1> DEFINE Advances == CASE phase = "Running"  -> TRUE
                         [] phase = "Graceful" -> phase' # "Running"
                         [] OTHER              -> phase' \in {phase, "Finished"}
<1>1. StopInv /\ [StopNext]_stopVars => [Advances]_stopVars
  <2> SUFFICES ASSUME StopInv, StopNext
               PROVE  Advances
      OBVIOUS
  <2> USE DEF StopInv, StopTypeOK, Phases, Forced
  <2>1. CASE ApplyGraceful
      BY <2>1 DEF ApplyGraceful
  <2>2. ASSUME NEW asked \in BOOLEAN, ApplyForced(asked)
        PROVE  Advances
      BY <2>2 DEF ApplyForced
  <2>3. CASE ApplyFatal
      BY <2>3 DEF ApplyFatal
  <2>4. CASE ApplyDeadline
      BY <2>4 DEF ApplyDeadline
  <2>5. CASE Settle
      BY <2>5 DEF Settle, stopVars
  <2> QED
      BY <2>1, <2>2, <2>3, <2>4, <2>5 DEF StopNext
<1>2. StopSpec => []StopInv
    BY StopSafety, PTL DEF StopInv
<1> QED
    BY <1>1, <1>2, PTL DEF StopSpec, PhaseOnlyAdvances

\* commit_settlement fixes the result once, from the phase committed before it, and
\* no later event touches it.
THEOREM ResultImmutable == StopSpec => ResultFixedOnce
<1> DEFINE Fixed == IF outcome # "Pending"
                      THEN outcome' = outcome
                      ELSE outcome' # "Pending" =>
                             /\ phase \notin {"Running", "Finished"} /\ phase' = "Finished"
                             /\ phase \in Forced => outcome' = phase
<1>1. StopInv /\ [StopNext]_stopVars => [Fixed]_stopVars
  <2> SUFFICES ASSUME StopInv, StopNext
               PROVE  Fixed
      OBVIOUS
  <2> USE DEF StopInv, StopTypeOK, StopConsistent, Phases, Forced
  <2>1. CASE ApplyGraceful
      BY <2>1 DEF ApplyGraceful
  <2>2. ASSUME NEW asked \in BOOLEAN, ApplyForced(asked)
        PROVE  Fixed
      BY <2>2 DEF ApplyForced
  <2>3. CASE ApplyFatal
      BY <2>3 DEF ApplyFatal
  <2>4. CASE ApplyDeadline
      BY <2>4 DEF ApplyDeadline
  <2>5. CASE Settle
      BY <2>5 DEF Settle, stopVars
  <2> QED
      BY <2>1, <2>2, <2>3, <2>4, <2>5 DEF StopNext
<1>2. StopSpec => []StopInv
    BY StopSafety, PTL DEF StopInv
<1> QED
    BY <1>1, <1>2, PTL DEF StopSpec, ResultFixedOnce

-----------------------------------------------------------------------------
(* A server implements it.                                                 *)

\* The handle's commands and the runtime: a graceful or a forced event, or none.
LEMMA CommandsImplement ==
    Shutdown \/ Cancel \/ Abandon \/ Publishing \/ FireRuntime => [StopNext]_stopVars
    BY Zenon DEF Shutdown, Cancel, Abandon, Publishing, Send, FireRuntime, StopNext, stopVars

\* The supervisor's loop: what it selects is one event, and what it does about
\* a committed phase is none.
LEMMA SupervisorImplements == SupervisorStep => [StopNext]_stopVars
<1>1. ASSUME Step \/ OnControl \/ OnAccept \/ OnPermit \/ HandleAccepted \/ HandlePermitted
             \/ SpawnConnection \/ ApplyCommitted
      PROVE  UNCHANGED stopVars
    BY <1>1 DEF Step, OnControl, OnAccept, OnPermit, HandleAccepted, HandlePermitted, SpawnConnection,
                ApplyCommitted
<1>2. ASSUME Publish \/ AbortAfterUnwind \/ SweepAfterUnwind \/ ReturnPanic
      PROVE  UNCHANGED stopVars
    BY <1>2 DEF Publish, AbortAfterUnwind, CloseAdmission, SweepAfterUnwind, ReturnPanic
<1>3. ASSUME OnDeadline \/ OnRuntime \/ Finish
      PROVE  [StopNext]_stopVars
    BY <1>3 DEF OnDeadline, OnRuntime, Finish, StopNext
<1>4. ASSUME NEW c \in Conns, OnCompletion(c) \/ LogCompletion(c)
      PROVE  [StopNext]_stopVars
    BY <1>4 DEF OnCompletion, LogCompletion, StopNext
<1> QED
    BY <1>1, <1>2, <1>3, <1>4 DEF SupervisorStep

\* A connection and its bridge never touch the stop state.
LEMMA ConnectionsImplement ==
    ASSUME NEW c \in Conns, ConnectionStep(c)
    PROVE  UNCHANGED stopVars
    BY DEF ConnectionStep, Offer, OfferLate, TakeOffer, Hold, Decide, CommitTransport, JoinBridge,
           WindDown, Refused, EndConnection, LoseConnection, BridgeEnds, connFrame

\* Every step of a server is an event of its stop state, or none.
LEMMA StepsImplement == [Next]_vars => [StopNext]_stopVars
<1> SUFFICES ASSUME [Next]_vars PROVE [StopNext]_stopVars
    OBVIOUS
<1>1. CASE UNCHANGED vars
    BY <1>1 DEF vars
<1>2. CASE OnAcceptError \/ Unwind
    BY <1>2, Zenon DEF OnAcceptError, Unwind, StopNext
<1>3. CASE \E c \in Conns : ConnectionStep(c)
    BY <1>3, ConnectionsImplement
<1> QED
    BY <1>1, <1>2, <1>3, CommandsImplement, SupervisorImplements DEF Next

\* Server implements ServerStop, for every set of sockets, every limit, inside
\* a runtime or outside one.
LEMMA ServerImplementsStop == Spec => StopSpec
<1>1. Init => StopInit
    BY DEF Init
<1> QED
    BY <1>1, StepsImplement, PTL DEF Spec, StopSpec

\* The stop state of a running server is consistent, whatever is going on
\* around it: finished exactly when its result is fixed, never timed out
\* without the one aggregate deadline, a fatal fact held by a drain alone.
THEOREM ServerStopConsistent == Spec => []StopConsistent
    BY ServerImplementsStop, StopSafety, PTL

\* No step of a server's handle, supervisor or connections moves its phase
\* back, or changes a result once it is fixed.
THEOREM ServerNeverReopens == Spec => PhaseOnlyAdvances /\ ResultFixedOnce
    BY ServerImplementsStop, PhasesAdvance, ResultImmutable, PTL

-----------------------------------------------------------------------------
(* What a step of one connection, or of its bridge, may do.                *)

\* A connection's step leaves the supervisor, the stop state and the other
\* connections alone.
LEMMA ConnectionAlone ==
    ASSUME TypeOK, NEW c \in Conns, ConnectionStep(c)
    PROVE  /\ UNCHANGED connFrame
           /\ \A d \in Conns : d # c => conn'[d] = conn[d] /\ bridge'[d] = bridge[d]
<1> USE DEF TypeOK
<1>1. CASE Offer(c) \/ OfferLate(c) \/ TakeOffer(c) \/ Hold(c)
    BY <1>1 DEF Offer, OfferLate, TakeOffer, Hold
<1>2. CASE Decide(c) \/ CommitTransport(c)
    BY <1>2 DEF Decide, CommitTransport
<1>3. CASE JoinBridge(c) \/ WindDown(c) \/ Refused(c)
    BY <1>3 DEF JoinBridge, WindDown, Refused
<1>4. CASE EndConnection(c) \/ LoseConnection(c) \/ BridgeEnds(c)
    BY <1>4 DEF EndConnection, LoseConnection, BridgeEnds
<1> QED
    BY <1>1, <1>2, <1>3, <1>4 DEF ConnectionStep

\* The types of the two records, with their fields' types by name.
Ats == Live \cup {"new", "ended", "collected"}
Ends == {"none", "ok", "panicked", "cancelled"}
Owners == {"none", "channel", "connection", "refused", "retention", "nobody"}
Connection == [at : Ats, abort : BOOLEAN, held : BOOLEAN, end : Ends]
Bridge == [alive : BOOLEAN, abort : BOOLEAN, owner : Owners]

\* The type invariant, in those terms.
LEMMA RecordsTyped == TypeOK => conn \in [Conns -> Connection] /\ bridge \in [Conns -> Bridge]
    BY Zenon DEF TypeOK, Connection, Bridge, Ats, Ends, Owners

\* One lemma for each kind of update a step makes to one of the two records.
LEMMA AtTyped ==
    ASSUME NEW f \in [Conns -> Connection], NEW c \in Conns, NEW a \in Ats
    PROVE  [f EXCEPT ![c].at = a] \in [Conns -> Connection]
<1>1. [f[c] EXCEPT !.at = a] \in Connection
    BY Zenon DEF Connection
<1> QED
    BY <1>1, Zenon

LEMMA HeldTyped ==
    ASSUME NEW f \in [Conns -> Connection], NEW c \in Conns, NEW a \in Ats, NEW h \in BOOLEAN
    PROVE  [f EXCEPT ![c].at = a, ![c].held = h] \in [Conns -> Connection]
<1>1. [f[c] EXCEPT !.at = a, !.held = h] \in Connection
    BY Zenon DEF Connection
<1> QED
    BY <1>1, Zenon

LEMMA EndTyped ==
    ASSUME NEW f \in [Conns -> Connection], NEW c \in Conns, NEW a \in Ats, NEW e \in Ends
    PROVE  [f EXCEPT ![c].at = a, ![c].end = e] \in [Conns -> Connection]
<1>1. [f[c] EXCEPT !.at = a, !.end = e] \in Connection
    BY Zenon DEF Connection
<1> QED
    BY <1>1, Zenon

LEMMA OwnerTyped ==
    ASSUME NEW f \in [Conns -> Bridge], NEW c \in Conns, NEW o \in Owners
    PROVE  [f EXCEPT ![c].owner = o] \in [Conns -> Bridge]
<1>1. [f[c] EXCEPT !.owner = o] \in Bridge
    BY Zenon DEF Bridge
<1> QED
    BY <1>1, Zenon

LEMMA AliveTyped ==
    ASSUME NEW f \in [Conns -> Bridge], NEW c \in Conns, NEW x \in BOOLEAN
    PROVE  [f EXCEPT ![c].alive = x] \in [Conns -> Bridge]
<1>1. [f[c] EXCEPT !.alive = x] \in Bridge
    BY Zenon DEF Bridge
<1> QED
    BY <1>1, Zenon

LEMMA AbortTyped ==
    ASSUME NEW f \in [Conns -> Bridge], NEW c \in Conns, NEW x \in BOOLEAN
    PROVE  [f EXCEPT ![c].abort = x] \in [Conns -> Bridge]
<1>1. [f[c] EXCEPT !.abort = x] \in Bridge
    BY Zenon DEF Bridge
<1> QED
    BY <1>1, Zenon

LEMMA RefusalTyped ==
    ASSUME NEW f \in [Conns -> Bridge], NEW c \in Conns, NEW o \in Owners, NEW x \in BOOLEAN
    PROVE  [f EXCEPT ![c].owner = o, ![c].abort = x] \in [Conns -> Bridge]
<1>1. [f[c] EXCEPT !.owner = o, !.abort = x] \in Bridge
    BY Zenon DEF Bridge
<1> QED
    BY <1>1, Zenon

LEMMA OfferTyped ==
    ASSUME NEW f \in [Conns -> Bridge], NEW c \in Conns, NEW o \in Owners, NEW x \in BOOLEAN
    PROVE  [f EXCEPT ![c] = [alive |-> TRUE, abort |-> x, owner |-> o]] \in [Conns -> Bridge]
<1>1. [alive |-> TRUE, abort |-> x, owner |-> o] \in Bridge
    BY Zenon DEF Bridge
<1> QED
    BY <1>1, Zenon

\* The values the steps write.
LEMMA FieldsAre ==
    /\ "serving" \in Ats /\ "taking" \in Ats /\ "deciding" \in Ats /\ "owning" \in Ats
    /\ "joining" \in Ats /\ "refusing" \in Ats /\ "draining" \in Ats /\ "ended" \in Ats /\ "collected" \in Ats
    /\ "ok" \in Ends /\ "panicked" \in Ends /\ "cancelled" \in Ends
    /\ "channel" \in Owners /\ "nobody" \in Owners /\ "connection" \in Owners /\ "refused" \in Owners
    BY DEF Ats, Ends, Owners, Live, Running, Suspended

\* A step of a connection writes values of their types.
LEMMA ConnectionTyped ==
    ASSUME TypeOK, NEW c \in Conns, ConnectionStep(c)
    PROVE  conn' \in [Conns -> Connection] /\ bridge' \in [Conns -> Bridge]
<1> conn \in [Conns -> Connection] /\ bridge \in [Conns -> Bridge]
    BY RecordsTyped
<1> USE FieldsAre
<1>1. CASE Offer(c)
    BY <1>1, OfferTyped, Zenon DEF Offer
<1>2. CASE OfferLate(c)
    BY <1>2, OfferTyped, Zenon DEF OfferLate
<1>3. CASE TakeOffer(c)
    BY <1>3, AtTyped, Zenon DEF TakeOffer
<1>4. CASE Hold(c)
    BY <1>4, HeldTyped, Zenon DEF Hold
<1>5. CASE JoinBridge(c)
    BY <1>5, HeldTyped, Zenon DEF JoinBridge
<1>6. CASE WindDown(c)
  <2>1. conn' \in [Conns -> Connection]
      BY <1>6, AtTyped, Zenon DEF WindDown
  <2>2. bridge' \in [Conns -> Bridge]
      BY <1>6, RefusalTyped, Zenon DEF WindDown
  <2> QED
      BY <2>1, <2>2
<1>7. CASE Refused(c)
    BY <1>7, AtTyped, Zenon DEF Refused
<1>8. CASE EndConnection(c)
    BY <1>8, EndTyped, Zenon DEF EndConnection
<1>9. CASE BridgeEnds(c)
    BY <1>9, AliveTyped, Zenon DEF BridgeEnds
<1>10. CASE Decide(c)
  <2>1. CASE /\ bridge' = [bridge EXCEPT ![c].owner = "nobody", ![c].abort = TRUE]
             /\ conn' = [conn EXCEPT ![c].at = "serving"]
      BY <2>1, AtTyped, RefusalTyped, Zenon
  <2>2. CASE /\ bridge' = [bridge EXCEPT ![c].owner = "connection"]
             /\ conn' = [conn EXCEPT ![c].at = "owning"]
      BY <2>2, AtTyped, OwnerTyped, Zenon
  <2> QED
      BY <1>10, <2>1, <2>2, Zenon DEF Decide
<1>11. CASE CommitTransport(c)
  <2>1. PICK cancelled \in BOOLEAN : bridge' = [bridge EXCEPT ![c].abort = bridge[c].abort \/ cancelled]
      BY <1>11, Zenon DEF CommitTransport
  <2>2. (bridge[c].abort \/ cancelled) \in BOOLEAN
      OBVIOUS
  <2>3. bridge' \in [Conns -> Bridge]
      BY <2>1, <2>2, AbortTyped, Zenon
  <2>4. conn' = [conn EXCEPT ![c].at = "joining"]
      BY <1>11, Zenon DEF CommitTransport
  <2> QED
      BY <2>3, <2>4, AtTyped, Zenon
<1>12. CASE LoseConnection(c)
  <2>1. Orphaned(c) \in Bridge
    <3>1. bridge[c] \in Bridge
        OBVIOUS
    <3>2. Orphaned(c).owner \in Owners
        BY <3>1 DEF Orphaned, Bridge, Owners
    <3> QED
        BY <3>1, <3>2, Zenon DEF Orphaned, Bridge
  <2>2. bridge' \in [Conns -> Bridge]
      BY <1>12, <2>1, Zenon DEF LoseConnection
  <2>3. CASE conn' = [conn EXCEPT ![c].at = "ended", ![c].end = "panicked"]
      BY <2>2, <2>3, EndTyped, Zenon
  <2>4. CASE conn' = [conn EXCEPT ![c].at = "ended", ![c].end = "cancelled"]
      BY <2>2, <2>4, EndTyped, Zenon
  <2> QED
      BY <1>12, <2>3, <2>4, Zenon DEF LoseConnection
<1> QED
    BY <1>1, <1>2, <1>3, <1>4, <1>5, <1>6, <1>7, <1>8, <1>9, <1>10, <1>11, <1>12, Zenon DEF ConnectionStep

\* A task that moves is alive, keeps what its server asked of it, and moves on
\* to another suspension or ends; a bridge comes to life under a living task.
Moves(c) ==
    /\ conn'[c].abort = conn[c].abort
    /\ conn'[c] = conn[c] \/ (conn[c].at \in Live /\ conn'[c].at \in Live \cup {"ended"})
    /\ conn'[c].at \in Live => conn'[c].end = conn[c].end
    /\ bridge'[c].alive => bridge[c].alive \/ conn[c].at \in Live

\* serve_owned_io and the bridge it owns: a step moves its task so.
LEMMA ConnectionMoves ==
    ASSUME TypeOK, NEW c \in Conns, ConnectionStep(c)
    PROVE  Moves(c)
<1>0. conn \in [Conns -> Connection] /\ bridge \in [Conns -> Bridge]
    BY RecordsTyped
<1> USE <1>0 DEF Moves, Connection, Bridge, Ats, Live, Running, Suspended
<1>1. CASE Offer(c) \/ OfferLate(c) \/ TakeOffer(c) \/ Hold(c)
    BY <1>1 DEF Offer, OfferLate, TakeOffer, Hold
<1>2. CASE Decide(c) \/ CommitTransport(c)
    BY <1>2 DEF Decide, CommitTransport
<1>3. CASE JoinBridge(c) \/ WindDown(c) \/ Refused(c)
    BY <1>3 DEF JoinBridge, WindDown, Refused
<1>4. CASE EndConnection(c) \/ BridgeEnds(c)
    BY <1>4 DEF EndConnection, BridgeEnds
<1>5. CASE LoseConnection(c)
    BY <1>5 DEF LoseConnection, Orphaned
<1> QED
    BY <1>1, <1>2, <1>3, <1>4, <1>5 DEF ConnectionStep

-----------------------------------------------------------------------------
(* What the supervisor may do to its connections.                          *)

\* What stands between a committed stop and the supervisor: it acts on nothing
\* that was not committed, and only its return finishes the state.
Acted ==
    /\ applied # "Running" => phase # "Running"
    /\ AppliedForced => phase \in Forced \cup {"Finished"}
    /\ pc # "returned" => phase # "Finished" /\ answer = "none"
    /\ told => AppliedForced
    /\ pc \in {"unwound", "drain", "sweep"} => AppliedForced

\* An abort reaches living tasks alone and changes nothing else of them.
LEMMA AbortsOnly ==
    ASSUME TypeOK, NEW cs
    PROVE  /\ Aborted(cs) \in [Conns -> Connection]
           /\ \A c \in Conns :
                /\ Aborted(cs)[c].at = conn[c].at /\ Aborted(cs)[c].held = conn[c].held
                /\ Aborted(cs)[c].end = conn[c].end
                /\ conn[c].abort => Aborted(cs)[c].abort
                /\ Aborted(cs)[c].abort => conn[c].abort \/ (c \in cs /\ conn[c].at \in Live)
<1>1. conn \in [Conns -> Connection]
    BY RecordsTyped
<1>2. ASSUME NEW c \in Conns
      PROVE  /\ [conn[c] EXCEPT !.abort = TRUE] \in Connection
             /\ [conn[c] EXCEPT !.abort = TRUE].at = conn[c].at
             /\ [conn[c] EXCEPT !.abort = TRUE].held = conn[c].held
             /\ [conn[c] EXCEPT !.abort = TRUE].end = conn[c].end
             /\ [conn[c] EXCEPT !.abort = TRUE].abort = TRUE
    BY <1>1, Zenon DEF Connection
<1>3. ASSUME NEW c \in Conns
      PROVE  Aborted(cs)[c] = IF c \in cs /\ conn[c].at \in Live
                                THEN [conn[c] EXCEPT !.abort = TRUE] ELSE conn[c]
    BY Zenon DEF Aborted
<1>4. ASSUME NEW c \in Conns PROVE Aborted(cs)[c] \in Connection
    BY <1>1, <1>2, <1>3, Zenon
<1>5. Aborted(cs) \in [Conns -> Connection]
    BY <1>4, Zenon DEF Aborted
<1> QED
    BY <1>2, <1>3, <1>5, Zenon

\* The supervisor's steps on its connections: an abort under a forced stop, the
\* service of one new socket, or the collection of one that has ended.
Cuts ==
    /\ \A c \in Conns :
         /\ conn'[c].at = conn[c].at /\ conn'[c].held = conn[c].held /\ conn'[c].end = conn[c].end
         /\ conn[c].abort => conn'[c].abort
         /\ conn'[c].abort => conn[c].abort \/ conn[c].at \in Live
    /\ AppliedForced
Serves(c) ==
    /\ conn[c].at = "new" /\ conn' = [conn EXCEPT ![c].at = "serving"]
    /\ pc = "spawning" /\ pc' = "step"
Collects(c) ==
    Ended(c) /\ conn' = [conn EXCEPT ![c].at = "collected"]

\* Whatever the supervisor selects, its connections see one of the three, and their
\* bridges none.
LEMMA SupervisorMoves ==
    ASSUME TypeOK, Acted, SupervisorStep
    PROVE  /\ bridge' = bridge
           /\ conn' \in [Conns -> Connection]
           /\ \/ conn' = conn \/ Cuts
              \/ \E c \in Conns : Serves(c) \/ Collects(c)
<1> conn \in [Conns -> Connection]
    BY RecordsTyped
<1>1. ASSUME NEW c \in Conns PROVE [conn EXCEPT ![c].at = "serving"] \in [Conns -> Connection]
                                 /\ [conn EXCEPT ![c].at = "collected"] \in [Conns -> Connection]
    BY AtTyped, FieldsAre
<1>2. CASE Step \/ OnDeadline \/ SweepAfterUnwind
  <2>1. bridge' = bridge
      BY <1>2 DEF Step, OnDeadline, SweepAfterUnwind
  <2>2. conn' = conn \/ (AppliedForced /\ \E cs \in SUBSET Conns : conn' = Aborted(cs))
      BY <1>2 DEF Step, OnDeadline, SweepAfterUnwind, ForcedAbort, Owned, Acted
  <2> QED
      BY <2>1, <2>2, AbortsOnly DEF Cuts
<1>3. CASE SpawnConnection
    BY <1>1, <1>3, Zenon DEF SpawnConnection, Serves
<1>4. ASSUME NEW c \in Conns, OnCompletion(c) \/ LogCompletion(c)
      PROVE  bridge' = bridge /\ Collects(c)
    BY <1>4 DEF OnCompletion, LogCompletion, Collects
<1>5. CASE OnControl \/ OnRuntime \/ OnAccept \/ OnPermit \/ HandleAccepted \/ HandlePermitted
           \/ ApplyCommitted
    BY <1>5 DEF OnControl, OnRuntime, OnAccept, OnPermit, HandleAccepted, HandlePermitted, ApplyCommitted
<1>6. CASE Publish \/ Finish \/ AbortAfterUnwind \/ ReturnPanic
    BY <1>6 DEF Publish, Finish, AbortAfterUnwind, CloseAdmission, ReturnPanic
<1> QED
    BY <1>1, <1>2, <1>3, <1>4, <1>5, <1>6, Zenon DEF SupervisorStep, Collects

-----------------------------------------------------------------------------
(* The steps by what they may touch, and the types.                        *)

\* The handle's and the runtime's steps.
Commands == Shutdown \/ Cancel \/ Abandon \/ Publishing \/ FireRuntime

\* The steps of a server, by what they may touch.
LEMMA StepCases ==
    ASSUME [Next]_vars
    PROVE  \/ Commands \/ SupervisorStep \/ OnAcceptError \/ Unwind
           \/ \E c \in Conns : ConnectionStep(c)
           \/ UNCHANGED vars
    BY Zenon DEF Next, Commands

\* A command of the handle stays outside the supervisor.
LEMMA CommandsFrame ==
    Commands => UNCHANGED <<pc, supVars, conn, bridge, answer, outcome, fatal>>
    BY DEF Commands, Shutdown, Cancel, Abandon, Publishing, Send, FireRuntime, ApplyGraceful,
           ApplyForced, stopVars

\* An event of the stop state leaves it well typed.
LEMMA StopTyped == StopTypeOK /\ [StopNext]_stopVars => StopTypeOK'
<1> SUFFICES ASSUME StopTypeOK, [StopNext]_stopVars PROVE StopTypeOK'
    OBVIOUS
<1> USE DEF StopTypeOK, Phases, Forced
<1>1. CASE ApplyGraceful \/ ApplyFatal \/ ApplyDeadline
    BY <1>1, Zenon DEF ApplyGraceful, ApplyFatal, ApplyDeadline
<1>2. ASSUME NEW asked \in BOOLEAN, ApplyForced(asked) PROVE StopTypeOK'
    BY <1>2 DEF ApplyForced
<1>3. CASE Settle
  <2>1. outcome' \in {"Pending", "Completed", "Failed", "Cancelled", "TimedOut"}
    <3>1. CASE phase \in {"Running", "Finished"}
        BY <1>3, <3>1 DEF Settle, stopVars
    <3>2. CASE phase \notin {"Running", "Finished"} /\ fatal
        BY <1>3, <3>2 DEF Settle
    <3>3. CASE phase \notin {"Running", "Finished"} /\ ~fatal
        BY <1>3, <3>3 DEF Settle
    <3> QED
        BY <3>1, <3>2, <3>3
  <2> QED
      BY <1>3, <2>1, Zenon DEF Settle, stopVars
<1>4. CASE UNCHANGED stopVars
    BY <1>4 DEF stopVars
<1> QED
    BY <1>1, <1>2, <1>3, <1>4 DEF StopNext

\* The types of the Boolean variables and of the other ones that are not the
\* stop state's and not the connections'.
Switches ==
    /\ unseen \in BOOLEAN /\ armed \in BOOLEAN /\ fired \in BOOLEAN
    /\ listening \in BOOLEAN /\ listener \in BOOLEAN /\ pending \in BOOLEAN
    /\ cleanup \in BOOLEAN /\ abortStarted \in BOOLEAN /\ told \in BOOLEAN
Names ==
    /\ control \in Controls /\ sends \subseteq {"Graceful", "Abort"}
    /\ pc \in {"step", "select", "accepted", "permitted", "spawning", "apply", "publish", "finish",
               "unwound", "drain", "sweep", "returned"}
    /\ applied \in Phases \ {"Finished"}
    /\ deadline \in {"none", "graceful", "forced"}
    /\ answer \in {"none", "Ok", "Failed", "Cancelled", "TimedOut", "Panicked"}

\* The type invariant, taken apart.
LEMMA TypeParts ==
    TypeOK <=> /\ StopTypeOK /\ Switches /\ Names
               /\ conn \in [Conns -> Connection] /\ bridge \in [Conns -> Bridge]
    BY Zenon DEF TypeOK, Switches, Names, Connection, Bridge, Ats, Ends, Owners

\* The handle and the runtime write values of their types.
LEMMA CommandsTyped == Switches /\ Names /\ Commands => Switches' /\ Names'
<1> SUFFICES ASSUME Switches, Names, Commands PROVE Switches' /\ Names'
    OBVIOUS
<1>1. CASE Shutdown \/ Cancel \/ Abandon \/ FireRuntime
  <2>1. Switches'
    <3>1. CASE Shutdown \/ Cancel
        BY <3>1, Zenon DEF Switches, Shutdown, Cancel, supVars
    <3>2. CASE Abandon \/ FireRuntime
        BY <3>2, Zenon DEF Switches, Abandon, FireRuntime, supVars
    <3> QED
        BY <1>1, <3>1, <3>2, Zenon
  <2>2. Names'
    <3>1. UNCHANGED <<control, pc, applied, deadline, answer>>
        BY <1>1, Zenon DEF Shutdown, Cancel, Abandon, FireRuntime, supVars
    <3>2. sends' \subseteq {"Graceful", "Abort"}
        BY <1>1, Zenon DEF Names, Shutdown, Cancel, Abandon, FireRuntime
    <3> QED
        BY <3>1, <3>2 DEF Names, Controls, Phases
  <2> QED
      BY <2>1, <2>2
<1>2. ASSUME NEW request \in {"Graceful", "Abort"}, Send(request) PROVE Switches' /\ Names'
  <2>1. unseen' \in BOOLEAN
      BY <1>2, Zenon DEF Send
  <2>2. Switches'
      BY <1>2, <2>1, Zenon DEF Switches, Send, supVars
  <2>3. Names'
      BY <1>2 DEF Names, Send, Published, supVars, Controls, Phases
  <2> QED
      BY <2>2, <2>3
<1> QED
    BY <1>1, <1>2 DEF Commands, Publishing

\* So does the supervisor.
LEMMA SupervisorTyped ==
    Switches /\ Names /\ StopTypeOK /\ Acted /\ SupervisorStep => Switches' /\ Names'
<1> SUFFICES ASSUME Switches, Names, StopTypeOK, Acted, SupervisorStep PROVE Switches' /\ Names'
    OBVIOUS
<1>1. Switches'
  <2>1. CASE Step
      BY <2>1, Zenon DEF Switches, Step, ctlVars
  <2>2. CASE OnDeadline
      BY <2>2, Zenon DEF Switches, OnDeadline, ctlVars
  <2>3. CASE OnControl
      BY <2>3, Zenon DEF Switches, OnControl, supVars
  <2>4. CASE OnRuntime
      BY <2>4, Zenon DEF Switches, OnRuntime, ctlVars
  <2>5. CASE OnAccept
      BY <2>5, Zenon DEF Switches, OnAccept, ctlVars, supVars
  <2>6. CASE OnPermit
      BY <2>6, Zenon DEF Switches, OnPermit, ctlVars
  <2>7. CASE HandleAccepted
      BY <2>7, Zenon DEF Switches, HandleAccepted, ctlVars
  <2>8. CASE HandlePermitted \/ SpawnConnection
      BY <2>8, Zenon DEF Switches, HandlePermitted, SpawnConnection, ctlVars, supVars
  <2>9. CASE ApplyCommitted
      BY <2>9, Zenon DEF Switches, ApplyCommitted, ctlVars
  <2>10. CASE Finish
      BY <2>10, Zenon DEF Switches, Finish, ctlVars, supVars
  <2>11. CASE SweepAfterUnwind
      BY <2>11, Zenon DEF Switches, SweepAfterUnwind, ctlVars
  <2>12. CASE ReturnPanic
      BY <2>12, Zenon DEF Switches, ReturnPanic, ctlVars, supVars
  <2>13. CASE Publish \/ AbortAfterUnwind
      BY <2>13, Zenon DEF Switches, Publish, AbortAfterUnwind, CloseAdmission
  <2>14. ASSUME NEW c \in Conns, OnCompletion(c) \/ LogCompletion(c) PROVE Switches'
    <3>1. UNCHANGED <<ctlVars, supVars>>
        BY <2>14, Zenon DEF OnCompletion, LogCompletion
    <3> QED
        BY <3>1, Zenon DEF Switches, ctlVars, supVars
  <2> QED
      BY <2>1, <2>2, <2>3, <2>4, <2>5, <2>6, <2>7, <2>8, <2>9, <2>10, <2>11, <2>12, <2>13, <2>14, Zenon DEF SupervisorStep
<1>2. Names'
  <2> USE DEF Names, Phases, Controls
  <2>1. CASE Step
    <3>1. pc' \in {"finish", "select"}
        BY <2>1, Zenon DEF Step
    <3> QED
        BY <2>1, <3>1 DEF Step, ctlVars
  <2>2. CASE OnDeadline
      BY <2>2 DEF OnDeadline, ctlVars
  <2>3. CASE OnControl
      BY <2>3 DEF OnControl, supVars
  <2>4. CASE OnRuntime
      BY <2>4 DEF OnRuntime, ctlVars
  <2>5. CASE OnAccept
      BY <2>5 DEF OnAccept, ctlVars, supVars
  <2>6. CASE OnPermit
      BY <2>6 DEF OnPermit, ctlVars
  <2>7. CASE HandleAccepted
      BY <2>7 DEF HandleAccepted, ctlVars
  <2>8. CASE HandlePermitted \/ SpawnConnection
      BY <2>8 DEF HandlePermitted, SpawnConnection, ctlVars, supVars
  <2>9. CASE ApplyCommitted
      BY <2>9 DEF ApplyCommitted, ctlVars, StopTypeOK, Acted
  <2>10. CASE Finish
    <3>1. answer' \in {"none", "Ok", "Failed", "Cancelled", "TimedOut", "Panicked"}
        BY <2>10 DEF Finish
    <3> QED
        BY <2>10, <3>1 DEF Finish, ctlVars, supVars
  <2>11. CASE SweepAfterUnwind
      BY <2>11 DEF SweepAfterUnwind, ctlVars
  <2>12. CASE ReturnPanic
      BY <2>12 DEF ReturnPanic, ctlVars, supVars
  <2>13. CASE Publish \/ AbortAfterUnwind
      BY <2>13 DEF Publish, AbortAfterUnwind, CloseAdmission, Published
  <2>14. ASSUME NEW c \in Conns, OnCompletion(c) \/ LogCompletion(c) PROVE Names'
      BY <2>14 DEF OnCompletion, LogCompletion, ctlVars, supVars
  <2> HIDE DEF Names, Phases, Controls
  <2> QED
      BY <2>1, <2>2, <2>3, <2>4, <2>5, <2>6, <2>7, <2>8, <2>9, <2>10, <2>11, <2>12, <2>13, <2>14, Zenon DEF SupervisorStep
<1> QED
    BY <1>1, <1>2

\* Every step keeps the types.
LEMMA KeepsType == TypeOK /\ Acted /\ [Next]_vars => TypeOK'
<1> SUFFICES ASSUME TypeOK, Acted, [Next]_vars PROVE TypeOK'
    OBVIOUS
<1>1. StopTypeOK /\ Switches /\ Names /\ conn \in [Conns -> Connection] /\ bridge \in [Conns -> Bridge]
    BY TypeParts
<1>2. StopTypeOK'
    BY <1>1, StopTyped, StepsImplement
<1>3. Switches' /\ Names' /\ conn' \in [Conns -> Connection] /\ bridge' \in [Conns -> Bridge]
  <2>1. CASE Commands
      BY <1>1, <2>1, CommandsTyped, CommandsFrame
  <2>2. CASE SupervisorStep
      BY <1>1, <2>2, SupervisorTyped, SupervisorMoves
  <2>3. CASE OnAcceptError \/ Unwind
    <3>1. UNCHANGED <<ctlVars, conn, bridge, answer, listening, listener, pending, cleanup, deadline,
                      abortStarted, told>>
        BY <2>3, Zenon DEF OnAcceptError, Unwind, supVars
    <3>2. pc' \in {"apply", "unwound"} /\ applied' \in {applied, "Cancelled"}
        BY <2>3, Zenon DEF OnAcceptError, Unwind, supVars
    <3>3. Switches'
        BY <1>1, <3>1, Zenon DEF Switches, ctlVars
    <3>4. Names'
        BY <1>1, <3>1, <3>2 DEF Names, ctlVars, Phases, Controls
    <3> QED
        BY <1>1, <3>1, <3>3, <3>4
  <2>4. ASSUME NEW c \in Conns, ConnectionStep(c)
        PROVE  Switches' /\ Names' /\ conn' \in [Conns -> Connection] /\ bridge' \in [Conns -> Bridge]
    <3>1. UNCHANGED connFrame
        BY <2>4, ConnectionAlone
    <3>2. Switches' /\ Names'
      <4>1. Switches'
          BY <1>1, <3>1, Zenon DEF connFrame, Switches, ctlVars, supVars
      <4>2. Names'
          BY <1>1, <3>1 DEF connFrame, Names, ctlVars, supVars, Phases, Controls
      <4> QED
          BY <4>1, <4>2
    <3> QED
        BY <2>4, <3>2, ConnectionTyped
  <2>5. CASE UNCHANGED vars
    <3>1. Switches'
        BY <1>1, <2>5, Zenon DEF vars, Switches, ctlVars, supVars
    <3>2. Names'
        BY <1>1, <2>5 DEF vars, Names, ctlVars, supVars, Phases, Controls
    <3> QED
        BY <1>1, <2>5, <3>1, <3>2 DEF vars
  <2> QED
      BY <2>1, <2>2, <2>3, <2>4, <2>5, StepCases
<1> QED
    BY <1>2, <1>3, Zenon DEF TypeOK, Switches, Names, Connection, Bridge, Ats, Ends, Owners

\* Admission ends with the transition, and the drain before the return.
Closed ==
    /\ (applied # "Running" /\ pc \notin {"publish", "unwound"}) =>
          ~listener /\ ~pending /\ pc \notin {"accepted", "permitted", "spawning"}
    /\ pc = "spawning" => listener
    /\ pc \in {"finish", "returned"} =>
          applied # "Running" /\ \A c \in Conns : conn[c].at \in {"new", "collected"}

\* A connection not yet spawned is untouched, one that owns a bridge is held,
\* and an abort comes from a forced stop.
Tasks ==
    \A c \in Conns :
        /\ conn[c].at = "new" => conn[c].end = "none" /\ ~conn[c].abort
        /\ conn[c].at \in {"deciding", "owning", "joining"} => conn[c].held
        /\ conn[c].abort => AppliedForced

\* A bridge that somebody joins is alive only while that one is still there.
Bridges ==
    \A c \in Conns :
        /\ bridge[c].owner = "connection" /\ bridge[c].alive => conn[c].at \in {"owning", "joining"}
        /\ bridge[c].owner = "retention" /\ bridge[c].alive => conn[c].at = "ended"

-----------------------------------------------------------------------------
(* What the supervisor has acted on, and what it owns.                     *)

\* apply_committed_phase acts on a committed phase, and only finish() settles: every
\* step keeps Acted.
LEMMA KeepsActed == TypeOK /\ Acted /\ Closed /\ [Next]_vars => Acted'
<1> SUFFICES ASSUME TypeOK, Acted, Closed, [Next]_vars PROVE Acted'
    OBVIOUS
<1>0. phase \in Phases /\ applied \in Phases
    BY DEF TypeOK, StopTypeOK
<1> USE <1>0 DEF Acted, AppliedForced, Forced, Phases
<1>1. CASE Shutdown \/ Cancel \/ Abandon
    BY <1>1 DEF Shutdown, Cancel, Abandon, ApplyGraceful, ApplyForced, supVars
<1>2. CASE Publishing \/ FireRuntime
    BY <1>2 DEF Publishing, Send, FireRuntime, stopVars, supVars
<1>3. CASE Step
    BY <1>3 DEF Step, stopVars
<1>4. CASE OnDeadline
    BY <1>4 DEF OnDeadline, ApplyDeadline, stopVars
<1>5. CASE OnControl \/ OnAccept \/ OnPermit
    BY <1>5 DEF OnControl, OnAccept, OnPermit, Quiet, stopVars, supVars
<1>6. CASE OnRuntime
    BY <1>6 DEF OnRuntime, ApplyGraceful
<1>7. CASE HandleAccepted \/ HandlePermitted \/ SpawnConnection
    BY <1>7 DEF HandleAccepted, HandlePermitted, SpawnConnection, stopVars, supVars
<1>8. ASSUME NEW c \in Conns, OnCompletion(c) PROVE Acted'
    BY <1>8 DEF OnCompletion, Quiet, ApplyFatal, stopVars, supVars
<1>9. ASSUME NEW c \in Conns, LogCompletion(c) PROVE Acted'
    BY <1>9 DEF LogCompletion, stopVars, supVars
<1>10. CASE ApplyCommitted
    BY <1>10 DEF ApplyCommitted, stopVars
<1>11. CASE Publish \/ AbortAfterUnwind
    BY <1>11 DEF Publish, AbortAfterUnwind, CloseAdmission, stopVars
<1>12. CASE Finish
    BY <1>12 DEF Finish, Settle, stopVars, supVars
<1>13. CASE SweepAfterUnwind \/ ReturnPanic
    BY <1>13 DEF SweepAfterUnwind, ReturnPanic, stopVars, supVars
<1>14. CASE OnAcceptError \/ Unwind
    BY <1>14 DEF OnAcceptError, Quiet, Unwind, ApplyFatal, ApplyForced, supVars
<1>15. ASSUME NEW c \in Conns, ConnectionStep(c) PROVE Acted'
  <2>1. UNCHANGED connFrame
      BY <1>15, ConnectionAlone
  <2> QED
      BY <2>1 DEF connFrame, stopVars, supVars
<1>16. CASE UNCHANGED vars
    BY <1>16 DEF vars, stopVars, supVars
<1> QED
    BY <1>1, <1>2, <1>3, <1>4, <1>5, <1>6, <1>7, <1>8, <1>9, <1>10, <1>11, <1>12, <1>13, <1>14,
       <1>15, <1>16, StepCases, Zenon DEF Commands, SupervisorStep

\* Where a connection that is not new came from, and where one ends up.
LEMMA ConnectionSettled ==
    ASSUME TypeOK, NEW c \in Conns, ConnectionStep(c)
    PROVE  \A d \in Conns : /\ conn[d].at \in {"new", "collected"} => conn'[d] = conn[d]
                            /\ conn'[d].at \in {"new", "collected"} => conn'[d] = conn[d]
<1>1. Moves(c)
    BY ConnectionMoves
<1>2. \A d \in Conns : d # c => conn'[d] = conn[d]
    BY ConnectionAlone
<1> QED
    BY <1>1, <1>2 DEF Moves, Live, Running, Suspended

\* close_admission goes with the transition, and finish() is reached with nothing
\* owned: every step keeps Closed.
LEMMA KeepsClosed == TypeOK /\ Acted /\ Closed /\ [Next]_vars => Closed'
<1> SUFFICES ASSUME TypeOK, Acted, Closed, [Next]_vars PROVE Closed'
    OBVIOUS
<1> USE DEF Closed
<1>1. CASE Commands
    BY <1>1, CommandsFrame DEF supVars
<1>2. CASE Step
  <2>1. pc' = "finish" => Drained
      BY <1>2, Zenon DEF Step
  <2>2. conn' = conn \/ conn' = ForcedAbort
      BY <1>2, Zenon DEF Step
  <2>3. \A c \in Conns : conn'[c].at = conn[c].at
      BY <2>2, AbortsOnly DEF ForcedAbort
  <2>4. pc' = "finish" => applied # "Running" /\ \A c \in Conns : conn[c].at \in {"new", "collected"}
      BY <2>1 DEF Drained, Owned, AppliedForced, Forced
  <2> QED
      BY <1>2, <2>3, <2>4 DEF Step
<1>3. CASE OnDeadline \/ OnControl \/ OnRuntime
    BY <1>3 DEF OnDeadline, OnControl, OnRuntime, supVars
<1>4. CASE OnAccept \/ OnPermit
    BY <1>4 DEF OnAccept, OnPermit, Quiet, supVars
<1>5. CASE HandleAccepted \/ HandlePermitted \/ SpawnConnection
    BY <1>5 DEF HandleAccepted, HandlePermitted, SpawnConnection, AdmissionOpen, supVars
<1>6. ASSUME NEW c \in Conns, OnCompletion(c) \/ LogCompletion(c) PROVE Closed'
    BY <1>6 DEF OnCompletion, LogCompletion, Quiet, supVars
<1>7. CASE ApplyCommitted
    BY <1>7 DEF ApplyCommitted
<1>8. CASE Publish \/ AbortAfterUnwind
    BY <1>8 DEF Publish, AbortAfterUnwind, CloseAdmission
<1>9. CASE Finish
    BY <1>9 DEF Finish, supVars
<1>10. CASE SweepAfterUnwind
    BY <1>10 DEF SweepAfterUnwind
<1>11. CASE ReturnPanic
    BY <1>11 DEF ReturnPanic, Owned, supVars, Acted, AppliedForced, Forced
<1>12. CASE OnAcceptError \/ Unwind
    BY <1>12, Zenon DEF OnAcceptError, Quiet, Unwind, supVars
<1>13. ASSUME NEW c \in Conns, ConnectionStep(c) PROVE Closed'
    BY <1>13, ConnectionAlone, ConnectionSettled DEF connFrame, supVars
<1>14. CASE UNCHANGED vars
    BY <1>14 DEF vars, supVars
<1> HIDE DEF Closed
<1> QED
    BY <1>1, <1>2, <1>3, <1>4, <1>5, <1>6, <1>7, <1>8, <1>9, <1>10, <1>11, <1>12, <1>13, <1>14,
       StepCases, Zenon DEF SupervisorStep

\* A task is held before it decides, decides to own while nothing is committed,
\* and joins what it owns.
Holds(c) ==
    \/ conn'[c] = conn[c]
    \/ conn'[c].at \notin {"deciding", "owning", "joining"}
    \/ conn'[c].at = "deciding" /\ conn'[c].held
    \/ conn'[c].at = "owning" /\ conn[c].at = "deciding" /\ conn'[c].held = conn[c].held /\ phase = "Running"
    \/ conn'[c].at = "joining" /\ conn[c].at = "owning" /\ conn'[c].held = conn[c].held

\* serve_upgrade_handoff: a step of a task holds so.
LEMMA ConnectionHolds ==
    ASSUME TypeOK, NEW c \in Conns, ConnectionStep(c)
    PROVE  Holds(c)
<1>0. conn \in [Conns -> Connection]
    BY RecordsTyped
<1> USE <1>0 DEF Holds, Connection
<1>1. CASE Offer(c) \/ OfferLate(c) \/ BridgeEnds(c)
    BY <1>1 DEF Offer, OfferLate, BridgeEnds
<1>2. CASE TakeOffer(c) \/ Hold(c)
    BY <1>2 DEF TakeOffer, Hold
<1>3. CASE Decide(c) \/ CommitTransport(c)
    BY <1>3 DEF Decide, CommitTransport
<1>4. CASE JoinBridge(c) \/ WindDown(c) \/ Refused(c) \/ EndConnection(c)
    BY <1>4 DEF JoinBridge, WindDown, Refused, EndConnection
<1>5. CASE LoseConnection(c)
    BY <1>5 DEF LoseConnection
<1> QED
    BY <1>1, <1>2, <1>3, <1>4, <1>5, Zenon DEF ConnectionStep

\* A forced phase the supervisor has applied stays applied.
LEMMA ForcedStays ==
    ASSUME TypeOK, Acted, [Next]_vars, AppliedForced
    PROVE  AppliedForced'
<1> USE DEF AppliedForced, Forced
<1>1. CASE Commands
    BY <1>1, CommandsFrame DEF supVars
<1>2. CASE SupervisorStep
  <2>1. CASE Step \/ OnDeadline \/ OnControl \/ OnRuntime \/ OnAccept \/ OnPermit
      BY <2>1 DEF Step, OnDeadline, OnControl, OnRuntime, OnAccept, OnPermit, supVars
  <2>2. CASE HandleAccepted \/ HandlePermitted \/ SpawnConnection \/ ApplyCommitted \/ Publish \/ Finish
      BY <2>2 DEF HandleAccepted, HandlePermitted, SpawnConnection, ApplyCommitted, Publish,
                  CloseAdmission, Finish, supVars
  <2>3. CASE AbortAfterUnwind \/ SweepAfterUnwind \/ ReturnPanic
      BY <2>3 DEF AbortAfterUnwind, CloseAdmission, SweepAfterUnwind, ReturnPanic, supVars
  <2>4. ASSUME NEW c \in Conns, OnCompletion(c) \/ LogCompletion(c) PROVE AppliedForced'
      BY <2>4 DEF OnCompletion, LogCompletion, supVars
  <2> QED
      BY <1>2, <2>1, <2>2, <2>3, <2>4 DEF SupervisorStep
<1>3. CASE OnAcceptError \/ Unwind
    BY <1>3, Zenon DEF OnAcceptError, Unwind, supVars
<1>4. ASSUME NEW c \in Conns, ConnectionStep(c) PROVE AppliedForced'
    BY <1>4, ConnectionAlone DEF connFrame, supVars
<1>5. CASE UNCHANGED vars
    BY <1>5 DEF vars, supVars
<1> QED
    BY <1>1, <1>2, <1>3, <1>4, <1>5, StepCases

\* Every step keeps Tasks: an abort needs a forced phase, an owner its hold.
LEMMA KeepsTasks == TypeOK /\ Acted /\ Tasks /\ [Next]_vars => Tasks'
<1> SUFFICES ASSUME TypeOK, Acted, Tasks, [Next]_vars,
                    NEW c \in Conns
             PROVE  /\ conn'[c].at = "new" => conn'[c].end = "none" /\ ~conn'[c].abort
                    /\ conn'[c].at \in {"deciding", "owning", "joining"} => conn'[c].held
                    /\ conn'[c].abort => AppliedForced'
    BY DEF Tasks
<1>0. conn \in [Conns -> Connection] /\ (AppliedForced => AppliedForced')
    BY RecordsTyped, ForcedStays
<1>1. CASE conn'[c] = conn[c]
    BY <1>0, <1>1 DEF Tasks
<1>2. ASSUME NEW d \in Conns, ConnectionStep(d), conn'[c] # conn[c]
      PROVE  /\ conn'[c].at \notin {"new"}
             /\ conn'[c].at \in {"deciding", "owning", "joining"} => conn'[c].held
             /\ conn'[c].abort => AppliedForced
  <2>1. c = d /\ Moves(c) /\ Holds(c)
      BY <1>2, ConnectionAlone, ConnectionMoves, ConnectionHolds
  <2> QED
      BY <1>2, <2>1 DEF Moves, Holds, Tasks, Live, Running, Suspended
<1>3. CASE SupervisorStep
  <2>1. CASE Cuts
      BY <1>0, <2>1 DEF Cuts, Tasks, Live, Running, Suspended
  <2>2. ASSUME NEW d \in Conns, Serves(d) \/ Collects(d), conn'[c] # conn[c]
        PROVE  /\ conn'[c].at \in {"serving", "collected"} /\ conn'[c].abort = conn[c].abort
      BY <1>0, <2>2 DEF Serves, Collects, Connection
  <2> QED
      BY <1>0, <1>1, <1>3, <2>1, <2>2, SupervisorMoves DEF Tasks
<1>4. CASE Commands \/ OnAcceptError \/ Unwind \/ UNCHANGED vars
    BY <1>1, <1>4, CommandsFrame, Zenon DEF OnAcceptError, Unwind, vars
<1> QED
    BY <1>0, <1>1, <1>2, <1>3, <1>4, StepCases

\* Every step keeps Bridges: the task joins its child, or leaves it to be joined.
LEMMA KeepsBridges == TypeOK /\ Acted /\ Bridges /\ [Next]_vars => Bridges'
<1> SUFFICES ASSUME TypeOK, Acted, Bridges, [Next]_vars, NEW c \in Conns
             PROVE  /\ bridge'[c].owner = "connection" /\ bridge'[c].alive => conn'[c].at \in {"owning", "joining"}
                    /\ bridge'[c].owner = "retention" /\ bridge'[c].alive => conn'[c].at = "ended"
    BY DEF Bridges
<1>0. conn \in [Conns -> Connection] /\ bridge \in [Conns -> Bridge]
    BY RecordsTyped
<1>1. CASE bridge'[c] = bridge[c] /\ conn'[c].at = conn[c].at
    BY <1>1 DEF Bridges
<1>2. CASE ConnectionStep(c)
  <2> USE <1>0 DEF Bridges, Connection, Bridge
  <2>1. CASE Offer(c) \/ OfferLate(c) \/ BridgeEnds(c)
      BY <2>1 DEF Offer, OfferLate, BridgeEnds
  <2>2. CASE TakeOffer(c) \/ Hold(c)
      BY <2>2 DEF TakeOffer, Hold
  <2>3. CASE Decide(c)
      BY <2>3 DEF Decide
  <2>4. CASE CommitTransport(c)
      BY <2>4 DEF CommitTransport
  <2>5. CASE JoinBridge(c) \/ Refused(c) \/ EndConnection(c)
      BY <2>5 DEF JoinBridge, Refused, EndConnection
  <2>6. CASE WindDown(c)
      BY <2>6 DEF WindDown
  <2>7. CASE LoseConnection(c)
    <3>1. bridge'[c] = Orphaned(c) /\ conn'[c].at = "ended"
        BY <2>7 DEF LoseConnection
    <3>2. ~(Orphaned(c).owner = "connection" /\ Orphaned(c).alive)
        BY DEF Orphaned
    <3> QED
        BY <3>1, <3>2
  <2> QED
      BY <1>2, <2>1, <2>2, <2>3, <2>4, <2>5, <2>6, <2>7, Zenon DEF ConnectionStep
<1>3. ASSUME NEW d \in Conns, ConnectionStep(d), c # d PROVE bridge'[c] = bridge[c] /\ conn'[c].at = conn[c].at
    BY <1>3, ConnectionAlone
<1>4. CASE SupervisorStep
  <2>1. bridge' = bridge
      BY <1>4, SupervisorMoves
  <2>2. ASSUME NEW d \in Conns, Serves(d) \/ Collects(d), conn'[c].at # conn[c].at
        PROVE  /\ c = d
               /\ conn[c].at = "new" \/ Ended(c)
      BY <1>0, <2>2 DEF Serves, Collects, Connection
  <2> QED
      BY <1>1, <1>4, <2>1, <2>2, SupervisorMoves, Zenon DEF Bridges, Cuts, Ended
<1>5. CASE Commands \/ OnAcceptError \/ Unwind \/ UNCHANGED vars
    BY <1>1, <1>5, CommandsFrame, Zenon DEF OnAcceptError, Unwind, vars
<1> QED
    BY <1>1, <1>2, <1>3, <1>4, <1>5, StepCases

=============================================================================
