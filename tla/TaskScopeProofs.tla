-------------------------- MODULE TaskScopeProofs --------------------------
(***************************************************************************)
(* The safety theorems of TaskScope, for any number of children and any    *)
(* number of threads requesting shutdown.                                  *)
(*                                                                         *)
(* IInv adds to the checked invariants what makes them inductive: how far  *)
(* each closing thread has come (ClosersOrdered), which children can hold  *)
(* a slot (SlotPhase), what an admitting call has done by each of its      *)
(* steps (AdmitPhase), and what the forced stop owns at each of its steps  *)
(* (SweepPhase).  Steps of children leave the latches and the drain alone, *)
(* and those of closing threads and the driver leave the children alone:   *)
(* that is stated once for each kind, and then each step is shown to keep  *)
(* what it can disturb.                                                    *)
(***************************************************************************)
EXTENDS TaskScope, FiniteSetTheorems, TLAPS

\* A closing thread has minted, closed and signalled in that order.
ClosersOrdered ==
    \A k \in Closers :
        /\ closer[k] # "idle" => minted
        /\ closer[k] \notin {"idle", "minted"} => admission # "Open"
        /\ closer[k] \notin {"idle", "minted", "closed"} => closing

\* A slot exists from the count until the task that carries it is gone.
SlotPhase ==
    \A c \in Kids :
        c \in slots <=>
            \/ admit[c] = "counted"
            \/ task[c] \in {"queued", "gated", "polling", "parked", "unwound"}

\* What each admitting call and each task has behind it.
AdmitPhase ==
    /\ \A c \in Kids :
         /\ admit[c] \in {"idle", "counted"} => task[c] = "none"
         /\ admit[c] \in {"spawned", "unowned", "registered", "admitted"} => task[c] # "none"
         /\ task[c] = "queued" => c \in BlockingKids
         /\ c \in BlockingKids => /\ admit[c] \in {"idle", "counted", "admitted", "refused"}
                                  /\ admit[c] = "refused" => task[c] = "none"
         /\ task[c] \in {"polling", "parked", "unwound"} => c \in bodies
         /\ c \in bodies => admit[c] = "admitted"
    /\ gate \subseteq {c \in AsyncKids : admit[c] = "admitted"}
    /\ panicked \subseteq bodies

\* The registry agrees with the slots, and what it holds is what was registered.
RegistryPhase ==
    /\ RegistryExact
    /\ \A c \in AsyncKids :
         entry[c] = "handle" <=> /\ ~stopped /\ c \in slots
                                 /\ admit[c] \in {"registered", "admitted"}

\* What the driver has established by each step of the drain.
SweepPhase ==
    /\ stopped => closer[Driver] \in {"aborting", "joining", "drained", "accounted", "stopped"}
    /\ closer[Driver] \in {"aborting", "joining"} => stopped
    /\ PastDrain /\ ~stopped => outstanding = 0 /\ slots = {}
    /\ closer[Driver] \in {"idle", "minted", "closed", "signalled"} => outstanding = 0
    /\ stopped => outstanding > 0
    /\ closer[Driver] = "sweeping" => outstanding > 0
    /\ ~stopped => swept = {}
    /\ stopped => \A c \in AsyncKids :
                     admit[c] \in {"registered", "admitted"} => c \in swept \/ task[c] = "gone"
    /\ closer[Driver] = "joining" \/ PastDrain => swept \subseteq aborted
    /\ ~executorUp => closer[Driver] = "stopped"
    /\ \A c \in joined : task[c] = "gone"

\* Where an internal child's panic report is.
PanicPhase ==
    /\ panicked # {} /\ closer[Driver] \notin {"accounted", "stopped"} => slotPanic
    /\ PanicSurvives

IInv ==
    /\ TypeOK
    /\ ClosersOrdered
    /\ SignalsOrdered
    /\ SlotPhase
    /\ CountExact
    /\ AdmissionExact
    /\ AdmitPhase
    /\ RegistryPhase
    /\ SweepPhase
    /\ PanicPhase

-----------------------------------------------------------------------------

\* Dropping a live child's slot lowers the count by exactly one, and the last
\* one settles the admission state.
LEMMA FinishCounts ==
    ASSUME TypeOK, CountExact, AdmissionExact, NEW c \in slots, Finish(c)
    PROVE  /\ CountExact' /\ AdmissionExact'
           /\ count' = count - 1
           /\ admission' = "Open" <=> admission = "Open"
<1>1. IsFiniteSet(slots)
    BY KidsAssumption, FS_Subset DEF TypeOK
<1>2. Cardinality(slots \ {c}) = Cardinality(slots) - 1
    BY <1>1, FS_RemoveElement
<1>3. count # 0
    BY <1>1, FS_EmptySet DEF CountExact
<1> QED
    BY <1>2, <1>3 DEF Finish, OnDrained, CountExact, AdmissionExact, TypeOK

\* Counting a child that has no slot yet raises the count by exactly one.
LEMMA AdmitCounts ==
    ASSUME TypeOK, CountExact, NEW c \in Kids \ slots, Admit(c)
    PROVE  CountExact'
<1>1. IsFiniteSet(slots)
    BY KidsAssumption, FS_Subset DEF TypeOK
<1>2. Cardinality(slots \cup {c}) = Cardinality(slots) + 1
    BY <1>1, FS_AddElement
<1> QED
    BY <1>2 DEF Admit, CountExact

\* IInv holds initially.
LEMMA InitIInv == Init => IInv
<1> SUFFICES ASSUME Init PROVE IInv
    OBVIOUS
<1> USE KidsAssumption, DriverAssumption DEF Init, AdmitPC, TaskState, CloserPC, Kids, Closers
<1>1. TypeOK
    BY Zenon DEF TypeOK
<1>2. ClosersOrdered
    BY DEF ClosersOrdered
<1>3. SignalsOrdered
    BY DEF SignalsOrdered
<1>4. SlotPhase
    BY DEF SlotPhase
<1>5. CountExact
    BY FS_EmptySet DEF CountExact
<1>6. AdmissionExact
    BY DEF AdmissionExact
<1>7. AdmitPhase
    BY DEF AdmitPhase
<1>8. RegistryPhase
    BY DEF RegistryPhase, RegistryExact
<1>9. SweepPhase
    BY DEF SweepPhase, PastDrain
<1>10. PanicPhase
    BY DEF PanicPhase, PanicSurvives
<1> QED
    BY <1>1, <1>2, <1>3, <1>4, <1>5, <1>6, <1>7, <1>8, <1>9, <1>10 DEF IInv

-----------------------------------------------------------------------------
(* Steps of the children and of the calls that admit them. *)

ChildTypes ==
    /\ admission \in {"Open", "Closing", "Closed"} /\ count \in Nat
    /\ entry \in [AsyncKids -> {"none", "seeded", "handle"}]
    /\ blocking \subseteq BlockingKids /\ slots \subseteq Kids
    /\ admit \in [Kids -> AdmitPC] /\ task \in [Kids -> TaskState]
    /\ aborted \subseteq AsyncKids /\ gate \subseteq AsyncKids
    /\ bodies \subseteq Kids /\ panicked \subseteq Internal /\ slotPanic \in BOOLEAN

DriveTypes ==
    /\ stopped \in BOOLEAN /\ minted \in BOOLEAN /\ closing \in BOOLEAN /\ shutdown \in BOOLEAN
    /\ panicReported \in BOOLEAN /\ executorUp \in BOOLEAN
    /\ closer \in [Closers -> CloserPC]
    /\ swept \subseteq AsyncKids /\ joined \subseteq AsyncKids /\ outstanding \in Nat

\* The types of TaskScope, by who changes them.
LEMMA TypesSplit == TypeOK <=> ChildTypes /\ DriveTypes
    BY Zenon DEF TypeOK, ChildTypes, DriveTypes

ChildStep(c) == AdmitStep(c) \/ TaskStep(c)

\* gated_child's body takes a turn: it begins, parks or unwinds.
BodyRuns(c) ==
    /\ admit[c] = "admitted" /\ task[c] \in {"queued", "gated", "polling", "parked"}
    /\ \E s \in {"polling", "parked", "unwound"} : task' = [task EXCEPT ![c] = s]
    /\ bodies' = bodies \cup {c}
    /\ panicked' \in {panicked, panicked \cup {c}}
    /\ UNCHANGED <<scopeState, admit, aborted, gate>>

\* A task ends and drops its slot.
BodyEnds(c) ==
    /\ task[c] \in {"queued", "gated", "polling", "parked", "unwound"}
    /\ task' = [task EXCEPT ![c] = "gone"] /\ Finish(c)
    /\ UNCHANGED <<admit, aborted, gate, bodies, panicked>>

\* A call that has been told its answer returns it.
CallEnds(c) ==
    /\ \/ admit[c] \in {"idle", "unowned"} /\ admit' = [admit EXCEPT ![c] = "refused"] /\ UNCHANGED gate
       \/ /\ admit[c] = "registered" /\ admit' = [admit EXCEPT ![c] = "admitted"]
          /\ gate' = gate \cup {c}
    /\ UNCHANGED <<scopeState, task, bodies, panicked>>

\* What a step of a child can be.
LEMMA ChildShapes ==
    ASSUME AdmitPhase, NEW c \in Kids, ChildStep(c)
    PROVE  Admit(c) \/ Spawn(c) \/ Register(c) \/ CallEnds(c) \/ BodyRuns(c) \/ BodyEnds(c)
<1>1. CASE Refuse(c) \/ AbortUnowned(c) \/ OpenGate(c)
    BY <1>1 DEF Refuse, AbortUnowned, OpenGate, CallEnds, bodyVars
<1>2. CASE Poll(c) \/ Park(c) \/ RecordPanic(c)
    BY <1>2 DEF Poll, Park, RecordPanic, BodyRuns, taskOnly, bodyVars, AdmitPhase, Kids
<1>3. CASE Return(c) \/ Drop(c)
    BY <1>3 DEF Return, Drop, BodyEnds, bodyVars
<1> QED
    BY <1>1, <1>2, <1>3, Zenon DEF ChildStep, AdmitStep, TaskStep

\* Dropping a slot does not reopen admission, or close it.
LEMMA FinishKeepsOpen ==
    ASSUME NEW c, Finish(c)
    PROVE  admission' = "Open" <=> admission = "Open"
    BY DEF Finish, OnDrained

\* Children touch no latch and no part of the drain, and leave admission open
\* or shut.
LEMMA ChildFrame ==
    ASSUME NEW c \in Kids, ChildStep(c)
    PROVE  /\ UNCHANGED <<latches, drainVars, closer>>
           /\ admission' = "Open" <=> admission = "Open"
<1>1. CASE AdmitStep(c)
    BY <1>1, FinishKeepsOpen, Zenon DEF AdmitStep, Admit, Refuse, Spawn, Register, AbortUnowned, OpenGate,
        scopeState
<1>2. CASE TaskStep(c)
    BY <1>2, FinishKeepsOpen, Zenon DEF TaskStep, Poll, Park, RecordPanic, Return, Drop, taskOnly, scopeState
<1> QED
    BY <1>1, <1>2 DEF ChildStep

\* Only capture_child_panic touches the panic's report.
LEMMA ChildPanics ==
    ASSUME NEW c \in Kids, ChildStep(c)
    PROVE  UNCHANGED <<panicked, slotPanic>> \/ RecordPanic(c)
    BY Zenon DEF ChildStep, AdmitStep, TaskStep, Admit, Refuse, Spawn, Register, AbortUnowned, OpenGate,
        Poll, Park, Return, Drop, bodyVars

\* A step of a child keeps the types.
LEMMA ChildKeepsTypes ==
    ASSUME TypeOK, AdmitPhase, NEW c \in Kids, ChildStep(c)
    PROVE  TypeOK'
<1>0. ChildTypes /\ DriveTypes
    BY TypesSplit
<1>1. DriveTypes'
    BY <1>0, ChildFrame, Zenon DEF DriveTypes, latches, drainVars
<1>2. slotPanic' \in BOOLEAN /\ panicked' \subseteq Internal
    BY <1>0, ChildPanics, Zenon DEF ChildTypes, RecordPanic
<1>3. aborted' \subseteq AsyncKids
    BY <1>0 DEF ChildTypes, AdmitPhase, Kids, ChildStep, AdmitStep, TaskStep, Admit, Refuse, Spawn,
        Register, AbortUnowned, OpenGate, Poll, Park, RecordPanic, Return, Drop, taskOnly
<1>4. ChildTypes'
    <2>1. CASE Admit(c)
        BY <1>0, <1>2, <2>1 DEF Admit, ChildTypes, AdmitPC, Kids, bodyVars
    <2>2. CASE Spawn(c)
        BY <1>0, <1>2, <2>2 DEF Spawn, Finish, OnDrained, ChildTypes, AdmitPC, TaskState, Kids, bodyVars, scopeState
    <2>3. CASE Register(c)
        BY <1>0, <1>2, <2>3 DEF Register, ChildTypes, AdmitPC, bodyVars
    <2>4. CASE CallEnds(c)
        BY <1>0, <1>2, <1>3, <2>4 DEF CallEnds, ChildTypes, AdmitPC, AdmitPhase, Kids, scopeState
    <2>5. CASE BodyRuns(c)
        BY <1>0, <1>2, <1>3, <2>5 DEF BodyRuns, ChildTypes, TaskState, scopeState
    <2>6. CASE BodyEnds(c)
        BY <1>0, <1>2, <1>3, <2>6 DEF BodyEnds, Finish, OnDrained, ChildTypes, TaskState
    <2> QED
        BY <2>1, <2>2, <2>3, <2>4, <2>5, <2>6, ChildShapes
<1> QED
    BY <1>1, <1>4, Zenon DEF TypeOK, ChildTypes, DriveTypes

\* A step of a child keeps slots, calls and tasks in agreement.
LEMMA ChildKeepsPhases ==
    ASSUME TypeOK, SlotPhase, AdmitPhase, NEW c \in Kids, ChildStep(c)
    PROVE  SlotPhase' /\ AdmitPhase'
<1>0. /\ admit \in [Kids -> AdmitPC] /\ task \in [Kids -> TaskState]
      /\ AsyncKids \subseteq Kids /\ BlockingKids \subseteq Kids /\ AsyncKids \cap BlockingKids = {}
    BY KidsAssumption DEF TypeOK, Kids
<1>1. CASE Admit(c)
    BY <1>0, <1>1 DEF Admit, SlotPhase, AdmitPhase, bodyVars
<1>2. CASE Spawn(c)
    BY <1>0, <1>2 DEF Spawn, Finish, SlotPhase, AdmitPhase, bodyVars, scopeState, Kids
<1>3. CASE Register(c)
    BY <1>0, <1>3 DEF Register, SlotPhase, AdmitPhase, bodyVars
<1>4. CASE CallEnds(c)
    BY <1>0, <1>4 DEF CallEnds, SlotPhase, AdmitPhase, scopeState, Kids
<1>5. CASE BodyRuns(c)
    BY <1>0, <1>5 DEF BodyRuns, SlotPhase, AdmitPhase, scopeState, Kids
<1>6. CASE BodyEnds(c)
    BY <1>0, <1>6 DEF BodyEnds, Finish, SlotPhase, AdmitPhase
<1> QED
    BY <1>1, <1>2, <1>3, <1>4, <1>5, <1>6, ChildShapes

\* A step of a child keeps the registry in agreement with the slots.
LEMMA ChildKeepsRegistry ==
    ASSUME TypeOK, SlotPhase, AdmitPhase, RegistryPhase, ClosersOrdered, SweepPhase,
           NEW c \in Kids, ChildStep(c)
    PROVE  RegistryPhase'
<1>0. /\ admit \in [Kids -> AdmitPC] /\ entry \in [AsyncKids -> {"none", "seeded", "handle"}]
      /\ slots \subseteq Kids /\ AsyncKids \subseteq Kids
      /\ BlockingKids \subseteq Kids /\ AsyncKids \cap BlockingKids = {}
      /\ c \in AsyncKids \/ c \in BlockingKids
    BY KidsAssumption DEF TypeOK, Kids
<1>00. UNCHANGED stopped
    BY ChildFrame DEF drainVars
<1>1. CASE Admit(c)
    <2>1. ~stopped
        BY <1>1 DEF Admit, ClosersOrdered, SweepPhase, Closers
    <2>2. c \notin slots
        BY <1>1 DEF Admit, SlotPhase, AdmitPhase
    <2> QED
        BY <1>0, <1>00, <1>1, <2>1, <2>2 DEF Admit, RegistryPhase, RegistryExact
<1>2. CASE Spawn(c)
    BY <1>0, <1>00, <1>2 DEF Spawn, Finish, RegistryPhase, RegistryExact, scopeState
<1>3. CASE Register(c)
    BY <1>0, <1>00, <1>3 DEF Register, RegistryPhase, RegistryExact, AdmitPhase
<1>4. CASE CallEnds(c)
    BY <1>0, <1>00, <1>4 DEF CallEnds, RegistryPhase, RegistryExact, scopeState
<1>5. CASE BodyRuns(c)
    BY <1>0, <1>00, <1>5 DEF BodyRuns, RegistryPhase, RegistryExact, scopeState
<1>6. CASE BodyEnds(c)
    BY <1>0, <1>00, <1>6 DEF BodyEnds, Finish, RegistryPhase, RegistryExact
<1> QED
    BY <1>1, <1>2, <1>3, <1>4, <1>5, <1>6, ChildShapes

\* A step of a child keeps the count and the admission state exact.
LEMMA ChildKeepsCount ==
    ASSUME TypeOK, SlotPhase, AdmitPhase, CountExact, AdmissionExact, NEW c \in Kids, ChildStep(c)
    PROVE  CountExact' /\ AdmissionExact'
<1>1. CASE Admit(c)
    <2>1. c \notin slots
        BY <1>1 DEF Admit, SlotPhase, AdmitPhase
    <2>2. CountExact'
        BY <1>1, <2>1, AdmitCounts, Zenon
    <2> QED
        BY <1>1, <2>2 DEF Admit, AdmissionExact
<1>2. CASE Finish(c) /\ c \in slots
    BY <1>2, FinishCounts
<1>3. CASE UNCHANGED <<admission, count, slots>>
    BY <1>3 DEF CountExact, AdmissionExact
<1>4. Spawn(c) => (Finish(c) /\ c \in slots) \/ UNCHANGED <<admission, count, slots>>
    BY DEF Spawn, SlotPhase, scopeState
<1>5. BodyEnds(c) => Finish(c) /\ c \in slots
    BY DEF BodyEnds, SlotPhase
<1>6. Register(c) \/ CallEnds(c) \/ BodyRuns(c) => UNCHANGED <<admission, count, slots>>
    BY DEF Register, CallEnds, BodyRuns, scopeState
<1> QED
    BY <1>1, <1>2, <1>3, <1>4, <1>5, <1>6, ChildShapes

\* A step of a child keeps what the driver has established.
LEMMA ChildKeepsSweep ==
    ASSUME TypeOK, SlotPhase, AdmitPhase, RegistryPhase, ClosersOrdered, SweepPhase,
           NEW c \in Kids, ChildStep(c)
    PROVE  SweepPhase'
<1>0. /\ admit \in [Kids -> AdmitPC] /\ task \in [Kids -> TaskState]
      /\ AsyncKids \subseteq Kids /\ joined \subseteq AsyncKids
    BY DEF TypeOK, Kids
<1>1. UNCHANGED <<stopped, swept, joined, outstanding, executorUp, closer>>
    BY ChildFrame DEF drainVars
<1>2. aborted \subseteq aborted'
    BY DEF ChildStep, AdmitStep, TaskStep, Admit, Refuse, Spawn, Register, AbortUnowned, OpenGate,
        Poll, Park, RecordPanic, Return, Drop, taskOnly
<1>3. PastDrain => slots' \subseteq slots
    BY ChildShapes DEF Admit, Spawn, Finish, Register, CallEnds, BodyRuns, BodyEnds, scopeState,
        PastDrain, ClosersOrdered, Closers
<1>4. \A d \in Kids : task[d] = "gone" => task'[d] = "gone"
    BY <1>0, ChildShapes DEF Admit, Spawn, Register, CallEnds, BodyRuns, BodyEnds, AdmitPhase
<1>5. \A d \in AsyncKids : admit'[d] \in {"registered", "admitted"} =>
          admit[d] \in {"registered", "admitted"} \/ (~stopped)
    BY <1>0, ChildShapes DEF Admit, Spawn, Register, CallEnds, BodyRuns, BodyEnds
<1> QED
    BY <1>0, <1>1, <1>2, <1>3, <1>4, <1>5 DEF SweepPhase, PastDrain

\* A step of a child keeps the panics' reports.
LEMMA ChildKeepsPanics ==
    ASSUME TypeOK, SlotPhase, SweepPhase, PanicPhase, NEW c \in Kids, ChildStep(c)
    PROVE  PanicPhase'
<1>1. UNCHANGED <<outstanding, panicReported, closer>>
    BY ChildFrame DEF drainVars
<1>2. CASE UNCHANGED <<panicked, slotPanic>>
    BY <1>1, <1>2 DEF PanicPhase, PanicSurvives
<1>3. CASE RecordPanic(c)
    <2>1. c \in slots
        BY <1>3 DEF RecordPanic, SlotPhase
    <2>2. ~(PastDrain /\ outstanding = 0)
        BY <2>1 DEF SweepPhase, TypeOK
    <2> QED
        BY <1>1, <1>3, <2>2 DEF RecordPanic, PanicPhase, PanicSurvives, PastDrain
<1> QED
    BY <1>2, <1>3, ChildPanics

\* A step of a child keeps IInv.
LEMMA ChildKeeps ==
    ASSUME IInv, NEW c \in Kids, ChildStep(c)
    PROVE  IInv'
<1>1. /\ TypeOK /\ ClosersOrdered /\ SignalsOrdered /\ SlotPhase /\ CountExact
      /\ AdmissionExact /\ AdmitPhase /\ RegistryPhase /\ SweepPhase /\ PanicPhase
    BY DEF IInv
<1>2. ClosersOrdered' /\ SignalsOrdered'
    BY <1>1, ChildFrame DEF ClosersOrdered, SignalsOrdered, latches
<1> QED
    BY <1>1, <1>2, ChildKeepsTypes, ChildKeepsPhases, ChildKeepsRegistry, ChildKeepsCount,
       ChildKeepsSweep, ChildKeepsPanics, Zenon DEF IInv

-----------------------------------------------------------------------------
(* Steps of the closing threads and of the driver. *)

DriverStep == (\E k \in Closers : CloseStep(k)) \/ DrainStep

\* What no closing thread and no step of the drain touches; and that only the
\* close moves admission and only the sweep the registry.
LEMMA DriverFrame ==
    ASSUME DriverStep
    PROVE  /\ UNCHANGED <<count, blocking, slots, admit, task, gate, bodies, panicked>>
           /\ UNCHANGED admission \/ \E k \in Closers : Close(k)
           /\ UNCHANGED <<entry, stopped>> \/ Sweep
           /\ UNCHANGED aborted \/ \E c \in AsyncKids : ForceAbort(c)
           /\ UNCHANGED slotPanic \/ TakePanic
<1>1. CASE \E k \in Closers : CloseStep(k)
    BY <1>1, Zenon DEF CloseStep, Mint, Close, FireClosing, FireShutdown, closeOnly, scopeState, bodyVars, drainVars
<1>2. CASE DrainStep
    BY <1>2, Zenon DEF DrainStep, DrainComplete, DrainExpire, Sweep, AllAborted, ForceStopEnds, TakePanic,
        StopExecutor, ForceAbort, Join, drainOnly, scopeState, bodyVars, drainVars
<1> QED
    BY <1>1, <1>2 DEF DriverStep

\* The drain touches no latch, and moves the driver on from its signals.
LEMMA DrainFrame ==
    ASSUME DrainStep
    PROVE  /\ UNCHANGED <<admission, minted, closing, shutdown>>
           /\ closer[Driver] \notin {"idle", "minted", "closed"}
           /\ UNCHANGED closer \/ \E pc \in CloserPC : Goto(Driver, pc)
    BY Zenon DEF DrainStep, DrainComplete, DrainExpire, Sweep, AllAborted, ForceStopEnds, TakePanic,
        StopExecutor, ForceAbort, Join, drainOnly, scopeState, latches, CloserPC

\* Closing threads and the driver keep the children's books.
LEMMA DriverKeepsBooks ==
    ASSUME TypeOK, SlotPhase, CountExact, AdmissionExact, AdmitPhase, RegistryPhase, DriverStep
    PROVE  SlotPhase' /\ CountExact' /\ AdmissionExact' /\ AdmitPhase' /\ RegistryPhase'
<1>1. SlotPhase' /\ CountExact' /\ AdmitPhase'
    BY DriverFrame DEF SlotPhase, CountExact, AdmitPhase
<1>2. AdmissionExact'
    BY DriverFrame DEF Close, OnClose, AdmissionExact, TypeOK
<1>3. RegistryPhase'
    <2>1. CASE UNCHANGED <<entry, stopped>>
        BY <2>1, DriverFrame DEF RegistryPhase, RegistryExact
    <2>2. CASE Sweep
        BY <2>2 DEF Sweep, RegistryPhase, RegistryExact
    <2> QED
        BY <2>1, <2>2, DriverFrame
<1> QED
    BY <1>1, <1>2, <1>3

\* Closing threads and the driver keep the types.
LEMMA DriverKeepsTypes ==
    ASSUME TypeOK, DriverStep
    PROVE  TypeOK'
<1>0. ChildTypes /\ DriveTypes
    BY TypesSplit
<1>1. ChildTypes'
    <2>1. admission' \in {"Open", "Closing", "Closed"}
        BY <1>0, DriverFrame DEF Close, OnClose, ChildTypes
    <2>2. entry' \in [AsyncKids -> {"none", "seeded", "handle"}]
        BY <1>0, DriverFrame, Zenon DEF Sweep, ChildTypes
    <2>3. aborted' \subseteq AsyncKids /\ slotPanic' \in BOOLEAN
        BY <1>0, DriverFrame, Zenon DEF ForceAbort, TakePanic, ChildTypes
    <2> QED
        BY <1>0, <2>1, <2>2, <2>3, DriverFrame, Zenon DEF ChildTypes
<1>2. DriveTypes'
    <2>1. CASE \E k \in Closers : CloseStep(k)
        BY <1>0, <2>1, Zenon DEF CloseStep, Mint, Close, FireClosing, FireShutdown, Goto, closeOnly, latches,
            drainVars, DriveTypes, CloserPC
    <2>2. CASE DrainStep
        <3>1. closer' \in [Closers -> CloserPC]
            BY <1>0, <2>2, DrainFrame DEF DriveTypes, Goto
        <3>2. swept' \subseteq AsyncKids /\ joined' \subseteq AsyncKids /\ outstanding' \in Nat
            BY <1>0, <2>2 DEF ChildTypes, DriveTypes, DrainStep, DrainComplete, DrainExpire, Sweep, AllAborted,
                ForceStopEnds, TakePanic, StopExecutor, ForceAbort, Join, drainVars
        <3>3. stopped' \in BOOLEAN /\ panicReported' \in BOOLEAN /\ executorUp' \in BOOLEAN
            BY <1>0, <2>2, Zenon DEF ChildTypes, DriveTypes, DrainStep, DrainComplete, DrainExpire, Sweep,
                AllAborted, ForceStopEnds, TakePanic, StopExecutor, ForceAbort, Join, drainVars
        <3> QED
            BY <1>0, <2>2, <3>1, <3>2, <3>3, DrainFrame, Zenon DEF DriveTypes
    <2> QED
        BY <2>1, <2>2 DEF DriverStep
<1> QED
    BY <1>1, <1>2, Zenon DEF TypeOK, ChildTypes, DriveTypes

\* Closing threads and the driver keep the order of the close.
LEMMA DriverKeepsOrder ==
    ASSUME TypeOK, ClosersOrdered, SignalsOrdered, DriverStep
    PROVE  ClosersOrdered' /\ SignalsOrdered'
<1>0. closer \in [Closers -> CloserPC] /\ Driver \in Closers
    BY DEF TypeOK, Closers
<1>1. ASSUME NEW k \in Closers, Mint(k) \/ Close(k)
      PROVE  ClosersOrdered' /\ SignalsOrdered'
    BY <1>0, <1>1 DEF Mint, Close, OnClose, Goto, scopeState, latches, ClosersOrdered, SignalsOrdered
<1>2. ASSUME NEW k \in Closers, FireClosing(k) \/ FireShutdown(k)
      PROVE  ClosersOrdered' /\ SignalsOrdered'
    BY <1>0, <1>2 DEF FireClosing, FireShutdown, Goto, scopeState, ClosersOrdered, SignalsOrdered
<1>3. CASE DrainStep
    BY <1>0, <1>3, DrainFrame DEF Goto, ClosersOrdered, SignalsOrdered
<1> QED
    BY <1>1, <1>2, <1>3 DEF DriverStep, CloseStep

\* Closing threads and the driver keep what the driver has established.
LEMMA DriverKeepsSweep ==
    ASSUME IInv, DriverStep
    PROVE  SweepPhase'
<1>0. /\ TypeOK /\ SlotPhase /\ AdmitPhase /\ CountExact /\ RegistryPhase /\ SweepPhase
      /\ closer \in [Closers -> CloserPC] /\ Driver \in Closers
      /\ UNCHANGED <<slots, admit, task>>
    BY DriverFrame DEF IInv, TypeOK, Closers
<1>1. ASSUME NEW k \in Closers, CloseStep(k)
      PROVE  SweepPhase'
    <2>1. /\ UNCHANGED <<drainVars, aborted>>
          /\ \E pc \in {"minted", "closed", "signalled", "done"} :
                Goto(k, pc) /\ closer[k] \in {"idle", "minted", "closed", "signalled"}
                            /\ (pc = "done" => k # Driver)
        BY <1>1, DriverAssumption, Zenon DEF CloseStep, Mint, Close, FireClosing, FireShutdown, closeOnly
    <2> QED
        BY <1>0, <2>1 DEF Goto, drainVars, SweepPhase, PastDrain
<1>2. CASE DrainComplete
    <2>1. slots = {}
        BY <1>0, <1>2, FS_Subset, FS_EmptySet, KidsAssumption, Zenon DEF DrainComplete, TypeOK, CountExact
    <2> QED
        BY <1>0, <1>2, <2>1 DEF DrainComplete, drainVars, Goto, SweepPhase, PastDrain
<1>3. CASE DrainExpire
    BY <1>0, <1>3 DEF DrainExpire, Goto, SweepPhase, PastDrain, TypeOK
<1>4. CASE Sweep
    <2>1. ~stopped
        BY <1>0, <1>4 DEF Sweep, SweepPhase
    <2>2. \A c \in AsyncKids :
            admit[c] \in {"registered", "admitted"} => c \in slots \/ task[c] = "gone"
        BY <1>0 DEF SlotPhase, AdmitPhase, TypeOK, TaskState, Kids
    <2>3. \A c \in AsyncKids :
            admit[c] \in {"registered", "admitted"} => c \in swept' \/ task[c] = "gone"
        BY <1>0, <1>4, <2>1, <2>2, Zenon DEF Sweep, RegistryPhase
    <2> QED
        BY <1>0, <1>4, <2>1, <2>3 DEF Sweep, Goto, SweepPhase, PastDrain
<1>5. CASE AllAborted \/ ForceStopEnds
    BY <1>0, <1>5 DEF AllAborted, ForceStopEnds, drainVars, Goto, SweepPhase, PastDrain
<1>6. CASE TakePanic \/ StopExecutor
    BY <1>0, <1>6 DEF TakePanic, StopExecutor, Goto, SweepPhase, PastDrain
<1>7. ASSUME NEW c \in AsyncKids, ForceAbort(c) \/ Join(c)
      PROVE  SweepPhase'
    BY <1>0, <1>7 DEF ForceAbort, Join, drainVars, SweepPhase, PastDrain
<1> QED
    BY <1>1, <1>2, <1>3, <1>4, <1>5, <1>6, <1>7 DEF DriverStep, DrainStep

\* Closing threads and the driver keep the panics' reports.
LEMMA DriverKeepsPanics ==
    ASSUME IInv, DriverStep
    PROVE  PanicPhase'
<1>0. /\ PanicPhase /\ SweepPhase /\ closer \in [Closers -> CloserPC] /\ Driver \in Closers
      /\ UNCHANGED panicked /\ slotPanic \in BOOLEAN
    BY DriverFrame DEF IInv, TypeOK, Closers
<1>1. ASSUME NEW k \in Closers, CloseStep(k)
      PROVE  PanicPhase'
    BY <1>0, <1>1, DriverAssumption DEF CloseStep, Mint, Close, FireClosing, FireShutdown, Goto, closeOnly, bodyVars,
        drainVars, PanicPhase, PanicSurvives
<1>2. CASE DrainComplete \/ DrainExpire \/ Sweep
    BY <1>0, <1>2 DEF DrainComplete, DrainExpire, Sweep, Goto, drainOnly, bodyVars, drainVars, PanicPhase,
        PanicSurvives
<1>3. CASE AllAborted \/ ForceStopEnds \/ StopExecutor
    BY <1>0, <1>3 DEF AllAborted, ForceStopEnds, StopExecutor, Goto, drainOnly, bodyVars, drainVars, PanicPhase,
        PanicSurvives
<1>4. CASE TakePanic
    BY <1>0, <1>4 DEF TakePanic, Goto, PanicPhase, PanicSurvives
<1>5. ASSUME NEW c \in AsyncKids, ForceAbort(c) \/ Join(c)
      PROVE  PanicPhase'
    BY <1>0, <1>5 DEF ForceAbort, Join, drainOnly, bodyVars, drainVars, PanicPhase, PanicSurvives
<1> QED
    BY <1>1, <1>2, <1>3, <1>4, <1>5 DEF DriverStep, DrainStep

\* A step of a closing thread or of the driver keeps IInv.
LEMMA DriverKeeps ==
    ASSUME IInv, DriverStep
    PROVE  IInv'
<1>1. /\ TypeOK /\ ClosersOrdered /\ SignalsOrdered /\ SlotPhase /\ CountExact
      /\ AdmissionExact /\ AdmitPhase /\ RegistryPhase
    BY DEF IInv
<1> QED
    BY <1>1, DriverKeepsTypes, DriverKeepsBooks, DriverKeepsOrder, DriverKeepsSweep,
       DriverKeepsPanics, Zenon DEF IInv

\* A stuttering step keeps IInv.
LEMMA StutterKeeps ==
    ASSUME IInv, UNCHANGED vars
    PROVE  IInv'
<1>1. UNCHANGED <<scopeState, latches, bodyVars, drainVars, admit, task, aborted, gate, closer>>
    BY DEF vars
<1>2. TypeOK' /\ ClosersOrdered' /\ SignalsOrdered'
    BY <1>1, Zenon DEF IInv, TypeOK, ClosersOrdered, SignalsOrdered, scopeState, latches, bodyVars, drainVars
<1>3. SlotPhase' /\ CountExact' /\ AdmissionExact' /\ AdmitPhase'
    BY <1>1, Zenon DEF IInv, SlotPhase, CountExact, AdmissionExact, AdmitPhase, scopeState, bodyVars
<1>4. RegistryPhase' /\ SweepPhase' /\ PanicPhase'
    BY <1>1, Zenon DEF IInv, RegistryPhase, RegistryExact, SweepPhase, PastDrain, PanicPhase, PanicSurvives,
        scopeState, bodyVars, drainVars
<1> QED
    BY <1>2, <1>3, <1>4 DEF IInv

\* IInv is inductive.
LEMMA Inductive == IInv /\ [Next]_vars => IInv'
    BY ChildKeeps, DriverKeeps, StutterKeeps DEF Next, ChildStep, DriverStep

\* The root scope's safety, for every set of children and closing threads: the
\* count, the registry and the admission state agree, a refused body never
\* runs, a clean drain is final, a joined child is released, and an internal
\* panic reaches the teardown log.
THEOREM Safety ==
    Spec => [](TypeOK /\ ScopeConsistent /\ RefusedNeverRuns /\ DrainIsFinal /\ PanicSurvives)
<1>1. IInv => RegistryExact /\ PanicSurvives
    BY DEF IInv, RegistryPhase, PanicPhase
<1>2. IInv => RefusedNeverRuns
    BY DEF IInv, AdmitPhase, RefusedNeverRuns
<1>3. IInv => DrainIsFinal
    BY KidsAssumption DEF IInv, TypeOK, SlotPhase, AdmitPhase, SweepPhase, PastDrain, DrainIsFinal, Kids
<1>4. IInv => TypeOK /\ CountExact /\ AdmissionExact /\ SignalsOrdered
    BY DEF IInv
<1>5. IInv => ScopeConsistent
    BY <1>1, <1>4 DEF ScopeConsistent
<1> QED
    BY <1>1, <1>2, <1>3, <1>4, <1>5, InitIInv, Inductive, PTL DEF Spec

\* The scope's books agree with each other and with the children that exist.
THEOREM BooksAgree == Spec => []ScopeConsistent
    BY Safety, PTL

\* A refused admission's body is never polled.
THEOREM RefusalIsFinal == Spec => []RefusedNeverRuns
    BY Safety, PTL

\* After a drain that left nothing outstanding no claim is ever held again, and
\* a joined child holds none.
THEOREM DrainFinality == Spec => []DrainIsFinal
    BY Safety, PTL

\* A clean drain never loses an internal child's panic.
THEOREM PanicIsReported == Spec => []PanicSurvives
    BY Safety, PTL

\* Once the drain has returned no async body is started or resumed, however
\* many children raced the sweep.
THEOREM BodiesStayStopped == Spec => NoBodyAfterDrain
<1>1. IInv /\ [Next]_vars =>
        [\A c \in AsyncKids :
            (PastDrain /\ task'[c] = "polling") => task[c] = "polling"]_vars
    <2> SUFFICES ASSUME IInv, Next, NEW c \in AsyncKids, PastDrain, task'[c] = "polling",
                        task[c] # "polling"
                 PROVE  FALSE
        OBVIOUS
    <2> USE DEF Kids
    <2> /\ TypeOK /\ SlotPhase /\ AdmitPhase /\ SweepPhase
        BY DEF IInv
    <2>1. ~ \E d \in Kids : AdmitStep(d)
        BY DEF TypeOK, AdmitStep, Admit, Refuse, Spawn, Register, AbortUnowned, OpenGate
    <2>2. ~ \E d \in Kids : Park(d) \/ RecordPanic(d) \/ Return(d) \/ Drop(d)
        BY DEF TypeOK, Park, RecordPanic, Return, Drop
    <2>3. ~ \E k \in Closers : CloseStep(k)
        BY Zenon DEF CloseStep, Mint, Close, FireClosing, FireShutdown, closeOnly
    <2>4. ~ DrainStep
        BY Zenon DEF DrainStep, DrainComplete, DrainExpire, Sweep, AllAborted, ForceStopEnds, TakePanic,
            StopExecutor, ForceAbort, Join, drainOnly
    <2>5. Poll(c)
        <3>1. PICK d \in Kids : Poll(d)
            BY <2>1, <2>2, <2>3, <2>4, Zenon DEF Next, TaskStep
        <3> QED
            BY <3>1, Zenon DEF TypeOK, Poll
    <2> QED
        <3>1. task[c] \in {"gated", "parked"} /\ c \notin aborted
            <4>1. task[c] # "queued"
                BY KidsAssumption DEF AdmitPhase
            <4> QED
                BY <2>5, <4>1 DEF Poll
        <3>2. admit[c] = "admitted" /\ c \in slots
            BY <2>5, <3>1 DEF Poll, AdmitPhase, SlotPhase
        <3>3. stopped
            BY <3>2 DEF SweepPhase
        <3> QED
            BY <3>1, <3>2, <3>3 DEF SweepPhase
<1> QED
    BY <1>1, InitIInv, Inductive, PTL DEF Spec, NoBodyAfterDrain
=============================================================================
