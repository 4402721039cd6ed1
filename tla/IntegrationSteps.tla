-------------------------- MODULE IntegrationSteps --------------------------
(***************************************************************************)
(* The steps of Integration by what they touch: what a critical section on *)
(* an entry leaves of its phase, which steps change what, the shapes a     *)
(* step takes on the entries, the inductive invariant, its types kept by   *)
(* every step, and how a step moves the ledger and the counters.           *)
(***************************************************************************)
EXTENDS Integration, TLAPS

-----------------------------------------------------------------------------
(* What a section on one entry's phase leaves behind.                      *)

PhaseTypes == phase \in [Instances -> PhaseType]

\* Of entry i's phase the invariants read five fields; the others' are left.
PhaseIs(i, state, inFlight, running, held, account) ==
    /\ phase' \in [Instances -> PhaseType]
    /\ \A j \in Instances : j # i => phase'[j] = phase[j]
    /\ phase'[i].state = state /\ phase'[i].inFlight = inFlight /\ phase'[i].running = running
    /\ phase'[i].owner = held /\ phase'[i].account = account

States == {"none", "Admitted", "Ready", "Closing", "Settled"}
OwnerStates == {"Absent", "Waiting", "Running"}
Failures == {"none", "Failed", "Named"}

\* The fields of a phase.
LEMMA PhaseFields ==
    ASSUME NEW p \in PhaseType
    PROVE  /\ p.state \in States /\ p.inFlight \in Nat /\ p.running \in Nat /\ p.forced \in BOOLEAN
           /\ p.owner \in OwnerStates /\ p.failure \in Failures /\ p.account \in BOOLEAN
           /\ p.reportsClose \in BOOLEAN /\ p.cleanupOwed \in BOOLEAN /\ p.stopped \in BOOLEAN
    BY Zenon DEF PhaseType, States, OwnerStates, Failures

\* saturating_sub(1) stays a count.
LEMMA LessNat == \A n \in Nat : Less(n) \in Nat
    BY DEF Less

\* Every operation belongs to an instance.
LEMMA OpInstance == \A o \in Ops : InstanceOf[o] \in Instances
    BY IntegrationAssumption

\* A count goes up by one.
LEMMA SuccNat == \A n \in Nat : n + 1 \in Nat
    OBVIOUS

\* One record replaces entry i's phase.
LEMMA PhaseStored ==
    ASSUME PhaseTypes, NEW i \in Instances, NEW p \in PhaseType, phase' = [phase EXCEPT ![i] = p]
    PROVE  PhaseIs(i, p.state, p.inFlight, p.running, p.owner, p.account)
<1>1. phase \in [Instances -> PhaseType]
    BY DEF PhaseTypes
<1>2. /\ phase' \in [Instances -> PhaseType] /\ phase'[i] = p
      /\ \A j \in Instances : j # i => phase'[j] = phase[j]
    BY <1>1
<1> QED
    BY <1>2, Zenon DEF PhaseIs

\* A fresh phase (IntegrationEntry::new).
LEMMA FreshPhase ==
    /\ NewPhase("Admitted", TRUE) \in PhaseType
    /\ NewPhase("Admitted", TRUE).state = "Admitted" /\ NewPhase("Admitted", TRUE).inFlight = 0
    /\ NewPhase("Admitted", TRUE).running = 0 /\ NewPhase("Admitted", TRUE).owner = "Absent"
    /\ NewPhase("Admitted", TRUE).account = TRUE
    BY DEF NewPhase, PhaseType

Sectioned(p) ==
    [p EXCEPT !.owner = IF DrainedNow(p) /\ p.owner = "Waiting" THEN "Running" ELSE @,
              !.account = @ /\ ~(DrainedNow(p) /\ p.owner = "Absent" /\ p.account),
              !.failure = IF DrainedNow(p) /\ p.owner = "Absent" THEN "none" ELSE @]

\* What drained() leaves of the fields.
LEMMA SectionedFields ==
    ASSUME NEW p \in PhaseType
    PROVE  /\ Sectioned(p) \in PhaseType
           /\ Sectioned(p).state = p.state /\ Sectioned(p).inFlight = p.inFlight
           /\ Sectioned(p).running = p.running
           /\ Sectioned(p).owner = IF DrainedNow(p) /\ p.owner = "Waiting" THEN "Running" ELSE p.owner
           /\ Sectioned(p).account = (p.account /\ ~(DrainedNow(p) /\ p.owner = "Absent" /\ p.account))
<1>1. Sectioned(p) \in PhaseType
    BY Zenon DEF Sectioned, PhaseType
<1>2. /\ Sectioned(p).state = p.state /\ Sectioned(p).inFlight = p.inFlight
      /\ Sectioned(p).running = p.running
    BY Zenon DEF Sectioned, PhaseType
<1>3. /\ Sectioned(p).owner = IF DrainedNow(p) /\ p.owner = "Waiting" THEN "Running" ELSE p.owner
      /\ Sectioned(p).account = (p.account /\ ~(DrainedNow(p) /\ p.owner = "Absent" /\ p.account))
    BY Zenon DEF Sectioned, PhaseType
<1> QED
    BY <1>1, <1>2, <1>3, Zenon

\* drained() and act_on() at the end of a section (entry.rs): wake the owner,
\* take the account and begin settling, or nothing.
Sections(i, p) ==
    /\ p \in PhaseType
    /\ PhaseIs(i, p.state, p.inFlight, p.running,
               IF DrainedNow(p) /\ p.owner = "Waiting" THEN "Running" ELSE p.owner,
               p.account /\ ~(DrainedNow(p) /\ p.owner = "Absent" /\ p.account))
    /\ UNCHANGED closed
    /\ IF DrainedNow(p) /\ p.owner = "Absent" /\ p.account
         THEN /\ settling' = [settling EXCEPT ![i] = "taken"]
              /\ settlement' = [settlement EXCEPT ![i] = SettlementOf(p)]
         ELSE UNCHANGED <<settling, settlement>>

\* Every section that ends in drained() has that shape.
LEMMA SectionPhase ==
    ASSUME PhaseTypes, NEW i \in Instances, NEW p \in PhaseType, NEW thread, SectionEnd(i, p, thread)
    PROVE  Sections(i, p)
<1>1. phase' = [phase EXCEPT ![i] = Sectioned(p)]
    BY Zenon DEF SectionEnd, Sectioned
<1>2. Sectioned(p) \in PhaseType
    BY SectionedFields
<1>3. PhaseIs(i, Sectioned(p).state, Sectioned(p).inFlight, Sectioned(p).running,
                 Sectioned(p).owner, Sectioned(p).account)
    BY <1>1, <1>2, PhaseStored, Zenon
<1>4. UNCHANGED closed
    BY DEF SectionEnd
<1>5. IF DrainedNow(p) /\ p.owner = "Absent" /\ p.account
        THEN /\ settling' = [settling EXCEPT ![i] = "taken"]
             /\ settlement' = [settlement EXCEPT ![i] = SettlementOf(p)]
        ELSE UNCHANGED <<settling, settlement>>
    BY Zenon DEF SectionEnd
<1> QED
    BY <1>3, <1>4, <1>5, SectionedFields, Zenon DEF Sections

\* ready() and connected() make the entry Ready.
LEMMA EstablishPhase ==
    ASSUME PhaseTypes, NEW i \in Instances, NEW reports \in BOOLEAN, Establish(i, reports)
    PROVE  PhaseIs(i, "Ready",
                   phase[i].inFlight, phase[i].running, phase[i].owner, phase[i].account)
<1>1. PICK p : p = [phase[i] EXCEPT !.state = "Ready", !.reportsClose = @ \/ reports]
    BY Zenon
<1>2. phase[i] \in PhaseType
    BY DEF PhaseTypes
<1>3. /\ p \in PhaseType /\ p.state = "Ready" /\ p.inFlight = phase[i].inFlight
      /\ p.running = phase[i].running /\ p.owner = phase[i].owner /\ p.account = phase[i].account
    BY <1>1, <1>2, Zenon DEF PhaseType
<1>4. phase' = [phase EXCEPT ![i] = p]
    BY <1>1, Zenon DEF Establish
<1> QED
    BY <1>3, <1>4, PhaseStored, Zenon

\* attach_close_owner leaves the entry with an owner that waits.
LEMMA AttachPhase ==
    ASSUME PhaseTypes, NEW i \in Instances, AttachOwner(i)
    PROVE  PhaseIs(i, phase[i].state,
                   phase[i].inFlight, phase[i].running, "Waiting", phase[i].account)
<1>1. PICK p : p = [phase[i] EXCEPT !.owner = "Waiting"]
    BY Zenon
<1>2. phase[i] \in PhaseType
    BY DEF PhaseTypes
<1>3. /\ p \in PhaseType /\ p.state = phase[i].state /\ p.inFlight = phase[i].inFlight
      /\ p.running = phase[i].running /\ p.owner = "Waiting" /\ p.account = phase[i].account
    BY <1>1, <1>2, Zenon DEF PhaseType
<1>4. phase' = [phase EXCEPT ![i] = p]
    BY <1>1, Zenon DEF AttachOwner
<1> QED
    BY <1>3, <1>4, PhaseStored, Zenon

\* settle() commits Settled last.
LEMMA SettledPhase ==
    ASSUME PhaseTypes, NEW i \in Instances, CommitSettled(i)
    PROVE  PhaseIs(i, "Settled",
                   phase[i].inFlight, phase[i].running, phase[i].owner, phase[i].account)
<1>1. PICK p : p = [phase[i] EXCEPT !.state = "Settled"]
    BY Zenon
<1>2. phase[i] \in PhaseType
    BY DEF PhaseTypes
<1>3. /\ p \in PhaseType /\ p.state = "Settled" /\ p.inFlight = phase[i].inFlight
      /\ p.running = phase[i].running /\ p.owner = phase[i].owner /\ p.account = phase[i].account
    BY <1>1, <1>2, Zenon DEF PhaseType
<1>4. phase' = [phase EXCEPT ![i] = p]
    BY <1>1, Zenon DEF CommitSettled
<1> QED
    BY <1>3, <1>4, PhaseStored, Zenon

\* name_outstanding closes an open entry and takes its account.
LEMMA NamedPhase ==
    ASSUME PhaseTypes, NEW i \in Instances, NameOutstanding(i)
    PROVE  PhaseIs(i, (IF Open(i) THEN "Closing" ELSE phase[i].state),
                   phase[i].inFlight, phase[i].running, phase[i].owner, FALSE)
<1>1. PICK p : p = [phase[i] EXCEPT !.state = IF Open(i) THEN "Closing" ELSE @,
                                    !.stopped = TRUE, !.account = FALSE]
    BY Zenon
<1>2. phase[i] \in PhaseType
    BY DEF PhaseTypes
<1>3. /\ p \in PhaseType /\ p.state = (IF Open(i) THEN "Closing" ELSE phase[i].state)
      /\ p.inFlight = phase[i].inFlight
      /\ p.running = phase[i].running /\ p.owner = phase[i].owner /\ p.account = FALSE
    BY <1>1, <1>2, Zenon DEF PhaseType
<1>4. phase' = [phase EXCEPT ![i] = p]
    BY <1>1, Zenon DEF NameOutstanding
<1> QED
    BY <1>3, <1>4, PhaseStored, Zenon

\* admit() stores a fresh phase.
LEMMA AdmitPhase ==
    ASSUME PhaseTypes, NEW i \in Instances, AdmitInstance(i)
    PROVE  PhaseIs(i, "Admitted", 0, 0, "Absent", TRUE)
<1>1. phase' = [phase EXCEPT ![i] = NewPhase("Admitted", TRUE)]
    BY Zenon DEF AdmitInstance
<1> QED
    BY <1>1, FreshPhase, PhaseStored, Zenon

\* begin_operation counts the operation in.
LEMMA BeginPhase ==
    ASSUME PhaseTypes, NEW o \in Ops, NEW i \in Instances, i = InstanceOf[o], Begin(o)
    PROVE  PhaseIs(i, phase[i].state,
                   phase[i].inFlight + 1, phase[i].running + 1, phase[i].owner, phase[i].account)
<1>1. PICK p : p = [phase[i] EXCEPT !.inFlight = @ + 1, !.running = @ + 1]
    BY Zenon
<1>2. phase[i] \in PhaseType
    BY DEF PhaseTypes
<1>3. /\ p \in PhaseType /\ p.state = phase[i].state /\ p.inFlight = phase[i].inFlight + 1
      /\ p.running = phase[i].running + 1 /\ p.owner = phase[i].owner /\ p.account = phase[i].account
    BY <1>1, <1>2, SuccNat, Zenon DEF PhaseType
<1>4. phase' = [phase EXCEPT ![i] = p]
    BY <1>1, Zenon DEF Begin
<1> QED
    BY <1>3, <1>4, PhaseStored, Zenon

\* release_limit gives the running slot back.
LEMMA ReleasePhase ==
    ASSUME PhaseTypes, NEW o \in Ops, NEW i \in Instances, i = InstanceOf[o], ReleaseLimit(o)
    PROVE  PhaseIs(i, phase[i].state,
                   phase[i].inFlight, Less(phase[i].running), phase[i].owner, phase[i].account)
<1>1. PICK p : p = [phase[i] EXCEPT !.running = Less(@)]
    BY Zenon
<1>2. phase[i] \in PhaseType
    BY DEF PhaseTypes
<1>3. /\ p \in PhaseType /\ p.state = phase[i].state /\ p.inFlight = phase[i].inFlight
      /\ p.running = Less(phase[i].running) /\ p.owner = phase[i].owner /\ p.account = phase[i].account
    BY <1>1, <1>2, LessNat, Zenon DEF PhaseType
<1>4. phase' = [phase EXCEPT ![i] = p]
    BY <1>1, Zenon DEF ReleaseLimit
<1> QED
    BY <1>3, <1>4, PhaseStored, Zenon

\* fail_and_close charges the failure and nothing else.
LEMMA ChargePhase ==
    ASSUME PhaseTypes, NEW i \in Instances, ChargeFailure(i)
    PROVE  PhaseIs(i, phase[i].state,
                   phase[i].inFlight, phase[i].running, phase[i].owner, phase[i].account)
<1>1. CASE phase' = phase
    BY <1>1 DEF PhaseIs, PhaseTypes
<1>2. CASE phase' = [phase EXCEPT ![i].failure = "Failed"]
  <2>1. PICK p : p = [phase[i] EXCEPT !.failure = "Failed"]
      BY Zenon
  <2>2. phase[i] \in PhaseType
      BY DEF PhaseTypes
  <2>3. /\ p \in PhaseType /\ p.state = phase[i].state /\ p.inFlight = phase[i].inFlight
        /\ p.running = phase[i].running /\ p.owner = phase[i].owner /\ p.account = phase[i].account
      BY <2>1, <2>2, Zenon DEF PhaseType
  <2>4. phase' = [phase EXCEPT ![i] = p]
      BY <1>2, <2>1, Zenon
  <2> QED
      BY <2>3, <2>4, PhaseStored, Zenon
<1> QED
    BY <1>1, <1>2, Zenon DEF ChargeFailure

\* close_by and stop() on an open entry commit Closing.
LEMMA CloseSection ==
    ASSUME PhaseTypes, NEW i \in Instances, NEW why, NEW thread, SectionEnd(i, Closing(i, why), thread)
    PROVE  \E p : /\ Sections(i, p) /\ p.state = "Closing" /\ p.inFlight = phase[i].inFlight
                 /\ p.running = phase[i].running /\ p.owner = phase[i].owner /\ p.account = phase[i].account
<1>1. PICK p : p = Closing(i, why)
    BY Zenon
<1>2. phase[i] \in PhaseType
    BY DEF PhaseTypes
<1>3. /\ p \in PhaseType /\ p.state = "Closing" /\ p.inFlight = phase[i].inFlight
      /\ p.running = phase[i].running /\ p.owner = phase[i].owner /\ p.account = phase[i].account
    BY <1>1, <1>2, Zenon DEF PhaseType, Closing
<1>4. \E t : SectionEnd(i, p, t)
    BY <1>1, Zenon DEF Closing
<1> QED
    BY <1>3, <1>4, SectionPhase, Zenon

\* CloseOwner::finish leaves the entry without an owner.
LEMMA EndOwnerSection ==
    ASSUME PhaseTypes, NEW i \in Instances, NEW failed \in BOOLEAN, EndOwner(i, failed)
    PROVE  \E p : /\ Sections(i, p) /\ p.state = phase[i].state /\ p.inFlight = phase[i].inFlight
                 /\ p.running = phase[i].running /\ p.owner = "Absent" /\ p.account = phase[i].account
<1>1. PICK p : p = [phase[i] EXCEPT !.owner = "Absent",
                                    !.failure = IF failed /\ @ = "none" THEN "Named" ELSE @]
    BY Zenon
<1>2. phase[i] \in PhaseType
    BY DEF PhaseTypes
<1>3. /\ p \in PhaseType /\ p.state = phase[i].state /\ p.inFlight = phase[i].inFlight
      /\ p.running = phase[i].running /\ p.owner = "Absent" /\ p.account = phase[i].account
    BY <1>1, <1>2, Zenon DEF PhaseType
<1>4. \E t : SectionEnd(i, p, t)
    BY <1>1, Zenon DEF EndOwner
<1> QED
    BY <1>3, <1>4, SectionPhase, Zenon

\* CloseOwner::drop leaves the entry without an owner.
LEMMA DropOwnerSection ==
    ASSUME PhaseTypes, NEW i \in Instances, DropOwner(i)
    PROVE  \E p : /\ Sections(i, p) /\ p.state = phase[i].state /\ p.inFlight = phase[i].inFlight
                 /\ p.running = phase[i].running /\ p.owner = "Absent" /\ p.account = phase[i].account
<1>1. PICK p : p = [phase[i] EXCEPT !.owner = "Absent", !.forced = TRUE]
    BY Zenon
<1>2. phase[i] \in PhaseType
    BY DEF PhaseTypes
<1>3. /\ p \in PhaseType /\ p.state = phase[i].state /\ p.inFlight = phase[i].inFlight
      /\ p.running = phase[i].running /\ p.owner = "Absent" /\ p.account = phase[i].account
    BY <1>1, <1>2, Zenon DEF PhaseType
<1>4. \E t : SectionEnd(i, p, t)
    BY <1>1, Zenon DEF DropOwner
<1> QED
    BY <1>3, <1>4, SectionPhase, Zenon

\* end_operation counts the operation out.
Ending(q, a, b, c, d) == [q EXCEPT !.inFlight = a, !.running = b, !.forced = c, !.cleanupOwed = d]

\* What end_operation leaves of the fields.
LEMMA EndingFields ==
    ASSUME NEW q \in PhaseType, NEW a \in Nat, NEW b \in Nat, NEW c \in BOOLEAN, NEW d \in BOOLEAN
    PROVE  /\ Ending(q, a, b, c, d) \in PhaseType
           /\ Ending(q, a, b, c, d).state = q.state /\ Ending(q, a, b, c, d).inFlight = a
           /\ Ending(q, a, b, c, d).running = b /\ Ending(q, a, b, c, d).owner = q.owner
           /\ Ending(q, a, b, c, d).account = q.account
    BY Zenon DEF Ending, PhaseType

\* The guard's drop is a section that counts its operation out.
LEMMA GuardSection ==
    ASSUME PhaseTypes, NEW o \in Ops, NEW i \in Instances, i = InstanceOf[o], NEW end, NEW thread,
           GuardEnds(o, end, thread)
    PROVE  \E p : /\ Sections(i, p) /\ p.state = phase[i].state /\ p.inFlight = Less(phase[i].inFlight)
                  /\ p.running = (IF o \in limit THEN Less(phase[i].running) ELSE phase[i].running)
                  /\ p.owner = phase[i].owner /\ p.account = phase[i].account
<1>1. PICK a, b, c, d :
        /\ a = Less(phase[i].inFlight)
        /\ b = (IF o \in limit THEN Less(phase[i].running) ELSE phase[i].running)
        /\ c = (phase[i].forced \/ end = "Forced") /\ d = (phase[i].cleanupOwed \/ o \in owes)
    BY Zenon
<1>2. phase[i] \in PhaseType
    BY DEF PhaseTypes
<1>3. a \in Nat /\ b \in Nat
    BY <1>1, <1>2, PhaseFields, LessNat
<1>4. c \in BOOLEAN /\ d \in BOOLEAN
    BY <1>1, Zenon
<1>5. SectionEnd(i, Ending(phase[i], a, b, c, d), thread)
    BY <1>1, Zenon DEF GuardEnds, Ending
<1>6. Sections(i, Ending(phase[i], a, b, c, d))
    BY <1>2, <1>3, <1>4, <1>5, EndingFields, SectionPhase, Zenon
<1>7. /\ Ending(phase[i], a, b, c, d).state = phase[i].state
      /\ Ending(phase[i], a, b, c, d).inFlight = a /\ Ending(phase[i], a, b, c, d).running = b
      /\ Ending(phase[i], a, b, c, d).owner = phase[i].owner
      /\ Ending(phase[i], a, b, c, d).account = phase[i].account
    BY <1>2, <1>3, <1>4, Zenon DEF Ending, PhaseType
<1> QED
    BY <1>1, <1>6, <1>7, Zenon

-----------------------------------------------------------------------------
(* Who changes what.                                                       *)

Answers == {"ok", "failed", "cleanup", "cancelled", "panicked"}

\* Steps of an operation outside its entry's lock.
Outside(o) ==
    \/ Launch(o) \/ Handoff(o) \/ HandoffLate(o) \/ Progress(o) \/ Abandon(o) \/ Deliver(o)
    \/ DropWork(o) \/ DropAccount(o) \/ DropOwed(o) \/ Receive(o) \/ DropWaiter(o)
    \/ \E r \in Answers : Finish(o, r)

\* Steps of an operation under it.
Inside(o) == Begin(o) \/ ReleaseLimit(o) \/ End(o) \/ DropGuard(o)

\* Steps on one entry's phase or settlement.
EntryStep(i) ==
    \/ AdmitInstance(i) \/ ChargeFailure(i) \/ AttachOwner(i) \/ DropOwner(i)
    \/ \E reports \in BOOLEAN : Establish(i, reports)
    \/ \E w \in Callers : CommitClose(i, w)
    \/ \E failed \in BOOLEAN : EndOwner(i, failed)
    \/ CloseAccount(i) \/ FixResult(i) \/ Retire(i) \/ CommitSettled(i)
    \/ NameOutstanding(i)
    \/ \E k \in Closers : StopEntry(k, i)

\* Steps that touch no entry.
Aloof ==
    \/ \E i \in Instances : LaunchOwner(i) \/ \E w \in Callers : ReadCause(i, w)
    \/ \E k \in Closers : CloseRoot(k) \/ TakeSnapshot(k) \/ StopEnds(k)
    \/ DrainComplete \/ ForceStop \/ GraceEnds \/ TakeOutstanding \/ Transfer

\* Every step is one of these.
LEMMA WhoSteps ==
    Next <=> Aloof \/ (\E i \in Instances : EntryStep(i)) \/ \E o \in Ops : Outside(o) \/ Inside(o)
    BY Zenon DEF Next, InstanceStep, SettleStep, OpStep, CloserStep, DriverStep, Aloof, EntryStep,
       Outside, Inside, Answers

\* Outside its entry's lock an operation touches no entry.
LEMMA OutsideFrame ==
    ASSUME NEW o \in Ops, Outside(o)
    PROVE  UNCHANGED <<opFrame, phase>>
    BY Zenon DEF Outside, Launch, Handoff, HandoffLate, Progress, Abandon, Deliver, DropWork,
       DropAccount, DropOwed, Receive, DropWaiter, Finish

\* Under it, it touches neither the registry nor the history.
LEMMA InsideFrame ==
    ASSUME NEW o \in Ops, Inside(o)
    PROVE  UNCHANGED <<registry, closerVars, retained, log>>
    BY DEF Inside, Begin, ReleaseLimit, End, DropGuard, opFrame, ledger

\* What the closing threads leave alone; teardown moves the history to the log.
LEMMA AloofFrame ==
    ASSUME Aloof
    PROVE  /\ UNCHANGED <<phase, settleVars, opVars, live, reserved>>
           /\ UNCHANGED <<retained, log>> \/ (log' = log \cup retained /\ retained' = {})
<1>1. UNCHANGED <<phase, settleVars, opVars>>
    BY Zenon DEF Aloof, LaunchOwner, ReadCause, CloseRoot, TakeSnapshot, StopEnds, DrainComplete,
       ForceStop, GraceEnds, TakeOutstanding, Transfer
<1>2. UNCHANGED <<registry, ledger>> \/ (\E k \in Closers : TakeSnapshot(k)) \/ Transfer
    BY Zenon DEF Aloof, LaunchOwner, ReadCause, CloseRoot, StopEnds, DrainComplete,
       ForceStop, GraceEnds, TakeOutstanding
<1> QED
    BY <1>1, <1>2 DEF TakeSnapshot, Transfer, registry, ledger

\* What a step on one entry leaves alone.
LEMMA EntryFrame ==
    ASSUME NEW i \in Instances, EntryStep(i)
    PROVE  /\ UNCHANGED <<opVars, closer, stopping, log>>
           /\ UNCHANGED live \/ AdmitInstance(i) \/ Retire(i)
           /\ UNCHANGED ledger \/ AdmitInstance(i) \/ CloseAccount(i)
           /\ UNCHANGED toStop \/ (\E k \in Closers : StopEntry(k, i)) \/ NameOutstanding(i)
<1>1. UNCHANGED opVars
    BY Zenon DEF EntryStep, AdmitInstance, ChargeFailure, AttachOwner, DropOwner, Establish, CommitClose,
       EndOwner, CloseAccount, FixResult, Retire, CommitSettled, NameOutstanding, StopEntry
<1>2. UNCHANGED ledger \/ AdmitInstance(i) \/ CloseAccount(i)
    BY Zenon DEF EntryStep, ChargeFailure, AttachOwner, DropOwner, Establish, CommitClose,
       EndOwner, FixResult, Retire, CommitSettled, NameOutstanding, StopEntry
<1>3. UNCHANGED registry \/ AdmitInstance(i) \/ Retire(i)
    BY Zenon DEF EntryStep, ChargeFailure, AttachOwner, DropOwner, Establish, CommitClose,
       EndOwner, CloseAccount, FixResult, CommitSettled, NameOutstanding, StopEntry
<1>4. UNCHANGED closerVars \/ (\E k \in Closers : StopEntry(k, i)) \/ NameOutstanding(i)
    BY Zenon DEF EntryStep, AdmitInstance, ChargeFailure, AttachOwner, DropOwner, Establish, CommitClose,
       EndOwner, CloseAccount, FixResult, Retire, CommitSettled
<1>5. UNCHANGED stopping
    BY <1>3, Zenon DEF AdmitInstance, Retire, registry
<1>6. UNCHANGED log
    BY <1>2, Zenon DEF AdmitInstance, CloseAccount, ledger
<1>7. UNCHANGED closer
    BY <1>4 DEF StopEntry, NameOutstanding, closerVars
<1> QED
    BY <1>1, <1>2, <1>3, <1>4, <1>5, <1>6, <1>7 DEF registry, closerVars

-----------------------------------------------------------------------------
(* The three shapes a step takes on the entries, beside admission, naming  *)
(* and settle()'s own effects.                                             *)

Still == UNCHANGED <<phase, settling, settlement, closed>>

\* One entry's phase moves on and nothing settles.
PhaseStep(i) ==
    \E st, fl, rn, ow :
        /\ PhaseIs(i, st, fl, rn, ow, phase[i].account)
        /\ st = phase[i].state \/ (Open(i) /\ st = "Ready")
        /\ \/ Open(i)
           \/ /\ fl = phase[i].inFlight /\ ow = phase[i].owner
              /\ rn \in {phase[i].running, Less(phase[i].running)}
        /\ UNCHANGED <<settling, settlement, closed>>

\* A section that ends in drained() and act_on().
Sectioning(i) ==
    \E p : /\ Sections(i, p)
           /\ p.state = phase[i].state \/ (p.state = "Closing" /\ Open(i))
           /\ p.inFlight \in {phase[i].inFlight, Less(phase[i].inFlight)}
           /\ p.running \in {phase[i].running, Less(phase[i].running)}
           /\ p.owner \in {phase[i].owner, "Absent"} /\ p.account = phase[i].account

KeepsCounts ==
    \A j \in Instances : phase'[j].inFlight = phase[j].inFlight /\ phase'[j].running = phase[j].running

\* A step on one entry has one of the shapes or is one of the named actions.
LEMMA EntryShapes ==
    ASSUME PhaseTypes, NEW i \in Instances, EntryStep(i)
    PROVE  \/ (Still \/ PhaseStep(i) \/ Sectioning(i)) /\ KeepsCounts
           \/ AdmitInstance(i) \/ CloseAccount(i) \/ FixResult(i) \/ Retire(i) \/ CommitSettled(i)
           \/ NameOutstanding(i)
<1> DEFINE Goal == (Still \/ PhaseStep(i) \/ Sectioning(i)) /\ KeepsCounts
<1>1. CASE ChargeFailure(i)
  <2>1. PhaseIs(i, phase[i].state, phase[i].inFlight, phase[i].running, phase[i].owner, phase[i].account)
      BY <1>1, ChargePhase
  <2>2. UNCHANGED <<settling, settlement, closed>>
      BY <1>1 DEF ChargeFailure, settleVars
  <2>3. PhaseStep(i)
      BY <2>1, <2>2, Zenon DEF PhaseStep
  <2> QED
      BY <2>1, <2>3 DEF KeepsCounts, PhaseIs
<1>2. CASE AttachOwner(i)
  <2>1. PhaseIs(i, phase[i].state, phase[i].inFlight, phase[i].running, "Waiting", phase[i].account)
      BY <1>2, AttachPhase
  <2>2. UNCHANGED <<settling, settlement, closed>> /\ Open(i)
      BY <1>2 DEF AttachOwner, settleVars, Open
  <2>3. PhaseStep(i)
      BY <2>1, <2>2, Zenon DEF PhaseStep
  <2> QED
      BY <2>1, <2>3 DEF KeepsCounts, PhaseIs
<1>3. ASSUME NEW reports \in BOOLEAN, Establish(i, reports) PROVE Goal
  <2>1. PhaseIs(i, "Ready", phase[i].inFlight, phase[i].running, phase[i].owner, phase[i].account)
      BY <1>3, EstablishPhase
  <2>2. UNCHANGED <<settling, settlement, closed>> /\ Open(i)
      BY <1>3 DEF Establish, settleVars
  <2>3. PhaseStep(i)
      BY <2>1, <2>2, Zenon DEF PhaseStep
  <2> QED
      BY <2>1, <2>3 DEF KeepsCounts, PhaseIs
<1>4. ASSUME NEW p, Sections(i, p), p.state = phase[i].state \/ (p.state = "Closing" /\ Open(i)),
             p.inFlight = phase[i].inFlight, p.running = phase[i].running,
             p.owner \in {phase[i].owner, "Absent"}, p.account = phase[i].account
      PROVE  Goal
  <2>1. Sectioning(i)
      BY <1>4 DEF Sectioning
  <2>2. KeepsCounts
      BY <1>4 DEF Sections, PhaseIs, KeepsCounts
  <2> QED
      BY <2>1, <2>2
<1>5. CASE DropOwner(i)
    BY <1>4, <1>5, DropOwnerSection
<1>6. ASSUME NEW failed \in BOOLEAN, EndOwner(i, failed) PROVE Goal
    BY <1>4, <1>6, EndOwnerSection
<1>7. ASSUME NEW why, NEW thread, Open(i), SectionEnd(i, Closing(i, why), thread) PROVE Goal
    BY <1>4, <1>7, CloseSection
<1>8. ASSUME UNCHANGED <<phase, settleVars>> PROVE Goal
    BY <1>8 DEF Still, KeepsCounts, settleVars
<1>9. ASSUME NEW w \in Callers, CommitClose(i, w) PROVE Goal
    BY <1>7, <1>8, <1>9, Zenon DEF CommitClose
<1>10. ASSUME NEW k \in Closers, StopEntry(k, i) PROVE Goal
    BY <1>7, <1>8, <1>10, Zenon DEF StopEntry
<1> HIDE DEF Goal
<1>11. Goal \/ AdmitInstance(i) \/ CloseAccount(i) \/ FixResult(i) \/ Retire(i) \/ CommitSettled(i)
            \/ NameOutstanding(i)
    BY <1>1, <1>2, <1>3, <1>5, <1>6, <1>9, <1>10, Zenon DEF EntryStep, Goal
<1> QED
    BY <1>11 DEF Goal

\* So has a step of an operation under its entry's lock.
LEMMA InsideShapes ==
    ASSUME PhaseTypes, NEW o \in Ops, NEW i \in Instances, i = InstanceOf[o], Inside(o)
    PROVE  PhaseStep(i) \/ Sectioning(i)
<1>1. CASE Begin(o)
  <2>1. UNCHANGED <<settling, settlement, closed>> /\ Open(i)
      BY <1>1 DEF Begin, opFrame, settleVars
  <2> QED
      BY <1>1, <2>1, BeginPhase DEF PhaseStep
<1>2. CASE ReleaseLimit(o)
  <2>1. UNCHANGED <<settling, settlement, closed>>
      BY <1>2 DEF ReleaseLimit, opFrame, settleVars
  <2> QED
      BY <1>2, <2>1, ReleasePhase, Zenon DEF PhaseStep
<1>3. CASE End(o) \/ DropGuard(o)
  <2>1. PICK end, thread : GuardEnds(o, end, thread)
      BY <1>3, Zenon DEF End, DropGuard
  <2>2. PICK p : /\ Sections(i, p) /\ p.state = phase[i].state /\ p.inFlight = Less(phase[i].inFlight)
                 /\ p.running = (IF o \in limit THEN Less(phase[i].running) ELSE phase[i].running)
                 /\ p.owner = phase[i].owner /\ p.account = phase[i].account
      BY <2>1, GuardSection
  <2> QED
      BY <2>2 DEF Sectioning
<1> QED
    BY <1>1, <1>2, <1>3 DEF Inside

-----------------------------------------------------------------------------
(* The invariant.                                                          *)

\* What of TypeOK the argument needs.
EntryTyped ==
    /\ PhaseTypes
    /\ settling \in [Instances -> {"no", "taken", "accounted", "fixed", "retired"}]
    /\ settlement \in [Instances -> {"none", "Completed", "CancelledAndJoined", "Failed", "Named"}]
    /\ closed \in [Instances -> {"none", "Ok", "Err"}]

StopTyped ==
    /\ live \subseteq Instances
    /\ closer \in [Closers -> {"idle", "closed", "stopping", "stopped", "forced",
                               "drained", "naming", "done"}]
    /\ toStop \in [Closers -> SUBSET Instances]

LedgerTyped == reserved \in Nat /\ retained \subseteq Ops \cup Instances

OpTyped ==
    /\ op \in [Ops -> {"idle", "admitted", "launched", "running", "settled", "released",
                       "delivered", "abandoned", "dropping", "gone", "cutting", "cut"}]
    /\ result \in [Ops -> {"none"} \cup Answers]
    /\ acct \in [Ops -> {"none", "held", "published", "unread", "released", "history"}]
    /\ waiter \in [Ops -> {"none", "waiting", "received", "dropped"}]
    /\ owed \in [Ops -> {"none", "owed", "settled"}]
    /\ limit \subseteq Ops /\ owes \subseteq Ops

Typed == EntryTyped /\ StopTyped /\ LedgerTyped /\ OpTyped

\* The stop: admission is over before a closing thread takes its snapshot; every
\* open entry it may still have missed is in it, and none is left once it is done.
Stops ==
    \A k \in Closers :
        /\ closer[k] \notin {"idle", "closed"} => stopping
        /\ closer[k] = "stopping" => \A i \in live : Open(i) => i \in toStop[k]
        /\ closer[k] \notin {"idle", "closed", "stopping"} => \A i \in live : ~Open(i)

\* The operation: its account, its terminal and its result along its course.
Course(o) ==
    /\ op[o] \in {"settled", "released", "delivered", "abandoned"} => owed[o] = "settled"
    /\ result[o] # "none" =>
         op[o] \in {"settled", "released", "delivered", "gone"} /\ owed[o] = "settled"
    /\ (op[o] = "idle") <=> (acct[o] = "none")
    /\ op[o] \in {"admitted", "launched", "running"} => acct[o] = "held"
    /\ acct[o] = "released" => o \notin owes
    /\ acct[o] = "history" => o \in retained \cup log
    /\ result[o] = "failed" =>
         acct[o] \in {"published", "unread", "history"} \/ (acct[o] = "released" /\ waiter[o] = "received")
    /\ o \in limit <=> op[o] \in {"admitted", "launched", "running", "settled",
                                  "abandoned", "dropping", "cutting"}
Courses == \A o \in Ops : Course(o)

\* The entry: settle() runs once, for an account taken once, and fixes the
\* result on the way; an Ok settlement found the entry at rest.
Entry(i) ==
    /\ phase[i].state = "none" => phase[i].inFlight = 0 /\ phase[i].running = 0
    /\ phase[i].account => /\ settling[i] = "no" /\ settlement[i] = "none"
                           /\ phase[i].state \notin {"none", "Settled"}
    /\ settling[i] # "no" => phase[i].state = "Closing" /\ settlement[i] # "none"
    /\ settlement[i] # "none" => phase[i].state \in {"Closing", "Settled"}
    /\ settling[i] \in {"fixed", "retired"} => closed[i] # "none"
    /\ settling[i] = "retired" => i \notin live
    /\ closed[i] # "none" => settling[i] \notin {"taken", "accounted"} /\ settlement[i] # "none"
    /\ closed[i] = "Ok" => settlement[i] \in {"Completed", "CancelledAndJoined"}
    /\ phase[i].state = "Settled" => settling[i] = "no" /\ i \notin live /\ closed[i] # "none"
    /\ settlement[i] \in {"Completed", "CancelledAndJoined"} =>
         phase[i].inFlight = 0 /\ phase[i].owner = "Absent"
Entries == \A i \in Instances : Entry(i)

IntegrationInductive == Typed /\ Stops /\ Courses /\ Entries

\* A section took the account to settle.
Settles(i, p) ==
    /\ ~phase'[i].account /\ settling'[i] = "taken" /\ settlement'[i] = SettlementOf(p)
    /\ \A j \in Instances : j # i => settling'[j] = settling[j] /\ settlement'[j] = settlement[j]

\* It does so when the entry is drained and has no owner, and not otherwise.
LEMMA SectionCases ==
    ASSUME EntryTyped, NEW i \in Instances, NEW p, Sections(i, p)
    PROVE  IF DrainedNow(p) /\ p.owner = "Absent" /\ p.account
             THEN Settles(i, p)
             ELSE (phase'[i].account <=> p.account) /\ UNCHANGED <<settling, settlement>>
<1>1. CASE DrainedNow(p) /\ p.owner = "Absent" /\ p.account
  <2>1. /\ settling' = [settling EXCEPT ![i] = "taken"]
        /\ settlement' = [settlement EXCEPT ![i] = SettlementOf(p)] /\ ~phase'[i].account
      BY <1>1, Zenon DEF Sections, PhaseIs
  <2> QED
      BY <1>1, <2>1, Zenon DEF EntryTyped, Settles
<1>2. CASE ~(DrainedNow(p) /\ p.owner = "Absent" /\ p.account)
    BY <1>2, Zenon DEF Sections, PhaseIs
<1> QED
    BY <1>1, <1>2

-----------------------------------------------------------------------------
(* Types.                                                                  *)

\* A step keeps the entries' types.
LEMMA EntryTypes == ASSUME Typed, Next PROVE EntryTyped'
<1> USE DEF Typed, EntryTyped
<1>1. ASSUME UNCHANGED <<phase, settling, settlement, closed>> PROVE EntryTyped'
    BY <1>1 DEF PhaseTypes
<1>2. ASSUME NEW i \in Instances, PhaseStep(i) PROVE EntryTyped'
    BY <1>2 DEF PhaseStep, PhaseIs, PhaseTypes
<1>3. ASSUME NEW i \in Instances, Sectioning(i) PROVE EntryTyped'
  <2>1. PICK p : Sections(i, p)
      BY <1>3 DEF Sectioning
  <2>2. SettlementOf(p) \in {"none", "Completed", "CancelledAndJoined", "Failed", "Named"}
      BY <2>1, PhaseFields DEF SettlementOf, Failures, Sections
  <2> QED
      BY <2>1, <2>2 DEF Sections, PhaseIs, PhaseTypes
<1>4. ASSUME NEW i \in Instances, AdmitInstance(i) PROVE EntryTyped'
  <2>1. PhaseTypes'
      BY <1>4, AdmitPhase, Zenon DEF PhaseIs, PhaseTypes
  <2> QED
      BY <1>4, <2>1 DEF AdmitInstance, settleVars
<1>5. ASSUME NEW i \in Instances, CloseAccount(i) \/ FixResult(i) \/ Retire(i) PROVE EntryTyped'
    BY <1>5 DEF CloseAccount, FixResult, Retire, PhaseTypes
<1>6. ASSUME NEW i \in Instances, CommitSettled(i) PROVE EntryTyped'
  <2>1. PhaseTypes'
      BY <1>6, SettledPhase, Zenon DEF PhaseIs, PhaseTypes
  <2> QED
      BY <1>6, <2>1 DEF CommitSettled
<1>7. ASSUME NEW i \in Instances, NameOutstanding(i) PROVE EntryTyped'
  <2>1. PhaseTypes'
      BY <1>7, NamedPhase, Zenon DEF PhaseIs, PhaseTypes
  <2> QED
      BY <1>7, <2>1 DEF NameOutstanding, settleVars
<1>8. CASE Aloof
    BY <1>1, <1>8, AloofFrame DEF settleVars
<1>9. ASSUME NEW i \in Instances, EntryStep(i) PROVE EntryTyped'
    BY <1>1, <1>2, <1>3, <1>4, <1>5, <1>6, <1>7, <1>9, EntryShapes, Zenon DEF Still
<1>10. ASSUME NEW o \in Ops, Outside(o) PROVE EntryTyped'
    BY <1>1, <1>10, OutsideFrame DEF opFrame, settleVars
<1>11. ASSUME NEW o \in Ops, Inside(o) PROVE EntryTyped'
  <2>1. PICK i \in Instances : i = InstanceOf[o]
      BY OpInstance
  <2> QED
      BY <1>2, <1>3, <1>11, <2>1, InsideShapes, Zenon
<1> QED
    BY <1>8, <1>9, <1>10, <1>11, WhoSteps

\* A step keeps the closing threads' types.
LEMMA StopTypes == ASSUME Typed, Next PROVE StopTyped'
<1> USE DEF Typed, StopTyped
<1>1. ASSUME NEW k \in Closers, CloseRoot(k) \/ TakeSnapshot(k) \/ StopEnds(k) PROVE StopTyped'
    BY <1>1 DEF CloseRoot, TakeSnapshot, StopEnds, Goto, registry
<1>2. CASE DrainComplete \/ ForceStop \/ GraceEnds \/ TakeOutstanding \/ Transfer
  <2>1. UNCHANGED live
      BY <1>2, AloofFrame DEF Aloof
  <2>2. closer' \in [Closers -> {"idle", "closed", "stopping", "stopped", "forced",
                                 "drained", "naming", "done"}]
      BY <1>2 DEF DrainComplete, ForceStop, GraceEnds, TakeOutstanding, Transfer, Goto
  <2>3. toStop' = toStop \/ toStop' = [toStop EXCEPT ![Driver] = live]
      BY <1>2, Zenon DEF DrainComplete, ForceStop, GraceEnds, TakeOutstanding, Transfer
  <2> QED
      BY <2>1, <2>2, <2>3
<1>3. ASSUME NEW i \in Instances, LaunchOwner(i) \/ \E w \in Callers : ReadCause(i, w) PROVE StopTyped'
    BY <1>3, Zenon DEF LaunchOwner, ReadCause, registry, closerVars
<1>4. ASSUME NEW i \in Instances, EntryStep(i) PROVE StopTyped'
  <2>1. live' \subseteq Instances
    <3>1. AdmitInstance(i) => live' = live \cup {i}
        BY Zenon DEF AdmitInstance
    <3>2. Retire(i) => live' = live \ {i}
        BY Zenon DEF Retire
    <3> QED
        BY <1>4, <3>1, <3>2, EntryFrame
  <2>2. toStop' \in [Closers -> SUBSET Instances]
    <3>1. ASSUME NEW k \in Closers, StopEntry(k, i) PROVE toStop' \in [Closers -> SUBSET Instances]
        BY <3>1 DEF StopEntry
    <3>2. CASE NameOutstanding(i)
        BY <3>2 DEF NameOutstanding, Closers
    <3> QED
        BY <1>4, <3>1, <3>2, EntryFrame
  <2> QED
      BY <1>4, <2>1, <2>2, EntryFrame
<1>5. ASSUME NEW o \in Ops, Outside(o) \/ Inside(o) PROVE StopTyped'
    BY <1>5, OutsideFrame, InsideFrame DEF opFrame, registry, closerVars
<1> QED
    BY <1>1, <1>2, <1>3, <1>4, <1>5, WhoSteps, Zenon DEF Aloof

\* A slot that is dropped or retained leaves the ledger and the account typed.
LEMMA SlotTypes ==
    ASSUME Typed, NEW o \in Ops, DropSlot(o) \/ Retain(o)
    PROVE  /\ LedgerTyped'
           /\ acct' \in [Ops -> {"none", "held", "published", "unread", "released", "history"}]
    BY LessNat DEF Typed, LedgerTyped, OpTyped, DropSlot, Retain

\* A step keeps the ledger's types.
LEMMA LedgerTypes == ASSUME Typed, Next PROVE LedgerTyped'
<1> USE DEF Typed, LedgerTyped
<1>1. CASE Aloof
    BY <1>1, AloofFrame
<1>2. ASSUME NEW i \in Instances, EntryStep(i) PROVE LedgerTyped'
  <2>1. CASE UNCHANGED ledger
      BY <2>1 DEF ledger
  <2>2. CASE AdmitInstance(i)
      BY <2>2 DEF AdmitInstance
  <2>3. CASE CloseAccount(i)
      BY <2>3, LessNat DEF CloseAccount
  <2> QED
      BY <1>2, <2>1, <2>2, <2>3, EntryFrame
<1>3. ASSUME NEW o \in Ops, Inside(o) PROVE LedgerTyped'
    BY <1>3 DEF Inside, Begin, ReleaseLimit, End, DropGuard, ledger
<1>4. ASSUME NEW o \in Ops, Outside(o) PROVE LedgerTyped'
  <2>1. UNCHANGED ledger \/ DropSlot(o) \/ Retain(o)
      BY <1>4, Zenon DEF Outside, Launch, Handoff, HandoffLate, Progress, Abandon, Deliver, DropWork,
         DropAccount, DropOwed, Receive, DropWaiter, Finish
  <2> QED
      BY <2>1, SlotTypes DEF ledger
<1> QED
    BY <1>1, <1>2, <1>3, <1>4, WhoSteps, Zenon

\* A step keeps the operations' types.
LEMMA OpTypes == ASSUME Typed, Next PROVE OpTyped'
<1> USE DEF Typed, OpTyped
<1>a. ASSUME Aloof \/ \E i \in Instances : EntryStep(i) PROVE OpTyped'
    BY <1>a, AloofFrame, EntryFrame DEF opVars
<1>1. ASSUME NEW o \in Ops, Begin(o) PROVE OpTyped'
    BY <1>1 DEF Begin
<1>2. ASSUME NEW o \in Ops, ReleaseLimit(o) PROVE OpTyped'
    BY <1>2 DEF ReleaseLimit
<1>3. ASSUME NEW o \in Ops, End(o) PROVE OpTyped'
    BY <1>3 DEF End
<1>4. ASSUME NEW o \in Ops, DropGuard(o) PROVE OpTyped'
    BY <1>4 DEF DropGuard
<1>5. ASSUME NEW o \in Ops, Launch(o) PROVE OpTyped'
    BY <1>5 DEF Launch
<1>6. ASSUME NEW o \in Ops, Handoff(o) PROVE OpTyped'
    BY <1>6 DEF Handoff
<1>7. ASSUME NEW o \in Ops, HandoffLate(o) PROVE OpTyped'
    BY <1>7 DEF HandoffLate
<1>8. ASSUME NEW o \in Ops, Progress(o) PROVE OpTyped'
    BY <1>8, IntegrationAssumption DEF Progress, Register
<1>9. ASSUME NEW o \in Ops, DropWork(o) PROVE OpTyped'
    BY <1>9 DEF DropWork
<1>10. ASSUME NEW o \in Ops, DropOwed(o) PROVE OpTyped'
    BY <1>10 DEF DropOwed
<1>11. ASSUME NEW o \in Ops, Abandon(o) PROVE OpTyped'
  <2>1. acct' \in [Ops -> {"none", "held", "published", "unread", "released", "history"}]
      BY <1>11, SlotTypes DEF Abandon
  <2> QED
      BY <1>11, <2>1, Zenon DEF Abandon
<1>12. ASSUME NEW o \in Ops, Deliver(o) PROVE OpTyped'
  <2>1. acct' \in [Ops -> {"none", "held", "published", "unread", "released", "history"}]
      BY <1>12, SlotTypes DEF Deliver
  <2> QED
      BY <1>12, <2>1, Zenon DEF Deliver
<1>13. ASSUME NEW o \in Ops, DropAccount(o) PROVE OpTyped'
  <2>1. acct' \in [Ops -> {"none", "held", "published", "unread", "released", "history"}]
      BY <1>13, SlotTypes DEF DropAccount
  <2> QED
      BY <1>13, <2>1 DEF DropAccount
<1>14. ASSUME NEW o \in Ops, Receive(o) PROVE OpTyped'
  <2>1. acct' \in [Ops -> {"none", "held", "published", "unread", "released", "history"}]
      BY <1>14, SlotTypes DEF Receive
  <2> QED
      BY <1>14, <2>1, Zenon DEF Receive
<1>15. ASSUME NEW o \in Ops, DropWaiter(o) PROVE OpTyped'
  <2>1. acct' \in [Ops -> {"none", "held", "published", "unread", "released", "history"}]
      BY <1>15, SlotTypes DEF DropWaiter
  <2> QED
      BY <1>15, <2>1, Zenon DEF DropWaiter
<1>16. ASSUME NEW o \in Ops, NEW r \in Answers, Finish(o, r) PROVE OpTyped'
  <2>1. acct' \in [Ops -> {"none", "held", "published", "unread", "released", "history"}]
      BY <1>16, SlotTypes DEF Finish
  <2> QED
      BY <1>16, <2>1, Zenon DEF Finish
<1> QED
    BY <1>a, <1>1, <1>2, <1>3, <1>4, <1>5, <1>6, <1>7, <1>8, <1>9, <1>10, <1>11, <1>12, <1>13, <1>14,
       <1>15, <1>16, WhoSteps, Zenon DEF Outside, Inside

\* A step keeps the types.
LEMMA StepKeepsTypes == ASSUME Typed, Next PROVE Typed'
    BY EntryTypes, StopTypes, LedgerTypes, OpTypes DEF Typed

-----------------------------------------------------------------------------
(* How a step moves the ledger and the counters.                           *)

Charged(i) == phase[i].account \/ settling[i] = "taken"

SameCharges == \A j \in Instances : Charged(j)' <=> Charged(j)
SameSlots == \A p \in Ops : HoldsSlot(p)' <=> HoldsSlot(p)
SameGuards == \A p \in Ops : HoldsGuard(p)' <=> HoldsGuard(p)

\* Only entry i's charge, only operation o's slot or guard, comes or goes.
ChargeOf(i, held) ==
    /\ Charged(i) = ~held /\ Charged(i)' = held
    /\ \A j \in Instances : j # i => (Charged(j)' <=> Charged(j))
SlotOf(o, held) ==
    /\ HoldsSlot(o) = ~held /\ HoldsSlot(o)' = held
    /\ \A p \in Ops : p # o => (HoldsSlot(p)' <=> HoldsSlot(p))
GuardOf(o, held) ==
    /\ HoldsGuard(o) = ~held /\ HoldsGuard(o)' = held
    /\ \A p \in Ops : p # o => (HoldsGuard(p)' <=> HoldsGuard(p))

\* One charge or one slot comes or goes.
OneMore(held) ==
    \/ (\E i \in Instances : ChargeOf(i, held)) /\ SameSlots
    \/ (\E o \in Ops : SlotOf(o, held)) /\ SameCharges

\* reserve, release and retain (accounts.rs), and the transfer at teardown.
Reserves == HasRoom /\ reserved' = reserved + 1 /\ UNCHANGED retained /\ OneMore(TRUE)
Releases ==
    /\ reserved' = Less(reserved) /\ OneMore(FALSE)
    /\ UNCHANGED retained \/ \E x \in Ops \cup Instances : retained' = retained \cup {x}
Keeps == UNCHANGED reserved /\ SameCharges /\ SameSlots /\ retained' \subseteq retained

\* Taking the account to settle keeps its charge.
LEMMA ShapeKeepsCharges ==
    ASSUME Typed, Entries, NEW i \in Instances, Still \/ PhaseStep(i) \/ Sectioning(i)
    PROVE  SameCharges
<1>1. CASE Still
    BY <1>1 DEF Still, SameCharges, Charged
<1>2. CASE PhaseStep(i)
    BY <1>2, Zenon DEF PhaseStep, PhaseIs, SameCharges, Charged
<1>3. CASE Sectioning(i)
  <2>1. PICK p : Sections(i, p) /\ p.account = phase[i].account
      BY <1>3, Zenon DEF Sectioning
  <2>2. CASE DrainedNow(p) /\ p.owner = "Absent" /\ p.account
    <3>1. Settles(i, p) /\ phase[i].account
        BY <2>1, <2>2, SectionCases, Zenon DEF Typed
    <3>2. \A j \in Instances : j # i => phase'[j] = phase[j]
        BY <2>1, Zenon DEF Sections, PhaseIs
    <3> QED
        BY <3>1, <3>2, Zenon DEF SameCharges, Charged, Settles
  <2>3. CASE ~(DrainedNow(p) /\ p.owner = "Absent" /\ p.account)
    <3>1. (phase'[i].account <=> phase[i].account) /\ UNCHANGED settling
        BY <2>1, <2>3, SectionCases, Zenon DEF Typed
    <3>2. \A j \in Instances : j # i => phase'[j] = phase[j]
        BY <2>1, Zenon DEF Sections, PhaseIs
    <3> QED
        BY <3>1, <3>2, Zenon DEF SameCharges, Charged
  <2> QED
      BY <2>2, <2>3
<1> QED
    BY <1>1, <1>2, <1>3

\* An entry's step: admission reserves, settle()'s first effect releases.
LEMMA EntryMovesLedger ==
    ASSUME Typed, Entries, NEW i \in Instances, EntryStep(i)
    PROVE  Reserves \/ Releases \/ Keeps
<1>0. SameSlots
    BY EntryFrame DEF opVars, SameSlots, HoldsSlot
<1>1. Entry(i)
    BY DEF Entries
<1> USE DEF Typed, EntryTyped
<1>2. CASE AdmitInstance(i)
  <2>1. PhaseIs(i, "Admitted", 0, 0, "Absent", TRUE)
      BY <1>2, AdmitPhase, Zenon
  <2>2. phase[i].state = "none" /\ UNCHANGED settling
      BY <1>2 DEF AdmitInstance, settleVars
  <2>3. ChargeOf(i, TRUE)
      BY <1>1, <2>1, <2>2, Zenon DEF Entry, ChargeOf, Charged, PhaseIs
  <2>4. HasRoom /\ reserved' = reserved + 1 /\ UNCHANGED retained
      BY <1>2, Zenon DEF AdmitInstance
  <2> QED
      BY <1>0, <2>3, <2>4, Zenon DEF Reserves, OneMore
<1>3. CASE CloseAccount(i)
  <2>1. ChargeOf(i, FALSE)
      BY <1>1, <1>3, Zenon DEF Entry, ChargeOf, Charged, CloseAccount
  <2>2. reserved' = Less(reserved) /\ retained' \in {retained, retained \cup {i}}
      BY <1>3, Zenon DEF CloseAccount
  <2> QED
      BY <1>0, <2>1, <2>2, Zenon DEF Releases, OneMore
<1>4. ASSUME UNCHANGED ledger, SameCharges PROVE Keeps
    BY <1>0, <1>4 DEF Keeps, ledger
<1>5. CASE UNCHANGED ledger
  <2>1. CASE Still \/ PhaseStep(i) \/ Sectioning(i)
      BY <1>4, <1>5, <2>1, ShapeKeepsCharges
  <2>2. CASE FixResult(i) \/ Retire(i)
      BY <1>4, <1>5, <2>2 DEF FixResult, Retire, SameCharges, Charged
  <2>3. CASE CommitSettled(i)
    <3>1. PhaseIs(i, "Settled", phase[i].inFlight, phase[i].running, phase[i].owner, phase[i].account)
        BY <2>3, SettledPhase
    <3>2. SameCharges
        BY <2>3, <3>1 DEF CommitSettled, PhaseIs, SameCharges, Charged
    <3> QED
        BY <1>4, <1>5, <3>2
  <2>4. CASE NameOutstanding(i)
    <3>1. PhaseIs(i, (IF Open(i) THEN "Closing" ELSE phase[i].state), phase[i].inFlight,
                  phase[i].running, phase[i].owner, FALSE)
        BY <2>4, NamedPhase, Zenon
    <3>2. /\ \A j \in Instances : j # i => settling'[j] = settling[j]
          /\ settling'[i] = IF phase[i].account THEN "taken" ELSE settling[i]
        BY <2>4 DEF NameOutstanding, settleVars
    <3>3. SameCharges
        BY <3>1, <3>2, Zenon DEF PhaseIs, SameCharges, Charged
    <3> QED
        BY <1>4, <1>5, <3>3
  <2> QED
      BY <1>2, <1>3, <2>1, <2>2, <2>3, <2>4, EntryShapes, Zenon
<1> QED
    BY <1>2, <1>3, <1>5, EntryFrame, Zenon

\* An operation's step outside its entry: its slot is released once.
LEMMA OutsideMovesLedger ==
    ASSUME Typed, Courses, NEW o \in Ops, Outside(o)
    PROVE  Releases \/ Keeps
<1>0. SameCharges
    BY OutsideFrame, Zenon DEF opFrame, settleVars, SameCharges, Charged
<1> USE DEF Typed, OpTyped
<1>1. Course(o)
    BY DEF Courses
<1>2. ASSUME UNCHANGED <<ledger, acct>> PROVE Keeps
    BY <1>0, <1>2 DEF Keeps, ledger, SameSlots, HoldsSlot
<1>3. ASSUME HoldsSlot(o), DropSlot(o) \/ Retain(o) PROVE Releases
  <2>1. SlotOf(o, FALSE)
      BY <1>3 DEF DropSlot, Retain, SlotOf, HoldsSlot
  <2>2. reserved' = Less(reserved) /\ retained' \in {retained, retained \cup {o}}
      BY <1>3, Zenon DEF DropSlot, Retain
  <2> QED
      BY <1>0, <2>1, <2>2, Zenon DEF Releases, OneMore
<1>4. ASSUME HoldsSlot(o), UNCHANGED ledger, NEW s \in {"published", "unread"},
             acct' = [acct EXCEPT ![o] = s]
      PROVE  Keeps
    BY <1>0, <1>4 DEF Keeps, ledger, SameSlots, HoldsSlot
<1>5. CASE Launch(o) \/ Handoff(o) \/ HandoffLate(o) \/ Progress(o) \/ DropWork(o) \/ DropOwed(o)
    BY <1>2, <1>5, Zenon DEF Launch, Handoff, HandoffLate, Progress, DropWork, DropOwed
<1>6. ASSUME NEW r \in Answers, Finish(o, r) PROVE Releases \/ Keeps
  <2>1. HoldsSlot(o)
      BY <1>1, <1>6 DEF Finish, Course, HoldsSlot
  <2>2. \/ acct' = [acct EXCEPT ![o] = "published"] /\ UNCHANGED ledger
        \/ Retain(o) \/ DropSlot(o)
      BY <1>6 DEF Finish
  <2> QED
      BY <1>3, <1>4, <2>1, <2>2, Zenon
<1>7. CASE Abandon(o)
  <2>1. HoldsSlot(o) /\ (Retain(o) \/ DropSlot(o))
      BY <1>1, <1>7 DEF Abandon, Course, HoldsSlot
  <2> QED
      BY <1>3, <2>1, Zenon
<1>8. CASE Deliver(o)
    BY <1>2, <1>3, <1>4, <1>8, Zenon DEF Deliver, HoldsSlot
<1>9. CASE DropAccount(o)
    BY <1>3, <1>9, Zenon DEF DropAccount, HoldsSlot
<1>10. CASE Receive(o)
    BY <1>2, <1>3, <1>10, Zenon DEF Receive, HoldsSlot
<1>11. CASE DropWaiter(o)
    BY <1>2, <1>3, <1>11, Zenon DEF DropWaiter, HoldsSlot
<1> QED
    BY <1>5, <1>6, <1>7, <1>8, <1>9, <1>10, <1>11, Zenon DEF Outside

\* An operation's step under its entry's lock: only begin_operation reserves.
LEMMA InsideMovesLedger ==
    ASSUME Typed, Courses, Entries, NEW o \in Ops, Inside(o)
    PROVE  Reserves \/ Keeps
<1>1. PICK i \in Instances : i = InstanceOf[o]
    BY OpInstance
<1>2. SameCharges
    BY <1>1, InsideShapes, ShapeKeepsCharges, Zenon DEF Typed, EntryTyped
<1>3. CASE Begin(o)
  <2>1. acct[o] = "none" /\ acct' = [acct EXCEPT ![o] = "held"]
      BY <1>3 DEF Begin, Courses, Course
  <2>2. SlotOf(o, TRUE)
      BY <2>1 DEF SlotOf, HoldsSlot, Typed, OpTyped
  <2>3. HasRoom /\ reserved' = reserved + 1 /\ UNCHANGED retained
      BY <1>3, Zenon DEF Begin
  <2> QED
      BY <1>2, <2>2, <2>3, Zenon DEF Reserves, OneMore
<1>4. CASE ReleaseLimit(o) \/ End(o) \/ DropGuard(o)
  <2>1. UNCHANGED <<ledger, acct>>
      BY <1>4, Zenon DEF ReleaseLimit, End, DropGuard
  <2> QED
      BY <1>2, <2>1 DEF Keeps, ledger, SameSlots, HoldsSlot
<1> QED
    BY <1>3, <1>4 DEF Inside

\* Every step of the program moves the ledger in one of three ways.
LEMMA LedgerMoves ==
    ASSUME IntegrationInductive, Next PROVE Reserves \/ Releases \/ Keeps
<1>1. CASE Aloof
    BY <1>1, AloofFrame DEF Keeps, SameCharges, SameSlots, Charged, HoldsSlot, settleVars, opVars
<1> QED
    BY <1>1, EntryMovesLedger, OutsideMovesLedger, InsideMovesLedger, WhoSteps, Zenon
       DEF IntegrationInductive

-----------------------------------------------------------------------------

\* Entry i's two counters after a step; the others' are left.
CountsBecome(i, inFlight, running) ==
    /\ phase'[i].inFlight = inFlight /\ phase'[i].running = running
    /\ \A j \in Instances : j # i => /\ phase'[j].inFlight = phase[j].inFlight
                                     /\ phase'[j].running = phase[j].running

\* begin_operation, release_limit and end_operation (entry.rs).
CountsIn(o) ==
    /\ phase[InstanceOf[o]].running < OperationLimit
    /\ GuardOf(o, TRUE) /\ o \notin limit /\ limit' = limit \cup {o}
    /\ CountsBecome(InstanceOf[o], phase[InstanceOf[o]].inFlight + 1, phase[InstanceOf[o]].running + 1)
FreesLimit(o) ==
    /\ SameGuards /\ o \in limit /\ limit' = limit \ {o}
    /\ CountsBecome(InstanceOf[o], phase[InstanceOf[o]].inFlight, Less(phase[InstanceOf[o]].running))
CountsOut(o) ==
    /\ GuardOf(o, FALSE) /\ limit' = limit \ {o}
    /\ CountsBecome(InstanceOf[o], Less(phase[InstanceOf[o]].inFlight),
                    IF o \in limit THEN Less(phase[InstanceOf[o]].running) ELSE phase[InstanceOf[o]].running)
KeepsCounters == KeepsCounts /\ SameGuards /\ UNCHANGED limit

\* A step on an entry that is no operation's counts nothing.
LEMMA EntryKeepsCounters ==
    ASSUME Typed, Entries, NEW i \in Instances, EntryStep(i) PROVE KeepsCounters
<1>1. SameGuards /\ UNCHANGED limit
    BY EntryFrame DEF opVars, SameGuards, HoldsGuard
<1> USE DEF Typed, EntryTyped
<1>2. CASE AdmitInstance(i)
  <2>1. PhaseIs(i, "Admitted", 0, 0, "Absent", TRUE)
      BY <1>2, AdmitPhase, Zenon
  <2>2. phase[i].inFlight = 0 /\ phase[i].running = 0
      BY <1>2 DEF AdmitInstance, Entries, Entry
  <2> QED
      BY <1>1, <2>1, <2>2 DEF PhaseIs, KeepsCounts, KeepsCounters
<1>3. CASE CloseAccount(i) \/ FixResult(i) \/ Retire(i)
    BY <1>1, <1>3 DEF CloseAccount, FixResult, Retire, KeepsCounts, KeepsCounters
<1>4. CASE CommitSettled(i)
    BY <1>1, <1>4, SettledPhase, Zenon DEF PhaseIs, KeepsCounts, KeepsCounters
<1>5. CASE NameOutstanding(i)
  <2>1. PhaseIs(i, (IF Open(i) THEN "Closing" ELSE phase[i].state), phase[i].inFlight,
                phase[i].running, phase[i].owner, FALSE)
      BY <1>5, NamedPhase, Zenon
  <2> QED
      BY <1>1, <2>1, Zenon DEF PhaseIs, KeepsCounts, KeepsCounters
<1> QED
    BY <1>1, <1>2, <1>3, <1>4, <1>5, EntryShapes, Zenon DEF KeepsCounters

\* Outside its entry an operation keeps its guard.
LEMMA OutsideKeepsCounters ==
    ASSUME Typed, NEW o \in Ops, Outside(o) PROVE KeepsCounters
<1> USE DEF Typed, OpTyped
<1>1. KeepsCounts
    BY OutsideFrame DEF KeepsCounts
<1>2. UNCHANGED limit
    BY Zenon DEF Outside, Launch, Handoff, HandoffLate, Progress, Abandon, Deliver, DropWork,
       DropAccount, DropOwed, Receive, DropWaiter, Finish
<1>3. ASSUME HoldsGuard(o), NEW s \in {"launched", "running", "settled", "abandoned", "delivered",
                                       "dropping", "cutting"}, op' = [op EXCEPT ![o] = s]
      PROVE  SameGuards
    BY <1>3 DEF SameGuards, HoldsGuard
<1>4. ASSUME UNCHANGED op PROVE SameGuards
    BY <1>4 DEF SameGuards, HoldsGuard
<1>5. UNCHANGED op \/ (HoldsGuard(o) /\ \E s \in {"launched", "running", "settled", "abandoned",
                          "delivered", "dropping", "cutting"} : op' = [op EXCEPT ![o] = s])
  <2>1. CASE Launch(o) \/ Handoff(o) \/ Abandon(o) \/ Deliver(o)
      BY <2>1 DEF Launch, Handoff, Abandon, Deliver, HoldsGuard
  <2>2. CASE DropWork(o) \/ \E r \in Answers : Finish(o, r)
      BY <2>2 DEF DropWork, Finish, HoldsGuard
  <2>3. CASE HandoffLate(o) \/ Progress(o) \/ DropAccount(o) \/ DropOwed(o) \/ Receive(o) \/ DropWaiter(o)
      BY <2>3, Zenon DEF HandoffLate, Progress, DropAccount, DropOwed, Receive, DropWaiter
  <2> QED
      BY <2>1, <2>2, <2>3, Zenon DEF Outside
<1> QED
    BY <1>1, <1>2, <1>3, <1>4, <1>5, Zenon DEF KeepsCounters

\* Under its entry's lock it is counted in, gives its limit slot back or is
\* counted out.
LEMMA InsideMovesCounters ==
    ASSUME Typed, Courses, NEW o \in Ops, Inside(o)
    PROVE  CountsIn(o) \/ FreesLimit(o) \/ CountsOut(o)
<1>0. PhaseTypes /\ OpTyped
    BY Zenon DEF Typed, EntryTyped
<1>1. PICK i \in Instances : i = InstanceOf[o]
    BY OpInstance
<1>2. Course(o)
    BY DEF Courses
<1>3. CASE Begin(o)
  <2>1. PhaseIs(i, phase[i].state, phase[i].inFlight + 1, phase[i].running + 1,
                phase[i].owner, phase[i].account)
      BY <1>0, <1>1, <1>3, BeginPhase, Zenon
  <2>2. GuardOf(o, TRUE)
      BY <1>0, <1>3 DEF OpTyped, Begin, GuardOf, HoldsGuard
  <2>3. phase[i].running < OperationLimit /\ o \notin limit /\ limit' = limit \cup {o}
      BY <1>1, <1>2, <1>3 DEF Begin, Course
  <2>4. CountsBecome(i, phase[i].inFlight + 1, phase[i].running + 1)
      BY <2>1 DEF PhaseIs, CountsBecome
  <2> QED
      BY <1>1, <2>2, <2>3, <2>4, Zenon DEF CountsIn
<1>4. CASE ReleaseLimit(o)
  <2>1. PhaseIs(i, phase[i].state, phase[i].inFlight, Less(phase[i].running),
                phase[i].owner, phase[i].account)
      BY <1>0, <1>1, <1>4, ReleasePhase, Zenon
  <2>2. SameGuards
      BY <1>0, <1>4 DEF OpTyped, ReleaseLimit, SameGuards, HoldsGuard
  <2>3. o \in limit /\ limit' = limit \ {o}
      BY <1>2, <1>4 DEF ReleaseLimit, Course
  <2>4. CountsBecome(i, phase[i].inFlight, Less(phase[i].running))
      BY <2>1 DEF PhaseIs, CountsBecome
  <2> QED
      BY <1>1, <2>2, <2>3, <2>4, Zenon DEF FreesLimit
<1>5. CASE End(o) \/ DropGuard(o)
  <2>1. PICK end, thread : GuardEnds(o, end, thread)
      BY <1>5, Zenon DEF End, DropGuard
  <2>2. PICK p : /\ Sections(i, p) /\ p.state = phase[i].state /\ p.inFlight = Less(phase[i].inFlight)
                 /\ p.running = (IF o \in limit THEN Less(phase[i].running) ELSE phase[i].running)
                 /\ p.owner = phase[i].owner /\ p.account = phase[i].account
      BY <1>0, <1>1, <2>1, GuardSection
  <2>3. CountsBecome(i, Less(phase[i].inFlight),
                     IF o \in limit THEN Less(phase[i].running) ELSE phase[i].running)
      BY <2>2, Zenon DEF Sections, PhaseIs, CountsBecome
  <2>4. GuardOf(o, FALSE)
      BY <1>0, <1>5 DEF OpTyped, End, DropGuard, GuardOf, HoldsGuard
  <2>5. limit' = limit \ {o}
      BY <1>5, Zenon DEF End, DropGuard
  <2> QED
      BY <1>1, <2>3, <2>4, <2>5, Zenon DEF CountsOut
<1> QED
    BY <1>3, <1>4, <1>5, Zenon DEF Inside

\* Every step of the program moves the counters in one of four ways.
LEMMA CountersMove ==
    ASSUME IntegrationInductive, Next
    PROVE  KeepsCounters \/ \E o \in Ops : CountsIn(o) \/ FreesLimit(o) \/ CountsOut(o)
<1>1. CASE Aloof
    BY <1>1, AloofFrame DEF KeepsCounters, KeepsCounts, SameGuards, HoldsGuard, opVars
<1> QED
    BY <1>1, EntryKeepsCounters, OutsideKeepsCounters, InsideMovesCounters, WhoSteps, Zenon
       DEF IntegrationInductive

=============================================================================
