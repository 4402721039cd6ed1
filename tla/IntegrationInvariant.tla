------------------------ MODULE IntegrationInvariant ------------------------
(***************************************************************************)
(* Every step of Integration keeps the inductive invariant, for any        *)
(* instances, operations, limits and closing threads, and what it says of  *)
(* the settlement, the stop and the operations.                            *)
(***************************************************************************)
EXTENDS IntegrationSteps

-----------------------------------------------------------------------------
(* The stop.                                                               *)

\* Only admission opens an entry.
LEMMA NoneOpens ==
    ASSUME Typed, Next, \A i \in Instances : ~AdmitInstance(i)
    PROVE  \A j \in Instances : Open(j)' => Open(j)
<1> DEFINE Goal == \A j \in Instances : Open(j)' => Open(j)
<1>1. ASSUME phase' = phase PROVE Goal
    BY <1>1 DEF Open
<1>2. ASSUME NEW i \in Instances, PhaseStep(i) PROVE Goal
    BY <1>2 DEF PhaseStep, PhaseIs, Open
<1>3. ASSUME NEW i \in Instances, Sectioning(i) PROVE Goal
    BY <1>3 DEF Sectioning, Sections, PhaseIs, Open
<1>4. ASSUME NEW i \in Instances, CloseAccount(i) \/ FixResult(i) \/ Retire(i) PROVE phase' = phase
    BY <1>4 DEF CloseAccount, FixResult, Retire
<1>5. ASSUME NEW i \in Instances, CommitSettled(i) PROVE Goal
    BY <1>5, SettledPhase DEF PhaseIs, Open, Typed, EntryTyped
<1>6. ASSUME NEW i \in Instances, NameOutstanding(i) PROVE Goal
  <2>1. PhaseIs(i, (IF Open(i) THEN "Closing" ELSE phase[i].state), phase[i].inFlight,
                phase[i].running, phase[i].owner, FALSE)
      BY <1>6, NamedPhase, Zenon DEF Typed, EntryTyped
  <2> QED
      BY <2>1 DEF PhaseIs, Open
<1> HIDE DEF Goal
<1>7. ASSUME Aloof PROVE Goal
  <2>1. phase' = phase
      BY <1>7, AloofFrame
  <2> QED
      BY <1>1, <2>1
<1>8. ASSUME NEW i \in Instances, EntryStep(i) PROVE Goal
    BY <1>1, <1>2, <1>3, <1>4, <1>5, <1>6, <1>8, EntryShapes, Zenon DEF Still, Typed, EntryTyped
<1>9. ASSUME NEW o \in Ops, Outside(o) PROVE Goal
  <2>1. phase' = phase
      BY <1>9, OutsideFrame
  <2> QED
      BY <1>1, <2>1
<1>10. ASSUME NEW o \in Ops, Inside(o) PROVE Goal
  <2>1. PICK i \in Instances : i = InstanceOf[o]
      BY OpInstance
  <2> QED
      BY <1>2, <1>3, <1>10, <2>1, InsideShapes, Zenon DEF Typed, EntryTyped
<1>11. Goal
    BY <1>7, <1>8, <1>9, <1>10, WhoSteps, Zenon
<1> QED
    BY <1>11 DEF Goal

\* A step keeps the reach of the stop.
LEMMA StepKeepsStops == ASSUME Typed, Stops, Next PROVE Stops'
<1>1. ASSUME NEW i \in Instances, AdmitInstance(i) PROVE Stops'
    BY <1>1 DEF AdmitInstance, Stops, closerVars
<1>2. ASSUME UNCHANGED <<stopping, closer, toStop>>, live' \subseteq live,
             \A j \in Instances : Open(j)' => Open(j)
      PROVE  Stops'
    BY <1>2 DEF Stops, Typed, StopTyped
<1>3. SUFFICES ASSUME \A i \in Instances : ~AdmitInstance(i) PROVE Stops'
    BY <1>1
<1>4. \A j \in Instances : Open(j)' => Open(j)
    BY <1>3, NoneOpens
<1> USE DEF Typed, StopTyped
<1>5. ASSUME NEW k \in Closers, CloseRoot(k) \/ TakeSnapshot(k) \/ StopEnds(k) PROVE Stops'
  <2>1. UNCHANGED live
      BY <1>5, AloofFrame DEF Aloof
  <2>2. CASE CloseRoot(k)
      BY <1>4, <2>1, <2>2 DEF CloseRoot, Goto, Stops, registry
  <2>3. CASE TakeSnapshot(k)
      BY <1>4, <2>1, <2>3 DEF TakeSnapshot, Goto, Stops
  <2>4. CASE StopEnds(k)
      BY <1>4, <2>1, <2>4 DEF StopEnds, Goto, Stops, registry
  <2> QED
      BY <1>5, <2>2, <2>3, <2>4
<1>6. CASE DrainComplete \/ ForceStop \/ GraceEnds \/ TakeOutstanding \/ Transfer
  <2>1. UNCHANGED <<live, stopping>>
      BY <1>6 DEF DrainComplete, ForceStop, GraceEnds, TakeOutstanding, Transfer, registry
  <2>2. /\ Driver \in Closers /\ closer[Driver] \notin {"idle", "closed", "stopping"}
        /\ closer'[Driver] \notin {"idle", "closed", "stopping"}
        /\ \A k \in Closers : k # Driver => closer'[k] = closer[k]
      BY <1>6 DEF DrainComplete, ForceStop, GraceEnds, TakeOutstanding, Transfer, Goto, Closers
  <2>3. \A k \in Closers : k # Driver => toStop'[k] = toStop[k]
      BY <1>6 DEF DrainComplete, ForceStop, GraceEnds, TakeOutstanding, Transfer
  <2> QED
      BY <1>4, <2>1, <2>2, <2>3 DEF Stops
<1>7. ASSUME NEW i \in Instances, LaunchOwner(i) \/ \E w \in Callers : ReadCause(i, w) PROVE Stops'
  <2>1. UNCHANGED <<registry, closerVars>>
      BY <1>7, Zenon DEF LaunchOwner, ReadCause
  <2> QED
      BY <1>2, <1>4, <2>1 DEF registry, closerVars
<1>8. ASSUME NEW i \in Instances, NEW k \in Closers, StopEntry(k, i) PROVE Stops'
  <2>1. ~Open(i)'
    <3>1. CASE Open(i) /\ SectionEnd(i, Closing(i, "Stop"), k)
      <4>1. \E p : Sections(i, p) /\ p.state = "Closing"
          BY <3>1, CloseSection DEF EntryTyped
      <4> QED
          BY <4>1 DEF Sections, PhaseIs, Open
    <3>2. CASE ~Open(i) /\ UNCHANGED <<phase, settleVars>>
        BY <3>2 DEF Open
    <3> QED
        BY <1>8, <3>1, <3>2, Zenon DEF StopEntry
  <2>2. /\ UNCHANGED <<closer, live, stopping>>
        /\ \A c \in Closers : toStop'[c] = IF c = k THEN toStop[k] \ {i} ELSE toStop[c]
      BY <1>8 DEF StopEntry, registry
  <2> QED
      BY <1>4, <2>1, <2>2 DEF Stops
<1>9. ASSUME NEW i \in Instances, NameOutstanding(i) PROVE Stops'
  <2>1. /\ UNCHANGED <<closer, live, stopping>> /\ closer[Driver] = "naming" /\ Driver \in Closers
        /\ \A c \in Closers : c # Driver => toStop'[c] = toStop[c]
      BY <1>9 DEF NameOutstanding, registry, Closers
  <2> QED
      BY <1>4, <2>1 DEF Stops
<1>10. ASSUME NEW i \in Instances, EntryStep(i) PROVE Stops'
  <2>1. CASE UNCHANGED toStop
    <3>1. live' \subseteq live
        BY <1>3, <1>10, EntryFrame DEF Retire
    <3> QED
        BY <1>2, <1>4, <1>10, <2>1, <3>1, EntryFrame
  <2> QED
      BY <1>8, <1>9, <1>10, <2>1, EntryFrame
<1>11. ASSUME NEW o \in Ops, Outside(o) \/ Inside(o) PROVE Stops'
  <2>1. UNCHANGED <<registry, closerVars>>
      BY <1>11, OutsideFrame, InsideFrame DEF opFrame
  <2> QED
      BY <1>2, <1>4, <2>1 DEF registry, closerVars
<1> QED
    BY <1>5, <1>6, <1>7, <1>10, <1>11, WhoSteps, Zenon DEF Aloof

-----------------------------------------------------------------------------
(* The course of an operation.                                             *)

\* A step of one operation: the rest of them stay as they were.
OnlyOp(o) ==
    /\ \A p \in Ops : p # o => /\ op'[p] = op[p] /\ result'[p] = result[p] /\ acct'[p] = acct[p]
                               /\ owed'[p] = owed[p] /\ waiter'[p] = waiter[p]
                               /\ (p \in owes' <=> p \in owes) /\ (p \in limit' <=> p \in limit)
    /\ retained \cup log \subseteq retained' \cup log'

\* It is enough to look at the operation that steps.
LEMMA OneCourse ==
    ASSUME Courses, NEW o \in Ops, OnlyOp(o), Course(o)' PROVE Courses'
<1> SUFFICES ASSUME NEW p \in Ops, p # o PROVE Course(p)'
    BY DEF Courses
<1>1. Course(p)
    BY DEF Courses
<1> QED
    BY <1>1 DEF OnlyOp, Course

\* A step keeps every operation on its course.
LEMMA StepKeepsCourses == ASSUME Typed, Courses, Next PROVE Courses'
<1> USE DEF Typed, OpTyped
<1>a. ASSUME UNCHANGED opVars, retained \cup log \subseteq retained' \cup log' PROVE Courses'
    BY <1>a DEF Courses, Course, opVars
<1>b. CASE Aloof
  <2>1. UNCHANGED opVars
      BY <1>b, AloofFrame
  <2>2. retained \cup log \subseteq retained' \cup log'
      BY <1>b, AloofFrame
  <2> QED
      BY <1>a, <2>1, <2>2
<1>c. ASSUME NEW i \in Instances, EntryStep(i) PROVE Courses'
  <2>1. UNCHANGED <<opVars, log>>
      BY <1>c, EntryFrame
  <2>2. AdmitInstance(i) => retained' = retained
      BY Zenon DEF AdmitInstance
  <2>3. CloseAccount(i) => retained' \in {retained, retained \cup {i}}
      BY Zenon DEF CloseAccount
  <2>4. retained \subseteq retained'
      BY <1>c, <2>2, <2>3, EntryFrame DEF ledger
  <2> QED
      BY <1>a, <2>1, <2>4
<1>d. \A o \in Ops : Course(o)
    BY DEF Courses
<1>1. ASSUME NEW o \in Ops, Begin(o) PROVE Courses'
  <2>1. OnlyOp(o)
      BY <1>1 DEF OnlyOp, Begin
  <2>2. Course(o)'
      BY <1>d, <1>1 DEF Course, Begin
  <2> QED
      BY <2>1, <2>2, OneCourse, Zenon
<1>2. ASSUME NEW o \in Ops, ReleaseLimit(o) PROVE Courses'
  <2>1. OnlyOp(o)
      BY <1>2 DEF OnlyOp, ReleaseLimit, ledger
  <2>2. Course(o)'
      BY <1>d, <1>2 DEF Course, ReleaseLimit, ledger
  <2> QED
      BY <2>1, <2>2, OneCourse, Zenon
<1>3. ASSUME NEW o \in Ops, End(o) PROVE Courses'
  <2>1. OnlyOp(o)
      BY <1>3 DEF OnlyOp, End, ledger
  <2>2. Course(o)'
      BY <1>d, <1>3 DEF Course, End, ledger
  <2> QED
      BY <2>1, <2>2, OneCourse, Zenon
<1>4. ASSUME NEW o \in Ops, DropGuard(o) PROVE Courses'
  <2>1. OnlyOp(o)
      BY <1>4 DEF OnlyOp, DropGuard, ledger
  <2>2. Course(o)'
      BY <1>d, <1>4 DEF Course, DropGuard, ledger
  <2> QED
      BY <2>1, <2>2, OneCourse, Zenon
<1>5. ASSUME NEW o \in Ops, Launch(o) PROVE Courses'
  <2>1. OnlyOp(o)
      BY <1>5 DEF OnlyOp, Launch, ledger
  <2>2. Course(o)'
      BY <1>d, <1>5 DEF Course, Launch, ledger
  <2> QED
      BY <2>1, <2>2, OneCourse, Zenon
<1>6. ASSUME NEW o \in Ops, Handoff(o) PROVE Courses'
  <2>1. OnlyOp(o)
      BY <1>6 DEF OnlyOp, Handoff, ledger
  <2>2. Course(o)'
      BY <1>d, <1>6 DEF Course, Handoff, ledger
  <2> QED
      BY <2>1, <2>2, OneCourse, Zenon
<1>7. ASSUME NEW o \in Ops, HandoffLate(o) PROVE Courses'
  <2>1. OnlyOp(o)
      BY <1>7 DEF OnlyOp, HandoffLate, ledger
  <2>2. Course(o)'
      BY <1>d, <1>7 DEF Course, HandoffLate, ledger
  <2> QED
      BY <2>1, <2>2, OneCourse, Zenon
<1>8. ASSUME NEW o \in Ops, Progress(o) PROVE Courses'
  <2>1. OnlyOp(o)
      BY <1>8 DEF OnlyOp, Progress, Register, ledger
  <2>2. Course(o)'
      BY <1>d, <1>8 DEF Course, Progress, Register, ledger
  <2> QED
      BY <2>1, <2>2, OneCourse, Zenon
<1>9. ASSUME NEW o \in Ops, Abandon(o) PROVE Courses'
  <2>1. OnlyOp(o)
      BY <1>9 DEF OnlyOp, Abandon, DropSlot, Retain
  <2>2. Course(o)'
      BY <1>d, <1>9 DEF Course, Abandon, DropSlot, Retain
  <2> QED
      BY <2>1, <2>2, OneCourse, Zenon
<1>10. ASSUME NEW o \in Ops, Deliver(o) PROVE Courses'
  <2>1. OnlyOp(o)
      BY <1>10 DEF OnlyOp, Deliver, Retain, ledger
  <2>2. Course(o)'
      BY <1>d, <1>10 DEF Course, Deliver, Retain, ledger
  <2> QED
      BY <2>1, <2>2, OneCourse, Zenon
<1>11. ASSUME NEW o \in Ops, DropWork(o) PROVE Courses'
  <2>1. OnlyOp(o)
      BY <1>11 DEF OnlyOp, DropWork, ledger
  <2>2. Course(o)'
      BY <1>d, <1>11 DEF Course, DropWork, ledger
  <2> QED
      BY <2>1, <2>2, OneCourse, Zenon
<1>12. ASSUME NEW o \in Ops, DropAccount(o) PROVE Courses'
  <2>1. OnlyOp(o)
      BY <1>12 DEF OnlyOp, DropAccount, Dropped, DropSlot, Retain
  <2>2. Course(o)'
      BY <1>d, <1>12 DEF Course, DropAccount, Dropped, DropSlot, Retain
  <2> QED
      BY <2>1, <2>2, OneCourse, Zenon
<1>13. ASSUME NEW o \in Ops, DropOwed(o) PROVE Courses'
  <2>1. OnlyOp(o)
      BY <1>13 DEF OnlyOp, DropOwed, Dropped, ledger
  <2>2. Course(o)'
      BY <1>d, <1>13 DEF Course, DropOwed, Dropped, ledger
  <2> QED
      BY <2>1, <2>2, OneCourse, Zenon
<1>14. ASSUME NEW o \in Ops, Receive(o) PROVE Courses'
  <2>1. OnlyOp(o)
      BY <1>14 DEF OnlyOp, Receive, DropSlot, Retain, ledger
  <2>2. Course(o)'
      BY <1>d, <1>14 DEF Course, Receive, DropSlot, Retain, ledger
  <2> QED
      BY <2>1, <2>2, OneCourse, Zenon
<1>15. ASSUME NEW o \in Ops, DropWaiter(o) PROVE Courses'
  <2>1. OnlyOp(o)
      BY <1>15 DEF OnlyOp, DropWaiter, Retain, ledger
  <2>2. Course(o)'
      BY <1>d, <1>15 DEF Course, DropWaiter, Retain, ledger
  <2> QED
      BY <2>1, <2>2, OneCourse, Zenon
<1>16. ASSUME NEW o \in Ops, NEW r \in Answers, Finish(o, r) PROVE Courses'
  <2>1. OnlyOp(o)
      BY <1>16 DEF OnlyOp, Finish, DropSlot, Retain, ledger
  <2>2. Course(o)'
      BY <1>d, <1>16 DEF Course, Finish, DropSlot, Retain, ledger
  <2> QED
      BY <2>1, <2>2, OneCourse, Zenon
<1> QED
    BY <1>a, <1>b, <1>c, <1>1, <1>2, <1>3, <1>4, <1>5, <1>6, <1>7, <1>8, <1>9, <1>10, <1>11,
       <1>12, <1>13, <1>14, <1>15, <1>16, WhoSteps, Zenon DEF Outside, Inside

-----------------------------------------------------------------------------
(* The entry.                                                              *)

\* A step on one entry: the others stay as they were.
OnlyEntry(i) ==
    \A j \in Instances : j # i => /\ phase'[j] = phase[j] /\ settling'[j] = settling[j]
                                  /\ settlement'[j] = settlement[j] /\ closed'[j] = closed[j]
                                  /\ (j \in live' => j \in live)

\* It is enough to look at the entry that steps.
LEMMA OneEntry ==
    ASSUME Entries, NEW i \in Instances, OnlyEntry(i), Entry(i)' PROVE Entries'
<1> SUFFICES ASSUME NEW j \in Instances, j # i PROVE Entry(j)'
    BY DEF Entries
<1>1. Entry(j)
    BY DEF Entries
<1> QED
    BY <1>1, Zenon DEF Entry, OnlyEntry

\* A section settles the entry at most once, and Ok only when it is at rest.
LEMMA SectionKeepsEntries ==
    ASSUME Typed, Entries, NEW i \in Instances, Sectioning(i), UNCHANGED live
    PROVE  Entries'
<1>1. PICK p : /\ Sections(i, p)
               /\ p.state = phase[i].state \/ (p.state = "Closing" /\ Open(i))
               /\ p.inFlight \in {phase[i].inFlight, Less(phase[i].inFlight)}
               /\ p.running \in {phase[i].running, Less(phase[i].running)}
               /\ p.owner \in {phase[i].owner, "Absent"} /\ p.account = phase[i].account
    BY Zenon DEF Sectioning
<1>2. /\ phase'[i].state = p.state /\ phase'[i].inFlight = p.inFlight
      /\ phase'[i].running = p.running
      /\ phase'[i].owner = (IF DrainedNow(p) /\ p.owner = "Waiting" THEN "Running" ELSE p.owner)
      /\ \A j \in Instances : j # i => phase'[j] = phase[j]
      /\ closed' = closed
    BY <1>1, Zenon DEF Sections, PhaseIs
<1>3. Entry(i)
    BY DEF Entries
<1>4. CASE DrainedNow(p) /\ p.owner = "Absent" /\ p.account
  <2>1. Settles(i, p)
      BY <1>1, <1>4, SectionCases, Zenon DEF Typed
  <2>2. SettlementOf(p) # "none"
      BY DEF SettlementOf
  <2>3. p.state = "Closing" /\ p.inFlight = 0 /\ p.owner = "Absent" /\ phase[i].account
      BY <1>1, <1>4 DEF DrainedNow
  <2>4. closed[i] = "none"
      BY <1>3, <2>3, Zenon DEF Entry
  <2>5. Entry(i)'
      BY <1>2, <2>1, <2>2, <2>3, <2>4, Zenon DEF Entry, Settles
  <2> QED
      BY <1>2, <2>1, <2>5, OneEntry, Zenon DEF OnlyEntry, Settles
<1>5. CASE ~(DrainedNow(p) /\ p.owner = "Absent" /\ p.account)
  <2>1. (phase'[i].account <=> phase[i].account) /\ UNCHANGED <<settling, settlement>>
      BY <1>1, <1>5, SectionCases, Zenon DEF Typed
  <2>2. Less(0) = 0
      BY DEF Less
  <2>3. p.state # "none" \/ (phase[i].inFlight = 0 /\ phase[i].running = 0)
      BY <1>1, <1>3, Zenon DEF Entry
  <2>4. Entry(i)'
      BY <1>1, <1>2, <1>3, <2>1, <2>2, <2>3, Zenon DEF Entry, Open
  <2> QED
      BY <1>2, <2>1, <2>4, OneEntry DEF OnlyEntry
<1> QED
    BY <1>4, <1>5

\* A step on one entry's phase that settles nothing.
LEMMA PhaseKeepsEntries ==
    ASSUME Entries, NEW i \in Instances, PhaseStep(i), UNCHANGED live
    PROVE  Entries'
<1>1. Entry(i)
    BY DEF Entries
<1>2. Entry(i)' /\ OnlyEntry(i)
  <2>1. PICK st, fl, rn, ow :
          /\ PhaseIs(i, st, fl, rn, ow, phase[i].account)
          /\ st = phase[i].state \/ (Open(i) /\ st = "Ready")
          /\ \/ Open(i)
             \/ /\ fl = phase[i].inFlight /\ ow = phase[i].owner
                /\ rn \in {phase[i].running, Less(phase[i].running)}
          /\ UNCHANGED <<settling, settlement, closed>>
      BY DEF PhaseStep
  <2>2. Less(0) = 0
      BY DEF Less
  <2> QED
      BY <1>1, <2>1, <2>2, Zenon DEF Entry, PhaseIs, Open, OnlyEntry
<1> QED
    BY <1>2, OneEntry

\* A step keeps every entry's settlement in order.
LEMMA StepKeepsEntries == ASSUME Typed, Entries, Next PROVE Entries'
<1> USE DEF Typed, EntryTyped
<1>1. ASSUME UNCHANGED <<phase, settling, settlement, closed, live>> PROVE Entries'
    BY <1>1 DEF Entries, Entry
<1>2. ASSUME NEW i \in Instances, AdmitInstance(i) PROVE Entries'
  <2>1. Entry(i) /\ PhaseIs(i, "Admitted", 0, 0, "Absent", TRUE)
      BY <1>2, AdmitPhase, Zenon DEF Entries
  <2>2. phase[i].state = "none" /\ UNCHANGED <<settling, settlement, closed>> /\ live' = live \cup {i}
      BY <1>2 DEF AdmitInstance, settleVars
  <2>3. Entry(i)' /\ OnlyEntry(i)
      BY <2>1, <2>2, Zenon DEF Entry, PhaseIs, OnlyEntry
  <2> QED
      BY <2>3, OneEntry
<1>3. ASSUME NEW i \in Instances, CloseAccount(i) PROVE Entries'
  <2>1. Entry(i)
      BY DEF Entries
  <2>2. Entry(i)' /\ OnlyEntry(i)
      BY <1>3, <2>1, Zenon DEF CloseAccount, Entry, OnlyEntry, registry
  <2> QED
      BY <2>2, OneEntry
<1>4. ASSUME NEW i \in Instances, FixResult(i) PROVE Entries'
  <2>1. Entry(i)
      BY DEF Entries
  <2>2. Entry(i)' /\ OnlyEntry(i)
      BY <1>4, <2>1, Zenon DEF FixResult, Entry, OnlyEntry, registry
  <2> QED
      BY <2>2, OneEntry
<1>5. ASSUME NEW i \in Instances, Retire(i) PROVE Entries'
  <2>1. Entry(i)
      BY DEF Entries
  <2>2. Entry(i)' /\ OnlyEntry(i)
      BY <1>5, <2>1, Zenon DEF Retire, Entry, OnlyEntry
  <2> QED
      BY <2>2, OneEntry
<1>6. ASSUME NEW i \in Instances, CommitSettled(i) PROVE Entries'
  <2>1. /\ Entry(i)
        /\ PhaseIs(i, "Settled", phase[i].inFlight, phase[i].running, phase[i].owner, phase[i].account)
      BY <1>6, SettledPhase DEF Entries
  <2>2. /\ settling[i] = "retired" /\ settling'[i] = "no" /\ UNCHANGED <<settlement, closed, live>>
        /\ \A j \in Instances : j # i => settling'[j] = settling[j]
      BY <1>6 DEF CommitSettled, registry
  <2>3. Entry(i)' /\ OnlyEntry(i)
      BY <2>1, <2>2, Zenon DEF Entry, PhaseIs, OnlyEntry
  <2> QED
      BY <2>3, OneEntry
<1>7. ASSUME NEW i \in Instances, NameOutstanding(i) PROVE Entries'
  <2>1. PhaseIs(i, (IF Open(i) THEN "Closing" ELSE phase[i].state), phase[i].inFlight,
                phase[i].running, phase[i].owner, FALSE)
      BY <1>7, NamedPhase, Zenon
  <2>2. Entry(i) /\ UNCHANGED <<closed, live>>
      BY <1>7 DEF Entries, NameOutstanding, registry, settleVars
  <2>3. /\ \A j \in Instances : j # i => settling'[j] = settling[j] /\ settlement'[j] = settlement[j]
        /\ IF phase[i].account THEN settling'[i] = "taken" /\ settlement'[i] = "Named"
                               ELSE settling'[i] = settling[i] /\ settlement'[i] = settlement[i]
      BY <1>7 DEF NameOutstanding, settleVars
  <2>4. phase[i].state \in States
      BY PhaseFields DEF PhaseTypes
  <2>5. OnlyEntry(i)
      BY <2>1, <2>2, <2>3, Zenon DEF PhaseIs, OnlyEntry
  <2>6. Entry(i)'
      BY <2>1, <2>2, <2>3, <2>4, Zenon DEF Entry, PhaseIs, Open, States
  <2> QED
      BY <2>5, <2>6, OneEntry
<1>8. CASE Aloof
    BY <1>1, <1>8, AloofFrame DEF settleVars
<1>9. ASSUME NEW i \in Instances, EntryStep(i) PROVE Entries'
  <2>1. CASE UNCHANGED live /\ (Still \/ PhaseStep(i) \/ Sectioning(i))
      BY <1>1, <2>1, PhaseKeepsEntries, SectionKeepsEntries DEF Still
  <2>2. UNCHANGED live \/ AdmitInstance(i) \/ Retire(i)
      BY <1>9, EntryFrame
  <2> QED
      BY <1>2, <1>3, <1>4, <1>5, <1>6, <1>7, <1>9, <2>1, <2>2, EntryShapes, Zenon
<1>10. ASSUME NEW o \in Ops, Outside(o) PROVE Entries'
    BY <1>1, <1>10, OutsideFrame DEF opFrame, settleVars, registry
<1>11. ASSUME NEW o \in Ops, Inside(o) PROVE Entries'
  <2>1. UNCHANGED live
      BY <1>11, InsideFrame DEF registry
  <2>2. PICK i \in Instances : i = InstanceOf[o]
      BY OpInstance
  <2>3. PhaseStep(i) \/ Sectioning(i)
      BY <1>11, <2>2, InsideShapes, Zenon
  <2> QED
      BY <2>1, <2>3, PhaseKeepsEntries, SectionKeepsEntries
<1> QED
    BY <1>8, <1>9, <1>10, <1>11, WhoSteps, Zenon

-----------------------------------------------------------------------------
(* The invariant holds, and what it says.                                  *)

\* A runtime starts with the invariant.
LEMMA StartsInductive == Init => IntegrationInductive
<1> SUFFICES ASSUME Init PROVE IntegrationInductive
    OBVIOUS
<1>0. NewPhase("none", FALSE) \in PhaseType
    BY DEF NewPhase, PhaseType
<1>1. EntryTyped
    BY <1>0, Zenon DEF Init, EntryTyped, PhaseTypes
<1>2. StopTyped /\ LedgerTyped
    BY DEF Init, StopTyped, LedgerTyped
<1>3. OpTyped
    BY DEF Init, OpTyped
<1>4. Stops
    BY DEF Init, Stops
<1>5. Courses
    BY DEF Init, Courses, Course
<1>6. Entries
    BY Zenon DEF Init, Entries, Entry, NewPhase
<1> QED
    BY <1>1, <1>2, <1>3, <1>4, <1>5, <1>6 DEF IntegrationInductive, Typed

\* The inductive invariant of the integration registry: the types, the reach of
\* the stop (registry.rs), the course of every operation (access.rs) and of every
\* entry's settlement (entry.rs settle), for any instances and operations.
THEOREM IntegrationSafe == Spec => []IntegrationInductive
<1>1. Init => IntegrationInductive
    BY StartsInductive
<1>2. IntegrationInductive /\ [Next]_vars => IntegrationInductive'
  <2> SUFFICES ASSUME IntegrationInductive, [Next]_vars PROVE IntegrationInductive'
      OBVIOUS
  <2>1. CASE Next
      BY <2>1, StepKeepsTypes, StepKeepsStops, StepKeepsCourses, StepKeepsEntries
         DEF IntegrationInductive
  <2>2. CASE UNCHANGED vars
    <3>1. UNCHANGED <<phase, settling, settlement, closed, live, closer, toStop, stopping, reserved,
                      retained, log, op, result, acct, limit, owes, waiter, owed>>
        BY <2>2, Zenon DEF vars, registry, ledger, settleVars, opVars, closerVars
    <3>2. Typed'
        BY <3>1 DEF IntegrationInductive, Typed, EntryTyped, PhaseTypes, StopTyped, LedgerTyped, OpTyped
    <3>3. Stops'
        BY <3>1, Zenon DEF IntegrationInductive, Stops, Open
    <3>5. Entries'
        BY <3>1, Zenon DEF IntegrationInductive, Entries, Entry
    <3>4. Courses'
        BY <3>1, Zenon DEF IntegrationInductive, Courses, Course
    <3> QED
        BY <3>2, <3>3, <3>4, <3>5 DEF IntegrationInductive
  <2> QED
      BY <2>1, <2>2
<1> QED
    BY <1>1, <1>2, PTL DEF Spec

\* Once a closing thread has visited its snapshot, every live instance is closing,
\* however admission interleaved with it (registry.rs stopped_entries, admit).
THEOREM StopMissesNobody == Spec => []StopReachesAll
<1>1. IntegrationInductive => StopReachesAll
    BY DEF IntegrationInductive, Stops, StopReachesAll
<1> QED
    BY <1>1, IntegrationSafe, PTL

\* A failure nobody received, and the records a dropped operation left, are in
\* the history or the teardown log (accounts.rs, access.rs deliver).
THEOREM FailuresAreKept == Spec => []FailureKept
<1>1. IntegrationInductive => FailureKept
  <2> SUFFICES ASSUME IntegrationInductive, NEW o \in Ops, op[o] \in {"gone", "cut"}, ~HoldsSlot(o),
                      (result[o] = "failed" /\ waiter[o] # "received") \/ o \in owes
               PROVE  o \in retained \cup log
      BY DEF FailureKept
  <2>1. Course(o)
      BY DEF IntegrationInductive, Courses
  <2>2. acct[o] \in {"none", "held", "published", "unread", "released", "history"}
      BY DEF IntegrationInductive, Typed, OpTyped
  <2> QED
      BY <2>1, <2>2, Zenon DEF Course, HoldsSlot
<1> QED
    BY <1>1, IntegrationSafe, PTL

\* An operation's terminal is reported before its result can be read (access.rs
\* settled, deliver).
THEOREM TerminalIsFirst == Spec => []TerminalBeforeResult
<1>1. IntegrationInductive => TerminalBeforeResult
    BY Zenon DEF IntegrationInductive, Courses, Course, TerminalBeforeResult
<1> QED
    BY <1>1, IntegrationSafe, PTL

\* An observer woken by Settled finds the result fixed, the live slot free and the
\* close account settled (entry.rs settle).
THEOREM SettledComesLast == Spec => []SettledIsLast
<1>1. IntegrationInductive => SettledIsLast
    BY DEF IntegrationInductive, Entries, Entry, SettledIsLast
<1> QED
    BY <1>1, IntegrationSafe, PTL

\* Only FixResult writes a close result, and only once.
LEMMA ClosedKept ==
    ASSUME IntegrationInductive, Next, NEW i \in Instances, closed[i] # "none"
    PROVE  closed'[i] = closed[i]
<1> USE DEF IntegrationInductive, Typed, EntryTyped
<1>1. CASE Aloof
    BY <1>1, AloofFrame DEF settleVars
<1>2. ASSUME NEW j \in Instances, EntryStep(j) PROVE closed'[i] = closed[i]
  <2>1. CASE Still \/ PhaseStep(j) \/ Sectioning(j)
      BY <2>1, Zenon DEF Still, PhaseStep, Sectioning, Sections
  <2>2. CASE AdmitInstance(j) \/ NameOutstanding(j)
      BY <2>2, Zenon DEF AdmitInstance, NameOutstanding, settleVars
  <2>3. CASE CloseAccount(j) \/ Retire(j) \/ CommitSettled(j)
      BY <2>3, Zenon DEF CloseAccount, Retire, CommitSettled
  <2>4. CASE FixResult(j)
    <3>1. closed[j] = "none"
        BY <2>4, Zenon DEF FixResult, Entries, Entry
    <3> QED
        BY <2>4, <3>1 DEF FixResult
  <2> QED
      BY <1>2, <2>1, <2>2, <2>3, <2>4, EntryShapes, Zenon
<1>3. ASSUME NEW o \in Ops, Outside(o) PROVE closed'[i] = closed[i]
    BY <1>3, OutsideFrame DEF opFrame, settleVars
<1>4. ASSUME NEW o \in Ops, Inside(o) PROVE closed'[i] = closed[i]
  <2>1. PICK j \in Instances : j = InstanceOf[o]
      BY OpInstance
  <2>2. PhaseStep(j) \/ Sectioning(j)
      BY <1>4, <2>1, InsideShapes, Zenon
  <2> QED
      BY <2>2, Zenon DEF PhaseStep, Sectioning, Sections
<1> QED
    BY <1>1, <1>2, <1>3, <1>4, WhoSteps, Zenon

\* History leaves only into the log.
LEMMA HistoryKept ==
    ASSUME Next PROVE retained \subseteq retained' \cup log' /\ log \subseteq log'
<1> DEFINE Goal == retained \subseteq retained' \cup log' /\ log \subseteq log'
<1>1. ASSUME Aloof PROVE Goal
    BY <1>1, AloofFrame
<1>2. ASSUME NEW i \in Instances, EntryStep(i) PROVE Goal
  <2>1. AdmitInstance(i) => retained' = retained
      BY Zenon DEF AdmitInstance
  <2>2. CloseAccount(i) => retained' \in {retained, retained \cup {i}}
      BY Zenon DEF CloseAccount
  <2>3. UNCHANGED log
      BY <1>2, EntryFrame
  <2> QED
      BY <1>2, <2>1, <2>2, <2>3, EntryFrame DEF ledger
<1>3. ASSUME NEW o \in Ops, Inside(o) PROVE Goal
    BY <1>3, InsideFrame
<1>4. ASSUME NEW o \in Ops, Outside(o) PROVE Goal
  <2>1. UNCHANGED ledger \/ DropSlot(o) \/ Retain(o)
      BY <1>4, Zenon DEF Outside, Launch, Handoff, HandoffLate, Progress, Abandon, Deliver, DropWork,
         DropAccount, DropOwed, Receive, DropWaiter, Finish
  <2> QED
      BY <2>1 DEF ledger, DropSlot, Retain
<1> HIDE DEF Goal
<1>5. Goal
    BY <1>1, <1>2, <1>3, <1>4, WhoSteps, Zenon
<1> QED
    BY <1>5 DEF Goal

\* The one close result never changes once a closer can read it, and history
\* leaves only into the teardown log (entry.rs settle, accounts.rs transfer).
THEOREM ResultIsFinal == Spec => ResultAndHistoryKept
<1> DEFINE A == /\ \A i \in Instances : closed[i] # "none" => closed'[i] = closed[i]
                /\ retained \subseteq retained' \cup log'
                /\ log \subseteq log'
<1>1. IntegrationInductive /\ [Next]_vars => [A]_vars
  <2>1. ASSUME IntegrationInductive, Next PROVE A
      BY <2>1, ClosedKept, HistoryKept
  <2> QED
      BY <2>1, Zenon
<1> QED
    BY <1>1, IntegrationSafe, PTL DEF Spec, ResultAndHistoryKept

=============================================================================
