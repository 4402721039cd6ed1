---------------------------- MODULE Integration ----------------------------
(***************************************************************************)
(* Integration instances of one runtime: the registry, the entry's phase,  *)
(* operations and their waiters, the report accounts and the stop.         *)
(*                                                                         *)
(* crates/camber/src/integration_lifecycle/: registry.rs, entry.rs,        *)
(* accounts.rs, access.rs, with close_scope (runtime_state.rs) and         *)
(* account_for_teardown (runtime.rs).                                      *)
(*                                                                         *)
(* The registry's, an entry's and the ledger's critical sections are one   *)
(* action each, except where one is nested in the other; settle() runs     *)
(* outside every lock, so its four effects are four actions.  The ledger's *)
(* history is a set: an operation and an instance each retain at most one  *)
(* failure, filed under its owner.                                         *)
(***************************************************************************)
EXTENDS Naturals, FiniteSets

CONSTANTS
    Instances,      \* integration instances some caller may admit
    Ops,            \* operations some caller may run
    InstanceOf,     \* the instance each operation belongs to
    Retained,       \* operations run by submit_retained: they keep a cleanup register
    Nats,           \* instances with a close owner and an event consumer
    LiveLimit,      \* registry.rs LIVE_LIMIT
    OperationLimit, \* the entry's operation_limit
    Budget,         \* accounts.rs REPORT_BUDGET
    LastId,         \* the last identity, u64::MAX in the code
    Requesters,     \* threads that call request_shutdown
    Driver          \* the thread that tears the runtime down

Closers == Requesters \cup {Driver}

\* Who requests a close: a handle's user, or the adapter's event consumer.
Callers == {"user", "consumer"}

ASSUME IntegrationAssumption ==
    /\ IsFiniteSet(Instances) /\ IsFiniteSet(Ops)
    /\ InstanceOf \in [Ops -> Instances]
    /\ Retained \subseteq Ops /\ Nats \subseteq Instances
    /\ Instances \cap Ops = {}
    /\ LiveLimit \in Nat /\ OperationLimit \in Nat /\ Budget \in Nat /\ LastId \in Nat
    /\ Driver \notin Requesters
    /\ {"child", "caller"} \cap Closers = {}

VARIABLES
    rootOpen,   \* RuntimeInner::admits_children
    forced,     \* the root scope's forced stop has begun
    clean,      \* the root drain ended with no child outstanding
    stopping,   \* Live::stopping
    live,       \* Live::entries
    nextId,     \* Ledger::next_instance; LastId + 1 stands for None
    reserved,   \* Ledger::reserved
    retained,   \* Ledger::retained, by owner
    log,        \* owners of the failures the teardown log received
    phase,      \* the Phase of each entry
    settling,   \* how far settle() has come for the entry
    settlement, \* the Settlement drained() or name_outstanding() decided
    by,         \* the thread that runs settle(): a closer, "child" or "caller"
    closed,     \* IntegrationEntry::closed
    closeTerm,  \* the Close terminal reported
    calls,      \* where each request_close call stands
    owner,      \* the task that closes the adapter's transport
    op,         \* where each operation stands
    result,     \* what its work returned
    acct,       \* where its report slot is
    limit,      \* operations holding a limit slot
    owes,       \* retained operations whose register names records
    marked,     \* operations whose SubmissionMark is set
    waiter,     \* the OperationWaiter
    owed,       \* the OwedTerminal: "none", "owed", "settled"
    closer,     \* where each closing thread stands
    toStop      \* the snapshot it still has to visit

ledger == <<reserved, retained, log>>
root == <<rootOpen, forced, clean>>
registry == <<stopping, live, nextId>>
settleVars == <<settling, settlement, by, closed, closeTerm>>
opVars == <<op, result, acct, limit, owes, marked, waiter, owed>>
closerVars == <<closer, toStop>>
vars == <<root, registry, ledger, phase, settleVars, calls, owner, opVars, closerVars>>

PhaseType ==
    [state : {"none", "Admitted", "Ready", "Closing", "Settled"},
     inFlight : Nat, running : Nat, forced : BOOLEAN,
     owner : {"Absent", "Waiting", "Running"},
     failure : {"none", "Failed", "Named"},
     account : BOOLEAN, reportsClose : BOOLEAN, cleanupOwed : BOOLEAN, stopped : BOOLEAN]

TypeOK ==
    /\ rootOpen \in BOOLEAN /\ forced \in BOOLEAN /\ clean \in BOOLEAN /\ stopping \in BOOLEAN
    /\ live \subseteq Instances
    /\ nextId \in 1 .. LastId + 1
    /\ reserved \in Nat
    /\ retained \subseteq Ops \cup Instances /\ log \subseteq Ops \cup Instances
    /\ phase \in [Instances -> PhaseType]
    /\ settling \in [Instances -> {"no", "taken", "accounted", "fixed", "retired"}]
    /\ settlement \in [Instances -> {"none", "Completed", "CancelledAndJoined", "Failed", "Named"}]
    /\ by \in [Instances -> Closers \cup {"child", "caller"}]
    /\ closed \in [Instances -> {"none", "Ok", "Err"}]
    /\ closeTerm \in [Instances -> {"none", "Ok", "Err", "Incomplete"}]
    /\ calls \in [Instances -> [Callers -> {"idle", "charged", "Requested", "Stop"}]]
    /\ owner \in [Instances -> {"none", "attached", "waiting", "gone"}]
    /\ op \in [Ops -> {"idle", "admitted", "launched", "running", "settled", "released",
                       "delivered", "abandoned", "dropping", "gone", "cutting", "cut"}]
    /\ result \in [Ops -> {"none", "ok", "failed", "cleanup", "cancelled", "panicked"}]
    /\ acct \in [Ops -> {"none", "held", "published", "unread", "released", "history"}]
    /\ limit \subseteq Ops /\ owes \subseteq Retained /\ marked \subseteq Ops
    /\ waiter \in [Ops -> {"none", "waiting", "received", "dropped"}]
    /\ owed \in [Ops -> {"none", "owed", "settled"}]
    /\ closer \in [Closers -> {"idle", "closed", "stopping", "stopped", "forced",
                               "drained", "naming", "done"}]
    /\ toStop \in [Closers -> SUBSET Instances]

NewPhase(state, account) ==
    [state |-> state, inFlight |-> 0, running |-> 0, forced |-> FALSE, owner |-> "Absent",
     failure |-> "none", account |-> account, reportsClose |-> FALSE,
     cleanupOwed |-> FALSE, stopped |-> FALSE]

Init ==
    /\ rootOpen = TRUE /\ forced = FALSE /\ clean = FALSE /\ stopping = FALSE
    /\ live = {} /\ nextId = 1
    /\ reserved = 0 /\ retained = {} /\ log = {}
    /\ phase = [i \in Instances |-> NewPhase("none", FALSE)]
    /\ settling = [i \in Instances |-> "no"]
    /\ settlement = [i \in Instances |-> "none"]
    /\ by = [i \in Instances |-> "caller"]
    /\ closed = [i \in Instances |-> "none"]
    /\ closeTerm = [i \in Instances |-> "none"]
    /\ calls = [i \in Instances |-> [w \in Callers |-> "idle"]]
    /\ owner = [i \in Instances |-> "none"]
    /\ op = [o \in Ops |-> "idle"]
    /\ result = [o \in Ops |-> "none"]
    /\ acct = [o \in Ops |-> "none"]
    /\ limit = {} /\ owes = {} /\ marked = {}
    /\ waiter = [o \in Ops |-> "none"]
    /\ owed = [o \in Ops |-> "none"]
    /\ closer = [k \in Closers |-> "idle"]
    /\ toStop = [k \in Closers |-> {}]

Open(i) == phase[i].state \in {"Admitted", "Ready"}

-----------------------------------------------------------------------------
(* The ledger and the registry.                                            *)

\* usize::saturating_sub(1).
Less(n) == IF n = 0 THEN 0 ELSE n - 1

\* Ledger::has_room.
HasRoom == reserved + Cardinality(retained) < Budget

\* Mutant: the registry's own stop flag is the only thing admission reads, and
\* an instance may be admitted after the stop took its snapshot.
AdmitAfterStop(i) ==
    /\ phase[i].state = "none"
    /\ Cardinality(live) < LiveLimit
    /\ HasRoom /\ nextId <= LastId
    /\ nextId' = nextId + 1
    /\ reserved' = reserved + 1
    /\ live' = live \cup {i}
    /\ phase' = [phase EXCEPT ![i] = NewPhase("Admitted", TRUE)]
    /\ UNCHANGED <<root, stopping, retained, log, settleVars, calls, owner, opVars, closerVars>>

\* IntegrationRegistry::admit, all of it under the registry's lock, with
\* reserve_instance under the ledger's.  A refusal changes nothing.
AdmitInstance(i) ==
    /\ phase[i].state = "none"
    /\ ~stopping /\ rootOpen
    /\ Cardinality(live) < LiveLimit
    /\ HasRoom /\ nextId <= LastId
    /\ nextId' = nextId + 1
    /\ reserved' = reserved + 1
    /\ live' = live \cup {i}
    /\ phase' = [phase EXCEPT ![i] = NewPhase("Admitted", TRUE)]
    /\ UNCHANGED <<root, stopping, retained, log, settleVars, calls, owner, opVars, closerVars>>

\* ready() and connected(): the second also arms the Close terminal, and is the
\* one an adapter with a close owner calls.
Establish(i, reports) ==
    /\ Open(i)
    /\ i \in Nats => reports
    /\ phase' = [phase EXCEPT ![i].state = "Ready",
                              ![i].reportsClose = @ \/ reports]
    /\ UNCHANGED <<root, registry, ledger, settleVars, calls, owner, opVars, closerVars>>

-----------------------------------------------------------------------------
(* Closing and settlement.                                                 *)

\* Mutant: a closing entry settles although operations are still in flight.
DrainedEagerly(p) == p.state = "Closing"

DrainedNow(p) == p.state = "Closing" /\ p.inFlight = 0

\* The settlement drained() fixes for an entry with no close owner.
SettlementOf(p) ==
    IF p.failure # "none" THEN p.failure
    ELSE IF p.forced THEN "CancelledAndJoined" ELSE "Completed"

\* One section on i's phase that leaves p behind and ends in drained() and
\* act_on(): wake the close owner, begin settling, or nothing.  An owner's task
\* is woken once the phase says "Running".
SectionEnd(i, p, thread) ==
    LET settles == DrainedNow(p) /\ p.owner = "Absent" /\ p.account
        wakes   == DrainedNow(p) /\ p.owner = "Waiting"
    IN  /\ phase' = [phase EXCEPT ![i] =
             [p EXCEPT !.owner = IF wakes THEN "Running" ELSE @,
                       !.account = @ /\ ~settles,
                       !.failure = IF DrainedNow(p) /\ p.owner = "Absent" THEN "none" ELSE @]]
        /\ IF settles
             THEN /\ settling' = [settling EXCEPT ![i] = "taken"]
                  /\ settlement' = [settlement EXCEPT ![i] = SettlementOf(p)]
                  /\ by' = [by EXCEPT ![i] = thread]
             ELSE UNCHANGED <<settling, settlement, by>>
        /\ UNCHANGED <<closed, closeTerm>>

\* commit_closing on an open entry; a closing or settled one keeps its state.
Closing(i, why) ==
    [phase[i] EXCEPT !.state = "Closing", !.stopped = why = "Stop"]

\* settle(), first effect: the close account is released, or keeps the failure.
CloseAccount(i) ==
    /\ settling[i] = "taken"
    /\ settling' = [settling EXCEPT ![i] = "accounted"]
    /\ reserved' = Less(reserved)
    /\ retained' = IF settlement[i] \in {"Failed", "Named"} THEN retained \cup {i} ELSE retained
    /\ UNCHANGED <<root, registry, log, phase, settlement, by, closed, closeTerm, calls, owner,
                   opVars, closerVars>>

\* Second effect: report_close from the phase as it stands now, then the result.
FixResult(i) ==
    LET failed == settlement[i] \in {"Failed", "Named"} IN
    /\ settling[i] = "accounted"
    /\ settling' = [settling EXCEPT ![i] = "fixed"]
    /\ closed' = [closed EXCEPT ![i] = IF failed THEN "Err" ELSE "Ok"]
    /\ closeTerm' = IF ~phase[i].reportsClose THEN closeTerm
                    ELSE [closeTerm EXCEPT ![i] =
                            IF failed THEN "Err"
                            ELSE IF phase[i].cleanupOwed THEN "Incomplete" ELSE "Ok"]
    /\ UNCHANGED <<root, registry, ledger, phase, settlement, by, calls, owner, opVars, closerVars>>

\* Third effect: retire the live slot.
Retire(i) ==
    /\ settling[i] = "fixed"
    /\ settling' = [settling EXCEPT ![i] = "retired"]
    /\ live' = live \ {i}
    /\ UNCHANGED <<root, stopping, nextId, ledger, phase, settlement, by, closed, closeTerm,
                   calls, owner, opVars, closerVars>>

\* Last effect: commit Settled, which wakes every observer.
CommitSettled(i) ==
    /\ settling[i] = "retired"
    /\ phase' = [phase EXCEPT ![i].state = "Settled"]
    /\ settling' = [settling EXCEPT ![i] = "no"]
    /\ UNCHANGED <<root, registry, ledger, settlement, by, closed, closeTerm, calls, owner,
                   opVars, closerVars>>

\* fail_and_close's first section, in the adapter's event consumer, which is a
\* child of the root scope: only the first failure is charged.
ChargeFailure(i) ==
    /\ i \in Nats /\ phase[i].state # "none" /\ ~clean
    /\ calls[i]["consumer"] = "idle"
    /\ calls' = [calls EXCEPT ![i]["consumer"] = "charged"]
    /\ phase' = IF phase[i].account /\ phase[i].failure = "none"
                  THEN [phase EXCEPT ![i].failure = "Failed"] ELSE phase
    /\ UNCHANGED <<root, registry, ledger, settleVars, owner, opVars, closerVars>>

\* owning_cause: the root scope's admission is read before the entry is locked.
\* A user's call on an entry that is no longer open has no effect and is left out.
ReadCause(i, w) ==
    /\ phase[i].state # "none" /\ (w # "consumer" => Open(i))
    /\ calls[i][w] = IF w = "consumer" THEN "charged" ELSE "idle"
    /\ calls' = [calls EXCEPT ![i][w] = IF rootOpen THEN "Requested" ELSE "Stop"]
    /\ UNCHANGED <<root, registry, ledger, phase, settleVars, owner, opVars, closerVars>>

\* close_by's section and what it settles.
CommitClose(i, w) ==
    /\ calls[i][w] \in {"Requested", "Stop"}
    /\ calls' = [calls EXCEPT ![i][w] = "idle"]
    /\ IF Open(i)
         THEN SectionEnd(i, Closing(i, calls[i][w]), IF w = "consumer" THEN "child" ELSE "caller")
         ELSE UNCHANGED <<phase, settleVars>>
    /\ UNCHANGED <<root, registry, ledger, owner, opVars, closerVars>>

\* spawn_close_owner, once connected() returned: attach_close_owner, then the
\* launch as a root child.
AttachOwner(i) ==
    /\ i \in Nats /\ phase[i].state = "Ready" /\ phase[i].owner = "Absent"
    /\ owner[i] = "none"
    /\ phase' = [phase EXCEPT ![i].owner = "Waiting"]
    /\ owner' = [owner EXCEPT ![i] = "attached"]
    /\ UNCHANGED <<root, registry, ledger, settleVars, calls, opVars, closerVars>>

LaunchOwner(i) ==
    /\ owner[i] = "attached" /\ rootOpen
    /\ owner' = [owner EXCEPT ![i] = "waiting"]
    /\ UNCHANGED <<root, registry, ledger, phase, settleVars, calls, opVars, closerVars>>

\* CloseOwner::finish: woken, the owner closed the transport.
EndOwner(i, failed) ==
    /\ owner[i] = "waiting" /\ phase[i].owner = "Running"
    /\ owner' = [owner EXCEPT ![i] = "gone"]
    /\ SectionEnd(i, [phase[i] EXCEPT !.owner = "Absent",
                                      !.failure = IF failed /\ @ = "none" THEN "Named" ELSE @],
                  "child")
    /\ UNCHANGED <<root, registry, ledger, calls, opVars, closerVars>>

\* CloseOwner::drop: the launch was refused, or the forced stop dropped the task.
DropOwner(i) ==
    /\ \/ owner[i] = "attached" /\ ~rootOpen
       \/ owner[i] = "waiting" /\ forced
    /\ owner' = [owner EXCEPT ![i] = "gone"]
    /\ SectionEnd(i, [phase[i] EXCEPT !.owner = "Absent", !.forced = TRUE],
                  IF owner[i] = "attached" THEN "caller" ELSE "child")
    /\ UNCHANGED <<root, registry, ledger, calls, opVars, closerVars>>

-----------------------------------------------------------------------------
(* Operations: access.rs, the OperationGuard, the report account, the owed *)
(* terminal and the waiter.                                                *)

opFrame == <<root, registry, settleVars, calls, owner, closerVars>>

\* begin_operation: the phase's section with the ledger's nested in it.  A
\* refusal - Closed, Busy at the limit, Busy at the budget - changes nothing.
Begin(o) ==
    LET i == InstanceOf[o] IN
    /\ op[o] = "idle"
    /\ Open(i) /\ phase[i].account
    /\ phase[i].running < OperationLimit
    /\ HasRoom
    /\ op' = [op EXCEPT ![o] = "admitted"]
    /\ phase' = [phase EXCEPT ![i].inFlight = @ + 1, ![i].running = @ + 1]
    /\ reserved' = reserved + 1
    /\ acct' = [acct EXCEPT ![o] = "held"]
    /\ limit' = limit \cup {o}
    /\ owed' = [owed EXCEPT ![o] = "owed"]
    /\ UNCHANGED <<opFrame, retained, log, result, owes, marked, waiter>>

\* submit: the root scope admits the operation's task.
Launch(o) ==
    /\ op[o] = "admitted" /\ rootOpen
    /\ op' = [op EXCEPT ![o] = "launched"]
    /\ UNCHANGED <<opFrame, ledger, phase, result, acct, limit, owes, marked, waiter, owed>>

\* launched(): the terminal crosses to the task and the caller has its waiter.
Handoff(o) ==
    /\ op[o] = "launched"
    /\ op' = [op EXCEPT ![o] = "running"]
    /\ waiter' = [waiter EXCEPT ![o] = "waiting"]
    /\ UNCHANGED <<opFrame, ledger, phase, result, acct, limit, owes, marked, owed>>

\* CleanupRegister: the register comes to name a record, or names none.
Register(o) == owes' \in {owes \cup {o}, owes \ {o}}

\* The work hands something to its peer (SubmissionMark::submit); a retained one
\* registers a record it must clean up, or resolves it.
Progress(o) ==
    /\ op[o] = "running"
    /\ IF o \in Retained
         THEN Register(o) /\ UNCHANGED marked
         ELSE marked' = marked \cup {o} /\ UNCHANGED owes
    /\ UNCHANGED <<opFrame, ledger, phase, op, result, acct, limit, waiter, owed>>

\* The slot's charge moves into history in one section.
Retain(o) ==
    /\ reserved' = Less(reserved)
    /\ retained' = retained \cup {o}
    /\ acct' = [acct EXCEPT ![o] = "history"]
    /\ UNCHANGED log

\* Slot::drop: released, unless the cleanup register still names records.
DropSlot(o) ==
    IF o \in owes THEN Retain(o)
    ELSE /\ reserved' = Less(reserved)
         /\ acct' = [acct EXCEPT ![o] = "released"]
         /\ UNCHANGED <<retained, log>>

\* Mutant: the terminal is left to the drop that follows delivery.
FinishUnreported(o, r) ==
    /\ op[o] = "running"
    /\ r \notin {"cleanup", "cancelled"}
    /\ op' = [op EXCEPT ![o] = "settled"]
    /\ result' = [result EXCEPT ![o] = r]
    /\ IF r = "failed" THEN acct' = [acct EXCEPT ![o] = "published"] /\ UNCHANGED ledger
                       ELSE DropSlot(o)
    /\ UNCHANGED <<opFrame, phase, limit, owes, marked, waiter, owed>>

\* settled(): the work returned r.  The account and the terminal settle before
\* anybody can read the result.  "cancelled" is a retained operation's answer
\* to a waiter that has gone.
Finish(o, r) ==
    /\ op[o] = "running"
    /\ r = "cleanup" => o \in Retained
    /\ r = "cancelled" => o \in Retained /\ waiter[o] = "dropped"
    /\ op' = [op EXCEPT ![o] = "settled"]
    /\ result' = [result EXCEPT ![o] = r]
    /\ CASE r = "failed"  -> acct' = [acct EXCEPT ![o] = "published"] /\ UNCHANGED ledger
         [] r = "cleanup" -> Retain(o)
         [] OTHER         -> DropSlot(o)
    /\ owed' = [owed EXCEPT ![o] = "settled"]
    /\ UNCHANGED <<opFrame, phase, limit, owes, marked, waiter>>

\* operate's other branch: the waiter went first and the work is dropped.  What
\* was submitted is charged as an unknown outcome.
Abandon(o) ==
    /\ op[o] = "running" /\ o \notin Retained
    /\ waiter[o] = "dropped"
    /\ op' = [op EXCEPT ![o] = "abandoned"]
    /\ IF o \in marked THEN Retain(o) ELSE DropSlot(o)
    /\ owed' = [owed EXCEPT ![o] = "settled"]
    /\ UNCHANGED <<opFrame, phase, result, limit, owes, marked, waiter>>

\* OperationGuard::release_limit.
ReleaseLimit(o) ==
    /\ op[o] = "settled"
    /\ op' = [op EXCEPT ![o] = "released"]
    /\ phase' = [phase EXCEPT ![InstanceOf[o]].running = Less(@)]
    /\ limit' = limit \ {o}
    /\ UNCHANGED <<opFrame, ledger, result, acct, owes, marked, waiter, owed>>

\* Mutant: a failure sent to a waiter that has gone is forgotten.
DeliverForgets(o) ==
    /\ op[o] = "released"
    /\ op' = [op EXCEPT ![o] = "delivered"]
    /\ IF acct[o] # "published" THEN UNCHANGED <<ledger, acct>>
       ELSE IF waiter[o] = "waiting"
              THEN acct' = [acct EXCEPT ![o] = "unread"] /\ UNCHANGED ledger
              ELSE DropSlot(o)
    /\ UNCHANGED <<opFrame, phase, result, limit, owes, marked, waiter, owed>>

\* deliver(): send to the waiter; one that has gone abandons the failure.
Deliver(o) ==
    /\ op[o] = "released"
    /\ op' = [op EXCEPT ![o] = "delivered"]
    /\ IF acct[o] # "published" THEN UNCHANGED <<ledger, acct>>
       ELSE IF waiter[o] = "waiting"
              THEN acct' = [acct EXCEPT ![o] = "unread"] /\ UNCHANGED ledger
              ELSE Retain(o)
    /\ UNCHANGED <<opFrame, phase, result, limit, owes, marked, waiter, owed>>

\* end_operation's section.
GuardEnds(o, end, thread) ==
    LET i == InstanceOf[o] IN
    SectionEnd(i, [phase[i] EXCEPT !.inFlight = Less(@),
                                   !.running = IF o \in limit THEN Less(@) ELSE @,
                                   !.forced = @ \/ end = "Forced",
                                   !.cleanupOwed = @ \/ o \in owes], thread)

\* The guard is dropped with its end recorded.
End(o) ==
    /\ op[o] \in {"delivered", "abandoned"}
    /\ op' = [op EXCEPT ![o] = "gone"]
    /\ GuardEnds(o, "Finished", "child")
    /\ limit' = limit \ {o}
    /\ UNCHANGED <<root, registry, ledger, calls, owner, closerVars,
                   result, acct, owes, marked, waiter, owed>>

\* Work dropped around its guard: the caller drops an AdmittedOperation or its
\* launch is refused ("dropping"); the forced stop drops the task ("cutting").
DropWork(o) ==
    /\ \/ op[o] = "admitted" /\ op' = [op EXCEPT ![o] = "dropping"]
       \/ op[o] \in {"launched", "running"} /\ forced /\ op' = [op EXCEPT ![o] = "cutting"]
    /\ UNCHANGED <<opFrame, ledger, phase, result, acct, limit, owes, marked, waiter, owed>>

\* The three things dropped work held go in the order Rust drops them, which
\* differs between the paths: the guard, the account and the terminal may go in
\* any order here.
Dropped(o) == op[o] \in {"dropping", "cutting", "gone", "cut"}

DropGuard(o) ==
    /\ op[o] \in {"dropping", "cutting"}
    /\ op' = [op EXCEPT ![o] = IF op[o] = "cutting" THEN "cut" ELSE "gone"]
    /\ GuardEnds(o, "Forced", IF op[o] = "cutting" THEN "child" ELSE "caller")
    /\ limit' = limit \ {o}
    /\ UNCHANGED <<root, registry, ledger, calls, owner, closerVars,
                   result, acct, owes, marked, waiter, owed>>

DropAccount(o) ==
    /\ Dropped(o) /\ acct[o] = "held"
    /\ DropSlot(o)
    /\ UNCHANGED <<opFrame, phase, op, result, limit, owes, marked, waiter, owed>>

DropOwed(o) ==
    /\ Dropped(o) /\ owed[o] = "owed"
    /\ owed' = [owed EXCEPT ![o] = "settled"]
    /\ UNCHANGED <<opFrame, ledger, phase, op, result, acct, limit, owes, marked, waiter>>

\* The launch succeeded but the task was cut before the terminal reached it: the
\* caller still gets a waiter, whose channel is already closed.
HandoffLate(o) ==
    /\ op[o] = "cut" /\ waiter[o] = "none"
    /\ waiter' = [waiter EXCEPT ![o] = "waiting"]
    /\ UNCHANGED <<opFrame, ledger, phase, op, result, acct, limit, owes, marked, owed>>

\* Mutant: receiving a failure does not give its reservation back.
ReceiveKeepsSlot(o) ==
    /\ waiter[o] = "waiting"
    /\ op[o] \in {"delivered", "gone", "cut"}
    /\ waiter' = [waiter EXCEPT ![o] = "received"]
    /\ acct' = IF acct[o] = "unread" THEN [acct EXCEPT ![o] = "released"] ELSE acct
    /\ UNCHANGED <<opFrame, ledger, phase, op, result, limit, owes, marked, owed>>

\* OperationWaiter::wait resolves: a received ordinary failure frees its slot.
Receive(o) ==
    /\ waiter[o] = "waiting"
    /\ op[o] \in {"delivered", "gone", "cut"}
    /\ waiter' = [waiter EXCEPT ![o] = "received"]
    /\ IF acct[o] = "unread" THEN DropSlot(o) ELSE UNCHANGED <<ledger, acct>>
    /\ UNCHANGED <<opFrame, phase, op, result, limit, owes, marked, owed>>

\* The waiter is dropped: an unread failure becomes history.
DropWaiter(o) ==
    /\ waiter[o] = "waiting"
    /\ waiter' = [waiter EXCEPT ![o] = "dropped"]
    /\ IF acct[o] = "unread" THEN Retain(o) ELSE UNCHANGED <<ledger, acct>>
    /\ UNCHANGED <<opFrame, phase, op, result, limit, owes, marked, owed>>

-----------------------------------------------------------------------------
(* The stop: close_scope on any closing thread, and the driver's teardown. *)

Goto(k, pc) == closer' = [closer EXCEPT ![k] = pc]

\* k is not inside settle().
Free(k) == \A i \in Instances : settling[i] # "no" => by[i] # k

\* TaskScope::close.
CloseRoot(k) ==
    /\ closer[k] = "idle"
    /\ rootOpen' = FALSE
    /\ Goto(k, "closed")
    /\ UNCHANGED <<forced, clean, registry, ledger, phase, settleVars, calls, owner, opVars, toStop>>

\* IntegrationRegistry::stopped_entries.
TakeSnapshot(k) ==
    /\ closer[k] = "closed"
    /\ stopping' = TRUE
    /\ toStop' = [toStop EXCEPT ![k] = live]
    /\ Goto(k, "stopping")
    /\ UNCHANGED <<root, live, nextId, ledger, phase, settleVars, calls, owner, opVars>>

\* IntegrationEntry::stop on one entry of the snapshot.
StopEntry(k, i) ==
    /\ closer[k] = "stopping" /\ Free(k)
    /\ i \in toStop[k]
    /\ toStop' = [toStop EXCEPT ![k] = @ \ {i}]
    /\ IF Open(i) THEN SectionEnd(i, Closing(i, "Stop"), k)
                  ELSE UNCHANGED <<phase, settleVars>>
    /\ UNCHANGED <<root, registry, ledger, calls, owner, opVars, closer>>

StopEnds(k) ==
    /\ closer[k] = "stopping" /\ Free(k)
    /\ toStop[k] = {}
    /\ Goto(k, "stopped")
    /\ UNCHANGED <<root, registry, ledger, phase, settleVars, calls, owner, opVars, toStop>>

\* A child of the root scope is still running Camber's integration code.
ChildrenBusy ==
    \/ \E o \in Ops : op[o] \in {"launched", "running", "settled", "released", "delivered",
                                 "abandoned", "cutting"}
    \/ \E i \in Instances : \/ owner[i] = "waiting"
                            \/ calls[i]["consumer"] # "idle"
                            \/ settling[i] # "no" /\ by[i] = "child"

\* drain_root_scope: every child ended, or the forced stop begins.
DrainComplete ==
    /\ closer[Driver] = "stopped"
    /\ ~ChildrenBusy
    /\ clean' = TRUE
    /\ Goto(Driver, "drained")
    /\ UNCHANGED <<rootOpen, forced, registry, ledger, phase, settleVars, calls, owner, opVars, toStop>>

ForceStop ==
    /\ closer[Driver] = "stopped"
    /\ ChildrenBusy
    /\ forced' = TRUE
    /\ Goto(Driver, "forced")
    /\ UNCHANGED <<rootOpen, clean, registry, ledger, phase, settleVars, calls, owner, opVars, toStop>>

\* The forced stop's grace ends, whatever it got back.
GraceEnds ==
    /\ closer[Driver] = "forced"
    /\ Goto(Driver, "drained")
    /\ UNCHANGED <<root, registry, ledger, phase, settleVars, calls, owner, opVars, toStop>>

\* settle_into: visit what is still live.
TakeOutstanding ==
    /\ closer[Driver] = "drained"
    /\ toStop' = [toStop EXCEPT ![Driver] = live]
    /\ Goto(Driver, "naming")
    /\ UNCHANGED <<root, registry, ledger, phase, settleVars, calls, owner, opVars>>

\* Mutant: an entry whose operations are in flight is left for them to settle.
SkipOutstanding(i) ==
    /\ closer[Driver] = "naming" /\ Free(Driver)
    /\ i \in toStop[Driver]
    /\ toStop' = [toStop EXCEPT ![Driver] = @ \ {i}]
    /\ IF Open(i) THEN SectionEnd(i, Closing(i, "Stop"), Driver)
                  ELSE UNCHANGED <<phase, settleVars>>
    /\ UNCHANGED <<root, registry, ledger, calls, owner, opVars, closer>>

\* Mutant: an entry somebody else is settling, or has settled, is settled again.
NameAlways(i) ==
    /\ closer[Driver] = "naming" /\ Free(Driver)
    /\ i \in toStop[Driver]
    /\ toStop' = [toStop EXCEPT ![Driver] = @ \ {i}]
    /\ phase' = [phase EXCEPT ![i].state = IF Open(i) THEN "Closing" ELSE @,
                              ![i].stopped = TRUE, ![i].account = FALSE]
    /\ settling' = [settling EXCEPT ![i] = "taken"]
    /\ settlement' = [settlement EXCEPT ![i] = "Named"]
    /\ by' = [by EXCEPT ![i] = Driver]
    /\ UNCHANGED <<root, registry, ledger, closed, closeTerm, calls, owner, opVars, closer>>

\* name_outstanding: take the account, unless somebody else is settling.
NameOutstanding(i) ==
    /\ closer[Driver] = "naming" /\ Free(Driver)
    /\ i \in toStop[Driver]
    /\ toStop' = [toStop EXCEPT ![Driver] = @ \ {i}]
    /\ phase' = [phase EXCEPT ![i].state = IF Open(i) THEN "Closing" ELSE @,
                              ![i].stopped = TRUE, ![i].account = FALSE]
    /\ IF phase[i].account
         THEN /\ settling' = [settling EXCEPT ![i] = "taken"]
              /\ settlement' = [settlement EXCEPT ![i] = "Named"]
              /\ by' = [by EXCEPT ![i] = Driver]
              /\ UNCHANGED <<closed, closeTerm>>
         ELSE UNCHANGED settleVars
    /\ UNCHANGED <<root, registry, ledger, calls, owner, opVars, closer>>

\* ReportAccounts::transfer into the lifecycle failure log.
Transfer ==
    /\ closer[Driver] = "naming" /\ Free(Driver)
    /\ toStop[Driver] = {}
    /\ log' = log \cup retained
    /\ retained' = {}
    /\ Goto(Driver, "done")
    /\ UNCHANGED <<root, registry, reserved, phase, settleVars, calls, owner, opVars, toStop>>

-----------------------------------------------------------------------------

SettleStep(i) == CloseAccount(i) \/ FixResult(i) \/ Retire(i) \/ CommitSettled(i)

InstanceStep(i) ==
    \/ AdmitInstance(i) \/ ChargeFailure(i)
    \/ \E reports \in BOOLEAN : Establish(i, reports)
    \/ \E w \in Callers : ReadCause(i, w) \/ CommitClose(i, w)
    \/ AttachOwner(i) \/ LaunchOwner(i) \/ DropOwner(i)
    \/ \E failed \in BOOLEAN : EndOwner(i, failed)

OpStep(o) ==
    \/ Begin(o) \/ Launch(o) \/ Handoff(o) \/ HandoffLate(o)
    \/ Progress(o)
    \/ \E r \in {"ok", "failed", "cleanup", "cancelled", "panicked"} : Finish(o, r)
    \/ Abandon(o) \/ ReleaseLimit(o) \/ Deliver(o) \/ End(o)
    \/ DropWork(o) \/ DropGuard(o) \/ DropAccount(o) \/ DropOwed(o)
    \/ Receive(o) \/ DropWaiter(o)

CloserStep(k) ==
    CloseRoot(k) \/ TakeSnapshot(k) \/ StopEnds(k) \/ \E i \in Instances : StopEntry(k, i)

DriverStep ==
    \/ DrainComplete \/ ForceStop \/ GraceEnds \/ TakeOutstanding \/ Transfer
    \/ \E i \in Instances : NameOutstanding(i)

Next ==
    \/ \E i \in Instances : InstanceStep(i) \/ SettleStep(i)
    \/ \E o \in Ops : OpStep(o)
    \/ \E k \in Closers : CloserStep(k)
    \/ DriverStep

Spec == Init /\ [][Next]_vars

\* The next step of a thread inside close_scope or, for the driver, the teardown.
RunOn(k) ==
    \/ TakeSnapshot(k) \/ StopEnds(k) \/ \E i \in Instances : StopEntry(k, i)
    \/ k = Driver /\ DriverStep

(* A thread inside settle() and a thread inside close_scope or the         *)
(* teardown run on.  Operations and close owners owe nothing.              *)
Fairness ==
    /\ \A i \in Instances : WF_vars(SettleStep(i))
    /\ \A k \in Closers : WF_vars(RunOn(k))

FairSpec == Spec /\ Fairness

-----------------------------------------------------------------------------
(* Properties.                                                             *)

HoldsSlot(o) == acct[o] \in {"held", "published", "unread"}
HoldsGuard(o) == op[o] \notin {"idle", "gone", "cut"}

\* The ledger's reservations are exactly the slots somebody still holds: a close
\* account not yet settled, an operation's account, a failure its waiter has not
\* read.  Nothing is released twice, so saturating_sub never hides a double
\* release (accounts.rs release, retain), and nothing leaks.
LedgerExact ==
    reserved = Cardinality({i \in Instances : phase[i].account \/ settling[i] = "taken"})
               + Cardinality({o \in Ops : HoldsSlot(o)})

\* Reserved and retained accounts together never exceed the budget: settling a
\* failure into history never needs room it did not reserve (accounts.rs:3-5).
BudgetHeld == reserved + Cardinality(retained) <= Budget

\* An entry's two counters are exact: in_flight counts the guards alive, running
\* the ones still holding a limit slot, and no more run than the limit allows.
CountersExact ==
    \A i \in Instances :
        LET guards == {o \in Ops : InstanceOf[o] = i /\ HoldsGuard(o)} IN
        /\ phase[i].inFlight = Cardinality(guards)
        /\ limit \cap {o \in Ops : InstanceOf[o] = i} \subseteq guards
        /\ phase[i].running = Cardinality({o \in limit : InstanceOf[o] = i})
        /\ phase[i].running <= OperationLimit

\* The ledger and the counters are exact together, whoever ends an operation:
\* its body, its waiter, an abort or the forced stop.
AccountsExact == LedgerExact /\ BudgetHeld /\ CountersExact

\* A close result of Ok means what it says: no operation of the instance and no
\* close owner was still at work, then or later.
OkMeansQuiet ==
    \A i \in Instances : (closed[i] = "Ok" \/ settlement[i] \in {"Completed", "CancelledAndJoined"})
        => /\ \A o \in Ops : InstanceOf[o] = i => ~HoldsGuard(o)
           /\ phase[i].owner = "Absent"

\* An observer woken by Settled finds the result fixed, the live slot free and
\* the close account settled (entry.rs settle).
SettledIsLast ==
    \A i \in Instances : phase[i].state = "Settled" =>
        /\ i \notin live
        /\ closed[i] # "none"
        /\ ~phase[i].account /\ settling[i] = "no"

\* What an entry's observers read of its settlement is true and final.
SettlementHonest == OkMeansQuiet /\ SettledIsLast

\* The stop misses nobody: once a closing thread has finished its visit, every
\* live instance is closing, however admission interleaved with the snapshot.
StopReachesAll ==
    (\E k \in Closers : closer[k] \notin {"idle", "closed", "stopping"})
        => \A i \in live : ~Open(i)

\* A failure whose waiter is gone is never lost: it is in the history, or the
\* teardown log has it.  So are records a dropped operation left in the zone.
FailureKept ==
    \A o \in Ops :
        /\ op[o] \in {"gone", "cut"} /\ ~HoldsSlot(o)
        /\ (result[o] = "failed" /\ waiter[o] # "received") \/ o \in owes
        => o \in retained \cup log

\* Every admitted operation settles one terminal: it is owed until the
\* operation's work is over, and over by the time a waiter can read a result.
TerminalBeforeResult ==
    \A o \in Ops :
        \/ op[o] \in {"settled", "released", "delivered"}
        \/ waiter[o] = "received" /\ result[o] # "none"
        => owed[o] = "settled"

\* The one close result never changes once a closer can read it, and history
\* leaves only into the teardown log (accounts.rs:13).
ResultAndHistoryKept ==
    [][/\ \A i \in Instances : closed[i] # "none" => closed'[i] = closed[i]
       /\ retained \subseteq retained' \cup log'
       /\ log \subseteq log']_vars

\* Teardown settles every instance, whatever its operations and its close owner
\* do: once the driver has closed the root scope, each admitted one is settled.
TeardownSettles ==
    \A i \in Instances :
        (closer[Driver] = "closed" /\ phase[i].state # "none") ~> phase[i].state = "Settled"

\* entry.rs, owning_cause: "the stop owns every close committed once the scope is
\* closed, whichever caller reaches the entry first".
StopOwnsClose ==
    [][\A i \in Instances :
         (~rootOpen /\ Open(i) /\ phase'[i].state = "Closing") => phase'[i].stopped]_vars

=============================================================================
