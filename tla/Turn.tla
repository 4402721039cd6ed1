-------------------------------- MODULE Turn --------------------------------
(* Fair admission to a service resource (turn.rs, turn/wait.rs): a counting *)
(* semaphore in front of the resource, and a counter of the acquisitions    *)
(* that are registered and have delivered neither a guard nor a refusal.    *)
(* The semaphore is tokio's: its queue is first in first out, a released    *)
(* permit is reserved for the head of the queue, and closing it refuses     *)
(* even a waiter with a reserved permit.                                    *)
EXTENDS Integers, FiniteSets

CONSTANTS Callers,     \* one acquisition each
          Timed,       \* callers of acquire_until; the others call acquire
          Bare,        \* timed callers outside any Tokio context
          Capacity     \* Turn::with_capacity

ASSUME TurnAssumption ==
    /\ Capacity \in Nat \ {0}
    /\ IsFiniteSet(Callers)
    /\ Timed \subseteq Callers
    /\ Bare \subseteq Timed

VARIABLES permits,     \* free permits of the semaphore
          line,        \* its waiters
          ticket,      \* ticket[c]: c's place in the order of registration
          reserved,    \* waiters a released permit has been assigned to
          turnClosed,      \* Semaphore::close was called
          queued,       \* TurnState::queued
          fut,         \* fut[c]: where c's acquisition future is
          entered,     \* callers whose TurnWait::registered is set
          outcome,     \* outcome[c]: what the future delivered
          waitCancelled,       \* timed callers whose cancellation future completed
          overdue         \* timed callers whose deadline has passed

turnVars == <<permits, line, ticket, reserved, turnClosed, queued, fut, entered, outcome, waitCancelled, overdue>>

Refusals == {"Closed", "Cancelled", "Deadline", "NoRuntime"}
Holders == {c \in Callers : outcome[c] = "guard"}

TurnTypeOK ==
    /\ permits \in 0..Capacity /\ line \subseteq Callers /\ reserved \subseteq Callers
    /\ ticket \in [Callers -> Nat]
    /\ turnClosed \in BOOLEAN /\ queued \in Nat
    /\ fut \in [Callers -> {"unpolled", "pending", "waiting", "leaving", "over"}]
    /\ entered \subseteq Callers /\ waitCancelled \subseteq Timed /\ overdue \subseteq Timed
    /\ outcome \in [Callers -> Refusals \cup {"none", "guard", "dropped", "released"}]

TurnInit ==
    /\ permits = Capacity /\ line = {} /\ ticket = [c \in Callers |-> 0] /\ reserved = {} 
    /\ turnClosed = FALSE /\ queued = 0
    /\ fut = [c \in Callers |-> "unpolled"] /\ entered = {}
    /\ outcome = [c \in Callers |-> "none"] /\ waitCancelled = {} /\ overdue = {}

-----------------------------------------------------------------------------
(* The semaphore. A permit given back by c, which held or was assigned it,  *)
(* is assigned to the waiter that registered first.                         *)
FirstInLine == CHOOSE c \in line : \A d \in line : ticket[c] <= ticket[d]

GiveBack(rest) ==
    IF line = {} THEN permits' = permits + 1 /\ reserved' = rest /\ line' = line
    ELSE permits' = permits /\ reserved' = rest \cup {FirstInLine} /\ line' = line \ {FirstInLine}

(* What the semaphore answers when c polls it.                              *)
SemaphoreReady(c) == turnClosed \/ c \in reserved \/ (permits > 0 /\ c \notin line)

(* TurnWait::finish: the counter drops once, and only if it was raised.     *)
TurnWaitFinish(c) ==
    /\ queued' = IF c \in entered THEN queued - 1 ELSE queued
    /\ entered' = entered \ {c}

(* ready_refusal: cancellation, then the deadline, before any grant.        *)
ReadyRefusal(c) == IF c \in waitCancelled THEN "Cancelled" ELSE IF c \in overdue THEN "Deadline" ELSE "none"

-----------------------------------------------------------------------------
(* Futures the executor may poll: a bare timed wait has been refused.       *)
Polled(c) == fut[c] = "unpolled" \/ (fut[c] = "waiting" /\ c \notin Bare)

(* A poll that ends in a refusal known before the semaphore is asked: the   *)
(* future returns, its TurnWait is dropped, and its queue entry after it.   *)
PollRefused(c) ==
    /\ Polled(c)
    /\ ReadyRefusal(c) # "none"
    /\ outcome' = [outcome EXCEPT ![c] = ReadyRefusal(c)]
    /\ TurnWaitFinish(c)
    /\ fut' = [fut EXCEPT ![c] = "leaving"]
    /\ UNCHANGED <<permits, line, ticket, reserved, turnClosed, waitCancelled, overdue>>

(* A poll the semaphore answers: a guard, or Closed for every later poll.   *)
PollReady(c) ==
    /\ Polled(c)
    /\ ReadyRefusal(c) = "none" /\ SemaphoreReady(c)
    /\ TurnWaitFinish(c)
    /\ IF turnClosed
       THEN /\ outcome' = [outcome EXCEPT ![c] = "Closed"]
            /\ fut' = [fut EXCEPT ![c] = "leaving"]
            /\ UNCHANGED <<permits, reserved>>
       ELSE /\ outcome' = [outcome EXCEPT ![c] = "guard"]
            /\ fut' = [fut EXCEPT ![c] = "over"]
            /\ reserved' = reserved \ {c}
            /\ permits' = IF c \in reserved THEN permits ELSE permits - 1
    /\ UNCHANGED <<line, ticket, turnClosed, waitCancelled, overdue>>

(* The first poll that finds no permit joins the queue ...                  *)
PollPending(c) ==
    /\ fut[c] = "unpolled"
    /\ ReadyRefusal(c) = "none" /\ ~SemaphoreReady(c)
    /\ line' = line \cup {c}
    /\ ticket' = [ticket EXCEPT ![c] = 1 + Cardinality({d \in Callers : ticket[d] > 0})]
    /\ fut' = [fut EXCEPT ![c] = "pending"]
    /\ UNCHANGED <<permits, reserved, turnClosed, queued, entered, outcome, waitCancelled, overdue>>

(* ... and counts itself, once.                                             *)
RegisterWait(c) ==
    /\ fut[c] = "pending"
    /\ queued' = queued + 1 /\ entered' = entered \cup {c}
    /\ fut' = [fut EXCEPT ![c] = "waiting"]
    /\ UNCHANGED <<permits, line, ticket, reserved, turnClosed, outcome, waitCancelled, overdue>>

(* A timed wait that stays pending then needs the timer of a Tokio context, *)
(* and is refused without one.                                              *)
WaitDeadline(c) ==
    /\ fut[c] = "waiting" /\ c \in Bare
    /\ outcome' = [outcome EXCEPT ![c] = "NoRuntime"]
    /\ TurnWaitFinish(c)
    /\ fut' = [fut EXCEPT ![c] = "leaving"]
    /\ UNCHANGED <<permits, line, ticket, reserved, turnClosed, waitCancelled, overdue>>

(* The caller drops the future before it is done.                           *)
DropFuture(c) ==
    /\ fut[c] \in {"unpolled", "waiting"}
    /\ outcome' = [outcome EXCEPT ![c] = "dropped"]
    /\ TurnWaitFinish(c)
    /\ fut' = [fut EXCEPT ![c] = "leaving"]
    /\ UNCHANGED <<permits, line, ticket, reserved, turnClosed, waitCancelled, overdue>>

\* A mutant of Leave: a permit reserved for a waiter that left is lost.
LeaveWithPermit(c) ==
    /\ fut[c] = "leaving"
    /\ fut' = [fut EXCEPT ![c] = "over"]
    /\ line' = line \ {c} /\ UNCHANGED <<permits, reserved>>
    /\ UNCHANGED <<ticket, turnClosed, queued, entered, outcome, waitCancelled, overdue>>

(* The dropped acquisition leaves the queue; a reserved permit moves on.    *)
Leave(c) ==
    /\ fut[c] = "leaving"
    /\ fut' = [fut EXCEPT ![c] = "over"]
    /\ IF c \in reserved THEN GiveBack(reserved \ {c})
       ELSE line' = line \ {c} /\ UNCHANGED <<permits, reserved>>
    /\ UNCHANGED <<ticket, turnClosed, queued, entered, outcome, waitCancelled, overdue>>

(* Dropping a TurnGuard releases the turn.                                  *)
ReleaseGuard(c) ==
    /\ outcome[c] = "guard"
    /\ outcome' = [outcome EXCEPT ![c] = "released"]
    /\ GiveBack(reserved)
    /\ UNCHANGED <<ticket, turnClosed, queued, fut, entered, waitCancelled, overdue>>

(* Turn::close. The queue is emptied and woken; each waiter is              *)
(* refused when it is polled.                                               *)
CloseTurn ==
    /\ ~turnClosed /\ turnClosed' = TRUE /\ line' = {}
    /\ UNCHANGED <<permits, ticket, reserved, queued, fut, entered, outcome, waitCancelled, overdue>>

(* The caller's cancellation future completes; its deadline passes.         *)
CancelWait(c) ==
    /\ c \in Timed \ waitCancelled /\ waitCancelled' = waitCancelled \cup {c}
    /\ UNCHANGED <<permits, line, ticket, reserved, turnClosed, queued, fut, entered, outcome, overdue>>
ExpireWait(c) ==
    /\ c \in Timed \ overdue /\ overdue' = overdue \cup {c}
    /\ UNCHANGED <<permits, line, ticket, reserved, turnClosed, queued, fut, entered, outcome, waitCancelled>>

(* Futures are polled when they are woken, and holders drop their guards.   *)
TurnProgress ==
    \E c \in Callers :
        \/ PollRefused(c) \/ PollReady(c) \/ PollPending(c) \/ RegisterWait(c) \/ WaitDeadline(c)
        \/ Leave(c) \/ ReleaseGuard(c)

TurnNext ==
    \/ CloseTurn \/ TurnProgress
    \/ \E c \in Callers : DropFuture(c) \/ CancelWait(c) \/ ExpireWait(c)

TurnSpec == TurnInit /\ [][TurnNext]_turnVars
FairTurnSpec == TurnSpec /\ WF_turnVars(TurnProgress)

-----------------------------------------------------------------------------
(* The books of a turn agree at every instant, whatever is granted,         *)
(* dropped, refused or closed meanwhile: guards, reserved permits and free  *)
(* permits add up to the capacity; nobody queues in front of a free permit; *)
(* `queued` counts exactly the registered acquisitions that delivered       *)
(* nothing; and a future that is over keeps neither a place nor a permit.   *)
TurnExact ==
    /\ TurnTypeOK
    /\ Cardinality(Holders) + Cardinality(reserved) + permits = Capacity
    /\ permits > 0 => line = {}
    /\ queued = Cardinality(entered)
    /\ entered = {c \in Callers : fut[c] = "waiting"}
    /\ line \cap reserved = {}
    /\ \A c \in line \cup reserved : fut[c] \in {"pending", "waiting", "leaving"}
    /\ \A c \in Callers : (outcome[c] = "none") = (fut[c] \in {"unpolled", "pending", "waiting"})
    /\ \A c \in Holders : fut[c] = "over"

(* Turn::close stops admission: no guard is delivered after it, not even to *)
(* a waiter whose permit was reserved; delivered guards stay valid until    *)
(* their owners drop them.                                                  *)
TurnCloseFinal ==
    turnClosed => /\ turnClosed'
                  /\ Holders' \subseteq Holders
                  /\ \A c \in Holders \ Holders' : outcome'[c] = "released"

(* Waiters are served in the order they registered: none is assigned a      *)
(* permit while an earlier one still waits for its own.                     *)
TurnFifo ==
    \A c \in reserved' \ reserved : \A d \in line' : ticket[c] < ticket[d]

(* An acquisition that has been polled is settled, as long as holders let   *)
(* go of their guards: a permit reserved for a future that is dropped or    *)
(* refused passes to the next waiter instead of being lost.                 *)
TurnRests == \A c \in Callers : fut[c] \in {"unpolled", "over"}
TurnServes == []<>TurnRests
=============================================================================
