--------------------------- MODULE PrimitiveProofs ---------------------------
(***************************************************************************)
(* Proofs about two concurrency primitives, each for any number of users.  *)
(*                                                                         *)
(* The books of a turn (turn.rs, turn/wait.rs) agree for any finite set of *)
(* acquisitions and any capacity, and waiters are served in the order they *)
(* registered.  The order needs one thing TurnExact does not say: tickets  *)
(* are drawn in sequence, so no two acquisitions that joined the queue     *)
(* hold the same one.                                                      *)
(*                                                                         *)
(* The circuit breaker of circuit_breaker.rs stays sound for any number of *)
(* concurrent health checks, any threshold and any cooldown.  The argument *)
(* adds one fact to BreakerSound: a check about to exchange the failure    *)
(* count read a value below the threshold.  Without it the count could     *)
(* pass the threshold by one for every check between its read and its      *)
(* exchange.                                                               *)
(***************************************************************************)
EXTENDS Turn, Breaker, FiniteSetTheorems, WellFoundedInduction, TLAPS

(* Turns.                                                                  *)

Futures == {"unpolled", "pending", "waiting", "leaving", "over"}
Outcomes == Refusals \cup {"none", "guard", "dropped", "released"}
Ticketed == {d \in Callers : ticket[d] > 0}

(* The parts of the inductive invariant.                                    *)
Permitted ==
    /\ Cardinality(Holders) + Cardinality(reserved) + permits = Capacity
    /\ permits > 0 => line = {}
Counted ==
    /\ queued = Cardinality(entered)
    /\ entered = {c \in Callers : fut[c] = "waiting"}
Placed ==
    /\ line \cap reserved = {}
    /\ \A c \in line \cup reserved : fut[c] \in {"pending", "waiting", "leaving"}
    /\ \A c \in Callers : (outcome[c] = "none") <=> (fut[c] \in {"unpolled", "pending", "waiting"})
    /\ \A c \in Callers : outcome[c] = "guard" => fut[c] = "over"
Drawn ==
    /\ \A c \in Callers : fut[c] = "unpolled" => ticket[c] = 0
    /\ \A c \in line : ticket[c] > 0
    /\ \A c \in Callers : ticket[c] <= Cardinality(Ticketed)
    /\ \A c, d \in Callers : c # d /\ ticket[c] > 0 => ticket[c] # ticket[d]
TurnInductive == TurnTypeOK /\ Permitted /\ Counted /\ Placed /\ Drawn

-----------------------------------------------------------------------------
(* A queue that is not empty has a first waiter: FirstInLine names one.     *)
LEMMA FirstWaits ==
    ASSUME TurnTypeOK, line # {}
    PROVE  FirstInLine \in line /\ \A d \in line : ticket[FirstInLine] <= ticket[d]
<1> DEFINE drawn == {ticket[c] : c \in line}
<1>1. drawn \subseteq Nat /\ drawn # {}
  BY DEF TurnTypeOK
<1>2. PICK n \in drawn : \A m \in drawn : ~(<<m, n>> \in OpToRel(<, Nat))
  BY <1>1, NatLessThanWellFounded, WFMin, Zenon
<1>3. \A m \in drawn : n <= m
  <2> HIDE DEF drawn
  <2> SUFFICES ASSUME NEW m \in drawn, m \in Nat, n \in Nat, m < n PROVE FALSE
    BY <1>1
  <2>1. <<m, n>> \in OpToRel(<, Nat)
    BY <1>1 DEF OpToRel
  <2>2. QED
    BY <1>2, <2>1, Zenon
<1>4. PICK c \in line : ticket[c] = n
  BY <1>2, Zenon
<1>5. \A d \in line : ticket[c] <= ticket[d]
  BY <1>3, <1>4
<1>6. QED
  BY <1>5 DEF FirstInLine

(* Sets of acquisitions are finite, so they can be counted.                 *)
LEMMA Countable ==
    ASSUME NEW S, S \subseteq Callers
    PROVE  IsFiniteSet(S) /\ Cardinality(S) \in Nat
BY TurnAssumption, FS_Subset, FS_CardinalityType

(* A permit given back is not lost: it is free, or reserved for the first   *)
(* waiter, and never free while someone waits.                              *)
LEMMA GivenBack ==
    ASSUME TurnTypeOK, Permitted, Placed, NEW rest \in SUBSET reserved, GiveBack(rest)
    PROVE  /\ permits' \in Nat /\ Cardinality(reserved') + permits' = Cardinality(rest) + permits + 1
           /\ permits' > 0 => line' = {}
           /\ line' \cup reserved' \subseteq line \cup rest
           /\ line' \subseteq line /\ line' \cap reserved' = {}
           /\ \A c \in reserved' \ reserved : \A d \in line' : ticket[c] <= ticket[d] /\ c # d /\ c \in line
<1>1. IsFiniteSet(rest) /\ Cardinality(rest) \in Nat /\ permits \in Nat
  BY Countable DEF TurnTypeOK
<1>2. CASE line = {}
  BY <1>1, <1>2 DEF GiveBack
<1>3. CASE line # {}
  <2>1. FirstInLine \in line /\ \A d \in line : ticket[FirstInLine] <= ticket[d]
    BY <1>3, FirstWaits
  <2>2. permits = 0
    BY <1>1, <1>3 DEF Permitted
  <2>3. permits' = permits /\ reserved' = rest \cup {FirstInLine} /\ line' = line \ {FirstInLine}
    BY <1>3 DEF GiveBack
  <2>4. FirstInLine \notin rest
    BY <2>1 DEF Placed
  <2>5. Cardinality(reserved') = Cardinality(rest) + 1
    BY <1>1, <2>3, <2>4, FS_AddElement
  <2>6. QED
    BY <1>1, <2>1, <2>2, <2>3, <2>4, <2>5 DEF Placed
<1>4. QED
  BY <1>2, <1>3

(* TurnWait::finish takes an acquisition out of the count exactly when it   *)
(* stops waiting.                                                           *)
LEMMA Finished ==
    ASSUME TurnTypeOK, Counted, NEW c \in Callers, TurnWaitFinish(c),
           NEW s \in Futures \ {"waiting"}, fut' = [fut EXCEPT ![c] = s]
    PROVE  Counted' /\ queued' \in Nat /\ entered' \subseteq Callers
<1>1. IsFiniteSet(entered) /\ Cardinality(entered) \in Nat
  BY Countable DEF TurnTypeOK
<1>2. Cardinality(entered') = IF c \in entered THEN Cardinality(entered) - 1 ELSE Cardinality(entered)
  BY <1>1, FS_RemoveElement, Zenon DEF TurnWaitFinish
<1>3. IsFiniteSet(entered') /\ Cardinality(entered') \in Nat
  BY Countable DEF TurnTypeOK, TurnWaitFinish
<1>4. queued' = Cardinality(entered')
  BY <1>2 DEF TurnWaitFinish, Counted
<1>5. entered' = {d \in Callers : fut'[d] = "waiting"}
  BY DEF TurnWaitFinish, Counted, TurnTypeOK, Futures
<1>6. QED
  BY <1>3, <1>4, <1>5 DEF Counted

(* Delivering anything but a guard to an acquisition that holds none leaves *)
(* the holders alone.                                                       *)
LEMMA HoldersStay ==
    ASSUME TurnTypeOK, NEW c \in Callers, outcome[c] # "guard",
           NEW v, v # "guard", outcome' = [outcome EXCEPT ![c] = v]
    PROVE  Holders' = Holders
BY DEF Holders, TurnTypeOK

(* The turn starts with every permit free and nobody registered.            *)
LEMMA TurnStarts == TurnInit => TurnInductive
<1> SUFFICES ASSUME TurnInit PROVE TurnInductive
  OBVIOUS
<1> USE DEF TurnInit
<1>1. TurnTypeOK
  <2>1. permits \in 0..Capacity /\ ticket \in [Callers -> Nat] /\ queued \in Nat
    BY TurnAssumption
  <2>2. QED
    BY <2>1, Zenon DEF TurnTypeOK, Refusals
<1>2. Holders = {} /\ Ticketed = {}
  BY DEF Holders, Ticketed
<1>3. Permitted
  BY <1>2, TurnAssumption, FS_EmptySet DEF Permitted
<1>4. Counted /\ Placed /\ Drawn
  BY <1>2, FS_EmptySet DEF Counted, Placed, Drawn
<1>5. QED
  BY <1>1, <1>3, <1>4 DEF TurnInductive

-----------------------------------------------------------------------------
(* Tickets stay drawn in sequence while none is drawn and the queue only    *)
(* shrinks.                                                                 *)
LEMMA DrawnStays ==
    ASSUME Drawn, ticket' = ticket, line' \subseteq line,
           \A c \in Callers : fut'[c] = "unpolled" => fut[c] = "unpolled"
    PROVE  Drawn'
BY DEF Drawn, Ticketed

(* The permits stay within the capacity they add up to.                     *)
LEMMA PermitsBounded ==
    ASSUME Permitted', permits' \in Nat, reserved' \subseteq Callers
    PROVE  permits' \in 0..Capacity
<1>1. Cardinality(Holders') \in Nat /\ Cardinality(reserved') \in Nat
  BY Countable DEF Holders
<1>2. QED
  BY <1>1, TurnAssumption DEF Permitted

(* An acquisition that ends without a guard, by a refusal or by its         *)
(* caller's drop, keeps the books: its place and its reserved permit go     *)
(* with the drop of the acquisition.                                        *)
LEMMA Withdrawn ==
    ASSUME TurnInductive, NEW c \in Callers, fut[c] \in {"unpolled", "waiting"},
           NEW v \in Refusals \cup {"dropped"}, outcome' = [outcome EXCEPT ![c] = v],
           TurnWaitFinish(c), fut' = [fut EXCEPT ![c] = "leaving"],
           UNCHANGED <<permits, line, ticket, reserved, turnClosed, waitCancelled, overdue>>
    PROVE  TurnInductive'
<1> USE DEF TurnInductive
<1>1. Counted' /\ queued' \in Nat /\ entered' \subseteq Callers
  BY Finished, Zenon DEF Futures
<1>2. TurnTypeOK'
  BY <1>1 DEF TurnTypeOK, Refusals
<1>3. outcome[c] # "guard" /\ v # "guard" /\ v # "none"
  BY DEF Placed, Refusals
<1>4. Permitted'
  BY <1>3, HoldersStay, Zenon DEF Permitted
<1>5. Placed'
  BY <1>3 DEF Placed, TurnTypeOK
<1>6. Drawn'
  BY DrawnStays DEF TurnTypeOK
<1>7. QED
  BY <1>1, <1>2, <1>4, <1>5, <1>6

(* A guard is delivered out of a reserved or a free permit.                 *)
LEMMA Granted ==
    ASSUME TurnInductive, NEW c \in Callers, PollReady(c), ~turnClosed
    PROVE  TurnInductive'
<1> USE DEF TurnInductive
<1>1. /\ fut[c] \in {"unpolled", "waiting"} /\ TurnWaitFinish(c)
      /\ outcome' = [outcome EXCEPT ![c] = "guard"] /\ fut' = [fut EXCEPT ![c] = "over"]
      /\ reserved' = reserved \ {c} /\ permits' = IF c \in reserved THEN permits ELSE permits - 1
      /\ c \in reserved \/ (permits > 0 /\ c \notin line)
      /\ UNCHANGED <<line, ticket, turnClosed, waitCancelled, overdue>>
  BY DEF PollReady, Polled, SemaphoreReady
<1>2. Counted' /\ queued' \in Nat /\ entered' \subseteq Callers
  BY <1>1, Finished, Zenon DEF Futures
<1>3. c \notin Holders /\ Holders' = Holders \cup {c}
  BY <1>1 DEF Placed, Holders, TurnTypeOK
<1>4. /\ Cardinality(Holders') = Cardinality(Holders) + 1
      /\ Cardinality(reserved') = IF c \in reserved THEN Cardinality(reserved) - 1 ELSE Cardinality(reserved)
      /\ Cardinality(Holders) \in Nat /\ Cardinality(reserved) \in Nat
  <2>1. IsFiniteSet(Holders) /\ Cardinality(Holders) \in Nat
    BY Countable DEF Holders
  <2>2. IsFiniteSet(reserved) /\ Cardinality(reserved) \in Nat
    BY Countable DEF TurnTypeOK
  <2>3. QED
    BY <1>1, <1>3, <2>1, <2>2, FS_AddElement, FS_RemoveElement, Zenon
<1>5. Permitted' /\ permits' \in Nat
  BY <1>1, <1>4, TurnAssumption DEF Permitted, TurnTypeOK
<1>6. permits' \in 0..Capacity
  BY <1>1, <1>5, PermitsBounded DEF TurnTypeOK
<1>7. TurnTypeOK'
  BY <1>1, <1>2, <1>6 DEF TurnTypeOK
<1>8. Placed'
  BY <1>1 DEF Placed, TurnTypeOK
<1>9. Drawn'
  BY <1>1, DrawnStays DEF TurnTypeOK
<1>10. QED
  BY <1>2, <1>5, <1>7, <1>8, <1>9

(* Joining the queue draws the next ticket, and finds no permit free.       *)
LEMMA Joined ==
    ASSUME TurnInductive, NEW c \in Callers, PollPending(c)
    PROVE  TurnInductive'
<1> USE DEF TurnInductive, PollPending
<1> DEFINE n == Cardinality(Ticketed)
<1>1. Ticketed \subseteq Callers /\ IsFiniteSet(Ticketed) /\ n \in Nat
  BY Countable DEF Ticketed
<1>2. ticket' = [ticket EXCEPT ![c] = 1 + n] /\ ticket' \in [Callers -> Nat]
  BY <1>1 DEF Ticketed, TurnTypeOK
<1>3. ticket[c] = 0 /\ Ticketed' = Ticketed \cup {c} /\ c \notin Ticketed
  <2>1. ticket[c] = 0
    BY DEF Drawn
  <2>2. ticket'[c] > 0 /\ \A d \in Callers : d # c => ticket'[d] = ticket[d]
    BY <1>1, <1>2 DEF TurnTypeOK
  <2>3. QED
    BY <2>1, <2>2 DEF Ticketed
<1>4. Cardinality(Ticketed') = n + 1
  BY <1>1, <1>3, FS_AddElement, Zenon
<1>5. \A d \in Callers : ticket[d] \in Nat /\ ticket[d] <= n
  BY DEF Drawn, TurnTypeOK
<1>6. ticket'[c] = n + 1 /\ \A d \in Callers : d # c => ticket'[d] = ticket[d]
  BY <1>1, <1>2 DEF TurnTypeOK
<1>7. \A d \in Callers : ticket'[d] <= Cardinality(Ticketed')
  BY <1>1, <1>4, <1>5, <1>6
<1>8. \A d, e \in Callers : d # e /\ ticket'[d] > 0 => ticket'[d] # ticket'[e]
  BY <1>1, <1>5, <1>6 DEF Drawn
<1>9. /\ \A d \in Callers : fut'[d] = "unpolled" => ticket'[d] = 0
      /\ \A d \in line' : ticket'[d] > 0
  <2>1. fut'[c] = "pending" /\ \A d \in Callers : d # c => fut'[d] = fut[d]
    BY DEF TurnTypeOK
  <2>2. \A d \in line' : d = c \/ d \in line
    OBVIOUS
  <2>3. n + 1 > 0 /\ line \subseteq Callers
    BY <1>1 DEF TurnTypeOK
  <2>4. QED
    BY <1>6, <2>1, <2>2, <2>3 DEF Drawn
<1>10. Drawn'
  BY <1>7, <1>8, <1>9 DEF Drawn
<1>11. c \notin line /\ c \notin reserved /\ permits = 0
  BY DEF SemaphoreReady, Placed, TurnTypeOK
<1>12. Permitted' /\ Counted' /\ Placed'
  BY <1>11 DEF Permitted, Counted, Placed, TurnTypeOK, Holders
<1>13. TurnTypeOK'
  BY <1>2 DEF TurnTypeOK
<1>14. QED
  BY <1>10, <1>12, <1>13

(* Registering counts the acquisition once.                                 *)
LEMMA Registered ==
    ASSUME TurnInductive, NEW c \in Callers, RegisterWait(c)
    PROVE  TurnInductive'
<1> USE DEF TurnInductive, RegisterWait
<1>1. IsFiniteSet(entered) /\ Cardinality(entered) \in Nat /\ c \notin entered
  BY Countable DEF TurnTypeOK, Counted
<1>2. Cardinality(entered') = Cardinality(entered) + 1
  BY <1>1, FS_AddElement
<1>3. entered' = {d \in Callers : fut'[d] = "waiting"}
  BY DEF Counted, TurnTypeOK
<1>4. Counted' /\ TurnTypeOK'
  BY <1>1, <1>2, <1>3 DEF Counted, TurnTypeOK
<1>5. Permitted' /\ Placed'
  BY DEF Permitted, Placed, Holders, TurnTypeOK
<1>6. Drawn'
  BY DrawnStays DEF TurnTypeOK
<1>7. QED
  BY <1>4, <1>5, <1>6

(* A dropped acquisition leaves the queue, and its reserved permit moves on *)
(* to the next waiter.                                                      *)
LEMMA Left ==
    ASSUME TurnInductive, NEW c \in Callers, Leave(c)
    PROVE  TurnInductive'
<1> USE DEF TurnInductive
<1>1. /\ fut[c] = "leaving" /\ fut' = [fut EXCEPT ![c] = "over"]
      /\ UNCHANGED <<ticket, turnClosed, queued, entered, outcome, waitCancelled, overdue>>
  BY DEF Leave
<1>2. Counted' /\ Holders' = Holders
  BY <1>1 DEF Counted, TurnTypeOK, Holders
<1>3. /\ line' \subseteq line /\ line' \cup reserved' \subseteq (line \cup reserved) \ {c}
      /\ line' \cap reserved' = {} /\ Permitted' /\ permits' \in Nat
  <2>1. CASE c \in reserved
    <3>1. GiveBack(reserved \ {c})
      BY <2>1 DEF Leave
    <3>2. /\ permits' \in Nat /\ Cardinality(reserved') + permits' = Cardinality(reserved \ {c}) + permits + 1
          /\ permits' > 0 => line' = {}
          /\ line' \cup reserved' \subseteq line \cup (reserved \ {c})
          /\ line' \subseteq line /\ line' \cap reserved' = {}
      BY <3>1, GivenBack
    <3>3. IsFiniteSet(reserved) /\ Cardinality(reserved) \in Nat
      BY Countable DEF TurnTypeOK
    <3>4. Cardinality(reserved \ {c}) = Cardinality(reserved) - 1
      BY <2>1, <3>3, FS_RemoveElement
    <3>5. reserved' \subseteq Callers /\ Cardinality(Holders) \in Nat /\ permits \in Nat
      BY <3>2, Countable DEF TurnTypeOK, Holders
    <3>6. Cardinality(reserved') \in Nat
      BY <3>5, Countable
    <3>7. Permitted'
      BY <1>2, <3>2, <3>3, <3>4, <3>5, <3>6 DEF Permitted
    <3>8. c \notin line
      BY <2>1 DEF Placed
    <3>9. QED
      BY <3>2, <3>7, <3>8
  <2>2. CASE c \notin reserved
    <3>1. line' = line \ {c} /\ UNCHANGED <<permits, reserved>>
      BY <2>2 DEF Leave
    <3>2. QED
      BY <1>2, <2>2, <3>1 DEF Permitted, Placed, TurnTypeOK
  <2>3. QED
    BY <2>1, <2>2
<1>4. reserved' \subseteq Callers /\ line' \subseteq Callers
  BY <1>3 DEF TurnTypeOK
<1>5. permits' \in 0..Capacity
  BY <1>3, <1>4, PermitsBounded
<1>6. TurnTypeOK'
  BY <1>1, <1>4, <1>5 DEF TurnTypeOK
<1>7. Placed'
  BY <1>1, <1>3 DEF Placed, TurnTypeOK
<1>8. Drawn'
  BY <1>1, <1>3, DrawnStays DEF TurnTypeOK
<1>9. QED
  BY <1>2, <1>3, <1>6, <1>7, <1>8

(* Dropping a guard gives its permit back.                                  *)
LEMMA Released ==
    ASSUME TurnInductive, NEW c \in Callers, ReleaseGuard(c)
    PROVE  TurnInductive'
<1> USE DEF TurnInductive
<1>1. /\ outcome[c] = "guard" /\ outcome' = [outcome EXCEPT ![c] = "released"] /\ GiveBack(reserved)
      /\ UNCHANGED <<ticket, turnClosed, queued, fut, entered, waitCancelled, overdue>>
  BY DEF ReleaseGuard
<1>2. /\ permits' \in Nat /\ Cardinality(reserved') + permits' = Cardinality(reserved) + permits + 1
      /\ permits' > 0 => line' = {}
      /\ line' \cup reserved' \subseteq line \cup reserved
      /\ line' \subseteq line /\ line' \cap reserved' = {}
  BY <1>1, GivenBack
<1>3. c \in Holders /\ Holders' = Holders \ {c}
  BY <1>1 DEF Holders, TurnTypeOK
<1>4. IsFiniteSet(Holders) /\ Cardinality(Holders) \in Nat /\ permits \in Nat
  BY Countable DEF Holders, TurnTypeOK
<1>5. Cardinality(Holders') = Cardinality(Holders) - 1
  BY <1>3, <1>4, FS_RemoveElement
<1>6. reserved' \subseteq Callers /\ line' \subseteq Callers
  BY <1>2 DEF TurnTypeOK
<1>7. Cardinality(reserved') \in Nat /\ Cardinality(reserved) \in Nat
  BY <1>6, Countable DEF TurnTypeOK
<1>8. Permitted'
  BY <1>2, <1>4, <1>5, <1>7 DEF Permitted
<1>9. permits' \in 0..Capacity
  BY <1>2, <1>6, <1>8, PermitsBounded
<1>10. TurnTypeOK' /\ Counted'
  BY <1>1, <1>6, <1>9 DEF TurnTypeOK, Counted
<1>11. Placed'
  BY <1>1, <1>2 DEF Placed, TurnTypeOK
<1>12. Drawn'
  BY <1>1, <1>2, DrawnStays
<1>13. QED
  BY <1>8, <1>10, <1>11, <1>12

-----------------------------------------------------------------------------
(* Every step of a turn keeps the inductive invariant.                      *)
LEMMA TurnKeeps == TurnInductive /\ [TurnNext]_turnVars => TurnInductive'
<1> SUFFICES ASSUME TurnInductive, [TurnNext]_turnVars PROVE TurnInductive'
  OBVIOUS
<1>1. ASSUME NEW c \in Callers, PollRefused(c) PROVE TurnInductive'
  <2>1. ReadyRefusal(c) \in Refusals \cup {"dropped"}
    BY <1>1 DEF PollRefused, ReadyRefusal, Refusals
  <2>2. QED
    BY <1>1, <2>1, Withdrawn, Zenon DEF PollRefused, Polled
<1>2. ASSUME NEW c \in Callers, PollReady(c) PROVE TurnInductive'
  <2>1. CASE turnClosed
    <3>1. "Closed" \in Refusals \cup {"dropped"}
      BY DEF Refusals
    <3>2. QED
      BY <1>2, <2>1, <3>1, Withdrawn DEF PollReady, Polled
  <2>2. CASE ~turnClosed
    BY <1>2, <2>2, Granted
  <2>3. QED
    BY <2>1, <2>2
<1>3. ASSUME NEW c \in Callers, WaitDeadline(c) PROVE TurnInductive'
  <2>1. "NoRuntime" \in Refusals \cup {"dropped"}
    BY DEF Refusals
  <2>2. QED
    BY <1>3, <2>1, Withdrawn, Zenon DEF WaitDeadline
<1>4. ASSUME NEW c \in Callers, DropFuture(c) PROVE TurnInductive'
  BY <1>4, Withdrawn, Zenon DEF DropFuture
<1>5. CASE TurnProgress
  BY <1>5, <1>1, <1>2, <1>3, Joined, Registered, Left, Released DEF TurnProgress
<1>6. CASE CloseTurn
  BY <1>6, Zenon DEF CloseTurn, TurnInductive, TurnTypeOK, Permitted, Counted, Placed, Drawn, Holders, Ticketed
<1>7. ASSUME NEW c \in Callers, CancelWait(c) \/ ExpireWait(c) PROVE TurnInductive'
  <2>1. TurnTypeOK'
    BY <1>7 DEF CancelWait, ExpireWait, TurnInductive, TurnTypeOK
  <2>2. Permitted' /\ Counted' /\ Placed' /\ Drawn'
    BY <1>7, Zenon DEF CancelWait, ExpireWait, TurnInductive, Permitted, Counted, Placed, Drawn, Holders, Ticketed
  <2>3. QED
    BY <2>1, <2>2 DEF TurnInductive
<1>8. CASE UNCHANGED turnVars
  BY <1>8 DEF turnVars, TurnInductive, TurnTypeOK, Permitted, Counted, Placed, Drawn, Holders, Ticketed
<1>9. QED
  BY <1>4, <1>5, <1>6, <1>7, <1>8 DEF TurnNext

(* For every finite set of acquisitions and every capacity, guards,         *)
(* reserved and free permits add up, nobody queues in front of a free       *)
(* permit, and `queued` counts exactly the acquisitions that wait.          *)
THEOREM TurnBooksAgree == TurnSpec => []TurnExact
<1>1. TurnInductive => TurnExact
  BY DEF TurnInductive, TurnExact, Permitted, Counted, Placed, Holders
<1>2. QED
  BY <1>1, TurnStarts, TurnKeeps, PTL DEF TurnSpec

(* Waiters are assigned permits in the order they registered, and nobody is *)
(* given a guard once the turn was closed.                                  *)
THEOREM TurnServesInOrder == TurnSpec => [][TurnFifo /\ TurnCloseFinal]_turnVars
<1>1. TurnInductive /\ [TurnNext]_turnVars => [TurnFifo /\ TurnCloseFinal]_turnVars
  <2> SUFFICES ASSUME TurnInductive, TurnNext PROVE TurnFifo /\ TurnCloseFinal
    OBVIOUS
  <2> USE DEF TurnInductive
  <2>1. TurnFifo
    <3>1. ASSUME NEW rest \in SUBSET reserved, GiveBack(rest) PROVE TurnFifo
      BY <3>1, GivenBack DEF TurnFifo, Drawn, TurnTypeOK
    <3>2. reserved' \subseteq reserved \/ \E rest \in SUBSET reserved : GiveBack(rest)
      BY Zenon DEF TurnNext, TurnProgress, PollRefused, PollReady, PollPending, RegisterWait, WaitDeadline,
             Leave, ReleaseGuard, CloseTurn, DropFuture, CancelWait, ExpireWait
    <3>3. QED
      BY <3>1, <3>2 DEF TurnFifo
  <2>2. TurnCloseFinal
    <3> SUFFICES ASSUME turnClosed PROVE TurnCloseFinal
      BY DEF TurnCloseFinal
    <3>1. ASSUME NEW c \in Callers, NEW v \in Refusals \cup {"dropped"}, outcome[c] # "guard",
                 turnClosed', outcome' = [outcome EXCEPT ![c] = v]
          PROVE  TurnCloseFinal
      BY <3>1 DEF TurnCloseFinal, Holders, Refusals, TurnTypeOK
    <3>2. ASSUME NEW c \in Callers, ReleaseGuard(c) PROVE TurnCloseFinal
      BY <3>2 DEF ReleaseGuard, TurnCloseFinal, Holders, TurnTypeOK
    <3>3. ASSUME turnClosed', outcome' = outcome PROVE TurnCloseFinal
      BY <3>3 DEF TurnCloseFinal, Holders
    <3>4. ASSUME NEW c \in Callers, PollRefused(c) \/ PollReady(c) \/ WaitDeadline(c) \/ DropFuture(c)
          PROVE  TurnCloseFinal
      <4>1. outcome[c] # "guard" /\ turnClosed'
        BY <3>4, Zenon DEF PollRefused, PollReady, WaitDeadline, DropFuture, Polled, Placed
      <4>2. \E v \in Refusals \cup {"dropped"} : outcome' = [outcome EXCEPT ![c] = v]
        BY <3>4, Zenon DEF PollRefused, PollReady, WaitDeadline, DropFuture, ReadyRefusal, Refusals
      <4>3. QED
        BY <3>1, <4>1, <4>2, Zenon
    <3>5. ASSUME NEW c \in Callers,
                 PollPending(c) \/ RegisterWait(c) \/ Leave(c) \/ CancelWait(c) \/ ExpireWait(c)
          PROVE  TurnCloseFinal
      BY <3>3, <3>5, Zenon DEF PollPending, RegisterWait, Leave, CancelWait, ExpireWait
    <3>6. QED
      BY <3>2, <3>4, <3>5 DEF TurnNext, TurnProgress, CloseTurn
  <2>3. QED
    BY <2>1, <2>2
<1>2. QED
  BY <1>1, TurnStarts, TurnKeeps, PTL DEF TurnSpec

-----------------------------------------------------------------------------
(* The circuit breaker.                                                    *)

CheckSteps == {"out", "open", "admit", "half open", "closed", "close", "read", "count", "stamp", "store"}

(* The inductive invariant, in the four parts the proofs treat apart: the   *)
(* types, the bounds, the time of an open circuit, and the check that       *)
(* decides a half-open one unless a probe panicked.                         *)
Typed ==
    /\ circuit \in {"CLOSED", "OPEN", "HALF_OPEN"} /\ inner \in InnerChecks
    /\ checkStep \in [Checkers -> CheckSteps] /\ prior \in [Checkers -> 0..Threshold]
Bounded ==
    /\ failures \in 0..Threshold /\ age \in 0..NoTimestamp
    /\ \A c \in Checkers : checkStep[c] = "count" => prior[c] < Threshold
Stamped ==
    /\ circuit # "CLOSED" => age # NoTimestamp
    /\ \A c \in Checkers : checkStep[c] = "store" => age # NoTimestamp
Deciding(c) == checkStep[c] \in {"half open", "close", "stamp", "store"}
Decided == circuit = "HALF_OPEN" => unwound \/ \E c \in Checkers : Deciding(c)
BreakerInductive == Typed /\ Bounded /\ Stamped /\ Decided

(* Storing c's next step moves c alone.                                     *)
LEMMA CheckMoves ==
    ASSUME Typed, NEW c \in Checkers, NEW s \in CheckSteps, CheckTo(c, s)
    PROVE  /\ checkStep' \in [Checkers -> CheckSteps] /\ checkStep'[c] = s
           /\ \A d \in Checkers : d # c => checkStep'[d] = checkStep[d]
BY DEF Typed, CheckTo

(* A half-open circuit keeps its deciding check whenever the circuit is     *)
(* left alone and the check that moves decided nothing, still decides, or   *)
(* panicked.                                                                *)
LEMMA DeciderStays ==
    ASSUME Decided, NEW c \in Checkers, circuit' = circuit,
           \A d \in Checkers : d # c => checkStep'[d] = checkStep[d],
           unwound => unwound', Deciding(c) => unwound' \/ Deciding(c)'
    PROVE  Decided'
BY Zenon DEF Decided, Deciding

(* A breaker starts closed with no failure counted and no time stamped.     *)
LEMMA StartsSound == BreakerInit => BreakerInductive
BY BreakerAssumption
   DEF BreakerInit, BreakerInductive, Typed, Bounded, Stamped, Decided, NoTimestamp, CheckSteps

(* Choosing a probe (health_check, health_check_open) never leaves a        *)
(* half-open circuit without a check that decides it.                       *)
LEMMA DispatchKeeps ==
    ASSUME BreakerInductive, NEW c \in Checkers,
           HealthCheck(c) \/ CheckCooldown(c) \/ AdmitProbe(c)
    PROVE  BreakerInductive'
<1> USE DEF BreakerInductive
<1>1. CASE HealthCheck(c)
  <2>1. \E s \in {"open", "half open", "closed"} : CheckTo(c, s)
    BY <1>1, Zenon DEF HealthCheck
  <2>2. PICK s \in {"open", "half open", "closed"} : CheckTo(c, s)
    BY <2>1, Zenon
  <2>3. /\ checkStep' \in [Checkers -> CheckSteps] /\ checkStep'[c] = s
        /\ \A d \in Checkers : d # c => checkStep'[d] = checkStep[d]
    BY <2>2, CheckMoves, Zenon DEF CheckSteps
  <2>4. Typed'
    BY <1>1, <2>3, BreakerAssumption, Zenon DEF HealthCheck, Typed, Bounded
  <2>5. Bounded'
    BY <1>1, <2>2, <2>3, BreakerAssumption, Zenon DEF HealthCheck, Typed, Bounded, CheckTo, NoTimestamp
  <2>6. Stamped'
    BY <1>1, <2>3, BreakerAssumption, Zenon DEF HealthCheck, Typed, Stamped, NoTimestamp
  <2>7. Decided'
    BY <1>1, <2>2, <2>3, DeciderStays, Zenon DEF HealthCheck, Deciding
  <2>8. QED
    BY <2>4, <2>5, <2>6, <2>7, Zenon
<1>2. CASE CheckCooldown(c)
  <2>1. \E s \in {"admit", "out"} : CheckTo(c, s)
    BY <1>2 DEF CheckCooldown
  <2>2. PICK s \in {"admit", "out"} : CheckTo(c, s)
    BY <2>1
  <2>3. /\ checkStep' \in [Checkers -> CheckSteps] /\ checkStep'[c] = s
        /\ \A d \in Checkers : d # c => checkStep'[d] = checkStep[d]
    BY <2>2, CheckMoves, Zenon DEF CheckSteps
  <2>4. Typed'
    BY <1>2, <2>3, BreakerAssumption DEF CheckCooldown, Typed, Bounded
  <2>5. Bounded'
    BY <1>2, <2>2, <2>3, BreakerAssumption DEF CheckCooldown, Typed, Bounded, CheckTo, NoTimestamp
  <2>6. Stamped'
    BY <1>2, <2>3, BreakerAssumption DEF CheckCooldown, Typed, Stamped, NoTimestamp
  <2>7. Decided'
    BY <1>2, <2>2, <2>3, DeciderStays, Zenon DEF CheckCooldown, Deciding
  <2>8. QED
    BY <2>4, <2>5, <2>6, <2>7
<1>3. CASE AdmitProbe(c)
  <2>1. \E s \in {"half open", "out"} : CheckTo(c, s)
    BY <1>3, Zenon DEF AdmitProbe, Typed
  <2>2. PICK s \in {"half open", "out"} : CheckTo(c, s)
    BY <2>1, Zenon
  <2>3. /\ checkStep' \in [Checkers -> CheckSteps] /\ checkStep'[c] = s
        /\ \A d \in Checkers : d # c => checkStep'[d] = checkStep[d]
    BY <2>2, CheckMoves, Zenon DEF CheckSteps
  <2>4. Typed'
    BY <1>3, <2>3, BreakerAssumption, Zenon DEF AdmitProbe, Typed, Bounded
  <2>5. Bounded'
    BY <1>3, <2>2, <2>3, BreakerAssumption, Zenon DEF AdmitProbe, Typed, Bounded, CheckTo, NoTimestamp
  <2>6. Stamped'
    BY <1>3, <2>3, BreakerAssumption, Zenon DEF AdmitProbe, Typed, Stamped, NoTimestamp
  <2>7. Decided'
    <3>1. CASE circuit = "OPEN"
      <4>1. checkStep'[c] = "half open"
        BY <1>3, <3>1, CheckMoves, Zenon DEF AdmitProbe, CheckSteps
      <4>2. QED
        BY <4>1, Zenon DEF Decided, Deciding
    <3>2. CASE circuit # "OPEN"
      <4>1. UNCHANGED circuit /\ UNCHANGED unwound
        BY <1>3, <3>2 DEF AdmitProbe
      <4>2. ~Deciding(c)
        BY <1>3 DEF AdmitProbe, Deciding
      <4>3. QED
        BY <2>3, <4>1, <4>2, DeciderStays, Zenon
    <3>3. QED
      BY <3>1, <3>2, Zenon
  <2>8. QED
    BY <2>4, <2>5, <2>6, <2>7, Zenon
<1>4. QED
  BY <1>1, <1>2, <1>3

(* What a probe reports (health_check_closed, health_check_half_open) is    *)
(* taken up without losing the check that decides a half-open circuit.      *)
LEMMA ProbesKeep ==
    ASSUME BreakerInductive, NEW c \in Checkers,
           ProbeClosed(c) \/ ProbeHalfOpen(c) \/ StoreClosed(c)
    PROVE  BreakerInductive'
<1> USE DEF BreakerInductive
<1>1. CASE ProbeClosed(c)
  <2>1. \E s \in {"out", "read"} : CheckTo(c, s)
    BY <1>1 DEF ProbeClosed, Typed
  <2>2. PICK s \in {"out", "read"} : CheckTo(c, s)
    BY <2>1
  <2>3. /\ checkStep' \in [Checkers -> CheckSteps] /\ checkStep'[c] = s
        /\ \A d \in Checkers : d # c => checkStep'[d] = checkStep[d]
    BY <2>2, CheckMoves, Zenon DEF CheckSteps
  <2>4. Typed'
    BY <1>1, <2>3, BreakerAssumption DEF ProbeClosed, Typed, Bounded
  <2>5. Bounded'
    BY <1>1, <2>2, <2>3, BreakerAssumption DEF ProbeClosed, Typed, Bounded, CheckTo, NoTimestamp
  <2>6. Stamped'
    BY <1>1, <2>3, BreakerAssumption DEF ProbeClosed, Typed, Stamped, NoTimestamp
  <2>7. Decided'
    BY <1>1, <2>2, <2>3, DeciderStays, Zenon DEF ProbeClosed, Deciding
  <2>8. QED
    BY <2>4, <2>5, <2>6, <2>7
<1>2. CASE ProbeHalfOpen(c)
  <2>1. \E s \in {"close", "stamp", "out"} :
           CheckTo(c, s) /\ (s = "out" => inner = "panic")
    <3>1. CheckTo(c, IF inner = "ok" THEN "close" ELSE IF inner = "err" THEN "stamp" ELSE "out")
      BY <1>2, Zenon DEF ProbeHalfOpen
    <3>2. QED
      BY <3>1, Zenon DEF Typed, InnerChecks
  <2>2. PICK s \in {"close", "stamp", "out"} : CheckTo(c, s) /\ (s = "out" => inner = "panic")
    BY <2>1
  <2>3. /\ checkStep' \in [Checkers -> CheckSteps] /\ checkStep'[c] = s
        /\ \A d \in Checkers : d # c => checkStep'[d] = checkStep[d]
    BY <2>2, CheckMoves, Zenon DEF CheckSteps
  <2>4. Typed'
    BY <1>2, <2>3, BreakerAssumption, Zenon DEF ProbeHalfOpen, Typed, Bounded
  <2>5. Bounded'
    <3>1. failures' = 0 \/ failures' = failures
      BY <1>2, Zenon DEF ProbeHalfOpen
    <3>2. \A d \in Checkers : checkStep'[d] = "count" => checkStep[d] = "count"
      BY <2>3
    <3>3. age' = age /\ prior' = prior
      BY <1>2, Zenon DEF ProbeHalfOpen
    <3>4. QED
      BY <3>1, <3>2, <3>3, BreakerAssumption DEF Bounded, NoTimestamp
  <2>6. Stamped'
    BY <1>2, <2>3, BreakerAssumption, Zenon DEF ProbeHalfOpen, Typed, Stamped, NoTimestamp
  <2>7. Decided'
    BY <1>2, <2>2, <2>3, DeciderStays, Zenon DEF ProbeHalfOpen, Deciding
  <2>8. QED
    BY <2>4, <2>5, <2>6, <2>7
<1>3. CASE StoreClosed(c)
  <2>1. \E s \in {"out"} : CheckTo(c, s)
    BY <1>3 DEF StoreClosed
  <2>2. PICK s \in {"out"} : CheckTo(c, s)
    BY <2>1
  <2>3. /\ checkStep' \in [Checkers -> CheckSteps] /\ checkStep'[c] = s
        /\ \A d \in Checkers : d # c => checkStep'[d] = checkStep[d]
    BY <2>2, CheckMoves, Zenon DEF CheckSteps
  <2>4. Typed'
    BY <1>3, <2>3, BreakerAssumption DEF StoreClosed, Typed, Bounded
  <2>5. Bounded'
    BY <1>3, <2>2, <2>3, BreakerAssumption DEF StoreClosed, Typed, Bounded, CheckTo, NoTimestamp
  <2>6. Stamped'
    BY <1>3, <2>3, BreakerAssumption DEF StoreClosed, Typed, Stamped, NoTimestamp
  <2>7. Decided'
    BY <1>3 DEF StoreClosed, Decided
  <2>8. QED
    BY <2>4, <2>5, <2>6, <2>7
<1>4. QED
  BY <1>1, <1>2, <1>3

(* record_failure and open_circuit: the count stops at the threshold, and   *)
(* the time is stamped before the circuit is stored open.                   *)
LEMMA FailuresKeep ==
    ASSUME BreakerInductive, NEW c \in Checkers,
           ReadFailures(c) \/ CountFailure(c) \/ StampOpen(c) \/ StoreOpen(c)
    PROVE  BreakerInductive'
<1> USE DEF BreakerInductive
<1>1. CASE ReadFailures(c)
  <2>1. \E s \in {"stamp", "count"} : CheckTo(c, s)
    BY <1>1 DEF ReadFailures
  <2>2. PICK s \in {"stamp", "count"} : CheckTo(c, s)
    BY <2>1
  <2>3. /\ checkStep' \in [Checkers -> CheckSteps] /\ checkStep'[c] = s
        /\ \A d \in Checkers : d # c => checkStep'[d] = checkStep[d]
    BY <2>2, CheckMoves, Zenon DEF CheckSteps
  <2>4. Typed'
    BY <1>1, <2>3, BreakerAssumption, Zenon DEF ReadFailures, Typed, Bounded
  <2>5. Bounded'
    BY <1>1, <2>2, <2>3, BreakerAssumption DEF ReadFailures, Typed, Bounded, CheckTo, NoTimestamp
  <2>6. Stamped'
    BY <1>1, <2>3, BreakerAssumption DEF ReadFailures, Typed, Stamped, NoTimestamp
  <2>7. Decided'
    BY <1>1, <2>2, <2>3, DeciderStays, Zenon DEF ReadFailures, Deciding
  <2>8. QED
    BY <2>4, <2>5, <2>6, <2>7
<1>2. CASE CountFailure(c)
  <2>1. \E s \in {"stamp", "out", "read"} : CheckTo(c, s)
    BY <1>2 DEF CountFailure
  <2>2. PICK s \in {"stamp", "out", "read"} : CheckTo(c, s)
    BY <2>1
  <2>3. /\ checkStep' \in [Checkers -> CheckSteps] /\ checkStep'[c] = s
        /\ \A d \in Checkers : d # c => checkStep'[d] = checkStep[d]
    BY <2>2, CheckMoves, Zenon DEF CheckSteps
  <2>4. Typed'
    BY <1>2, <2>3, BreakerAssumption DEF CountFailure, Typed, Bounded
  <2>5. Bounded'
    BY <1>2, <2>2, <2>3, BreakerAssumption DEF CountFailure, Typed, Bounded, CheckTo, NoTimestamp
  <2>6. Stamped'
    BY <1>2, <2>3, BreakerAssumption DEF CountFailure, Typed, Stamped, NoTimestamp
  <2>7. Decided'
    BY <1>2, <2>2, <2>3, DeciderStays, Zenon DEF CountFailure, Deciding
  <2>8. QED
    BY <2>4, <2>5, <2>6, <2>7
<1>3. CASE StampOpen(c)
  <2>1. \E s \in {"store"} : CheckTo(c, s)
    BY <1>3 DEF StampOpen
  <2>2. PICK s \in {"store"} : CheckTo(c, s)
    BY <2>1
  <2>3. /\ checkStep' \in [Checkers -> CheckSteps] /\ checkStep'[c] = s
        /\ \A d \in Checkers : d # c => checkStep'[d] = checkStep[d]
    BY <2>2, CheckMoves, Zenon DEF CheckSteps
  <2>4. Typed'
    BY <1>3, <2>3, BreakerAssumption DEF StampOpen, Typed, Bounded
  <2>5. Bounded'
    BY <1>3, <2>2, <2>3, BreakerAssumption DEF StampOpen, Typed, Bounded, CheckTo, NoTimestamp
  <2>6. Stamped'
    BY <1>3, <2>3, BreakerAssumption DEF StampOpen, Typed, Stamped, NoTimestamp
  <2>7. Decided'
    BY <1>3, <2>2, <2>3, DeciderStays, Zenon DEF StampOpen, Deciding
  <2>8. QED
    BY <2>4, <2>5, <2>6, <2>7
<1>4. CASE StoreOpen(c)
  <2>1. \E s \in {"out"} : CheckTo(c, s)
    BY <1>4 DEF StoreOpen
  <2>2. PICK s \in {"out"} : CheckTo(c, s)
    BY <2>1
  <2>3. /\ checkStep' \in [Checkers -> CheckSteps] /\ checkStep'[c] = s
        /\ \A d \in Checkers : d # c => checkStep'[d] = checkStep[d]
    BY <2>2, CheckMoves, Zenon DEF CheckSteps
  <2>4. Typed'
    BY <1>4, <2>3, BreakerAssumption DEF StoreOpen, Typed, Bounded
  <2>5. Bounded'
    BY <1>4, <2>2, <2>3, BreakerAssumption DEF StoreOpen, Typed, Bounded, CheckTo, NoTimestamp
  <2>6. Stamped'
    BY <1>4, <2>3, BreakerAssumption DEF StoreOpen, Typed, Stamped, NoTimestamp
  <2>7. Decided'
    BY <1>4 DEF StoreOpen, Decided
  <2>8. QED
    BY <2>4, <2>5, <2>6, <2>7
<1>5. QED
  BY <1>1, <1>2, <1>3, <1>4

(* For every number of checks, threshold and cooldown, an open or half-open *)
(* circuit carries the time it opened, the failure count stays within the   *)
(* threshold, and a half-open circuit has a check that will decide it,      *)
(* unless the probe of one panicked (circuit_breaker.rs).                   *)
THEOREM BreakerStaysSound == BreakerSpec => []BreakerSound
<1>1. BreakerInit => BreakerInductive
  BY StartsSound
<1>2. BreakerInductive /\ [BreakerNext]_breakerVars => BreakerInductive'
  <2> SUFFICES ASSUME BreakerInductive, [BreakerNext]_breakerVars
               PROVE  BreakerInductive'
    OBVIOUS
  <2>1. CASE CooldownTick
    <3> USE DEF BreakerInductive
    <3>1. Typed' /\ Decided'
      BY <2>1, Zenon DEF CooldownTick, Typed, Decided, Deciding
    <3>2. Bounded' /\ age' # NoTimestamp
      BY <2>1, BreakerAssumption DEF CooldownTick, Bounded, NoTimestamp
    <3>3. Stamped'
      BY <3>2 DEF Stamped, NoTimestamp
    <3>4. QED
      BY <3>1, <3>2, <3>3
  <2>2. CASE ResourceChanges
    BY <2>2, Zenon DEF ResourceChanges, BreakerInductive, Typed, Bounded, Stamped, Decided, Deciding, NoTimestamp
  <2>3. CASE CheckProgress
    BY <2>3, DispatchKeeps, ProbesKeep, FailuresKeep DEF CheckProgress
  <2>4. CASE UNCHANGED breakerVars
    BY <2>4, Zenon DEF breakerVars, BreakerInductive, Typed, Bounded, Stamped, Decided, Deciding, NoTimestamp
  <2>5. QED
    BY <2>1, <2>2, <2>3, <2>4 DEF BreakerNext
<1>3. BreakerInductive => BreakerSound
  BY Zenon DEF BreakerInductive, Typed, Bounded, Stamped, Decided, Deciding, BreakerSound
<1>4. QED
  BY <1>1, <1>2, <1>3, PTL DEF BreakerSpec

=============================================================================
