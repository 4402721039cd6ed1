----------------------------- MODULE ClientBody -----------------------------
(***************************************************************************)
(* A streamed response of the outbound client                              *)
(* (crates/camber/src/http/client/stream/operation.rs and body): the task  *)
(* that opens the call and then owns its source, the slot it shares with   *)
(* the caller's handle, and the handle's next, close and drop.  Each slot  *)
(* method holds the slot's lock, so it is one step; a side that finds      *)
(* nothing to do leaves its waker in the slot and is not polled again      *)
(* until that waker, or a timer, wakes it.                                 *)
(*                                                                         *)
(* The opening is ClientSend's operation, so here it only succeeds, fails  *)
(* or never answers.  A chunk is its length.                               *)
(***************************************************************************)
EXTENDS Naturals

CONSTANTS
  BodyLimit,   \* the response maximum
  ChunkSizes,  \* the lengths of nonempty chunks
  Bare         \* whether the task is owned by the handle: no Camber runtime

VARIABLES
  bare,        \* Bare, as one call found it
  slotPhase,   \* Slot::phase: "live", "committed" or "settled"
  fact,        \* the terminal of a committed or settled phase, else "none"
  demanded,    \* Slot::demanded
  chunk,       \* Slot::chunk, 0 when empty
  ownerWaker,  \* Slot::owner
  callerWaker, \* Slot::caller
  ownerAt,     \* where the owner task is
  ownerWoken,  \* the task is scheduled
  caller,      \* where the caller is
  callerWoken, \* the caller's future is scheduled
  headReply,       \* the head channel: "open", "handed", "failed", "taken", "closed"
  counted,     \* BodyBudget::counted
  held,        \* the chunk the owner read and has not delivered, 0 for none
  final,       \* the terminal ended() returned
  source,      \* whether the source is open
  ready,       \* the source has a frame, its end, or a failure
  timers,      \* the timers that have fired: "operation", "stop", "attempt", "idle"
  recordedAs,   \* the outcome the completion record was emitted with
  got,         \* bytes the caller received
  told         \* the terminal a next or close of the caller returned

slotVars == <<slotPhase, fact, demanded, chunk, ownerWaker, callerWaker>>
bodyVars == <<bare, slotVars, ownerAt, ownerWoken, caller, callerWoken, headReply, counted,
              held, final, source, ready, timers, recordedAs, got, told>>

BodyInit ==
  /\ bare \in Bare
  /\ slotPhase = "live" /\ fact = "none" /\ demanded = FALSE /\ chunk = 0
  /\ ownerWaker = FALSE /\ callerWaker = FALSE
  /\ ownerAt = "none" /\ ownerWoken = FALSE
  /\ caller = "calling" /\ callerWoken = FALSE /\ headReply = "open"
  /\ counted = 0 /\ held = 0 /\ final = "none"
  /\ source = FALSE /\ ready = FALSE /\ timers = {}
  /\ recordedAs = "none" /\ got = 0 /\ told = "none"

-----------------------------------------------------------------------------
(* The slot. *)

\* Slot::commit: the first terminal is kept.
Commit(t) ==
  /\ slotPhase' = IF slotPhase = "live" THEN "committed" ELSE slotPhase
  /\ fact' = IF slotPhase = "live" THEN t ELSE fact

\* A waker is taken and its side scheduled.
WakeOwner == ownerWaker' = FALSE /\ ownerWoken' = (ownerWoken \/ ownerWaker)
WakeCaller == callerWaker' = FALSE /\ callerWoken' = (callerWoken \/ callerWaker)

place_demand ==
  IF slotPhase = "live"
  THEN demanded' = TRUE /\ WakeOwner
  ELSE UNCHANGED <<demanded, ownerWaker, ownerWoken>>

abandon ==
  IF slotPhase = "live"
  THEN /\ Commit("abandoned") /\ demanded' = FALSE /\ chunk' = 0 /\ WakeOwner
  ELSE UNCHANGED <<slotPhase, fact, demanded, chunk, ownerWaker, ownerWoken>>

\* The outcome the terminal record states of a body's fact.
Recorded(t) ==
  CASE t = "end" -> "response" [] t = "abandoned" -> "abandoned"
    [] t = "stopped" -> "cancelled" [] OTHER -> "failed"

-----------------------------------------------------------------------------
(* The owner task. *)

\* A call refused before its task starts settles the record itself.
Refused ==
  /\ caller' = "gone" /\ told' = "failed" /\ recordedAs' = "failed" /\ ownerAt' = "done"
  /\ UNCHANGED <<bare, slotVars, ownerWoken, callerWoken, headReply, counted, held, final,
                 source, ready, timers, got>>

\* Launch::admitted: a stream without a finite maximum or idle interval, a
\* first poll that fails and a closed scope are refused, else the task waits
\* for its start.
admitted ==
  /\ caller = "calling"
  /\ \/ Refused
     \/ /\ caller' = "seating" /\ ownerAt' = "seated"
        /\ UNCHANGED <<bare, slotVars, ownerWoken, callerWoken, headReply, counted, held, final,
                       source, ready, timers, recordedAs, got, told>>

\* Launch::start: the work is sent to the task, unless the task is gone.
start ==
  /\ caller = "seating"
  /\ IF ownerAt = "seated"
     THEN /\ caller' = "head" /\ ownerAt' = "opening" /\ ownerWoken' = TRUE
          /\ UNCHANGED <<bare, slotVars, callerWoken, headReply, counted, held, final, source,
                         ready, timers, recordedAs, got, told>>
     ELSE Refused

LifeOver == timers \cap {"operation", "stop"}

\* Started::run: a caller that stopped waiting ends the opening first.
\* Otherwise the call fails, and its record is settled before the answer is
\* sent, or the body's owner and handle exist.
Opens ==
  /\ ownerAt = "opening" /\ ownerWoken
  /\ \/ headReply = "closed" /\ ownerAt' = "done" /\ recordedAs' = "abandoned"
        /\ UNCHANGED <<bare, slotVars, ownerWoken, caller, callerWoken, headReply, source>>
     \/ /\ headReply = "open"
        /\ ownerAt' = "done" /\ recordedAs' = "failed"
        /\ headReply' = "failed" /\ callerWoken' = TRUE
        /\ UNCHANGED <<bare, slotVars, ownerWoken, caller, source>>
     \/ /\ headReply = "open" /\ LifeOver = {}
        /\ ownerAt' = "handing" /\ source' = TRUE
        /\ UNCHANGED <<bare, slotVars, ownerWoken, caller, callerWoken, headReply, recordedAs>>
  /\ UNCHANGED <<counted, held, final, ready, timers, got, told>>

\* Opened::serve: an undelivered handoff is dropped, which abandons the body.
Hands ==
  /\ ownerAt = "handing" /\ ownerAt' = "demand"
  /\ IF headReply = "open"
     THEN /\ headReply' = "handed" /\ callerWoken' = TRUE
          /\ UNCHANGED <<slotVars, ownerWoken>>
     ELSE /\ abandon /\ UNCHANGED <<callerWaker, callerWoken, headReply>>
  /\ UNCHANGED <<bare, caller, counted, held, final, source, ready, timers, recordedAs, got, told>>

\* serve returned a terminal, which run commits.
EndsOn(t) == ownerAt' = "commit" /\ final' = t

\* BodyOwner::serve, first wait: the lifetime's end, then a committed fact or
\* a demand, then the attempt timer.
poll_demand ==
  /\ ownerAt = "demand" /\ ownerWoken
  /\ \/ /\ LifeOver # {}
        /\ \E t \in LifeOver : EndsOn(IF t = "stop" THEN "stopped" ELSE "failed")
        /\ UNCHANGED <<demanded, ownerWaker, ownerWoken, timers>>
     \/ /\ LifeOver = {} /\ slotPhase # "live"
        /\ EndsOn(fact)
        /\ UNCHANGED <<demanded, ownerWaker, ownerWoken, timers>>
     \/ /\ LifeOver = {} /\ slotPhase = "live" /\ demanded
        /\ ownerAt' = "reading" /\ demanded' = FALSE
        /\ timers' = timers \ {"idle"}
        /\ UNCHANGED <<final, ownerWaker, ownerWoken>>
     \/ /\ LifeOver = {} /\ slotPhase = "live" /\ ~demanded
        /\ ownerWaker' = TRUE
        /\ IF "attempt" \in timers
           THEN EndsOn("failed") /\ UNCHANGED ownerWoken
           ELSE ownerWoken' = FALSE /\ UNCHANGED <<ownerAt, final>>
        /\ UNCHANGED <<demanded, timers>>
  /\ UNCHANGED <<bare, slotPhase, fact, chunk, callerWaker, caller, callerWoken, headReply, counted,
                 held, source, ready, recordedAs, got, told>>

\* Second wait: the lifetime's end, a fact the caller committed, one read,
\* the idle timer, the attempt timer, in that order.
read ==
  /\ ownerAt = "reading" /\ ownerWoken
  /\ \/ /\ LifeOver # {}
        /\ \E t \in LifeOver : EndsOn(IF t = "stop" THEN "stopped" ELSE "failed")
        /\ UNCHANGED <<ownerWaker, ownerWoken, held, ready>>
     \/ /\ LifeOver = {} /\ slotPhase # "live"
        /\ EndsOn(fact) /\ UNCHANGED <<ownerWaker, ownerWoken, held, ready>>
     \/ /\ LifeOver = {} /\ slotPhase = "live" /\ ready
        /\ ownerWaker' = TRUE /\ ready' = FALSE
        /\ \/ \E t \in {"end", "failed"} : EndsOn(t) /\ UNCHANGED held
           \/ \E n \in ChunkSizes : held' = n /\ ownerAt' = "admit" /\ UNCHANGED final
        /\ UNCHANGED ownerWoken
     \/ /\ LifeOver = {} /\ slotPhase = "live" /\ ~ready
        /\ ownerWaker' = TRUE
        /\ IF timers # {}
           THEN EndsOn("failed") /\ UNCHANGED ownerWoken
           ELSE ownerWoken' = FALSE /\ UNCHANGED <<ownerAt, final>>
        /\ UNCHANGED <<held, ready>>
  /\ UNCHANGED <<bare, slotPhase, fact, demanded, chunk, callerWaker, caller, callerWoken, headReply,
                 counted, source, timers, recordedAs, got, told>>

\* BodyOwner::admit and Shared::deliver.
admit ==
  /\ ownerAt = "admit" /\ held' = 0
  /\ IF counted + held > BodyLimit
     THEN EndsOn("failed") /\ UNCHANGED <<counted, chunk, callerWaker, callerWoken>>
     ELSE /\ counted' = counted + held
          /\ IF slotPhase # "live"
             THEN EndsOn(fact) /\ UNCHANGED <<chunk, callerWaker, callerWoken>>
             ELSE /\ chunk' = held /\ WakeCaller
                  /\ ownerAt' = "demand" /\ UNCHANGED final
  /\ UNCHANGED <<bare, slotPhase, fact, demanded, ownerWaker, ownerWoken, caller, headReply, source,
                 ready, timers, recordedAs, got, told>>

\* run commits the fact the serving ended on.
commit ==
  /\ ownerAt = "commit" /\ Commit(final) /\ ownerAt' = "release"
  /\ UNCHANGED <<bare, demanded, chunk, ownerWaker, callerWaker, ownerWoken, caller,
                 callerWoken, headReply, counted, held, final, source, ready, timers, recordedAs, got, told>>

\* The owner's drop: the source, then Settlement fixes the fact, publishes
\* the record, and settles.  An owner that ended on nothing was lost.
release ==
  /\ ownerAt = "release" /\ ownerAt' = "conclude" /\ source' = FALSE
  /\ UNCHANGED <<bare, slotVars, ownerWoken, caller, callerWoken, headReply, counted, held,
                 final, ready, timers, recordedAs, got, told>>

conclude ==
  /\ ownerAt = "conclude" /\ ownerAt' = "publish" /\ Commit("failed")
  /\ UNCHANGED <<bare, demanded, chunk, ownerWaker, callerWaker, ownerWoken, caller,
                 callerWoken, headReply, counted, held, final, source, ready, timers, recordedAs, got, told>>

publish_record ==
  /\ ownerAt = "publish" /\ ownerAt' = "settle" /\ recordedAs' = Recorded(fact)
  /\ UNCHANGED <<bare, slotVars, ownerWoken, caller, callerWoken, headReply, counted, held,
                 final, source, ready, timers, got, told>>

settle_body ==
  /\ ownerAt = "settle" /\ ownerAt' = "exit"
  /\ slotPhase' = "settled" /\ chunk' = 0 /\ demanded' = FALSE
  /\ ownerWaker' = FALSE /\ WakeCaller
  /\ UNCHANGED <<bare, fact, ownerWoken, caller, headReply, counted, held, final, source,
                 ready, timers, recordedAs, got, told>>

\* The transport is dropped and the task ends.
Exits ==
  /\ ownerAt = "exit" /\ ownerAt' = "done"
  /\ callerWoken' = (callerWoken \/ caller = "joining")
  /\ UNCHANGED <<bare, slotVars, ownerWoken, caller, headReply, counted, held, final, source,
                 ready, timers, recordedAs, got, told>>

\* A suspended task is aborted: by the drop of a bare handle, or with the
\* executor it runs on.  Its owner is dropped without a commit.
Aborted ==
  /\ \/ /\ ownerAt = "opening" /\ ownerAt' = "done" /\ recordedAs' = "abandoned"
        /\ headReply' = IF headReply = "open" THEN "lost" ELSE headReply
        /\ callerWoken' = TRUE
     \/ /\ ownerAt = "seated" /\ ownerAt' = "lost"
        /\ UNCHANGED <<recordedAs, headReply, callerWoken>>
     \/ /\ ownerAt \in {"demand", "reading"} /\ ~ownerWoken /\ ownerAt' = "release"
        /\ UNCHANGED <<recordedAs, headReply, callerWoken>>
  /\ UNCHANGED <<bare, slotVars, ownerWoken, caller, counted, held, final, source, ready,
                 timers, got, told>>

-----------------------------------------------------------------------------
(* The caller. *)

\* PendingHead::head.
HeadArrives ==
  /\ caller = "head" /\ callerWoken /\ headReply \in {"handed", "failed", "lost"}
  /\ callerWoken' = FALSE /\ headReply' = "taken"
  /\ caller' = IF headReply = "handed" THEN "holding" ELSE "gone"
  /\ told' = IF headReply = "handed" THEN told ELSE "failed"
  /\ UNCHANGED <<bare, slotVars, ownerAt, ownerWoken, counted, held, final, source, ready,
                 timers, recordedAs, got>>

\* The pending head is dropped: a handed body with it; a bare task is aborted.
DropHead ==
  /\ caller = "head" /\ caller' = "gone" /\ headReply' = "closed"
  /\ IF headReply = "handed" THEN abandon /\ UNCHANGED callerWaker
     ELSE /\ ownerWoken' = (ownerWoken \/ ownerAt = "opening")
          /\ UNCHANGED slotVars
  /\ UNCHANGED <<bare, ownerAt, callerWoken, counted, held, final, source, ready, timers,
                 recordedAs, got, told>>

\* next: Demand::place, then the first poll of its answer.
next_demand ==
  /\ caller = "holding" /\ caller' = "next" /\ callerWoken' = TRUE
  /\ place_demand
  /\ UNCHANGED <<bare, slotPhase, fact, chunk, callerWaker, ownerAt, headReply, counted, held, final,
                 source, ready, timers, recordedAs, got, told>>

\* A retained chunk is taken before any terminal is read.
poll_answer ==
  /\ caller = "next" /\ callerWoken
  /\ \/ /\ chunk # 0
        /\ got' = got + chunk /\ chunk' = 0 /\ caller' = "holding"
        /\ callerWoken' = FALSE /\ UNCHANGED <<callerWaker, told>>
     \/ /\ chunk = 0 /\ slotPhase = "settled"
        /\ told' = fact /\ caller' = "holding"
        /\ callerWoken' = FALSE /\ UNCHANGED <<callerWaker, got, chunk>>
     \/ /\ chunk = 0 /\ slotPhase # "settled"
        /\ callerWaker' = TRUE /\ callerWoken' = FALSE
        /\ UNCHANGED <<caller, got, told, chunk>>
  /\ UNCHANGED <<bare, slotPhase, fact, demanded, ownerWaker, ownerAt, ownerWoken, headReply, counted,
                 held, final, source, ready, timers, recordedAs>>

\* The future of next is dropped before its answer.
DropNext ==
  /\ caller = "next" /\ caller' = "holding" /\ callerWoken' = FALSE
  /\ abandon
  /\ UNCHANGED <<bare, callerWaker, ownerAt, headReply, counted, held, final, source, ready,
                 timers, recordedAs, got, told>>

close ==
  /\ caller = "holding" /\ caller' = "closing" /\ callerWoken' = TRUE
  /\ abandon
  /\ UNCHANGED <<bare, callerWaker, ownerAt, headReply, counted, held, final, source, ready,
                 timers, recordedAs, got, told>>

poll_settled ==
  /\ caller = "closing" /\ callerWoken
  /\ IF slotPhase = "settled"
     THEN /\ caller' = "joining" /\ UNCHANGED <<callerWaker, callerWoken>>
     ELSE /\ callerWaker' = TRUE /\ callerWoken' = FALSE /\ UNCHANGED caller
  /\ UNCHANGED <<bare, slotPhase, fact, demanded, chunk, ownerWaker, ownerAt, ownerWoken, headReply,
                 counted, held, final, source, ready, timers, recordedAs, got, told>>

\* A bare task is joined; a runtime's task is its runtime's to join.
joined ==
  /\ caller = "joining" /\ callerWoken
  /\ IF bare /\ ownerAt # "done"
     THEN callerWoken' = FALSE /\ UNCHANGED <<caller, told>>
     ELSE caller' = "closed" /\ told' = fact /\ callerWoken' = FALSE
  /\ UNCHANGED <<bare, slotVars, ownerAt, ownerWoken, headReply, counted, held, final, source,
                 ready, timers, recordedAs, got>>

\* The handle is dropped: it abandons the body before a bare task's abort.
DropBody ==
  /\ caller \in {"holding", "closing", "joining"} /\ caller' = "gone"
  /\ abandon
  /\ UNCHANGED <<bare, callerWaker, ownerAt, callerWoken, headReply, counted, held, final, source,
                 ready, timers, recordedAs, got, told>>

-----------------------------------------------------------------------------
(* The world. *)

\* A timer armed for what the owner waits for fires and schedules it.  The
\* stop request reaches only a task a Camber runtime admitted.
Fires(t) ==
  /\ t \notin timers /\ ownerAt \in {"opening", "handing", "demand", "reading"}
  /\ t = "idle" => ownerAt = "reading"
  /\ t = "stop" => ~bare
  /\ timers' = timers \cup {t} /\ ownerWoken' = TRUE
  /\ UNCHANGED <<bare, slotVars, ownerAt, caller, callerWoken, headReply, counted, held, final,
                 source, ready, recordedAs, got, told>>

SourceReady ==
  /\ source /\ ~ready /\ ownerAt = "reading"
  /\ ready' = TRUE /\ ownerWoken' = TRUE
  /\ UNCHANGED <<bare, slotVars, ownerAt, caller, callerWoken, headReply, counted, held, final,
                 source, timers, recordedAs, got, told>>

Timers == {"operation", "stop", "attempt", "idle"}

OwnerStep == \/ Opens \/ Hands \/ poll_demand \/ read \/ admit \/ commit \/ release
             \/ conclude \/ publish_record \/ settle_body \/ Exits
CallerStep == admitted \/ start \/ HeadArrives \/ poll_answer \/ poll_settled \/ joined

BodyNext ==
  \/ OwnerStep \/ CallerStep \/ Aborted \/ DropHead \/ next_demand \/ DropNext \/ close \/ DropBody
  \/ SourceReady \/ \E t \in Timers : Fires(t)

-----------------------------------------------------------------------------
(* Properties. *)

\* What the caller is told is the first fact either side committed; it is
\* told after the source is released and after the one record states the
\* same fact (Settlement's drop order).
ToldTheTruth ==
  /\ told # "none" /\ headReply = "taken" /\ slotPhase = "settled" =>
       told = fact /\ ~source /\ recordedAs = Recorded(fact)
  /\ caller = "closed" => slotPhase = "settled" /\ ~source /\ (bare => ownerAt = "done")
  /\ ownerAt = "done" => recordedAs # "none" /\ ~source

\* While the body lives, a chunk is retained only for a caller that waits for
\* it and the source is read only for such a caller; an abandoned or settled
\* body retains none; and no byte past the maximum is handed over.
OneChunkPerDemand ==
  /\ chunk # 0 => slotPhase # "settled" /\ fact # "abandoned"
  /\ slotPhase = "live" /\ (demanded \/ chunk # 0) => caller = "next"
  /\ ownerAt \in {"reading", "admit"} /\ slotPhase = "live" => caller = "next" /\ chunk = 0
  /\ got + chunk <= counted /\ counted <= BodyLimit

ClientBodySafe == ToldTheTruth /\ OneChunkPerDemand

\* The first fact is kept: no later fact of either side replaces it, and a
\* settled body stays settled (Slot::commit).
FactKept ==
  /\ slotPhase # "live" => fact' = fact /\ slotPhase' # "live"
  /\ slotPhase = "settled" => slotPhase' = "settled"

\* No wake-up is lost: a caller in a head, a next or a close is answered, and
\* an owner whose handle is gone ends.
BodyRests ==
  caller = "holding" \/ (caller \in {"closed", "gone"} /\ ownerAt = "done")
BodyAnswers == []<>BodyRests
=============================================================================
