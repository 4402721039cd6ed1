-------------------------- MODULE MultipartSession --------------------------
(***************************************************************************)
(* One streaming multipart session (http/multipart/session.rs): the        *)
(* handler's MultipartStream and MultipartField on one side, the driver    *)
(* that owns the body on the other, and between them a slot holding one    *)
(* command at a time and two notification permits.  The handler may drop   *)
(* a pending operation, a field or the stream at any await; the route      *)
(* revokes the session when the handler answers (multipart_route.rs).      *)
(*                                                                         *)
(* What the parser makes of the body is the sequence Script of its events; *)
(* an event may instead fail, and the upload may end under it.             *)
(***************************************************************************)
EXTENDS Integers, Sequences, Functions

CONSTANTS
  Script,     \* ParserEvents: "field", "chunk", "fieldEnd" and a last "end"
  MsFailures  \* ways an event can fail: "limit", "structural", "ended"

VARIABLES
  msSlot,     \* SlotInner: admitting, attached, terminated, abandoned, phase
  msIssued,   \* the `issued` permit, for the driver
  msSettled,  \* the `settled` permit, for the handler
  msDriver,   \* where run() is
  msKind,     \* the command the driver accepted
  msReply,    \* the reply it holds, published or not
  msTerminal, \* MultipartTerminal, "none" until one is recorded
  msTaken,    \* events taken from the parser
  msCaller,   \* the handler: "idle", "polling", "waiting", "done"
  msAsked,    \* the kind the handler issued
  msField,    \* the field it holds: "none", "open", "complete"
  msGot       \* history: the events it was handed; a repeated end is kept once

msVars == <<msSlot, msIssued, msSettled, msDriver, msKind, msReply, msTerminal, msTaken,
            msCaller, msAsked, msField, msGot>>

Phase == msSlot.phase
MsOpen == msSlot.admitting /\ msSlot.attached /\ ~msSlot.abandoned
Wake == msIssued' = TRUE /\ msSettled' = TRUE
NoReply == [kind |-> "none", at |-> 0]

MsInit ==
  /\ msSlot = [admitting |-> TRUE, attached |-> TRUE, terminated |-> FALSE, abandoned |-> FALSE,
               phase |-> "idle"]
  /\ msIssued = FALSE /\ msSettled = FALSE
  /\ msDriver = "accept" /\ msKind = "none" /\ msReply = NoReply /\ msTerminal = "none"
  /\ msTaken = 0 /\ msCaller = "idle" /\ msAsked = "none" /\ msField = "none" /\ msGot = <<>>

DriverFrame == UNCHANGED <<msCaller, msAsked, msField, msGot>>
CallerFrame == UNCHANGED <<msDriver, msKind, msReply, msTerminal, msTaken>>

-----------------------------------------------------------------------------
(* The driver.                                                              *)
-----------------------------------------------------------------------------
AcceptsBlindly ==
  /\ msDriver = "accept"
  /\ IF Phase = "issued"
     THEN /\ msSlot' = [msSlot EXCEPT !.phase = "accepted"]
          /\ msKind' = msAsked /\ msDriver' = "service"
     ELSE msDriver' = "acceptWait" /\ UNCHANGED <<msSlot, msKind>>
  /\ UNCHANGED <<msIssued, msSettled, msReply, msTerminal, msTaken>> /\ DriverFrame

(* accept: the slot is read after the waiter was made, then waited on. *)
accept ==
  /\ msDriver = "accept"
  /\ \/ /\ Phase = "issued" /\ MsOpen
        /\ msSlot' = [msSlot EXCEPT !.phase = "accepted"]
        /\ msKind' = msAsked /\ msDriver' = "service"
     \/ /\ Phase = "lost" \/ ~MsOpen
        /\ msDriver' = "settle" /\ UNCHANGED <<msSlot, msKind>>
     \/ /\ Phase \notin {"issued", "lost"} /\ MsOpen
        /\ msDriver' = "acceptWait" /\ UNCHANGED <<msSlot, msKind>>
  /\ UNCHANGED <<msIssued, msSettled, msReply, msTerminal, msTaken>> /\ DriverFrame

Wakes ==
  /\ msDriver \in {"acceptWait", "ackWait"} /\ msIssued
  /\ msIssued' = FALSE
  /\ msDriver' = IF msDriver = "acceptWait" THEN "accept" ELSE "ack"
  /\ UNCHANGED <<msSlot, msSettled, msKind, msReply, msTerminal, msTaken>> /\ DriverFrame

(* serviced: a revocation is looked at first, and ends the session; every   *)
(* permit taken while the parser works is spent on that look.               *)
revoked ==
  /\ msDriver = "service" /\ ~msSlot.admitting
  /\ msDriver' = "settle"
  /\ UNCHANGED <<msSlot, msIssued, msSettled, msKind, msReply, msTerminal, msTaken>>
  /\ DriverFrame

SpendsPermit ==
  /\ msDriver = "service" /\ msSlot.admitting /\ msIssued /\ msIssued' = FALSE
  /\ UNCHANGED <<msSlot, msSettled, msDriver, msKind, msReply, msTerminal, msTaken>>
  /\ DriverFrame

(* reply_for: the event answers the command, or is passed over. *)
Answers_(asked_for, event) ==
  \/ event = "end"
  \/ asked_for = "field" /\ event = "field"
  \/ asked_for = "chunk" /\ event \in {"chunk", "fieldEnd"}
  \/ asked_for = "discard" /\ event = "fieldEnd"

MsRecorded(terminal) == IF msTerminal = "none" THEN terminal ELSE msTerminal

(* pump: one parser event.  Past the end the parser answers its end again. *)
pump_event ==
  /\ msDriver = "service" /\ msSlot.admitting
  /\ LET pos == IF msTaken < Len(Script) THEN msTaken + 1 ELSE Len(Script)
     IN /\ msTaken' = pos
        /\ IF Answers_(msKind, Script[pos])
           THEN /\ msReply' = [kind |-> Script[pos], at |-> pos] /\ msDriver' = "publish"
                /\ msTerminal' = IF Script[pos] = "end" THEN MsRecorded("clean") ELSE msTerminal
           ELSE UNCHANGED <<msReply, msDriver, msTerminal>>
  /\ UNCHANGED <<msSlot, msIssued, msSettled, msKind>> /\ DriverFrame

(* record_failure and ended: the first terminal stays. *)
pump_fails ==
  /\ msDriver = "service" /\ msSlot.admitting /\ msTaken < Len(Script)
  /\ \E f \in MsFailures :
       /\ msReply' = [kind |-> "failed", at |-> 0]
       /\ msTerminal' = MsRecorded(f)
  /\ msDriver' = "publish"
  /\ UNCHANGED <<msSlot, msIssued, msSettled, msKind, msTaken>> /\ DriverFrame

PublishesQuietly ==
  /\ msDriver = "publish"
  /\ IF Phase = "accepted"
     THEN msSlot' = [msSlot EXCEPT !.phase = "published"] /\ msDriver' = "ack"
     ELSE msDriver' = "settle" /\ UNCHANGED msSlot
  /\ UNCHANGED <<msIssued, msSettled, msKind, msReply, msTerminal, msTaken>> /\ DriverFrame

(* published and delivered: a reply nobody waits for ends the session. *)
publish_reply ==
  /\ msDriver = "publish"
  /\ IF Phase = "accepted"
     THEN /\ msSlot' = [msSlot EXCEPT !.phase = "published"] /\ msSettled' = TRUE
          /\ msDriver' = "ack" /\ UNCHANGED msIssued
     ELSE /\ msDriver' = "settle"
          /\ msSlot' = [msSlot EXCEPT !.abandoned = @ \/ msReply.kind = "failed"]
          /\ IF msReply.kind = "failed" THEN Wake ELSE UNCHANGED <<msIssued, msSettled>>
  /\ UNCHANGED <<msKind, msReply, msTerminal, msTaken>> /\ DriverFrame

(* await_acknowledgment, then abandon after a failure. *)
acknowledged ==
  /\ msDriver = "ack"
  /\ LET settled == Phase \in {"idle", "issued"}
         failed == Phase = "lost" \/ ~MsOpen
     IN \/ /\ settled \/ failed
           /\ msDriver' = IF settled THEN "accept" ELSE "settle"
           /\ msSlot' = [msSlot EXCEPT !.abandoned = @ \/ msReply.kind = "failed"]
           /\ IF msReply.kind = "failed" THEN Wake ELSE UNCHANGED <<msIssued, msSettled>>
           /\ msReply' = NoReply
        \/ /\ ~settled /\ ~failed /\ msDriver' = "ackWait"
           /\ UNCHANGED <<msSlot, msIssued, msSettled, msReply>>
  /\ UNCHANGED <<msKind, msTerminal, msTaken>> /\ DriverFrame

(* settle: terminate, then release body, parser and permit. *)
settle_session ==
  /\ msDriver = "settle"
  /\ msSlot' = [msSlot EXCEPT !.terminated = TRUE] /\ Wake
  /\ msTerminal' = MsRecorded("abandoned") /\ msDriver' = "done"
  /\ UNCHANGED <<msKind, msReply, msTaken>> /\ DriverFrame

-----------------------------------------------------------------------------
(* The handler, which may have moved its stream into a task of its own.     *)
-----------------------------------------------------------------------------
GuardForgets(held) == [held EXCEPT !.phase = "idle"]

(* OperationGuard: an operation dropped before the driver took it leaves no *)
(* trace, unless it was a discard; any other one closes the session.        *)
Guarded(held) ==
  IF held.phase \in {"issued", "idle"} /\ msAsked' # "discard"
  THEN [held EXCEPT !.phase = "idle"]
  ELSE [held EXCEPT !.phase = "lost", !.abandoned = TRUE]

(* An operation that failed: a discard took its field with it, and a field  *)
(* dropped before its end abandons the session.                             *)
FieldAfterFailure == msField' = IF msAsked' = "discard" THEN "none" ELSE msField

(* issue: refused unless the session is open and its slot is idle. *)
issue(asked_for) ==
  /\ msCaller = "idle" /\ msAsked' = asked_for
  /\ IF MsOpen /\ ~msSlot.terminated /\ Phase = "idle"
     THEN /\ msSlot' = [msSlot EXCEPT !.phase = "issued"] /\ msIssued' = TRUE
          /\ msCaller' = "polling" /\ UNCHANGED <<msField, msSettled>>
     ELSE msSlot' = Guarded(msSlot) /\ Wake /\ FieldAfterFailure /\ UNCHANGED msCaller
  /\ UNCHANGED msGot /\ CallerFrame

next_field == msField = "none" /\ issue("field")
next_chunk == msField = "open" /\ issue("chunk")
discard == msField = "open" /\ issue("discard")

(* answered: the field the reply leaves the handler with. *)
FieldAfter(asked_for) ==
  CASE asked_for = "field" -> "open"
    [] asked_for = "fieldEnd" -> IF msAsked = "discard" THEN "none" ELSE "complete"
    [] asked_for = "chunk" -> msField
    [] OTHER -> IF msAsked = "discard" THEN "none" ELSE msField

(* take_reply and acknowledge: a published reply is taken even when the     *)
(* session has closed, and is then an error.                                *)
take_reply ==
  /\ msCaller = "polling" /\ UNCHANGED msAsked
  /\ LET took == Phase = "published"
         held == IF took THEN [msSlot EXCEPT !.phase = "idle"] ELSE msSlot
     IN CASE took /\ MsOpen ->
               LET lost == msAsked = "discard" /\ msReply.kind # "fieldEnd"
               IN /\ msGot' = IF msReply \in Range(msGot) THEN msGot
                              ELSE Append(msGot, msReply)
                  /\ msField' = FieldAfter(msReply.kind) /\ msCaller' = "idle"
                  /\ msSlot' = [held EXCEPT !.abandoned = @ \/ lost]
                  /\ msIssued' = TRUE /\ msSettled' = (msSettled \/ lost)
          [] ~MsOpen \/ (~took /\ (Phase = "lost" \/ msSlot.terminated)) ->
               /\ msSlot' = Guarded(held) /\ Wake
               /\ FieldAfterFailure /\ msCaller' = "idle" /\ UNCHANGED msGot
          [] OTHER ->
               /\ msCaller' = "waiting"
               /\ UNCHANGED <<msSlot, msIssued, msSettled, msField, msGot>>
  /\ CallerFrame

Rewoken ==
  /\ msCaller = "waiting" /\ msSettled
  /\ msSettled' = FALSE /\ msCaller' = "polling"
  /\ UNCHANGED <<msSlot, msIssued, msAsked, msField, msGot>> /\ CallerFrame

(* The operation's future is dropped at its await. *)
DropOperation ==
  /\ msCaller = "waiting" /\ msCaller' = "idle" /\ UNCHANGED msAsked
  /\ msSlot' = Guarded(msSlot) /\ Wake
  /\ FieldAfterFailure /\ UNCHANGED msGot /\ CallerFrame

DropField ==
  /\ msCaller = "idle" /\ msField # "none" /\ msField' = "none"
  /\ IF msField = "complete" THEN UNCHANGED <<msSlot, msIssued, msSettled>>
     ELSE msSlot' = [msSlot EXCEPT !.abandoned = TRUE] /\ Wake
  /\ UNCHANGED <<msCaller, msAsked, msGot>> /\ CallerFrame

DropStream ==
  /\ msCaller = "idle" /\ msField = "none" /\ msSlot.attached
  /\ msSlot' = [msSlot EXCEPT !.attached = FALSE] /\ Wake /\ msCaller' = "done"
  /\ UNCHANGED <<msAsked, msField, msGot>> /\ CallerFrame

(* The handler answers: paired() revokes, and then waits for the driver. *)
revoke ==
  /\ msSlot.admitting
  /\ msSlot' = [msSlot EXCEPT !.admitting = FALSE] /\ Wake
  /\ UNCHANGED <<msCaller, msAsked, msField, msGot>> /\ CallerFrame

(* The request is dropped, and the driver with it: nothing is terminated. *)
RequestDropped ==
  /\ msDriver \notin {"done", "gone"} /\ msDriver' = "gone"
  /\ UNCHANGED <<msSlot, msIssued, msSettled, msKind, msReply, msTerminal, msTaken>>
  /\ DriverFrame

(* Settled::of and Answered::of: what is answered, from the handler's own    *)
(* outcome and the terminal the session reached.                            *)
Chosen(terminal, handled) ==
  CASE terminal = "clean" -> handled
    [] terminal = "ended" -> "ended"
    [] terminal = "abandoned" /\ handled = "error" -> "error"
    [] OTHER -> "framework"

-----------------------------------------------------------------------------
MsDriverStep ==
  \/ accept \/ Wakes \/ revoked \/ SpendsPermit \/ pump_event \/ pump_fails
  \/ publish_reply \/ acknowledged \/ settle_session
MsCallerStep == take_reply \/ Rewoken

MsNext ==
  \/ MsDriverStep \/ MsCallerStep
  \/ next_field \/ next_chunk \/ discard \/ DropOperation \/ DropField \/ DropStream
  \/ revoke \/ RequestDropped

MsSpec == MsInit /\ [][MsNext]_msVars /\ WF_msVars(MsDriverStep) /\ WF_msVars(MsCallerStep)

-----------------------------------------------------------------------------
(* Properties.                                                              *)
-----------------------------------------------------------------------------
Events == SelectSeq(msGot, LAMBDA r : r.at > 0)

(* The handler is handed the parser's events in order, none twice, and none *)
(* is left out but the data a discard skipped: an accepted operation that   *)
(* was lost "cannot silently skip bytes into a later success".              *)
EventsInOrder ==
  \A i \in 1..Len(Events) :
    LET from == IF i = 1 THEN 0 ELSE Events[i - 1].at
        to == Events[i].at
    IN /\ to > from
       /\ \A skipped \in (from + 1)..(to - 1) : Script[skipped] = "chunk"

(* What the driver took and the handler has not seen is one reply at most,  *)
(* or the session is closed to it.                                          *)
NothingUnseen ==
  LET shown == IF Events = <<>> THEN 0 ELSE Events[Len(Events)].at
  IN (MsOpen /\ Phase \in {"idle", "issued"} /\ msDriver # "gone") =>
        msTaken = shown /\ msDriver \notin {"service", "publish"}

(* A completed upload is one whose end the driver read, and a handler that  *)
(* was told of a failure is never answered for by its own response.         *)
AnswerHonest ==
  msDriver = "done" =>
    /\ Chosen(msTerminal, "ok") = "ok" => msTaken = Len(Script)
    /\ (\E i \in 1..Len(msGot) : msGot[i].kind = "failed") =>
         Chosen(msTerminal, "ok") \in {"framework", "ended"}
    /\ (\E i \in 1..Len(msGot) : msGot[i].kind = "end") => msTerminal = "clean"

(* The streaming session as a whole. *)
MultipartSessionSafe == EventsInOrder /\ NothingUnseen /\ AnswerHonest

(* The first terminal recorded stays, and a revoked session admits nothing. *)
MultipartSessionSteps ==
  /\ msTerminal # "none" => msTerminal' = msTerminal
  /\ ~msSlot.admitting => ~msSlot'.admitting /\ ~(msDriver = "accept" /\ msDriver' = "service")

(* An operation that waits is answered as long as the request lives, and a  *)
(* session that was revoked reaches its end, wherever its stream went.      *)
SessionRests ==
  \/ msDriver = "gone"
  \/ msCaller # "waiting" /\ (msSlot.admitting \/ msDriver = "done")
SessionEnds == []<>SessionRests
=============================================================================
