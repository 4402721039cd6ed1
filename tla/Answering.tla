----------------------------- MODULE Answering ------------------------------
(***************************************************************************)
(* How one routed request is answered (http/dispatch.rs, middleware.rs,    *)
(* head_projection.rs, rejection.rs and the exits of handle.rs): the class *)
(* its head is given, the dispatch that follows once its body is read, the *)
(* middleware frames that run around a handler or as a gate before a       *)
(* stream, the policy every refusal is mapped by, and the conversion that  *)
(* puts one response on the wire.  Frames, handlers and mappers are        *)
(* application code and do anything their types allow.  The wire itself,   *)
(* deadlines and the commitment race are in Exchange.                      *)
(***************************************************************************)
EXTENDS Naturals, Sequences

CONSTANT FrameLimit      \* the longest middleware chain of a run

VARIABLES
  anRoute,      \* what routing found: a handler kind, or why there is none
  anHttp2, anUpgrade, anHead,   \* the request's version, upgrade and HEAD
  anFrames,     \* how many middleware frames its router has
  anSkip,       \* skip_middleware_for_internal
  anHealthy,    \* the proxied route's health flag, which others flip
  anPc,         \* the stage the request is at
  anChain,      \* the terminal the chain runs around, "none" for no chain
  anPlan,       \* what each frame entered so far does
  anDepth,      \* how many frames are still entered
  anReached,    \* TerminalEntry
  anHand,       \* the response in hand
  anRefusals,   \* every refusal raised, and what became of its record
  anCalls,      \* how often policy was run
  anEntered,    \* the handler or the backend was entered
  anWork,       \* specialised work begun behind a gate
  anOrigin,     \* the ResponseOrigin committed
  anCounted     \* the refusal the operator's counter was moved for, 0 for none

anVars == <<anRoute, anHttp2, anUpgrade, anHead, anFrames, anSkip, anHealthy, anPc, anChain, anPlan,
            anDepth, anReached, anHand, anRefusals, anCalls, anEntered, anWork, anOrigin, anCounted>>
anRequest == <<anRoute, anHttp2, anUpgrade, anHead, anFrames, anSkip>>

Gated == {"stream", "sse", "sseBody", "websocket", "multipart", "proxyStream"}
Handled == Gated \cup {"async", "proxy"}
Unrouted == {"deep", "mismatch", "unmatched"}
RouteKinds == Handled \cup Unrouted \cup {"badHost", "noRouter", "internal"}

(* The refusals of rejection.rs, as far as an answer depends on them: the  *)
(* status each states, whether it closes the connection, and whether it    *)
(* protects a header at its status.                                        *)

\* A body that is too large, late, broken or not admitted, a spent deadline
\* and an authority that is none: what follows on the connection is unknown.
ClosingRefusals == {"body", "timeout", "badHost"}
\* A 405 states what is allowed and a 426 which version is spoken.
ProtectingRefusals == {"mismatch", "version"}
RefusalStatus(kind) ==
  CASE kind = "deep" -> 414 [] kind = "mismatch" -> 405 [] kind \in {"unmatched", "noRouter"} -> 404
    [] kind = "badHost" -> 400 [] kind = "body" -> 413 [] kind = "timeout" -> 408 [] kind = "handler" -> 422
    [] kind = "version" -> 426 [] kind = "upstream" -> 502 [] kind = "backend" -> 503 [] OTHER -> 500
RefusalOf(kind) ==
  [kind |-> kind, status |-> RefusalStatus(kind),
   close |-> kind \in ClosingRefusals, protects |-> kind \in ProtectingRefusals]

\* classify: a producer's own failure, or the framework's measurement of the
\* body that it passed on.
classify(producer) == {producer, "body"}

FallbackStatus == 500

\* A response: who built it, the refusal it answers (0 for none), its status,
\* whether its headers can be written, and the two headers the protocol owns.
Answered(who, status, good) ==
  [by |-> who, refusal |-> 0, status |-> status, good |-> good, close |-> FALSE, protected |-> FALSE, body |-> TRUE]
NoAnswer == Answered("none", 0, TRUE)

AnInit ==
  /\ anRoute \in RouteKinds /\ anHttp2 \in BOOLEAN /\ anUpgrade \in BOOLEAN /\ anHead \in BOOLEAN
  /\ anFrames \in 0 .. FrameLimit /\ anSkip \in BOOLEAN
  /\ (anRoute # "internal" => ~anSkip) /\ (anRoute \in {"badHost", "noRouter"} => anFrames = 0)
  /\ (anUpgrade => ~anHttp2 /\ ~anHead /\ anRoute \in {"proxy", "proxyStream", "websocket"})
  /\ anHealthy = TRUE /\ anPc = "head" /\ anChain = "none" /\ anPlan = <<>> /\ anDepth = 0
  /\ anReached = FALSE /\ anHand = NoAnswer /\ anRefusals = <<>> /\ anCalls = 0
  /\ anEntered = FALSE /\ anWork = "none" /\ anOrigin = "none" /\ anCounted = 0

-----------------------------------------------------------------------------
(* Policy. *)

\* What a mapper may give back: the refusal's own status or another, headers
\* that can be written or not, or nothing that can be used.
MapperReplies == {"own", "other", "unwritable", "error", "panic", "informational"}

\* invoke, catch_mapper, without_informational_status, and the fixed fallback.
PolicyAnswer(refusal, reply) ==
  CASE reply = "own" -> Answered("policy", refusal.status, TRUE)
    [] reply = "other" -> Answered("policy", 200, TRUE)
    [] reply = "unwritable" -> Answered("policy", refusal.status, FALSE)
    [] OTHER -> Answered("fallback", FallbackStatus, TRUE)

enforce_disposition(response, close) ==
  [response EXCEPT !.close = IF anHttp2 THEN FALSE ELSE @ \/ close]
enforce_protocol(response, refusal) ==
  enforce_disposition(
    [response EXCEPT !.protected = refusal.protects /\ response.status = refusal.status],
    refusal.close)

\* RejectionScope::map: policy runs once, and the response carries its refusal.
Mapped(refusal, reply, refusals) ==
  [enforce_protocol(PolicyAnswer(refusal, reply), refusal) EXCEPT !.refusal = Len(refusals) + 1]
Raised(refusal, refusals) == Append(refusals, [refusal |-> refusal, record |-> "held", status |-> 0])

\* Dropping a response drops the refusal it carries, which says so.
WithoutAnswer(refusals, response) ==
  [i \in DOMAIN refusals |->
     IF i = response.refusal /\ refusals[i].record = "held"
     THEN [refusals[i] EXCEPT !.record = "discarded"] ELSE refusals[i]]

\* One refusal replaces whatever was in hand, and is mapped at once.
RaiseRefusal(kind) ==
  LET kept == WithoutAnswer(anRefusals, anHand)
  IN \E reply \in MapperReplies :
       /\ anHand' = Mapped(RefusalOf(kind), reply, kept)
       /\ anRefusals' = Raised(RefusalOf(kind), kept)
       /\ anCalls' = anCalls + 1
Give(response) ==
  /\ anHand' = response /\ anRefusals' = WithoutAnswer(anRefusals, anHand) /\ UNCHANGED anCalls

-----------------------------------------------------------------------------
(* From the head to a chain. *)

\* classify_route, classify_matched and prehead_refusal_origin.
RouteClass ==
  CASE anRoute = "badHost" -> "refused"
    [] anRoute \in {"proxy", "proxyStream"} /\ ~anHealthy -> "refused"
    [] anRoute \in {"proxy", "proxyStream"} /\ anUpgrade -> "headOnly"
    [] anRoute \in {"proxyStream", "multipart"} -> "streaming"
    [] anRoute \in {"sse", "websocket", "internal"} -> "headOnly"
    [] anRoute \in {"async", "proxy", "stream", "sseBody"} -> "buffered"
    [] OTHER -> "terminal"

EnterChain(terminal) ==
  /\ anPc' = "chain" /\ anChain' = terminal
  /\ anReached' = (anFrames = 0)
  /\ UNCHANGED <<anPlan, anDepth, anHand, anRefusals, anCalls, anOrigin>>
RefuseDirect(kind, origin) ==
  /\ RaiseRefusal(kind) /\ anPc' = "answer" /\ anOrigin' = origin
  /\ UNCHANGED <<anChain, anPlan, anDepth, anReached>>

\* classify_pre_body and dispatch_classified_route.
classify_head ==
  /\ anPc = "head"
  /\ CASE RouteClass = "refused" ->
            RefuseDirect(IF anRoute = "badHost" THEN "badHost" ELSE "backend",
                         IF anRoute = "badHost" THEN "router" ELSE "framework")
       [] RouteClass = "streaming" ->
            EnterChain("gate") \/ RefuseDirect("body", "framework")
       [] RouteClass = "buffered" ->
            \/ /\ anPc' = "dispatch"
               /\ UNCHANGED <<anChain, anPlan, anDepth, anReached, anHand, anRefusals, anCalls, anOrigin>>
            \/ RefuseDirect("body", "framework")
       [] OTHER ->
            /\ anPc' = "dispatch"
            /\ UNCHANGED <<anChain, anPlan, anDepth, anReached, anHand, anRefusals, anCalls, anOrigin>>
  /\ UNCHANGED <<anRequest, anHealthy, anEntered, anWork, anCounted>>

\* A health check's verdict, which no request waits for.
flip_health ==
  /\ anRoute \in {"proxy", "proxyStream"} /\ anPc \in {"head", "dispatch"}
  /\ anHealthy' = ~anHealthy
  /\ UNCHANGED <<anRequest, anPc, anChain, anPlan, anDepth, anReached, anHand, anRefusals, anCalls,
                 anEntered, anWork, anOrigin, anCounted>>

\* dispatch, dispatch_matched, dispatch_proxy_route, terminal, host_terminal
\* and dispatch_with_handler.
dispatch ==
  /\ anPc = "dispatch"
  /\ CASE anRoute = "noRouter" -> RefuseDirect("noRouter", "router")
       [] anRoute \in Unrouted -> EnterChain("refusal")
       [] anRoute = "internal" /\ anSkip ->
            /\ Give(Answered("internal", 200, TRUE)) /\ anPc' = "answer" /\ anOrigin' = "internal"
            /\ UNCHANGED <<anChain, anPlan, anDepth, anReached>>
       [] anRoute \in {"async", "internal"} -> EnterChain("handler")
       [] anRoute \in {"proxy", "proxyStream"} /\ ~anHealthy -> RefuseDirect("backend", "framework")
       [] anRoute \in {"proxy", "proxyStream"} /\ anUpgrade -> EnterChain("gate")
       [] anRoute = "proxy" -> EnterChain("proxy")
       [] anRoute \in {"proxyStream", "multipart"} -> RefuseDirect("misdispatched", "framework")
       [] OTHER -> EnterChain("gate")
  /\ UNCHANGED <<anRequest, anHealthy, anEntered, anWork, anCounted>>

-----------------------------------------------------------------------------
(* The chain: Next::call on the way in, the frames' futures on the way out. *)

FramePlans ==
  {"passes", "states", "statesBad",      \* the inner response, with a header
   "answers", "answersBad", "fails",     \* without calling next
   "abandons",                           \* calls next, and drops its future
   "replaces", "failsAfter"}             \* after the inner response came back

enter_frame(does) ==
  /\ anPc = "chain" /\ Len(anPlan) < anFrames
  /\ anPlan' = Append(anPlan, does)
  /\ CASE does \in {"answers", "answersBad", "abandons"} ->
            /\ Give(Answered("frame", 200, does # "answersBad")) /\ anPc' = "unwind" /\ UNCHANGED anDepth
       [] does = "fails" -> (\E k \in classify("middleware") : RaiseRefusal(k)) /\ anPc' = "unwind" /\ UNCHANGED anDepth
       [] OTHER -> anDepth' = anDepth + 1 /\ UNCHANGED <<anPc, anHand, anRefusals, anCalls>>
  \* The innermost frame's call of next enters the terminal at once.
  /\ anReached' = (anReached \/ (does = "abandons" /\ Len(anPlan') = anFrames))
  /\ anEntered' = (anEntered \/ (does = "abandons" /\ Len(anPlan') = anFrames /\ anChain = "handler"))
  /\ UNCHANGED <<anRequest, anHealthy, anChain, anWork, anOrigin, anCounted>>

\* Terminal::run.
run_terminal ==
  /\ anPc = "chain" /\ Len(anPlan) = anFrames
  /\ anPc' = "unwind" /\ anReached' = TRUE
  /\ anEntered' = (anEntered \/ anChain \in {"handler", "proxy"})
  /\ CASE anChain = "handler" ->
            (\E good \in BOOLEAN : Give(Answered("handler", 200, good)))
            \/ \E k \in classify("handler") : RaiseRefusal(k)
       [] anChain = "proxy" -> Give(Answered("upstream", 200, TRUE)) \/ RaiseRefusal("upstream")
       [] anChain = "refusal" -> RaiseRefusal(anRoute)
       [] anChain = "gate" -> Give(Answered("gate", 200, TRUE))
  /\ UNCHANGED <<anRequest, anHealthy, anChain, anPlan, anDepth, anWork, anOrigin, anCounted>>

\* A frame that awaited next has its response, and finishes.
leave_frame ==
  /\ anPc = "unwind" /\ anDepth > 0
  /\ anDepth' = anDepth - 1
  /\ LET does == anPlan[anDepth]
     IN CASE does \in {"passes", "states"} -> UNCHANGED <<anHand, anRefusals, anCalls>>
          [] does = "statesBad" ->
               anHand' = [anHand EXCEPT !.good = FALSE] /\ UNCHANGED <<anRefusals, anCalls>>
          [] does = "replaces" -> Give(Answered("frame", 200, TRUE))
          [] does = "failsAfter" -> \E k \in classify("middleware") : RaiseRefusal(k)
  /\ UNCHANGED <<anRequest, anHealthy, anPc, anChain, anPlan, anReached, anEntered, anWork, anOrigin, anCounted>>

-----------------------------------------------------------------------------
(* After the chain. *)

\* TerminalProducer::origin.
ProducerOrigin(terminal, given) ==
  CASE terminal = "refusal" -> "router"
    [] terminal = "proxy" -> IF given.refusal = 0 THEN "upstream" ELSE "framework"
    [] OTHER -> IF anRoute = "internal" THEN "internal" ELSE "application"

\* finish_buffered and chain_origin.
finish_chain ==
  /\ anPc = "unwind" /\ anDepth = 0 /\ anChain # "gate"
  /\ anPc' = "answer"
  /\ anOrigin' = IF anReached THEN ProducerOrigin(anChain, anHand) ELSE "middleware"
  /\ UNCHANGED <<anRequest, anHealthy, anChain, anPlan, anDepth, anReached, anHand, anRefusals, anCalls,
                 anEntered, anWork, anCounted>>

\* A class that reads its own body has read none of it when its gate answers.
UnreadBody == RouteClass = "streaming"
IsAdmission(response) == response.by = "gate"

\* decided, admitted and gate_within_total.
decide_gate ==
  /\ anPc = "unwind" /\ anDepth = 0 /\ anChain = "gate"
  /\ IF IsAdmission(anHand) /\ anHand.good
     THEN /\ anPc' = "working" /\ anWork' = anRoute
          /\ UNCHANGED <<anHand, anRefusals, anCalls, anOrigin>>
     ELSE /\ anPc' = "answer" /\ anOrigin' = "middleware" /\ UNCHANGED anWork
          /\ IF IsAdmission(anHand)
             THEN LET kept == WithoutAnswer(anRefusals, anHand)
                  IN \E reply \in MapperReplies :
                       /\ anHand' = enforce_disposition(Mapped(RefusalOf("header"), reply, kept), UnreadBody)
                       /\ anRefusals' = Raised(RefusalOf("header"), kept) /\ anCalls' = anCalls + 1
             ELSE anHand' = enforce_disposition(anHand, UnreadBody) /\ UNCHANGED <<anRefusals, anCalls>>
  /\ UNCHANGED <<anRequest, anHealthy, anChain, anPlan, anDepth, anReached, anEntered, anCounted>>

\* finish_dispatched and the two streaming paths: the head the work commits,
\* or the refusal it is answered with.
finish_work ==
  /\ anPc = "working" /\ anPc' = "answer"
  /\ \/ Give(Answered("work", 200, TRUE)) /\ anOrigin' = anWork
     \/ (\E k \in classify("handler") : RaiseRefusal(k)) /\ anOrigin' = anWork
     \/ \E kind \in {"upstream", "version"} : RaiseRefusal(kind) /\ anOrigin' = "framework"
  /\ UNCHANGED <<anRequest, anHealthy, anChain, anPlan, anDepth, anReached, anEntered, anWork, anCounted>>

\* within_total: the request total outlives the chain or the work, whose
\* future is dropped with whatever it held.
outlive_total ==
  /\ anPc \in {"chain", "unwind", "working"} /\ anOrigin = "none"
  /\ RaiseRefusal("timeout") /\ anPc' = "answer" /\ anOrigin' = "framework"
  /\ UNCHANGED <<anRequest, anHealthy, anChain, anPlan, anDepth, anReached, anEntered, anWork, anCounted>>

\* The request's task is dropped before its answer is converted.
drop_request ==
  /\ anPc \notin {"sent", "gone"}
  /\ Give(NoAnswer) /\ anPc' = "gone"
  /\ UNCHANGED <<anRequest, anHealthy, anChain, anPlan, anDepth, anReached, anEntered, anWork, anOrigin, anCounted>>

-----------------------------------------------------------------------------
(* The wire: finalize, convert, sent, recover. *)

Recorded(refusals, i, status) ==
  IF i = 0 THEN refusals
  ELSE [refusals EXCEPT ![i] = [@ EXCEPT !.record = "sent", !.status = status]]

\* displace_mapped: the fixed answer, under the refusal's own record.  It is
\* converted as it stands, without the strip of `convert`.
Displaced(response) == [Answered("fixed", FallbackStatus, TRUE) EXCEPT !.refusal = response.refusal]
Converted(response) == [response EXCEPT !.body = ~anHead]

finalize ==
  /\ anPc = "answer"
  /\ LET Leave(response, refusals) ==
           /\ anHand' = response /\ anPc' = "sent" /\ anCounted' = response.refusal
           /\ anRefusals' = Recorded(refusals, response.refusal, response.status)
         Out(response) == IF response.good THEN Converted(response) ELSE Displaced(response)
     IN IF anHand.good \/ anHand.refusal # 0
        THEN Leave(Out(anHand), anRefusals) /\ UNCHANGED anCalls
        ELSE \E reply \in MapperReplies :
               /\ anCalls' = anCalls + 1
               /\ Leave(Out(Mapped(RefusalOf("header"), reply, anRefusals)), Raised(RefusalOf("header"), anRefusals))
  /\ UNCHANGED <<anRequest, anHealthy, anChain, anPlan, anDepth, anReached, anEntered, anWork, anOrigin>>

AnNext ==
  \/ classify_head \/ flip_health \/ dispatch
  \/ \E does \in FramePlans : enter_frame(does)
  \/ run_terminal \/ leave_frame \/ finish_chain \/ decide_gate \/ finish_work
  \/ outlive_total \/ drop_request \/ finalize
  \/ anPc \in {"sent", "gone"} /\ UNCHANGED anVars

AnSpec == AnInit /\ [][AnNext]_anVars

-----------------------------------------------------------------------------
(* What may be relied on.                                                  *)

\* Every refusal is told to the operator once: it is held only by the response
\* in hand, its record says sent, with the status on the wire, only if that
\* response is what the peer was given, and says discarded in every other case;
\* and the counter moves for that refusal alone (MappedRefusal::drop, sent,
\* displace_mapped).
RefusalsRecorded ==
  /\ \A i \in DOMAIN anRefusals :
       CASE anRefusals[i].record = "held" -> anPc \notin {"sent", "gone"} /\ anHand.refusal = i
         [] anRefusals[i].record = "sent" ->
              /\ anPc = "sent" /\ anHand.refusal = i /\ anCounted = i
              /\ anRefusals[i].status = anHand.status
         [] anRefusals[i].record = "discarded" -> anHand.refusal # i /\ anCounted # i
  /\ anPc = "sent" => anHand.refusal = anCounted

\* Policy is asked once for each refusal and never for its own answer, so a
\* mapper that fails, panics or cannot be written ends in the fixed answer
\* (map_unrepresentable, displace_mapped).
PolicyAskedOnce ==
  /\ anCalls = Len(anRefusals)
  /\ anPc = "sent" => anHand.good

\* A stream, an upgrade, an upload or a forward begins only behind a gate that
\* every frame let through, whatever a frame did after the provisional answer
\* came back to it (decided); and where the chain ran around a handler, the
\* handler was entered only if every frame called it.
WorkBehindGate ==
  /\ anWork # "none" => Len(anPlan) = anFrames /\ \A d \in DOMAIN anPlan : anPlan[d] \in {"passes", "states"}
  /\ anEntered => \A d \in DOMAIN anPlan : anPlan[d] \notin {"answers", "answersBad", "fails"}

\* A class chosen from the head holds when the request is dispatched, though
\* the backend's health is read twice and may have changed between: no upload
\* or forward reaches the dispatch that cannot serve it (misdispatched).
DispatchAsClassified == \A i \in DOMAIN anRefusals : anRefusals[i].refusal.kind # "misdispatched"

\* The response's origin: middleware is named only where no handler and no
\* backend was entered, and an answer no frame replaced is attributed to whom
\* it came from, a failed forward to the framework and never to its upstream
\* (chain_origin, TerminalProducer::origin).
OriginHonest ==
  anPc = "sent" =>
    /\ anOrigin # "none"
    /\ anOrigin = "middleware" => ~anEntered /\ anWork = "none"
    /\ anHand.by = "upstream" => anOrigin = "upstream"
    /\ anHand.by = "handler" => anOrigin \in {"application", "internal"}
    /\ anOrigin = "upstream" /\ anHand.refusal # 0 => anRefusals[anHand.refusal].refusal.kind = "header"

\* What policy may not weaken, on every answer it gave that is sent as it
\* stands: a refusal that closes the connection closes it over HTTP/1 and says
\* nothing of it over HTTP/2, one that requires a header at its status carries
\* it there and only there, a gate's answer before an unread body closes, and
\* a HEAD has no body (enforce_protocol, closing, convert).
ProtocolKept ==
  anPc = "sent" /\ anHand.by # "fixed" =>
    /\ anHttp2 => ~anHand.close
    /\ anHead => ~anHand.body
    /\ anHand.refusal # 0 =>
         LET refusal == anRefusals[anHand.refusal].refusal
         IN /\ refusal.close /\ ~anHttp2 => anHand.close
            /\ anHand.protected <=> refusal.protects /\ anHand.status = refusal.status
    /\ anHand.by = "frame" /\ anChain = "gate" /\ UnreadBody /\ ~anHttp2 => anHand.close

AnsweringSound ==
  RefusalsRecorded /\ PolicyAskedOnce /\ WorkBehindGate /\ DispatchAsClassified /\ OriginHonest /\ ProtocolKept
=============================================================================
