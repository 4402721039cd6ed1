------------------------------ MODULE Exchange ------------------------------
(***************************************************************************)
(* One HTTP request from classification to its completion record.          *)
(*                                                                         *)
(* crates/camber/src/http: handle.rs, operation.rs, inbound_read.rs,       *)
(* transfer.rs, streaming.rs, async_proxy.rs, grpc_handoff.rs,             *)
(* multipart_route.rs, body.rs, disconnect.rs, response_commitment.rs and  *)
(* completion/.                                                            *)
(*                                                                         *)
(* A handler, the request's budgets, the peer and the server's stop all    *)
(* try to end the exchange.  The commitment cell lets one of them answer.  *)
(* The request future, an upload another task drives and the response body *)
(* Hyper polls each take one turn per action: a turn is one poll, decided  *)
(* from everything ready at that moment.  A body is its number of payload  *)
(* frames; what a source yields is chosen freely on every turn.  Deadlines *)
(* expire at any time once they run, except body_idle, which is measured   *)
(* in ticks because its two clocks differ.                                 *)
(***************************************************************************)
EXTENDS Naturals, Sequences

CONSTANTS
    Classes,    \* the route classes to explore
    Frames,     \* the most payload frames a body has
    Idle,       \* RequestBudget::body_idle, in ticks
    Budgets     \* the sets of budgets a route may configure

RouteClasses == {"refused", "internal", "buffered", "stream", "sse", "upgrade", "proxy", "grpc",
                 "multipart"}

\* RequestBudget and the two TransferBudgets: each limit is optional.
Configurable == {"idle", "total", "upIdle", "upTotal", "downIdle", "downTotal"}

ASSUME ExchangeAssumption ==
    /\ Classes \subseteq RouteClasses
    /\ Frames \in Nat \ {0} /\ Idle \in Nat \ {0}
    /\ Budgets \subseteq SUBSET Configurable

VARIABLES
    rt,         \* the request: route class, protocol, HEAD, declared length, budgets
    pc,         \* where the request future stands
    ans,        \* the commitment cell and the completion account's facts
    net,        \* the server's control, and what LivenessStream saw of the peer
    due,        \* deadlines that have passed
    lull,       \* ticks since the request body's last payload frame
    since,      \* ticks since the upload guard's quiet_since
    cause,      \* DisconnectState::cause
    up,         \* the request body and whoever reads it
    body,       \* the GuardedBody Hyper holds
    records     \* completion records written

vars == <<rt, pc, ans, net, due, lull, since, cause, up, body, records>>

\* A response without a declared length.
Undeclared == Frames + 1

\* InboundReady::OWN_READ followed by CARRIED: the order of first_ready.
Order == <<"RouteBodyLimit", "TransferBytes", "Disconnect", "SourceFailure", "ResponseHead",
           "ShutdownDeadline", "ForcedCancellation", "BodyIdle", "TransferIdle", "TransferTotal",
           "RequestTotal">>

Terminals == {Order[i] : i \in DOMAIN Order}

Origins == {"application", "middleware", "router", "framework", "upstream", "static-file", "sse",
            "grpc", "websocket", "internal", "protocol"}

\* What one poll of a body finds.
Reads == {"Quiet", "Data", "Cross", "End", "Failed"}

NoCell == <<"free", "none">>

TypeOK ==
    /\ rt \in [class : Classes, http2 : BOOLEAN, head : BOOLEAN, length : 0 .. Undeclared,
               budget : Budgets]
    /\ pc \in {"classify", "internal", "read", "gate", "produce", "quiesce", "body", "gone"}
    /\ ans \in [cell : {NoCell} \cup ({"head"} \X Origins) \cup ({"cause"} \X Terminals),
                status : {"none", "ordinary", "bodyless", "switching"},
                origin : Origins \cup {"none"}, ended : BOOLEAN, rejection : BOOLEAN,
                boundary : Terminals \cup {"none", "AggregateShutdown", "DownloadBytes"}]
    /\ net \in [control : {"Running", "Graceful", "Abort"}, terminating : BOOLEAN,
                failed : BOOLEAN]
    /\ due \subseteq {"shutdown"} \cup rt.budget
    /\ lull \in 0 .. Idle /\ since \in 0 .. Idle
    /\ cause \in {"none", "PeerDisconnect", "StreamReset", "ServerShutdown", "Completed"}
    /\ up \in [at : {"none", "live", "over", "dropped"}, end : Terminals \cup {"none", "Stopped", "Parser"},
               sent : 0 .. Frames, view : {"open", "clean", "error"},
               refusal : {"open", "sent", "closed", "gone"},
               ack : {"none", "Drained", "Stopped"}]
    /\ body \in [kind : {"none", "full", "sized", "transfer", "grpc", "drained"},
                 left : 0 .. Undeclared, sent : 0 .. Frames, held : BOOLEAN,
                 over : {"no", "end", "error"}, close : BOOLEAN]
    /\ Len(records) <= 1

NoUpload == [at |-> "none", end |-> "none", sent |-> 0, view |-> "open", refusal |-> "open",
             ack |-> "none"]

NoBody == [kind |-> "none", left |-> 0, sent |-> 0, held |-> FALSE, over |-> "no",
           close |-> FALSE]

\* What classify_pre_body can hand on: gRPC is HTTP/2, an upgrade is HTTP/1, and
\* only a stream's or an upstream's head can declare a length of its own, which
\* matters where a body is written.
Requests ==
    {r \in [class : Classes, http2 : BOOLEAN, head : BOOLEAN, length : 0 .. Undeclared,
            budget : Budgets] :
        /\ r.class = "grpc" => r.http2 /\ ~r.head
        /\ r.class = "upgrade" => ~r.http2 /\ ~r.head
        /\ r.class = "multipart" => ~r.head
        /\ (r.class \notin {"stream", "proxy"} \/ r.head) => r.length = Undeclared}

Init ==
    /\ rt \in Requests
    /\ pc = "classify"
    /\ ans = [cell |-> NoCell, status |-> "none", origin |-> "none", ended |-> FALSE,
              rejection |-> FALSE, boundary |-> "none"]
    /\ net = [control |-> "Running", terminating |-> FALSE, failed |-> FALSE]
    /\ due = {} /\ lull = 0 /\ since = 0
    /\ cause = "none"
    /\ up = NoUpload /\ body = NoBody
    /\ records = <<>>

-----------------------------------------------------------------------------
(* The commitment cell and the account's write-once facts. *)

\* record_head: only the taker names the origin.
Head1(x, origin) ==
    IF x.cell = NoCell
      THEN [x EXCEPT !.cell = <<"head", origin>>,
                     !.origin = IF x.origin = "none" THEN origin ELSE x.origin]
      ELSE x

\* commit_cause: only the taker leaves the head uncommitted.
CommitCause(x, t) ==
    IF x.cell = NoCell THEN [x EXCEPT !.cell = <<"cause", t>>, !.ended = TRUE] ELSE x

\* crossed_by: the boundary a terminal of one direction names.
CrossedBy(t, direction) ==
    CASE t \in {"ShutdownDeadline", "ForcedCancellation"} -> "AggregateShutdown"
      [] t \in {"Disconnect", "ResponseHead"}             -> "none"
      [] t = "TransferBytes" /\ direction = "download"    -> "DownloadBytes"
      [] OTHER                                            -> t

RecordBoundary(x, b) == IF x.boundary = "none" THEN [x EXCEPT !.boundary = b] ELSE x

\* stage: status and boundary are each set once.
Stage(x, status, b) ==
    RecordBoundary(IF x.status = "none" THEN [x EXCEPT !.status = status] ELSE x, b)

\* answer_rejected: the mapper's response and the rejection it answers.  A read
\* that failed names no boundary of its own.
AnswerRejected(x, t) ==
    Stage([x EXCEPT !.rejection = TRUE], "ordinary",
          IF t = "SourceFailure" THEN "none" ELSE CrossedBy(t, "upload"))

AnswerFramework(x, t) == AnswerRejected(Head1(x, "framework"), t)

\* mapped_refusal: the terminals the declared table maps.
Mapped == {"RouteBodyLimit", "TransferBytes", "TransferIdle", "TransferTotal", "SourceFailure",
           "BodyIdle", "RequestTotal"}

\* Mutant: a peer that has gone is given a mapped refusal.
AnswerInboundAlways(x, t) == AnswerFramework(x, t)

\* answer_inbound_failure: a mapped refusal, or end_without_mapping.
AnswerInbound(x, t) ==
    IF t \in Mapped THEN AnswerFramework(x, t) ELSE Stage(x, "ordinary", CrossedBy(t, "upload"))

-----------------------------------------------------------------------------
(* The guards: what one observation finds ready. *)

\* Mutant: the request's total is left to the buffered read.
ObservedWithoutTotal(idle, total) ==
       (IF net.control = "Graceful" /\ "shutdown" \in due THEN {"ShutdownDeadline"} ELSE {})
  \cup (IF net.control = "Abort" THEN {"ForcedCancellation"} ELSE {})
  \cup (IF idle /\ since = Idle THEN {"BodyIdle"} ELSE {})
  \cup (IF total /\ pc = "read" /\ "total" \in due THEN {"RequestTotal"} ELSE {})
  \cup (IF net.terminating \/ cause # "none" THEN {"Disconnect"} ELSE {})

\* InboundGuard::observed.  A guard that saw Graceful keeps its deadline under
\* Abort and may then name it rather than the forced cancellation: the two are
\* answered and recorded alike, and the model names the cancellation.
Observed(idle, total) ==
       (IF net.control = "Graceful" /\ "shutdown" \in due THEN {"ShutdownDeadline"} ELSE {})
  \cup (IF net.control = "Abort" THEN {"ForcedCancellation"} ELSE {})
  \cup (IF idle /\ since = Idle THEN {"BodyIdle"} ELSE {})
  \cup (IF total /\ "total" \in due THEN {"RequestTotal"} ELSE {})
  \cup (IF net.terminating \/ cause # "none" THEN {"Disconnect"} ELSE {})

FirstReady(ready) ==
    LET holding == SelectSeq(Order, LAMBDA t : t \in ready)
    IN  IF holding = <<>> THEN "none" ELSE Head(holding)

\* Transfer::weighed: the source's answer beside the two transfer deadlines.  An
\* admitted frame has just restarted the idle one.
Weighed(carried, read, idle, total) ==
       carried
  \cup (IF idle \in due /\ read # "Data" THEN {"TransferIdle"} ELSE {})
  \cup (IF total \in due THEN {"TransferTotal"} ELSE {})
  \cup (CASE read = "Cross"  -> {"TransferBytes"}
          [] read = "End"    -> {"ResponseHead"}
          [] read = "Failed" -> {"SourceFailure"}
          [] OTHER           -> {})

-----------------------------------------------------------------------------
(* Answering: the request future returns and the body is guarded. *)

\* Nothing is left to produce, or Hyper writes no body.  A 101's lifetime ends at
\* its handoff instead.
CompletesAtConstruction(status, n) ==
    status # "switching" /\ (n = 0 \/ rt.head \/ status = "bodyless")

\* serve_request and GuardedBody::attach, at the return of every answer: a
\* response with nothing to produce is complete when its head is written.
Attach(x, kind, n, close) ==
    /\ ans' = x /\ pc' = "body"
    /\ body' = [NoBody EXCEPT !.kind = kind, !.left = n, !.close = close]
    /\ cause' = IF cause = "none" /\ CompletesAtConstruction(x.status, n)
                  THEN "Completed" ELSE cause

\* An answer in one frame or none; strip_body_if_head empties a HEAD's.
Answer(x) == \E n \in IF rt.head THEN {0} ELSE {0, 1} : Attach(x, "full", n, FALSE)

\* A transferred body, which build_streaming_response drops for a HEAD.
AnswerStream(x, n, close) == Attach(x, IF rt.head THEN "drained" ELSE "transfer", n, close)

\* A handler's own response, or the mapped form of the error it returned.
Produced(x, origin) ==
    {Stage([Head1(x, origin) EXCEPT !.rejection = mapped], status, "none") :
        mapped \in BOOLEAN, status \in {"ordinary", "bodyless"}}

\* What the request future owns goes with it: a body it was reading, and the
\* coordinator's half of a proxied upload.
Release ==
    up' = CASE up.at = "live" /\ rt.class = "proxy" -> [up EXCEPT !.refusal = "closed"]
            [] up.at = "live" /\ rt.class # "grpc"  -> [up EXCEPT !.at = "dropped"]
            [] OTHER                                -> up

clocks == <<lull, since>>

\* Enter a stage without answering.
Enter(stage) == pc' = stage /\ UNCHANGED <<ans, cause, body>>

-----------------------------------------------------------------------------
(* Dispatch: handle.rs, streaming.rs and multipart_route.rs. *)

\* classify_route: the stages a class may begin with.  A buffered route without
\* a body to read is classified HeadOnly or Terminal.
Begins ==
    CASE rt.class = "buffered" -> {"read", "produce"}
      [] rt.class = "stream"   -> {"read"}
      [] rt.class = "sse"      -> {"read", "gate"}
      [] OTHER                 -> {"gate"}

\* The head is refused, an internal route is entered, or body admission lets the
\* class begin.  An internal route answered directly takes the cell at once.
Classify ==
    /\ pc = "classify"
    /\ \/ /\ rt.class = "refused"
          /\ \E o \in {"framework", "router"} :
                Answer(AnswerRejected([ans EXCEPT !.origin = o], "none"))
          /\ UNCHANGED up
       \/ /\ rt.class = "internal"
          /\ pc' = "internal" /\ ans' \in {ans, Head1(ans, "internal")}
          /\ UNCHANGED <<cause, body, up>>
       \/ /\ rt.class = "grpc"
          /\ Answer(AnswerRejected(ans, "none"))
          /\ UNCHANGED up
       \/ /\ rt.class \notin {"refused", "internal", "grpc", "upgrade"}
          /\ \E t \in {"RouteBodyLimit", "none"} : Answer(AnswerFramework(ans, t))
          /\ UNCHANGED up
       \/ /\ rt.class \notin {"refused", "internal"}
          /\ \E stage \in Begins :
                /\ Enter(stage)
                /\ up' = IF stage = "read" THEN [up EXCEPT !.at = "live"] ELSE up
    /\ UNCHANGED <<rt, net, due, clocks, records>>

\* answer_internal_directly and dispatch_internal_through_middleware.
InternalAnswers ==
    /\ pc = "internal"
    /\ \E o \in {"internal", "middleware"} : \E x \in Produced(ans, o) : Answer(x)
    /\ UNCHANGED <<rt, net, due, clocks, up, records>>

\* retain_within_budget: one turn of the buffered read.  Authority is observed
\* before the frame restarts the guard's quiet interval.
ReadTurn(read) ==
    LET own == CASE read = "Cross"  -> {"RouteBodyLimit"}
                 [] read = "End"    -> {"ResponseHead"}
                 [] read = "Failed" -> {"SourceFailure"}
                 [] OTHER           -> {}
        t   == FirstReady(Observed(TRUE, TRUE) \cup own)
    IN  /\ pc = "read"
        /\ read = "Data" => up.sent < Frames
        /\ \/ /\ t = "none"
              /\ IF read = "Data"
                   THEN up' = [up EXCEPT !.sent = @ + 1] /\ lull' = 0 /\ since' = 0
                   ELSE UNCHANGED <<up, lull, since>>
              /\ UNCHANGED <<pc, ans, cause, body>>
           \/ /\ t = "ResponseHead"
              /\ Enter(IF rt.class = "buffered" THEN "produce" ELSE "gate")
              /\ up' = [up EXCEPT !.at = "over", !.end = t]
              /\ UNCHANGED <<lull, since>>
           \/ /\ t \notin {"none", "ResponseHead"}
              /\ Answer(AnswerInbound(CommitCause(ans, t), t))
              /\ up' = [up EXCEPT !.at = "over", !.end = t]
              /\ UNCHANGED <<lull, since>>
        /\ UNCHANGED <<rt, net, due, records>>

\* gate_within_total passes, and the class goes on in the same turn: an event
\* stream is answered, an upload is opened, a malformed boundary is refused.
GateAdmits ==
    /\ pc = "gate"
    /\ \/ /\ rt.class \in {"stream", "upgrade"}
          /\ Enter("produce") /\ UNCHANGED up
       \/ /\ rt.class = "sse"
          /\ AnswerStream(Stage(Head1(ans, "sse"), "ordinary", "none"), Undeclared, FALSE)
          /\ UNCHANGED up
       \/ /\ rt.class \in {"proxy", "grpc", "multipart"}
          /\ Enter("produce") /\ up' = [up EXCEPT !.at = "live"]
       \/ /\ rt.class = "proxy"
          /\ Enter("produce")
          /\ up' = [up EXCEPT !.at = "over", !.end = "ResponseHead", !.view = "clean",
                              !.refusal = "gone", !.ack = "Drained"]
       \/ /\ rt.class = "multipart"
          /\ Answer(AnswerFramework(ans, "none")) /\ UNCHANGED up
    /\ UNCHANGED <<rt, net, due, clocks, records>>

GateBlocks ==
    /\ pc = "gate"
    /\ \E x \in Produced(ans, "middleware") : Answer(x)
    /\ UNCHANGED <<rt, net, due, clocks, up, records>>

\* within_total: the gate, or a producer the deadline alone bounds, is dropped.
TotalExpires ==
    /\ "total" \in due
    /\ \/ pc = "gate"
       \/ pc = "produce" /\ rt.class \in {"buffered", "stream", "upgrade", "multipart"}
    /\ Answer(AnswerFramework(ans, "RequestTotal"))
    /\ Release
    /\ UNCHANGED <<rt, net, due, clocks, records>>

\* finish_buffered.
BufferedAnswers ==
    /\ pc = "produce" /\ rt.class = "buffered"
    /\ \E o \in {"application", "middleware", "router", "upstream", "static-file"} :
          \E x \in Produced(ans, o) : Answer(x)
    /\ UNCHANGED <<rt, net, due, clocks, up, records>>

\* finish_stream: a channel, a buffered response, a mapped error, or a head that
\* cannot be represented.
StreamAnswers ==
    /\ pc = "produce" /\ rt.class = "stream"
    /\ \/ \E s \in {"ordinary", "bodyless"} :
            AnswerStream(Stage(Head1(ans, "application"), s, "none"), rt.length, FALSE)
       \/ \E n \in IF rt.head THEN {0} ELSE {0, 1} :
            Attach(Stage(Head1(ans, "application"), "ordinary", "none"), "sized", n, FALSE)
       \/ Answer(AnswerFramework(ans, "none"))
    /\ UNCHANGED <<rt, net, due, clocks, up, records>>

\* record_upgrade: commit_upgrade resolves the response lifetime before the 101.
UpgradeAnswers ==
    /\ pc = "produce" /\ rt.class = "upgrade"
    /\ \/ /\ ans' = Stage(Head1(ans, "websocket"), "switching", "none")
          /\ pc' = "body" /\ body' = [NoBody EXCEPT !.kind = "full"]
          /\ cause' = IF cause = "none" THEN "Completed" ELSE cause
       \/ Answer(AnswerFramework(ans, "none"))
    /\ UNCHANGED <<rt, net, due, clocks, up, records>>

\* settled_answer: the handler returned, the driver was revoked, and the driver's
\* terminal chooses the answer.
MultipartAnswers ==
    /\ pc = "produce" /\ rt.class = "multipart"
    /\ \/ up.end = "ResponseHead" /\ \E x \in Produced(ans, "application") : Answer(x)
       \/ up.end = "Parser" /\ Answer(AnswerFramework(ans, "none"))
       \/ /\ up.end = "none"
          /\ \/ Answer(AnswerRejected(Head1(ans, "application"), "none"))
             \/ Answer(AnswerFramework(ans, "none"))
       \/ up.end \in Terminals \ {"ResponseHead"} /\ Answer(AnswerInbound(ans, up.end))
    /\ Release
    /\ UNCHANGED <<rt, net, due, clocks, records>>

-----------------------------------------------------------------------------
(* Producers that commit beside an upload: operation.rs, async_proxy.rs and  *)
(* grpc_handoff.rs.                                                          *)

\* select_pre_commit, on a turn its producer is still pending.  A cause that
\* finds the cell taken answers nothing.
PreCommitTurn ==
    LET local == IF rt.class = "grpc" /\ up.refusal = "sent" THEN {up.end} ELSE {}
        t     == FirstReady(Observed(FALSE, TRUE) \cup local)
    IN  /\ pc \in {"produce", "quiesce"} /\ rt.class \in {"proxy", "grpc"}
        /\ ~(pc = "produce" /\ rt.class = "proxy" /\ up.refusal = "sent")
        /\ IF t # "none" /\ ans.cell = NoCell
             THEN Answer(AnswerInbound(CommitCause(ans, t), t)) /\ Release
             ELSE UNCHANGED <<pc, ans, cause, body, up>>
        /\ UNCHANGED <<rt, net, due, lull, since, records>>

\* settle_upload takes the upload's refusal, on its own or behind an upstream
\* failure the refusal itself caused.
UploadRefused ==
    /\ pc = "produce" /\ rt.class = "proxy" /\ up.refusal = "sent"
    /\ Answer(AnswerInbound(CommitCause(ans, up.end), up.end))
    /\ UNCHANGED <<rt, net, due, clocks, up, records>>

UpstreamFails ==
    /\ pc = "produce" /\ rt.class = "proxy" /\ up.refusal # "sent"
    /\ Answer(AnswerFramework(ans, "none"))
    /\ Release
    /\ UNCHANGED <<rt, net, due, clocks, records>>

\* UploadCoordinator::commit: the upstream's head is recorded, then the upload
\* is told to stop.
UpstreamAnswers ==
    /\ pc = "produce" /\ rt.class = "proxy"
    /\ ans' = Head1(ans, "upstream") /\ pc' = "quiesce"
    /\ up' = [up EXCEPT !.refusal = IF @ = "gone" THEN @ ELSE "closed"]
    /\ UNCHANGED <<rt, net, due, clocks, cause, body, records>>

\* Mutant: an upload that gave no answer is taken for one that was drained.
DispositionHopeful == IF up.ack = "none" THEN "Drained" ELSE up.ack

\* quiesce: the acknowledgement, or Stopped when it never came.
Disposition == IF up.ack = "none" THEN "Stopped" ELSE up.ack

\* finish_upstream_stream, once quiesce has returned.
QuiesceEnds ==
    /\ pc = "quiesce"
    /\ \/ \E s \in {"ordinary", "bodyless"} :
            AnswerStream(Stage(ans, s, "none"), rt.length, Disposition = "Stopped" /\ ~rt.http2)
       \/ Answer(AnswerRejected(ans, "none"))
    /\ UNCHANGED <<rt, net, due, clocks, up, records>>

\* handoff_grpc: tonic's head is committed and its body guarded.
GrpcAnswers ==
    /\ pc = "produce" /\ rt.class = "grpc"
    /\ Attach(Stage(Head1(ans, "grpc"), "ordinary", "none"), "grpc", Undeclared, FALSE)
    /\ UNCHANGED <<rt, net, due, clocks, up, records>>

\* TransferFailure::refusal, and the route's own limit.
Refusals == {"RouteBodyLimit", "TransferBytes", "TransferIdle", "TransferTotal", "SourceFailure"}

\* transfer_end and BoundedUpload::ended: a refusal is raised and leaves as an
\* error; anything else ends the upstream's body.
ProxyUploadEnds(t) ==
    IF t \in Refusals
      THEN [up EXCEPT !.at = "over", !.end = t, !.view = "error", !.ack = "Stopped",
                      !.refusal = "sent"]
      ELSE [up EXCEPT !.at = "over", !.end = t, !.view = "clean", !.refusal = "gone",
                      !.ack = IF t = "ResponseHead" THEN "Drained" ELSE "Stopped"]

\* GrpcRequestBody::poll_frame, and the session driver's terminal.
UploadEnds(t) ==
    CASE rt.class = "proxy" -> {ProxyUploadEnds(t)}
      [] rt.class = "grpc"  ->
            {[up EXCEPT !.at = "over", !.end = t,
                        !.view = IF t = "ResponseHead" THEN "clean" ELSE "error",
                        !.refusal = IF t = "ResponseHead" THEN "gone" ELSE "sent"]}
      [] OTHER ->
            {[up EXCEPT !.at = "over", !.end = e] :
                e \in CASE t = "ResponseHead"  -> {t, "Parser"}
                        [] t \in {"SourceFailure", "RouteBodyLimit"} -> {"Parser"}
                        [] OTHER -> {t}}

\* One turn of a transferred upload.  A proxied or parsed body carries no byte
\* ceiling in its transfer: the route's limit is weighed on the admitted frame.
UploadTurn(read) ==
    LET seen == IF read = "Cross" /\ rt.class # "grpc" THEN "Data" ELSE read
        t    == FirstReady(Weighed(Observed(TRUE, rt.class # "grpc"), seen,
                                   "upIdle", "upTotal"))
        stop == rt.class = "proxy" /\ up.refusal = "closed"
    IN  /\ up.at = "live"
        /\ rt.class \in {"proxy", "grpc"} \/ (rt.class = "multipart" /\ pc = "produce")
        /\ read = "Data" => up.sent < Frames
        /\ \/ stop /\ up' = ProxyUploadEnds("Stopped")
           \/ ~stop /\ t # "none" /\ up' \in UploadEnds(t)
           \/ ~stop /\ t = "none" /\ read = "Cross" /\ up' \in UploadEnds("RouteBodyLimit")
           \/ ~stop /\ t = "none" /\ read = "Data" /\ up' = [up EXCEPT !.sent = @ + 1]
           \/ ~stop /\ t = "none" /\ read = "Quiet" /\ up' = up
        /\ IF ~stop /\ t = "none" /\ seen = "Data"
             THEN due' = due \ {"upIdle"} /\ lull' = 0
             ELSE UNCHANGED <<due, lull>>
        /\ UNCHANGED <<rt, pc, ans, net, since, cause, body, records>>

\* The upstream client, or tonic's service, drops the upload it was given.
DropUpload ==
    /\ up.at = "live" /\ rt.class \in {"proxy", "grpc"}
    /\ up' = [up EXCEPT !.at = "dropped", !.refusal = "gone"]
    /\ UNCHANGED <<rt, pc, ans, net, due, clocks, cause, body, records>>

-----------------------------------------------------------------------------
(* The response body Hyper holds: body.rs, transfer.rs and disconnect.rs. *)

\* Hyper writes no body for HEAD, 204, 304 and 101, leaves one that reports its
\* end, and on HTTP/1 stops at the declared length.
HyperPolls ==
    /\ pc = "body" /\ body.over = "no" /\ ~rt.head /\ ans.status = "ordinary"
    /\ body.held \/ ~(body.kind \in {"full", "sized"} /\ body.left = 0)
    /\ body.held \/ rt.http2 \/ body.left # 0

\* What the body's own source can answer.
Downloads ==
    CASE body.kind = "sized"  -> {"Data", "Cross"}
      [] rt.class = "proxy"   -> Reads
      [] OTHER                -> Reads \ {"Failed"}

Complete == cause' = IF cause = "none" THEN "Completed" ELSE cause

\* GuardedBody::produced and last_frame.
FrameProduced ==
    LET left == IF body.left \in 1 .. Frames THEN body.left - 1 ELSE body.left
    IN  /\ body' = [body EXCEPT !.left = left, !.sent = @ + 1]
        /\ IF left = 0 THEN Complete ELSE UNCHANGED cause
        /\ UNCHANGED ans

\* Mutant: a source that ends early completes the response.
StreamEndsShort == body' = [body EXCEPT !.over = "end"] /\ Complete /\ UNCHANGED ans

\* GuardedBody::end_of_stream: what is still owed makes the end a failure.
StreamEnds ==
    IF body.left \in 1 .. Frames
      THEN /\ body' = [body EXCEPT !.held = TRUE]
           /\ ans' = RecordBoundary(ans, "SourceFailure")
           /\ UNCHANGED cause
      ELSE body' = [body EXCEPT !.over = "end"] /\ Complete /\ UNCHANGED ans

\* One poll of a transferred body.
BodyTurn(read) ==
    LET t == FirstReady(Weighed(Observed(FALSE, FALSE), read, "downIdle", "downTotal"))
    IN  /\ HyperPolls /\ ~body.held /\ body.kind \in {"sized", "transfer", "grpc"}
        /\ read \in Downloads
        /\ read = "Data" => body.sent < Frames
        /\ \/ t = "none" /\ read = "Data" /\ FrameProduced
           \/ t = "none" /\ read = "Quiet" /\ UNCHANGED <<body, ans, cause>>
           \/ t = "ResponseHead" /\ StreamEnds
           \/ /\ t \notin {"none", "ResponseHead"}
              /\ body' = [body EXCEPT !.held = TRUE]
              /\ ans' = RecordBoundary(ans, CrossedBy(t, "download"))
              /\ UNCHANGED cause
        /\ due' = IF t = "none" /\ read = "Data" THEN due \ {"downIdle"} ELSE due
        /\ UNCHANGED <<rt, pc, net, lull, since, up, records>>

\* A full body yields its one frame; a held failure is released.
BodyYields ==
    /\ HyperPolls
    /\ \/ body.held /\ body' = [body EXCEPT !.held = FALSE, !.over = "error"] /\ UNCHANGED <<cause, ans>>
       \/ ~body.held /\ body.kind = "full" /\ FrameProduced
    /\ UNCHANGED <<rt, pc, net, due, clocks, up, records>>

\* ResponseGuard::cause.
ProposedCause ==
    CASE net.control # "Running" -> "ServerShutdown"
      [] net.terminating         -> "PeerDisconnect"
      [] OTHER                   -> "StreamReset"

Settled == IF cause = "none" THEN ProposedCause ELSE cause

\* ConnectionEnd::of.
ConnectionEnd ==
    CASE Settled \in {"Completed", "ServerShutdown"} -> "none"
      [] Settled = "PeerDisconnect" /\ net.failed    -> "TransportFailed"
      [] OTHER                                       -> Settled

\* DeliveryOutcome::of.
Delivery ==
    IF ans.status = "none" THEN "NotCommitted"
    ELSE IF Settled = "Completed" THEN "Produced" ELSE "Interrupted"

PublishedOrigin ==
    IF ans.origin # "none" THEN ans.origin
    ELSE IF ans.ended \/ ans.status = "none" THEN "none" ELSE "protocol"

CompletionRecord ==
    [origin |-> PublishedOrigin, status |-> ans.status,
     rejection |-> PublishedOrigin = "framework" /\ ans.rejection,
     boundary |-> ans.boundary, delivery |-> Delivery, end |-> ConnectionEnd]

\* The exchange is dropped: when Hyper has done with it, when the connection or
\* the server ends it, or when an HTTP/2 peer resets its stream.  The guard's
\* Drop settles the cause and the finalizer writes the record.
HyperDrops ==
    /\ pc # "gone"
    /\ \/ net.terminating \/ net.control = "Abort" \/ rt.http2
       \/ pc = "body" /\ ~HyperPolls
    /\ pc' = "gone" /\ cause' = Settled
    /\ records' = Append(records, CompletionRecord)
    /\ Release
    /\ UNCHANGED <<rt, ans, net, due, clocks, body>>

-----------------------------------------------------------------------------
(* The environment. *)

\* What happens around an exchange matters until its record is written.
Active == pc # "gone"

\* The server's control moves on.
Control(c) ==
    /\ Active
    /\ net.control = "Running" \/ (net.control = "Graceful" /\ c = "Abort")
    /\ net' = [net EXCEPT !.control = c]
    /\ UNCHANGED <<rt, pc, ans, due, clocks, cause, up, body, records>>

\* LivenessStream reads the peer's end, or a transport error.
PeerEnds(failed) ==
    /\ Active /\ ~net.terminating
    /\ net' = [net EXCEPT !.terminating = TRUE, !.failed = failed]
    /\ UNCHANGED <<rt, pc, ans, due, clocks, cause, up, body, records>>

\* A deadline that is running passes.
Expire(d) ==
    /\ Active /\ d \notin due
    /\ CASE d = "total"                   -> pc \in {"read", "gate", "produce", "quiesce"}
         [] d = "shutdown"                -> net.control = "Graceful"
         [] d \in {"upIdle", "upTotal"}   -> up.at = "live" /\ pc # "read"
         [] OTHER                         -> HyperPolls
    /\ d \in rt.budget \cup {"shutdown"}
    /\ due' = due \cup {d}
    /\ UNCHANGED <<rt, pc, ans, net, clocks, cause, up, body, records>>

\* Time passes for body_idle: since the last payload frame, and since the
\* guard's quiet_since.
Tick ==
    /\ Active /\ up.at = "live" /\ "idle" \in rt.budget /\ since < Idle
    /\ since' = since + 1
    /\ lull' = IF lull < Idle THEN lull + 1 ELSE lull
    /\ UNCHANGED <<rt, pc, ans, net, due, cause, up, body, records>>

\* The exchange is over and nothing of it is left.
Over == ~Active /\ up.at # "live" /\ UNCHANGED vars

Turn ==
    \/ Classify \/ InternalAnswers \/ GateAdmits \/ GateBlocks \/ TotalExpires
    \/ \E read \in Reads : ReadTurn(read)
    \/ BufferedAnswers \/ StreamAnswers \/ UpgradeAnswers \/ MultipartAnswers
    \/ PreCommitTurn \/ UploadRefused \/ UpstreamFails \/ UpstreamAnswers
    \/ QuiesceEnds \/ GrpcAnswers

Next ==
    \/ Turn
    \/ \E read \in Reads : UploadTurn(read)
    \/ DropUpload
    \/ \E read \in Reads : BodyTurn(read)
    \/ BodyYields \/ HyperDrops
    \/ \E c \in {"Graceful", "Abort"} : Control(c)
    \/ \E failed \in BOOLEAN : PeerEnds(failed)
    \/ \E d \in {"total", "shutdown", "upIdle", "upTotal", "downIdle", "downTotal"} : Expire(d)
    \/ Tick \/ Over

Spec == Init /\ [][Next]_vars

\* Timers and the watch channel wake the request future, so a turn that can end
\* the request is taken; quiesce is bounded by its own timeout.
Fairness ==
    /\ WF_vars(\E read \in Reads : ReadTurn(read) /\ pc' # "read")
    /\ WF_vars(TotalExpires)
    /\ WF_vars(PreCommitTurn /\ pc' # pc)
    /\ WF_vars(UploadRefused)
    /\ WF_vars(QuiesceEnds)

FairSpec == Spec /\ Fairness

-----------------------------------------------------------------------------
(* Properties. *)

\* A completion record agrees with what happened: the producer it names is the
\* one that took the cell, a cause that took it leaves no producer, "produced"
\* is said only of a body that was delivered to its declared length, or to its
\* end when it declared none, a connection end never stands beside it, and a
\* boundary named did pass (published_origin, DeliveryOutcome::of,
\* GuardedBody, crossed_by).  (Every field holds a value of its type.)
RecordHonest ==
    TypeOK /\ \A i \in DOMAIN records :
        LET rec == records[i]
        IN  /\ ans.cell[1] = "head" => rec.origin = ans.cell[2]
            /\ ans.cell[1] = "cause" => rec.origin = "none"
            /\ rec.origin = "framework" => rec.rejection
            /\ rec.delivery = "Produced" =>
                  /\ rec.end = "none"
                  /\ \/ body.left = 0 \/ (body.left = Undeclared /\ body.over = "end")
                     \/ rt.head \/ rec.status \in {"bodyless", "switching"}
            /\ rec.boundary = "AggregateShutdown" => net.control # "Running"
            /\ rec.boundary = "RequestTotal" => "total" \in due
            /\ rec.boundary = "BodyIdle" => up.end = "BodyIdle"

\* A request ended by the peer's going, by a forced stop or by the shutdown
\* deadline is not given a mapped refusal (mapped_refusal,
\* answer_inbound_failure): nobody is left to read one.
SilenceKept ==
    ans.cell \in {"cause"} \X {"Disconnect", "ForcedCancellation", "ShutdownDeadline"} =>
        ~ans.rejection

\* An HTTP/1 connection is kept behind a proxied answer only when the upload was
\* read to its end: what is left of it would be framed as the next request
\* (UploadCoordinator::quiesce, disposed).
FramingKept ==
    (rt.class = "proxy" /\ body.kind \in {"transfer", "drained"} /\ ~rt.http2 /\ ~body.close) =>
        up.end = "ResponseHead"

\* A request whose total has expired is answered, whatever stage it is in, and a
\* forced stop is heard by the two stages a guard watches, the buffered read and
\* the production of a proxied or gRPC head (InboundGuard::observed,
\* within_total, select_pre_commit).
Guarded == pc = "read" \/ (pc = "produce" /\ rt.class \in {"proxy", "grpc"})

TerminalAnswers ==
    /\ ("total" \in due /\ pc \in {"read", "gate", "produce"}) ~> pc \in {"body", "gone"}
    /\ (net.control = "Abort" /\ Guarded) ~> ~Guarded

\* A request whose body went quiet for body_idle is ended by that deadline: it is
\* not answered by an upstream that was given the part which had arrived as the
\* whole (RequestBudget: "Whichever expires first at the boundary it owns ends
\* the request.").
IdleEndsRequest ==
    ~(rt.class = "proxy" /\ up.end = "BodyIdle" /\ ans.cell = <<"head", "upstream">>)

\* body_idle ends a transferred upload only after that long without a payload
\* frame, as RequestBudget documents it.
IdleIsQuiet == [][up'.end = "BodyIdle" => up.end = "BodyIdle" \/ lull = Idle]_vars

=============================================================================
