----------------------------- MODULE ClientSend -----------------------------
(***************************************************************************)
(* One buffered operation of the outbound HTTP client                      *)
(* (crates/camber/src/http/client): the description the caller builds, the *)
(* checks of the first poll, destination admission, every attempt, retry   *)
(* and redirect under one lifetime, the collection of the final body, and  *)
(* the one completion record.                                              *)
(*                                                                         *)
(* Data is reduced to what decides control.  A URL is its origin.  A       *)
(* status is its class: "moved" is 301 or 302, "other" is 303, "same" is   *)
(* 307 or 308, "busy" is 429 or 502 to 504, "plain" is any other.  The     *)
(* header names are one that is always a credential, and one the caller    *)
(* may mark.  Resolved addresses are public, private, or the private one   *)
(* an exception of the policy names for ExceptHost over TLS.               *)
(***************************************************************************)
EXTENDS Integers, Sequences, FiniteSets

CONSTANTS
  Hosts,          \* the hosts a URL can name
  StartHost,      \* the host a call begins at
  ListedHost,     \* the host a cross-origin allowance lists
  ExceptHost,     \* the host an egress exception names
  Methods,        \* the methods tried: "POST" is the one that is not idempotent
  Permissions,    \* the retry policies tried
  Routes,         \* the redirect policies tried
  Egresses,       \* the egress policies tried
  MaxRetries,     \* Client::retries
  MaxHops,        \* max_hops of the redirect policy
  TotalTime,      \* total timeout, in ticks
  AttemptTime,    \* attempt timeout, in ticks
  HeaderNames,    \* the header names tried
  Waits,          \* the waits a Retry-After states
  Absent,         \* no status, hop, transport, refusal or result
  Garbled         \* a Location that is repeated or that no URL can be read from

Never == -1       \* an instant that is not armed

VARIABLES
  plan,      \* what the client and the call fix: method, permission, policies
  stage,     \* where the call's future is
  outgoing,   \* the current request (Exchange::description)
  lane,      \* the transport: the origin it was opened for, and its addresses
  hop,       \* an admitted redirect whose destination is being dialed
  retried,   \* Operation::retries_sent
  followed,  \* Operation::redirects_followed
  tick,      \* time since the first poll
  bound,     \* expiry of the attempt in flight
  wake,      \* end of the delay being waited out
  asked,     \* the runtime's stop request, sticky
  record,    \* Completion: attempts, redirects, status, outcome
  answer,    \* what the call returned
  sentWire,      \* every send given to a transport, in order
  secret     \* header names the caller ever marked, or that always are

sendVars == <<plan, stage, outgoing, lane, hop, retried, followed, tick, bound,
              wake, asked, record, answer, sentWire, secret>>

Origins == [tls : BOOLEAN, host : Hosts]
Always == {"authorization"}
PeerAnswers == [status : {"plain", "busy"}, to : {Absent}] \cup
           [status : {"moved", "other", "same"},
            to : {Absent, Garbled} \cup Origins]

Pending == {"opening", "ready", "flight", "waiting", "dialing", "collecting"}
\* The stages at which the future is suspended.  Opening waits only for a
\* lookup, and a request that is ready is sent in the same poll.
Suspended == \/ stage \in {"flight", "waiting", "collecting"}
             \/ stage \in {"opening", "dialing"} /\ plan.egress = "public"
Over == tick >= plan.ceiling \/ asked

Plans == [method : Methods, permission : Permissions, route : Routes, egress : Egresses,
          start : [tls : BOOLEAN, host : {StartHost}], ceiling : {0, TotalTime}]

SendInit ==
  /\ plan \in Plans
  /\ outgoing = [origin |-> plan.start, method |-> plan.method,
                body |-> plan.method = "POST", headers |-> {}, marked |-> {}]
  /\ stage = "new" /\ lane = Absent /\ hop = Absent
  /\ retried = 0 /\ followed = 0
  /\ tick = 0 /\ bound = Never /\ wake = Never /\ asked = FALSE
  /\ record = [attempts |-> 0, redirects |-> 0, status |-> Absent, outcome |-> "abandoned"]
  /\ answer = Absent /\ sentWire = <<>> /\ secret = Always

-----------------------------------------------------------------------------
(* Policies. *)

Idempotent(method) == method # "POST"

permits_replay(method) ==
  CASE plan.permission = "never" -> FALSE
    [] plan.permission = "idempotent" -> Idempotent(method)
    [] plan.permission = "replayable" -> TRUE

client_resendable(method) == Idempotent(method) \/ plan.permission = "replayable"

TransientFailure(f) == f \in {"connect", "attempt"}

SendsTo(origin) == origin.tls \/ plan.egress # "https"

\* An address outside every special-purpose block.
PublicAddress(a) == a = "public"

\* An address the policy's exception names, at the exception's own origin.
Excepted(origin, a) == a = "excepted" /\ origin = [tls |-> TRUE, host |-> ExceptHost]

\* An answer passes only when every address of it does.
Approved(origin, addresses) ==
  \A a \in addresses : PublicAddress(a) \/ Excepted(origin, a)

\* What the lookup of a pinned destination may find; "many" is an answer past
\* the visit bound.
Lookups == {{}, {"public"}, {"public", "private"}, {"excepted"}, {"many"}}

\* The destinations a cross-origin policy lists.
Allowance(to) ==
  to.tls /\ (plan.route = "https" \/ (plan.route = "listed" /\ to.host = ListedHost))

\* The refusal of a destination, or Absent.
Inadmissible(to) ==
  LET returns == to = plan.start
      permitted == returns \/ Allowance(to)
  IN CASE plan.route = "same" /\ ~returns -> "origin"
       [] plan.route # "same" /\ outgoing.origin.tls /\ ~to.tls -> "downgrade"
       [] plan.route # "same" /\ ~permitted -> "origin"
       [] OTHER -> Absent

\* The refusal of a method that may not be carried, or Absent.
Uncarried(status) ==
  IF \/ status = "moved" /\ outgoing.method \notin {"GET", "HEAD"}
     \/ status = "same" /\ ~client_resendable(outgoing.method)
  THEN "method" ELSE Absent

IsRedirect(a) == plan.route # "none" /\ a.status \in {"moved", "other", "same"} /\ a.to # Absent

\* The allowances: redirects and retries are counted apart.
NextRedirect == followed + 1 <= MaxHops
NextRetry == retried + 1 <= MaxRetries

\* Operation::hop: destination, then method, then the allowance.
Refusal(a) ==
  CASE a.to = Garbled -> "location"
    [] Inadmissible(a.to) # Absent -> Inadmissible(a.to)
    [] Uncarried(a.status) # Absent -> Uncarried(a.status)
    [] ~NextRedirect -> "hops"
    [] OTHER -> Absent


-----------------------------------------------------------------------------
(* The description. *)

\* write_header: replaces the value; sensitivity is sticky.
write_header(n, sensitive) ==
  /\ stage = "new"
  /\ outgoing' = [outgoing EXCEPT
       !.headers = @ \cup {n},
       !.marked = IF sensitive \/ n \in Always \/ n \in @ THEN @ \cup {n} ELSE @]
  /\ secret' = IF sensitive THEN secret \cup {n} ELSE secret
  /\ UNCHANGED <<plan, stage, lane, hop, retried, followed, tick, bound, wake,
                 asked, record, answer, sentWire>>

\* A request that leaves an origin leaves its marked headers there, and one
\* that becomes a GET loses its body.
strip_credentials(r) == [r EXCEPT !.headers = @ \ r.marked, !.marked = {}]
become_bodiless(r) ==
  [r EXCEPT !.method = IF @ = "HEAD" THEN "HEAD" ELSE "GET", !.body = FALSE]

\* Exchange::follow.
Followed(r, to, status) ==
  LET stripped == IF to = r.origin THEN r ELSE strip_credentials(r)
      moved == [stripped EXCEPT !.origin = to]
  IN IF status = "other" THEN become_bodiless(moved) ELSE moved

-----------------------------------------------------------------------------
(* The operation. *)

\* The terminal fact a result states.
OutcomeOf(returned) ==
  CASE returned = "ok" -> "response"
    [] returned = "cancelled" -> "cancelled"
    [] returned \in {"operation", "attempt"} -> "timeout"
    [] OTHER -> "failed"

\* operate: the result is returned and the record settled on it.
Return(returned) ==
  /\ stage' = "done" /\ answer' = returned
  /\ record' = [record EXCEPT !.outcome = OutcomeOf(returned)]
  /\ lane' = Absent /\ hop' = Absent /\ bound' = Never /\ wake' = Never
  /\ UNCHANGED <<plan, outgoing, retried, followed, tick, asked, sentWire, secret>>

\* started: first_poll's checks in their order, then the dialer.
first_poll ==
  /\ stage = "new"
  /\ IF asked THEN Return("cancelled")
     ELSE IF plan.ceiling = 0 THEN Return("operation")
     ELSE IF ~SendsTo(plan.start) THEN Return("egress")
     ELSE /\ stage' = "opening"
          /\ UNCHANGED <<plan, outgoing, lane, hop, retried, followed, tick, bound,
                         wake, asked, record, answer, sentWire, secret>>

\* A mock answers in place of the network, after the same checks.
admit_recorded ==
  /\ stage = "opening" /\ sentWire = <<>>
  /\ \E returned \in {"ok", "large"} :
       /\ stage' = "done" /\ answer' = returned
       /\ record' = [record EXCEPT !.status = "plain", !.outcome = OutcomeOf(returned)]
  /\ UNCHANGED <<plan, outgoing, lane, hop, retried, followed, tick, bound, wake,
                 asked, sentWire, secret>>

\* Operation::take.
Take(to, status, opened) ==
  /\ stage' = "ready" /\ lane' = opened /\ hop' = Absent
  /\ outgoing' = Followed(outgoing, to, status)
  /\ followed' = followed + 1
  /\ record' = [record EXCEPT !.redirects = @ + 1]
  /\ UNCHANGED <<plan, retried, tick, bound, wake, asked, answer, sentWire, secret>>

Opened(to, addresses) == [origin |-> to, addresses |-> addresses]

\* A transport was obtained for the destination being opened.
Dialed(opened) ==
  IF stage = "opening"
  THEN /\ stage' = "ready" /\ lane' = opened
       /\ UNCHANGED <<plan, outgoing, hop, retried, followed, tick, bound, wake,
                      asked, record, answer, sentWire, secret>>
  ELSE Take(hop.to, hop.status, opened)

\* Dialer::open: the scheme, then the reusable transport or a pinned one.
\* Only the lookup waits, and it waits under the lifetime.
open ==
  /\ stage \in {"opening", "dialing"}
  /\ LET to == IF stage = "opening" THEN plan.start ELSE hop.to
     IN IF ~SendsTo(to) THEN Return("egress")
        ELSE IF plan.egress # "public"
             THEN Dialed(Opened(to, {"any"}))
             ELSE /\ ~Over
                  /\ \E found \in Lookups :
                       IF found = {} THEN Return("dns")
                       ELSE IF ~Approved(to, found) THEN Return("egress")
                       ELSE Dialed(Opened(to, found))

\* Operation::run and head: the attempt bound is armed, the send counted.
send ==
  /\ stage = "ready" /\ ~Over
  /\ stage' = "flight"
  /\ bound' = IF tick + AttemptTime < plan.ceiling THEN tick + AttemptTime ELSE Never
  /\ record' = [record EXCEPT !.attempts = @ + 1]
  /\ sentWire' = Append(sentWire, [to |-> outgoing.origin, lane |-> lane, method |-> outgoing.method,
                           body |-> outgoing.body, secrets |-> outgoing.headers \cap secret])
  /\ UNCHANGED <<plan, outgoing, lane, hop, retried, followed, tick, wake, asked,
                 answer, secret>>

\* wait_to_retry: a delay that would reach the deadline waits for the end.
WaitToRetry(delay) ==
  /\ stage' = "waiting" /\ bound' = Never
  /\ wake' = IF tick + delay < plan.ceiling THEN tick + delay ELSE Never
  /\ UNCHANGED <<plan, outgoing, lane, hop, retried, followed, tick, asked, record,
                 answer, sentWire, secret>>

Backoff == 2 ^ retried

\* follow: the refusal is the answer; a new origin is dialed first.
Follow(a) ==
  IF Refusal(a) # Absent THEN Return(Refusal(a))
  ELSE IF a.to = outgoing.origin THEN Take(a.to, a.status, lane)
  ELSE /\ stage' = "dialing" /\ hop' = a /\ bound' = Never
       /\ UNCHANGED <<plan, outgoing, lane, retried, followed, tick, wake, asked,
                      record, answer, sentWire, secret>>

\* answered: a redirect is read first, then a retry, else the head is final.
answered ==
  /\ stage = "flight" /\ ~Over
  /\ \E a \in PeerAnswers :
       IF IsRedirect(a) THEN Follow(a)
       ELSE IF a.status = "busy" /\ NextRetry /\ permits_replay(outgoing.method)
       THEN \E delay \in Waits \cup {Backoff} : WaitToRetry(delay)
       ELSE /\ stage' = "collecting"
            /\ record' = [record EXCEPT !.status = a.status]
            /\ UNCHANGED <<plan, outgoing, lane, hop, retried, followed, tick, bound,
                           wake, asked, answer, sentWire, secret>>

\* An attempt that failed before its head, or whose timer expired.
retry_failure ==
  /\ stage = "flight" /\ ~Over
  /\ \E f \in {"connect", "tls", "attempt"} :
       /\ f = "attempt" => bound # Never /\ tick >= bound
       /\ IF NextRetry /\ TransientFailure(f) /\ permits_replay(outgoing.method)
          THEN WaitToRetry(Backoff) ELSE Return(f)

\* The delay passed before the operation's end.
waited ==
  /\ stage = "waiting" /\ ~Over /\ wake # Never /\ tick >= wake
  /\ stage' = "ready" /\ wake' = Never /\ retried' = retried + 1
  /\ UNCHANGED <<plan, outgoing, lane, hop, followed, tick, bound, asked, record,
                 answer, sentWire, secret>>

\* collect, under the lifetime and the attempt timer of the final head.
collect ==
  /\ stage = "collecting" /\ ~Over
  /\ \/ \E returned \in {"ok", "large", "transport"} : Return(returned)
     \/ bound # Never /\ tick >= bound /\ Return("attempt")

\* within: the end of the operation is polled before its work.
lifetime_ended ==
  /\ Suspended \/ stage = "ready"
  /\ \/ tick >= plan.ceiling /\ Return("operation")
     \/ asked /\ Return("cancelled")

\* The caller drops the pending future; the record keeps its first outcome.
dropped ==
  /\ Suspended
  /\ stage' = "done" /\ answer' = "dropped"
  /\ lane' = Absent /\ hop' = Absent /\ bound' = Never /\ wake' = Never
  /\ UNCHANGED <<plan, outgoing, retried, followed, tick, asked, record, sentWire, secret>>

SendTick ==
  /\ stage \in Pending /\ tick < plan.ceiling
  /\ tick' = tick + 1
  /\ UNCHANGED <<plan, stage, outgoing, lane, hop, retried, followed, bound, wake,
                 asked, record, answer, sentWire, secret>>

AskStop ==
  /\ ~asked /\ stage # "done" /\ asked' = TRUE
  /\ UNCHANGED <<plan, stage, outgoing, lane, hop, retried, followed, tick, bound,
                 wake, record, answer, sentWire, secret>>

SendNext ==
  \/ \E n \in HeaderNames, m \in BOOLEAN : write_header(n, m)
  \/ first_poll \/ admit_recorded \/ open \/ send \/ answered \/ retry_failure
  \/ waited \/ collect \/ lifetime_ended \/ dropped \/ SendTick \/ AskStop

\* Time passes, and a future whose timer or stop fired is polled.
SendProgress == open \/ send \/ waited \/ lifetime_ended \/ SendTick

-----------------------------------------------------------------------------
(* Properties. *)

Tls(i) == sentWire[i].to.tls

\* A call sends once, plus once for each retry and each redirect it spent,
\* and never past both allowances; the record counts exactly those sends
\* (operation.rs: "the sends of one call never exceed its first plus both
\* allowances").
SendsCounted ==
  /\ record.attempts = Len(sentWire) /\ record.redirects = followed
  /\ retried <= MaxRetries /\ followed <= MaxHops
  /\ LET spent == retried + followed
     IN CASE stage \in {"new", "opening"} -> sentWire = <<>>
          [] stage = "ready" -> Len(sentWire) = spent
          [] stage = "done" -> Len(sentWire) \in {spent, spent + 1}
          [] OTHER -> Len(sentWire) = spent + 1

\* A request that is not idempotent reaches the wire at most once unless the
\* caller declared it replayable, whatever mix of retries and redirects the
\* peer asks for.
NoSilentRepeat ==
  plan.permission # "replayable" =>
    \A i, j \in DOMAIN sentWire :
      sentWire[i].method = "POST" /\ sentWire[j].method = "POST" => i = j

\* A header the caller marked, or that always is a credential, is sent only
\* while the call has never left its first origin; a return does not bring
\* it back (Exchange::follow).
CredentialsStayHome ==
  \A i \in DOMAIN sentWire :
    sentWire[i].secrets # {} => \A j \in 1..i : sentWire[j].to = plan.start

\* Every send goes through the transport opened for its own origin, over a
\* scheme the egress policy sends to and, when it pins addresses, at
\* addresses checked for that origin; and no call steps from TLS to plain.
DestinationsAdmitted ==
  \A i \in DOMAIN sentWire :
    /\ sentWire[i].lane.origin = sentWire[i].to \/ plan.egress # "public"
    /\ SendsTo(sentWire[i].to)
    /\ plan.egress = "public" => Approved(sentWire[i].to, sentWire[i].lane.addresses)
    /\ \A j \in 1..i : Tls(j) => Tls(i)

\* The one record tells the truth about the answer: its outcome is that of
\* what the caller got, an abandoned record is a dropped call's, and a status
\* is recorded exactly when a head was accepted as final.
RecordTrue ==
  stage = "done" =>
    /\ record.outcome = IF answer = "dropped" THEN "abandoned" ELSE OutcomeOf(answer)
    /\ answer \in {"ok", "large", "transport"} => record.status # Absent
    /\ answer \in {"connect", "tls", "dns", "egress", "downgrade", "hops"} => record.status = Absent

ClientSendSafe ==
  SendsCounted /\ NoSilentRepeat /\ CredentialsStayHome /\ DestinationsAdmitted /\ RecordTrue

\* A polled call always ends, whatever the peer does: its deadline or the
\* stop request reaches it in every pending phase (Lifetime::within).
OperationOver == stage \notin Pending
OperationEnds == []<>OperationOver
=============================================================================
