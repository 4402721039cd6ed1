---------------------------- MODULE WsHandshake -----------------------------
(***************************************************************************)
(* How a WebSocket handshake is judged and answered (http/ws_proxy:        *)
(* handshake, origin, authority, backend, handoff).  A request head is a   *)
(* record of field lists, so that an absent, a single and a repeated field *)
(* are told apart, as the code does.  Case folding is left out, a token    *)
(* that is not one is "", and an authority is a host and a port, 0 where   *)
(* none is written.                                                        *)
(***************************************************************************)
EXTENDS Naturals, Sequences

CONSTANTS
  HsRequests,   \* the request heads of a run
  HsTargets,    \* the configured backends of a run
  HsReplies     \* the response heads a backend may give

VARIABLES
  hsRequest,    \* the client's head
  hsTarget,     \* the route's backend, or NoTarget for a direct handler
  hsOffer,      \* WsUpgrade: what extract_ws_upgrade made of the head
  hsReply,      \* the backend's answer
  hsChosen,     \* WsSelection: an index into the offers, 0 for none
  hsHead        \* what the client is answered, and the subprotocol it names

hsVars == <<hsRequest, hsTarget, hsOffer, hsReply, hsChosen, hsHead>>
NoTarget == [scheme |-> "none", host |-> "", port |-> 0]
Unanswered == [status |-> "none", protocol |-> ""]
NotJudged == [verdict |-> "none", protocols |-> <<>>]
NoReply == [status |-> "none"]

HsInit ==
  /\ hsRequest \in HsRequests /\ hsTarget \in HsTargets
  /\ hsOffer = NotJudged /\ hsReply = NoReply /\ hsChosen = 0 /\ hsHead = Unanswered

-----------------------------------------------------------------------------
(* Fields. *)

is_token(t) == t # ""

\* single_header_equals: one field with that value, not none and not two.
single_header_equals(values, expected) == Len(values) = 1 /\ values[1] = expected

\* One value that is not a list of tokens spoils every field of the name.
header_contains_token(values, expected) ==
  /\ \A i \in DOMAIN values : \A j \in DOMAIN values[i] : is_token(values[i][j])
  /\ \E i \in DOMAIN values : \E j \in DOMAIN values[i] : values[i][j] = expected

\* Transfer-Encoding in any form, or any length but zero.
validate_bodyless_handshake(r) == ~r.chunked /\ \A i \in DOMAIN r.length : r.length[i] = 0

\* Sixteen bytes in base64: 22 symbols, the last with four clear bits, and
\* the padding.
valid_ws_key(key) == key.padded /\ key.symbols = 22 /\ key.known /\ key.last % 16 = 0

AllTokens(values) ==
  LET seen[i \in 0 .. Len(values)] == IF i = 0 THEN <<>> ELSE seen[i - 1] \o values[i]
  IN seen[Len(values)]

-----------------------------------------------------------------------------
(* The handshake. *)

BadRequest == [verdict |-> "400", protocols |-> <<>>]

\* validate_ws_handshake, in its order: only a head that is otherwise an
\* upgrade learns that its version is not supported.
validate_ws_handshake(r) ==
  LET offers == AllTokens(r.protocols)
  IN CASE r.method # "GET" \/ r.version # "1.1" -> BadRequest
       [] ~(single_header_equals(r.upgrade, "websocket")
            /\ header_contains_token(r.connection, "upgrade")) -> BadRequest
       [] ~validate_bodyless_handshake(r) -> BadRequest
       [] r.wsVersion = <<>> -> BadRequest
       [] r.wsVersion # <<13>> -> [verdict |-> "426", protocols |-> <<>>]
       [] \E i \in DOMAIN offers : ~is_token(offers[i]) -> BadRequest
       [] ~(Len(r.key) = 1 /\ valid_ws_key(r.key[1])) -> BadRequest
       [] OTHER -> [verdict |-> "offered", protocols |-> offers]

\* parse_authority: a host, and a port that is written as a number of a port
\* or not at all.
parse_authority(a) == a.host # "" /\ a.port < 2^16

\* origin_matches_host: an absent port is the default of the origin's scheme.
origin_matches_host(origin, host) ==
  LET default == IF origin.scheme = "http" THEN 80 ELSE 443
  IN /\ origin.scheme \in {"http", "https"}
     /\ parse_authority(origin) /\ parse_authority(host)
     /\ origin.host = host.host
     /\ IF host.port # 0
        THEN host.port = IF origin.port # 0 THEN origin.port ELSE default
        ELSE origin.port \in {0, default}

\* check_ws_origin: a request without an origin comes from no page.
check_ws_origin(r) ==
  \/ r.origin = <<>>
  \/ Len(r.origin) = 1 /\ Len(r.host) = 1 /\ origin_matches_host(r.origin[1], r.host[1])

\* WsUpgrade::admit: the origin first, whatever the handshake.
admitOffer(r, offer) ==
  IF ~check_ws_origin(r) THEN "403" ELSE offer.verdict

\* WsProtocolOffers.
first(offers) == IF offers = <<>> THEN 0 ELSE 1
select(offers, token) ==
  IF \E i \in DOMAIN offers : offers[i] = token
  THEN CHOOSE i \in DOMAIN offers : offers[i] = token /\ \A j \in 1 .. i - 1 : offers[j] # token
  ELSE 0
named(offers, chosen) == IF chosen = 0 THEN "" ELSE offers[chosen]

-----------------------------------------------------------------------------
(* The backend. *)

\* BackendTarget::resolve.
resolve(t) == t.scheme \in {"http", "https"} /\ t.host # ""
DialPort(t) == IF t.port # 0 THEN t.port ELSE IF t.scheme = "http" THEN 80 ELSE 443
HostHeader(t) == [host |-> t.host, port |-> t.port]

\* backend_selection: none, or one of the client's offers.
backend_selection(reply, offers) ==
  CASE reply.protocol = <<>> -> [ok |-> TRUE, chosen |-> 0]
    [] Len(reply.protocol) = 1 ->
         LET i == select(offers, reply.protocol[1]) IN [ok |-> i # 0, chosen |-> i]
    [] OTHER -> [ok |-> FALSE, chosen |-> 0]

\* validate_answer.
validate_answer(reply, offers) ==
  IF /\ reply.status = "101"
     /\ single_header_equals(reply.upgrade, "websocket")
     /\ header_contains_token(reply.connection, "upgrade")
     /\ reply.accept = <<"ours">>
     /\ ~reply.extensions
  THEN backend_selection(reply, offers)
  ELSE [ok |-> FALSE, chosen |-> 0]

\* forwarded_offer_headers: what a proxy repeats of the client's head.  A
\* field the client's Connection names goes no further, and the fields of the
\* handshake itself are the proxy's own.
is_forwardable_ws_header(name) == name \in {"authorization", "cookie", "x-request"}
forwarded_offer_headers(r) ==
  {name \in r.fields : is_forwardable_ws_header(name)
     /\ \A i \in DOMAIN r.connection : \A j \in DOMAIN r.connection[i] : r.connection[i][j] # name}

-----------------------------------------------------------------------------
(* Steps. *)

\* The head is judged before the request is routed.
extract_ws_upgrade ==
  /\ hsOffer = NotJudged /\ hsOffer' = validate_ws_handshake(hsRequest)
  /\ UNCHANGED <<hsRequest, hsTarget, hsReply, hsChosen, hsHead>>

Refusing(status) == hsHead' = [status |-> status, protocol |-> ""] /\ UNCHANGED <<hsReply, hsChosen>>

\* prepare_ws_handoff, register: a transfer the server refuses still reports
\* the subprotocol the handshake had settled on.
Registers(chosen) ==
  /\ hsChosen' = chosen
  /\ \E status \in {"101", "500", "503"} :
       hsHead' = [status |-> status, protocol |-> named(hsOffer.protocols, chosen)]

\* The direct handler's handshake takes the client's first offer.
answer_direct ==
  /\ hsOffer # NotJudged /\ hsTarget = NoTarget /\ hsHead = Unanswered
  /\ LET verdict == admitOffer(hsRequest, hsOffer)
     IN IF verdict # "offered" THEN Refusing(verdict)
        ELSE Registers(first(hsOffer.protocols)) /\ UNCHANGED hsReply
  /\ UNCHANGED <<hsRequest, hsTarget, hsOffer>>

\* handle_proxy_ws: the backend's answer decides.
negotiate ==
  /\ hsOffer # NotJudged /\ hsTarget # NoTarget /\ hsHead = Unanswered
  /\ LET verdict == admitOffer(hsRequest, hsOffer)
     IN CASE verdict # "offered" -> Refusing(verdict)
          [] ~resolve(hsTarget) -> Refusing("502")
          [] OTHER -> \/ /\ hsReply' \in HsReplies
                         /\ LET seen == validate_answer(hsReply', hsOffer.protocols)
                            IN IF seen.ok THEN Registers(seen.chosen)
                               ELSE hsHead' = [status |-> "502", protocol |-> ""] /\ UNCHANGED hsChosen
                      \/ Refusing("504")
  /\ UNCHANGED <<hsRequest, hsTarget, hsOffer>>

HsNext == extract_ws_upgrade \/ answer_direct \/ negotiate

-----------------------------------------------------------------------------
(* Properties. *)

\* What the origin check means: the two authorities are one after both are
\* completed with the scheme's port, and each is stated once.
Completed(a, scheme) ==
  [host |-> a.host, port |-> IF a.port # 0 THEN a.port ELSE IF scheme = "http" THEN 80 ELSE 443]
OwnPage(r) ==
  r.origin # <<>> =>
    /\ Len(r.origin) = 1 /\ Len(r.host) = 1
    /\ {r.origin[1].port, r.host[1].port} \subseteq 0 .. 65535
    /\ r.origin[1].host # "" /\ r.origin[1].scheme \in {"http", "https"}
    /\ Completed(r.origin[1], r.origin[1].scheme) = Completed(r.host[1], r.origin[1].scheme)

\* A handshake of another site's page is told 403 whatever else is wrong with
\* it, and no other handshake is (WsUpgrade::admit, origin_matches_host).
OriginDecidesFirst == hsHead # Unanswered => (hsHead.status = "403" <=> ~OwnPage(hsRequest))

\* 426 is told only of a version: the request that is told it would have been
\* offered the upgrade, or told 400 for its offers or its key, with 13.
VersionMeansVersion ==
  hsHead.status = "426" =>
    /\ hsRequest.wsVersion # <<13>>
    /\ \/ validate_ws_handshake([hsRequest EXCEPT !.wsVersion = <<13>>]).verdict = "offered"
       \/ validate_ws_handshake([hsRequest EXCEPT !.wsVersion = <<13>>, !.protocols = <<>>,
                                  !.key = <<[padded |-> TRUE, symbols |-> 22, known |-> TRUE, last |-> 0]>>]
                               ).verdict = "offered"

\* The subprotocol a client is told is one it offered, and behind a proxy it
\* is the one the backend speaks; a refusal names one only when the handshake
\* had come so far (backend_selection, WsRefusal).
OneProtocolEnds ==
  LET offered == AllTokens(hsRequest.protocols)
  IN /\ hsHead.protocol # "" => \E i \in DOMAIN offered : offered[i] = hsHead.protocol
     /\ hsHead.status = "101" /\ hsTarget = NoTarget /\ offered # <<>> => hsHead.protocol = offered[1]
     /\ hsHead.status = "101" /\ hsTarget # NoTarget =>
          hsReply.protocol = IF hsHead.protocol = "" THEN <<>> ELSE <<hsHead.protocol>>
     /\ hsHead.status \notin {"101", "500", "503"} => hsHead.protocol = ""

\* A proxy repeats nothing of the client's handshake and nothing its
\* Connection field keeps to itself, and dials the port the Host it states
\* stands for.
OfferIsOwn ==
  hsTarget # NoTarget /\ hsReply # NoReply =>
    /\ forwarded_offer_headers(hsRequest)
         \cap {"sec-websocket-key", "host", "x-forwarded-for"} = {}
    /\ \A i \in DOMAIN hsRequest.connection : \A j \in DOMAIN hsRequest.connection[i] :
         hsRequest.connection[i][j] \notin forwarded_offer_headers(hsRequest)
    /\ DialPort(hsTarget) = Completed(HostHeader(hsTarget), hsTarget.scheme).port

HandshakeSound == OriginDecidesFirst /\ VersionMeansVersion /\ OneProtocolEnds /\ OfferIsOwn
=============================================================================
