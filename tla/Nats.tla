-------------------------------- MODULE Nats --------------------------------
(***************************************************************************)
(* Publishing on one NATS connection (crates/camber/src/mq/nats):          *)
(* admission, the submission queued in the client, the flush or the        *)
(* JetStream acknowledgement, the reply tokens, the disconnect event, the  *)
(* connection's close owner.  The client library queues a publish, writes  *)
(* it when its connection is up, reconnects by itself and loses what was   *)
(* on the wire; it is modelled from how the code uses it.                  *)
(***************************************************************************)
EXTENDS Naturals, FiniteSets

CONSTANTS
  Publishers,     \* concurrent publish operations
  TokenLimit,     \* stands for u64::MAX, the token that is never issued
  MaxConnects     \* bound on (re)connections

VARIABLES
  acked,          \* acknowledged_publishing is configured
  entry,          \* integration entry: "connecting", "connected", "closing", "settled"
  link,           \* the client's connection state: "up" or "down"
  connects,       \* the client's connection count
  drops,          \* version of the disconnects watch
  pub,            \* per publisher: where it is
  transport,      \* per publisher: the connection it was admitted on
  seen,           \* per publisher: the disconnect version it subscribed at
  token,          \* per publisher: its reply token
  mark,           \* per publisher: SubmissionMark
  reply,          \* per publisher: the reply its oneshot holds
  outcome,        \* per publisher: the result returned
  queued,         \* publishes the client holds
  sentOn,         \* per publisher: the connection it was written on, 0 for none
  stored,         \* publishers whose message the broker keeps
  replies,        \* replies on the wire
  nextToken, awaiting, ended,   \* Pending: tokens, waiting, ended
  closer          \* own_close

natsVars == <<acked, entry, link, connects, drops, pub, transport, seen, token, mark, reply,
              outcome, queued, sentOn, stored, replies, nextToken, awaiting, ended, closer>>
wire == <<link, connects, drops, queued, sentOn, stored, replies>>
tokens == <<nextToken, awaiting, ended>>
request == <<transport, seen, token, mark, reply>>
owner == <<entry, closer>>

NoToken == TokenLimit + 1
PerPublisher(v) == [p \in Publishers |-> v]

NatsInit ==
  /\ acked \in BOOLEAN /\ entry = "connecting" /\ link = "down" /\ connects = 0 /\ drops = 0
  /\ pub = PerPublisher("idle") /\ transport = PerPublisher(0) /\ seen = PerPublisher(0)
  /\ token = PerPublisher(NoToken) /\ mark = PerPublisher(FALSE)
  /\ reply = PerPublisher("none") /\ outcome = PerPublisher("none")
  /\ queued = {} /\ sentOn = PerPublisher(0) /\ stored = {} /\ replies = {}
  /\ nextToken \in IF acked THEN {0, TokenLimit} ELSE {0}   \* none, or all, used before
  /\ awaiting = {} /\ ended = FALSE /\ closer = "none"

\* establish: the handshake, the reply subscription and the readiness flush,
\* within the connect bound; then the entry and its close owner.  A handshake
\* that fails, or an entry that began to close meanwhile, leaves no handle.
establish ==
  /\ entry = "connecting"
  /\ \/ entry' = "connected" /\ closer' = "serving" /\ link' = "up" /\ connects' = 1
     \/ entry' = "settled" /\ closer' = "finished" /\ UNCHANGED <<link, connects>>
  /\ UNCHANGED <<acked, drops, queued, sentOn, stored, replies, tokens, pub, outcome, request>>

-----------------------------------------------------------------------------
(* The operation. *)

\* Every ending returns once and drops the registration, which retires its token.
Ends(p, ended_as) ==
  /\ pub' = [pub EXCEPT ![p] = "done"]
  /\ outcome' = [outcome EXCEPT ![p] = ended_as]
  /\ awaiting' = awaiting \ {token[p]}

\* interrupted(SideEffect, submitted).
Interrupted(submitted) == IF submitted THEN "unknown" ELSE "safe"

\* A payload over the bound is refused before anything else is looked at.
admit_message(p) ==
  /\ pub[p] = "idle" /\ connects > 0
  /\ Ends(p, "never")
  /\ UNCHANGED <<acked, wire, nextToken, ended, request, owner>>

\* publish: the disconnect subscription, the checks, admission, and the token.
publish(p) ==
  /\ pub[p] = "idle" /\ connects > 0
  /\ transport' = [transport EXCEPT ![p] = connects]
  /\ seen' = [seen EXCEPT ![p] = drops]
  /\ CASE entry # "connected" ->
            Ends(p, "never") /\ UNCHANGED <<token, nextToken>>
       [] entry = "connected" /\ link = "down" ->
            Ends(p, "safe") /\ UNCHANGED <<token, nextToken>>
       [] entry = "connected" /\ link = "up" /\ acked /\ ended ->
            Ends(p, "safe") /\ UNCHANGED <<token, nextToken>>
       [] entry = "connected" /\ link = "up" /\ acked /\ ~ended /\ nextToken = TokenLimit ->
            Ends(p, "never") /\ UNCHANGED <<token, nextToken>>
       [] entry = "connected" /\ link = "up" /\ acked /\ ~ended /\ nextToken < TokenLimit ->
            /\ token' = [token EXCEPT ![p] = nextToken] /\ nextToken' = nextToken + 1
            /\ awaiting' = awaiting \cup {nextToken}
            /\ pub' = [pub EXCEPT ![p] = "queueing"] /\ UNCHANGED outcome
       [] entry = "connected" /\ link = "up" /\ ~acked ->
            pub' = [pub EXCEPT ![p] = "queueing"]
            /\ UNCHANGED <<outcome, awaiting, token, nextToken>>
  /\ UNCHANGED <<acked, wire, mark, reply, ended, owner>>

\* submitted: the client took the message, and the mark is set with no await
\* between; or it refused, or the deadline passed first.
submitted(p) ==
  /\ pub[p] = "queueing"
  /\ \/ /\ queued' = queued \cup {p} /\ mark' = [mark EXCEPT ![p] = TRUE]
        /\ pub' = [pub EXCEPT ![p] = IF acked THEN "replying" ELSE "flushing"]
        /\ UNCHANGED <<outcome, awaiting>>
     \/ /\ \E refused \in {"safe", "never"} : Ends(p, refused)
        /\ UNCHANGED <<queued, mark>>
  /\ UNCHANGED <<acked, link, connects, drops, sentOn, stored, replies, nextToken, ended,
                 transport, seen, token, reply, owner>>

\* on_admitted_transport.
SameTransport(p) == connects = transport[p]

\* flushed: the client's flush, then the check that the connection is the one
\* the publish was admitted on.
flushed(p) ==
  /\ pub[p] = "flushing"
  /\ \/ /\ p \notin queued /\ link = "up"
        /\ Ends(p, IF SameTransport(p) THEN "ok" ELSE "unknown")
     \/ closer = "finished" /\ Ends(p, "unknown")
  /\ UNCHANGED <<acked, wire, nextToken, ended, request, owner>>

\* Registration::accept on a reply of each kind.
Accepted(r) ==
  CASE r = "stored" -> "ok"
    [] r = "refused" -> "never"
    [] r = "noResponders" -> "safe"
    [] OTHER -> "unknown"

\* publish_acknowledged: the reply, or the disconnect, or a closed oneshot.
awaitReply(p) ==
  /\ pub[p] = "replying"
  /\ \/ /\ reply[p] # "none"
        /\ Ends(p, IF SameTransport(p) THEN Accepted(reply[p]) ELSE "unknown")
     \/ /\ reply[p] = "none" /\ (token[p] \notin awaiting \/ drops # seen[p])
        /\ Ends(p, "unknown")
  /\ UNCHANGED <<acked, wire, nextToken, ended, request, owner>>

\* The operation's deadline, or the close that cuts it.
Interrupt(p) ==
  /\ pub[p] \in {"queueing", "flushing", "replying"}
  /\ Ends(p, Interrupted(mark[p]))
  /\ UNCHANGED <<acked, wire, nextToken, ended, request, owner>>

-----------------------------------------------------------------------------
(* Replies. *)

\* route: the token's waiter is removed and given the reply; a reply whose
\* token was retired goes nowhere.
route ==
  /\ closer = "serving" /\ ~ended
  /\ \E r \in replies :
       /\ replies' = replies \ {r}
       /\ awaiting' = awaiting \ {r.token}
       /\ reply' = [p \in Publishers |->
            IF r.token \in awaiting /\ token[p] = r.token THEN r.kind ELSE reply[p]]
  /\ UNCHANGED <<acked, link, connects, drops, queued, sentOn, stored, nextToken, ended, pub,
                 outcome, transport, seen, token, mark, owner>>

\* Acknowledgements::end, when the reply subscription ends.
end ==
  /\ acked /\ closer = "serving" /\ ~ended
  /\ ended' = TRUE /\ awaiting' = {}
  /\ UNCHANGED <<acked, wire, nextToken, pub, outcome, request, owner>>

\* own_close: the replies stop being served when closing begins; then the
\* drain, until the client's closed event or the bound.
own_close ==
  /\ \/ /\ entry = "closing" /\ closer = "serving" /\ closer' = "draining"
        /\ ended' = acked /\ awaiting' = IF acked THEN {} ELSE awaiting
        /\ UNCHANGED <<entry, queued, link>>
     \/ /\ closer = "draining" /\ closer' = "finished" /\ entry' = "settled"
        /\ queued' = {} /\ link' = "down" /\ UNCHANGED <<ended, awaiting>>
  /\ UNCHANGED <<acked, connects, drops, sentOn, stored, replies, nextToken, pub, outcome,
                 request>>

\* close, or a slow consumer's fail_and_close.
Closing ==
  /\ entry = "connected" /\ entry' = "closing"
  /\ UNCHANGED <<acked, wire, tokens, pub, outcome, request, closer>>

-----------------------------------------------------------------------------
(* External: the client library and the broker. *)

Rest == <<acked, tokens, pub, outcome, request, owner>>

\* The client writes a queued publish; the broker keeps it or not and, when
\* asked to acknowledge, answers or stays silent.
Answered == {[kept |-> TRUE, kind |-> "stored"], [kept |-> FALSE, kind |-> "refused"],
             [kept |-> FALSE, kind |-> "noResponders"]}
            \cup [kept : BOOLEAN, kind : {"garbled", "silent"}]

Written(p) ==
  /\ link = "up" /\ p \in queued
  /\ queued' = queued \ {p} /\ sentOn' = [sentOn EXCEPT ![p] = connects]
  /\ \E a \in Answered :
       /\ ~acked => a.kind = "silent"
       /\ stored' = IF a.kept THEN stored \cup {p} ELSE stored
       /\ replies' = IF a.kind = "silent" THEN replies
                     ELSE replies \cup {[token |-> token[p], kind |-> a.kind]}
  /\ UNCHANGED <<Rest, link, connects, drops>>

\* The connection goes, and the replies on its wire with it.
Disconnected ==
  /\ link = "up" /\ connects < MaxConnects
  /\ link' = "down" /\ drops' = drops + 1 /\ replies' = {}
  /\ UNCHANGED <<Rest, connects, queued, sentOn, stored>>

Reconnected ==
  /\ link = "down" /\ closer \in {"serving", "draining"} /\ link' = "up" /\ connects' = connects + 1
  /\ UNCHANGED <<Rest, drops, queued, sentOn, stored, replies>>

PublishStep ==
  \E p \in Publishers : submitted(p) \/ flushed(p) \/ awaitReply(p) \/ Interrupt(p)

NatsNext ==
  \/ establish \/ \E p \in Publishers : admit_message(p) \/ publish(p) \/ Written(p)
  \/ PublishStep \/ route \/ end \/ own_close \/ Closing \/ Disconnected \/ Reconnected

-----------------------------------------------------------------------------
(* Properties. *)

\* A publish reported safe to retry or refused was never kept by the broker
\* and never will be; one reported done was written on the connection it was
\* admitted on, and kept by the stream when acknowledgements are configured.
PublishHonest ==
  \A p \in Publishers :
    /\ outcome[p] \in {"safe", "never"} => p \notin stored /\ p \notin queued
    /\ outcome[p] = "ok" => sentOn[p] = transport[p] /\ (acked => p \in stored)

\* A waiting token belongs to exactly one operation that still waits; an ended
\* receiver keeps none, and no two operations ever share a token.
TokensOwned ==
  /\ \A t \in awaiting : \E p \in Publishers : token[p] = t /\ pub[p] \in {"queueing", "replying"}
  /\ ended => awaiting = {}
  /\ \A p, q \in Publishers : p # q /\ token[p] = token[q] => token[p] = NoToken
  /\ \A p \in Publishers : token[p] # TokenLimit

NatsSafe == PublishHonest /\ TokensOwned

\* Every publish returns, whatever the broker and the connection do.
PublishersBack == \A p \in Publishers : pub[p] \in {"idle", "done"}
PublishReturns == []<>PublishersBack
=============================================================================
