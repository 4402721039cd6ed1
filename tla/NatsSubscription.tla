-------------------------- MODULE NatsSubscription --------------------------
(***************************************************************************)
(* Subscriptions of one NATS connection (crates/camber/src/mq/nats:        *)
(* connection::register, submission::subscribe_flushed, subscription,      *)
(* events): the permits, the receive calls racing the connection's         *)
(* settlement, the close kept for later callers, and the slow consumer     *)
(* whose overflow closes the connection.  Messages are ordinals; one in    *)
(* Large is over the size bound.                                           *)
(***************************************************************************)
EXTENDS Naturals, Sequences, FiniteSets

CONSTANTS
  Subscribers,       \* subscription handles
  MaxSubscriptions,  \* settings.max_subscriptions
  SubCapacity,       \* settings.subscription_capacity
  SubMessages,       \* bound on the messages delivered to one
  Fed,               \* the handles that receive; the others contend for permits
  Large              \* ordinals of messages over max_message_bytes

VARIABLES
  subEntry,      \* the connection's integration entry
  slow,          \* fail_and_close was called for a slow consumer
  sub,           \* per handle: "idle", "registering", "live", "dropped", "refused"
  subPermit,     \* per handle: it holds a permit
  buffer,        \* per handle: the client's buffer
  arrived,       \* per handle: messages delivered to the buffer
  streamEnd,     \* per handle: the client ended the stream
  call,          \* per handle: the call in progress: "none", "receive", "close"
  closedAs,      \* per handle: Subscription::closed
  taken,         \* per handle: messages consumed from the buffer
  answers        \* per handle: what receive calls returned, oldest first

subVars == <<subEntry, slow, sub, subPermit, buffer, arrived, streamEnd, call, closedAs,
             taken, answers>>
PerSub(v) == [s \in Subscribers |-> v]
Handle == <<sub, subPermit, closedAs>>
Stream == <<buffer, arrived, streamEnd>>

SubInit ==
  /\ subEntry = "connected" /\ slow = FALSE
  /\ sub = PerSub("idle") /\ subPermit = PerSub(FALSE) /\ buffer = PerSub(<<>>)
  /\ arrived = PerSub(0) /\ streamEnd = PerSub(FALSE) /\ call = PerSub("none")
  /\ closedAs = PerSub("none") /\ taken = PerSub(0) /\ answers = PerSub(<<>>)

\* register: the state, then a permit, or busy at once.
register(s) ==
  /\ sub[s] = "idle"
  /\ IF subEntry = "connected" /\ Cardinality({t \in Subscribers : subPermit[t]}) < MaxSubscriptions
     THEN sub' = [sub EXCEPT ![s] = "registering"] /\ subPermit' = [subPermit EXCEPT ![s] = TRUE]
     ELSE sub' = [sub EXCEPT ![s] = "refused"] /\ UNCHANGED subPermit
  /\ UNCHANGED <<subEntry, slow, Stream, call, closedAs, taken, answers>>

\* subscribe_flushed: every failure drops the permit with the operation.
subscribe_flushed(s) ==
  /\ sub[s] = "registering"
  /\ \/ sub' = [sub EXCEPT ![s] = "live"] /\ UNCHANGED subPermit
     \/ sub' = [sub EXCEPT ![s] = "refused"] /\ subPermit' = [subPermit EXCEPT ![s] = FALSE]
  /\ UNCHANGED <<subEntry, slow, Stream, call, closedAs, taken, answers>>

-----------------------------------------------------------------------------
Answer(s, a) == answers' = [answers EXCEPT ![s] = Append(@, a)]

\* deliver: a message over the bound is consumed and reported, not handed over.
DeliverTo(s) ==
  LET m == Head(buffer[s])
  IN /\ buffer' = [buffer EXCEPT ![s] = Tail(@)]
     /\ taken' = [taken EXCEPT ![s] = @ + 1]
     /\ Answer(s, IF m \in Large THEN [got |-> "tooLarge", msg |-> m] ELSE [got |-> "message", msg |-> m])

Ended(s) == [got |-> "end", msg |-> arrived[s]]
CallsLeft(s) == s \in Fed /\ Len(answers[s]) <= SubMessages

\* next, next_timeout: one call at a time, a message before the settlement.
next(s) ==
  /\ sub[s] = "live" /\ call[s] = "none" /\ CallsLeft(s)
  /\ call' = [call EXCEPT ![s] = "receive"]
  /\ UNCHANGED <<subEntry, slow, Handle, Stream, taken, answers>>

receive(s) ==
  /\ call[s] = "receive" /\ call' = [call EXCEPT ![s] = "none"]
  /\ \/ buffer[s] # <<>> /\ DeliverTo(s)
     \/ /\ buffer[s] = <<>> /\ (streamEnd[s] \/ subEntry = "settled")
        /\ Answer(s, Ended(s)) /\ UNCHANGED <<buffer, taken>>
  /\ UNCHANGED <<subEntry, slow, Handle, arrived, streamEnd>>

\* next_timeout's bound, or the future dropped: nothing was consumed.
TimedOut(s) ==
  /\ call[s] = "receive" /\ call' = [call EXCEPT ![s] = "none"]
  /\ UNCHANGED <<subEntry, slow, Handle, Stream, taken, answers>>

\* try_next answers at once.
try_next(s) ==
  /\ sub[s] = "live" /\ call[s] = "none" /\ CallsLeft(s)
  /\ IF buffer[s] # <<>> THEN DeliverTo(s)
     ELSE /\ streamEnd[s] \/ closedAs[s] # "none" \/ subEntry = "settled"
          /\ Answer(s, [got |-> "closed", msg |-> arrived[s]]) /\ UNCHANGED <<buffer, taken>>
  /\ UNCHANGED <<subEntry, slow, Handle, arrived, streamEnd, call>>

\* close: the kept result, or the unsubscription within its bound; the permit
\* goes as soon as that ended, and also when the call is dropped.
close_subscription(s) ==
  /\ \/ /\ sub[s] = "live" /\ call[s] = "none" /\ closedAs[s] = "none"
        /\ call' = [call EXCEPT ![s] = "close"] /\ UNCHANGED <<closedAs, subPermit, streamEnd>>
     \/ /\ call[s] = "close" /\ call' = [call EXCEPT ![s] = "none"]
        /\ subPermit' = [subPermit EXCEPT ![s] = FALSE]
        /\ \/ /\ closedAs' = [closedAs EXCEPT ![s] = "ok"]
              /\ streamEnd' = [streamEnd EXCEPT ![s] = TRUE]
           \/ closedAs' = [closedAs EXCEPT ![s] = "incomplete"] /\ UNCHANGED streamEnd
           \/ UNCHANGED <<closedAs, streamEnd>>   \* the caller dropped the future
  /\ UNCHANGED <<subEntry, slow, sub, buffer, arrived, taken, answers>>

DropHandle(s) ==
  /\ sub[s] = "live" /\ call[s] = "none"
  /\ sub' = [sub EXCEPT ![s] = "dropped"] /\ subPermit' = [subPermit EXCEPT ![s] = FALSE]
  /\ buffer' = [buffer EXCEPT ![s] = <<>>]
  /\ UNCHANGED <<subEntry, slow, arrived, streamEnd, call, closedAs, taken, answers>>

-----------------------------------------------------------------------------
\* External: the client fills the buffer; over capacity it drops the message
\* and reports a slow consumer, which fails and closes the connection.
Arrives(s) ==
  /\ s \in Fed /\ sub[s] = "live" /\ ~streamEnd[s] /\ subEntry # "settled" /\ arrived[s] < SubMessages
  /\ IF Len(buffer[s]) < SubCapacity
     THEN /\ arrived' = [arrived EXCEPT ![s] = @ + 1]
          /\ buffer' = [buffer EXCEPT ![s] = Append(@, arrived'[s])]
          /\ UNCHANGED <<slow, subEntry>>
     ELSE /\ slow' = TRUE /\ UNCHANGED <<arrived, buffer>>
          /\ subEntry' = IF subEntry = "connected" THEN "closing" ELSE subEntry
  /\ UNCHANGED <<Handle, streamEnd, call, taken, answers>>

\* The connection closes: its drain ends the streams before it settles.
ConnectionCloses ==
  /\ \/ subEntry = "connected" /\ subEntry' = "closing" /\ UNCHANGED streamEnd
     \/ /\ subEntry = "closing" /\ subEntry' = "settled"
        /\ streamEnd' \in {streamEnd, PerSub(TRUE)}
  /\ UNCHANGED <<slow, Handle, buffer, arrived, call, taken, answers>>

ReceiveStep == \E s \in Subscribers : receive(s)

SubNext ==
  \/ \E s \in Subscribers :
       register(s) \/ subscribe_flushed(s) \/ next(s) \/ receive(s) \/ TimedOut(s)
       \/ try_next(s) \/ close_subscription(s) \/ DropHandle(s) \/ Arrives(s)
  \/ ConnectionCloses

-----------------------------------------------------------------------------
(* Properties. *)

\* Receive calls report every buffered message in order, each once, over-size
\* ones as such, and report the end only after all of them: the settlement
\* that ends a parked receive never hides a message (receive's biased select).
DeliveredInOrder ==
  \A s \in Subscribers :
    LET t == answers[s]
        msgs == SelectSeq(t, LAMBDA a : a.got \in {"message", "tooLarge"})
    IN /\ \A i \in DOMAIN msgs :
            msgs[i] = [got |-> IF i \in Large THEN "tooLarge" ELSE "message", msg |-> i]
       /\ \A i \in DOMAIN t :
            t[i].got \in {"end", "closed"} =>
              t[i].msg = Cardinality({j \in 1 .. i : t[j].got \in {"message", "tooLarge"}})

\* A permit is held by a registration in flight or a handle not yet closed,
\* and there are never more than the configured ones.
PermitsOwned ==
  /\ Cardinality({s \in Subscribers : subPermit[s]}) <= MaxSubscriptions
  /\ \A s \in Subscribers :
       /\ subPermit[s] => sub[s] \in {"registering", "live"}
       /\ sub[s] = "live" /\ closedAs[s] # "none" => ~subPermit[s]

\* A message is lost only with the connection: an overflow leaves it closing.
SlowCloses == slow => subEntry # "connected"

SubscriptionSafe == DeliveredInOrder /\ PermitsOwned /\ SlowCloses

\* A receive parked on a subscription whose connection settled returns.
ReceiversBack == \A s \in Subscribers : subEntry = "settled" => call[s] # "receive"
ReceiveWakes == []<>ReceiversBack
=============================================================================
