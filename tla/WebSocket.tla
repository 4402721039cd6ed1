----------------------------- MODULE WebSocket ------------------------------
(***************************************************************************)
(* One direct WebSocket (crates/camber/src/http/ws_proxy: handshake,       *)
(* handoff, ownership, direct, callback; http/websocket: sender, receiver, *)
(* terminal): the upgrade handed to a gated bridge task, the bridge's two  *)
(* pumps, the one terminal cause, the settlement of the transport beside   *)
(* the application's callback, and the two application halves.             *)
(*                                                                         *)
(* A frame is its ordinal.  The branches of the bridge's select are polled *)
(* in a fixed order, but a branch can become ready after it was polled in  *)
(* a turn, so any ready branch may answer.  Ping and pong never reach a    *)
(* queue and are left out.                                                 *)
(***************************************************************************)
EXTENDS Naturals, Sequences, FiniteSets

CONSTANTS
  QueueSize,   \* the buffer size of either queue
  OutFrames,   \* bound on messages the application sends
  InFrames,    \* bound on frames the peer sends
  Traffic,     \* which half carries the messages of a run: "out", "in"
  Faults       \* what a handshake request can get wrong

VARIABLES
  traffic,     \* the half in use
  fault,       \* the faults of this request
  head,        \* the client's answer: "none", "101", or a refusal
  bridge,      \* where the bridge task is
  wsPermit,      \* the connection permit is held
  mode,        \* ServerControl as the bridge's watch shows it
  stopPhase,   \* the server's committed stop phase
  offer,       \* the terminal answer first_answer returned
  cause,       \* TerminalState
  outq,        \* the outbound queue
  pending,     \* OutboundPump::pending, 0 for none
  outClosed,   \* the outbound queue admits no more
  wrote,       \* frames given to the transport
  sentClose,   \* our close frame was given to the transport
  inq,         \* the receive queue
  inHeld,      \* a frame read and not admitted, 0 for none
  inClosed,    \* both producers of the receive queue were released
  peerSent,    \* frames the peer sent
  peerRead,    \* frames read from it
  peerEnd,     \* "open", "closed" by a close frame, or "gone"
  sendAlive,   \* some sender handle lives
  waiting,     \* a send passed its live check and waits for a slot
  admitted,    \* messages admitted to the outbound queue
  inbound,     \* messages admitted to the receive queue
  receiver,    \* "alive", "receiving" or "dropped"
  received,         \* messages the receive owner took
  callback,    \* "none", "running" or "over": returned or dropped
  deadline,    \* CallbackDeadline of a running callback: "none", "grace" or "expiry"
  watching,    \* its settlement still watches for an abort
  xfer,        \* settlement of the transport
  heard        \* the causes reported to either half

wsVars == <<traffic, fault, head, bridge, wsPermit, mode, stopPhase, offer, cause, outq, pending,
            outClosed, wrote, sentClose, inq, inHeld, inClosed, peerSent, peerRead,
            peerEnd, sendAlive, waiting, admitted, inbound, receiver, received, callback,
            deadline, watching, xfer, heard>>
server == <<mode, stopPhase>>
outSide == <<outq, pending, outClosed, wrote, sentClose>>
inSide == <<inq, inHeld, inClosed>>
peerSide == <<peerSent, peerRead, peerEnd>>
app == <<sendAlive, waiting, admitted, receiver, received, heard>>
owning == <<traffic, fault, head, wsPermit>>
settlingState == <<callback, deadline, watching, xfer>>

WsInit ==
  /\ traffic \in Traffic
  /\ fault \in SUBSET Faults
  /\ head = "none" /\ bridge = "none" /\ wsPermit = TRUE
  /\ mode = "running" /\ stopPhase = "running" /\ offer = "none" /\ cause = "none"
  /\ outq = <<>> /\ pending = 0 /\ outClosed = FALSE /\ wrote = <<>> /\ sentClose = FALSE
  /\ inq = <<>> /\ inHeld = 0 /\ inClosed = FALSE
  /\ peerSent = 0 /\ peerRead = 0 /\ peerEnd = "open"
  /\ sendAlive = FALSE /\ waiting = FALSE /\ admitted = 0 /\ inbound = 0
  /\ receiver = "dropped" /\ received = <<>>
  /\ callback = "none" /\ deadline = "none" /\ watching = TRUE
  /\ xfer = "none" /\ heard = {}

-----------------------------------------------------------------------------
(* The handshake and the transfer to the bridge. *)

\* admit: the origin is judged first, then the handshake in its own order.
Verdict ==
  CASE "origin" \in fault -> "403"
    [] fault \cap {"method", "upgrade", "body"} # {} -> "400"
    [] "version" \in fault -> "426"
    [] fault # {} -> "400"
    [] OTHER -> "101"

\* handle_ws_upgrade up to the launch of the gated task.
handle_ws_upgrade ==
  /\ head = "none" /\ bridge = "none"
  /\ IF Verdict # "101" THEN head' = Verdict /\ wsPermit' = FALSE /\ UNCHANGED bridge
     ELSE \/ bridge' = "gated" /\ UNCHANGED <<head, wsPermit>>
          \/ head' = "5xx" /\ wsPermit' = FALSE /\ UNCHANGED bridge
  /\ UNCHANGED <<traffic, fault, server, offer, cause, outSide, inSide, peerSide, app, inbound, settlingState>>

\* complete_upgrade_transfer: only an admitted bridge is released from its
\* gate, and only then is the 101 committed.
complete_upgrade_transfer ==
  /\ bridge = "gated"
  /\ \/ head' = "101" /\ bridge' = "upgrading" /\ UNCHANGED wsPermit
     \/ head' = "5xx" /\ bridge' = "released" /\ wsPermit' = FALSE
  /\ UNCHANGED <<traffic, fault, server, offer, cause, outSide, inSide, peerSide, app, inbound, settlingState>>

\* open_bridge: the upgrade, then the connection's commitment of it.
open_bridge ==
  /\ bridge = "upgrading"
  /\ \/ /\ bridge' = "running" /\ callback' = "running"
        /\ sendAlive' = TRUE /\ receiver' = "alive" /\ UNCHANGED wsPermit
     \/ /\ bridge' = "released" /\ wsPermit' = FALSE
        /\ UNCHANGED <<callback, sendAlive, receiver>>
  /\ UNCHANGED <<traffic, fault, head, server, offer, cause, outSide, inSide, peerSide, waiting,
                 admitted, received, heard, inbound, deadline, watching, xfer>>

-----------------------------------------------------------------------------
(* The pumps. *)

OtherState == <<owning, server, cause, app, inbound, settlingState>>

OutTake ==
  /\ bridge = "running" /\ pending = 0 /\ outq # <<>>
  /\ pending' = Head(outq) /\ outq' = Tail(outq)
  /\ UNCHANGED <<bridge, offer, outClosed, wrote, sentClose, inSide, peerSide, OtherState>>

OutWrite ==
  /\ bridge = "running" /\ pending # 0 /\ peerEnd # "gone"
  /\ wrote' = Append(wrote, pending) /\ pending' = 0
  /\ UNCHANGED <<bridge, offer, outq, outClosed, sentClose, inSide, peerSide, OtherState>>

InRead ==
  /\ bridge = "running" /\ inHeld = 0 /\ peerRead < peerSent
  /\ peerRead' = peerRead + 1 /\ inHeld' = peerRead'
  /\ UNCHANGED <<bridge, offer, outSide, inq, inClosed, peerSent, peerEnd, OtherState>>

InAdmit ==
  /\ bridge = "running" /\ inHeld # 0 /\ receiver # "dropped" /\ Len(inq) < QueueSize
  /\ inq' = Append(inq, inHeld) /\ inHeld' = 0 /\ inbound' = inbound + 1
  /\ UNCHANGED <<bridge, offer, outSide, inClosed, peerSide, owning, server, cause, app, settlingState>>

\* first_answer: each source that has an answer.
BridgeAnswers ==
  {c \in {"SendersDropped", "PeerDisconnected", "PeerClosed", "ReceiverDropped",
          "ServerShutdown", "ServerCancelled"} :
    CASE c = "SendersDropped" -> pending = 0 /\ outq = <<>> /\ ~sendAlive
      [] c = "PeerDisconnected" -> \/ pending # 0 /\ peerEnd = "gone"
                                   \/ inHeld = 0 /\ peerRead = peerSent /\ peerEnd = "gone"
      [] c = "PeerClosed" -> inHeld = 0 /\ peerRead = peerSent /\ peerEnd = "closed"
      [] c = "ReceiverDropped" -> receiver = "dropped" /\ (inHeld # 0 \/ sendAlive)
      [] c = "ServerShutdown" -> mode = "graceful"
      [] c = "ServerCancelled" -> mode = "abort"}

first_answer ==
  /\ bridge = "running" /\ bridge' = "offered"
  /\ offer' \in BridgeAnswers
  /\ UNCHANGED <<outSide, inSide, peerSide, OtherState>>

\* commit: inside the server's stop lock, a forced stop takes the cause.
StoppedOr(offered) == IF stopPhase \in {"cancelled", "expired"} THEN "ServerCancelled" ELSE offered

commit_cause ==
  /\ bridge = "offered" /\ bridge' = "committed"
  /\ cause' = StoppedOr(offer) /\ offer' = "none"
  /\ UNCHANGED <<outSide, inSide, peerSide, owning, server, app, inbound, settlingState>>

\* close_endpoints: admission closes, the receive queue's producers go, and
\* the callback's deadline is fixed.
close_endpoints ==
  /\ bridge = "committed" /\ bridge' = "settling"
  /\ outClosed' = TRUE /\ inClosed' = TRUE /\ inHeld' = 0
  /\ deadline' = CASE callback # "running" -> "none"
                    [] stopPhase = "graceful" -> "expiry"
                    [] OTHER -> "grace"
  /\ xfer' = "dispose"
  /\ UNCHANGED <<offer, outq, pending, wrote, sentClose, inq, peerSide, owning, server, cause,
                 app, inbound, callback, watching>>

-----------------------------------------------------------------------------
(* finish, beside settle_callback. *)

Drains == cause \in {"ServerShutdown", "SendersDropped"}

\* apply: a drain is bounded by the server's abort; a cancel drops at once.
Dispose ==
  /\ bridge = "settling" /\ xfer = "dispose"
  /\ \/ /\ ~Drains
        /\ pending' = 0 /\ outq' = <<>> /\ xfer' = "close" /\ UNCHANGED wrote
     \/ /\ Drains /\ mode = "abort"
        /\ xfer' = "close" /\ UNCHANGED <<pending, outq, wrote>>
     \/ /\ Drains /\ mode # "abort" /\ pending # 0
        /\ IF peerEnd = "gone"
           THEN xfer' = "close" /\ pending' = 0 /\ UNCHANGED <<outq, wrote>>
           ELSE wrote' = Append(wrote, pending) /\ pending' = 0 /\ UNCHANGED <<outq, xfer>>
     \/ /\ Drains /\ mode # "abort" /\ pending = 0
        /\ IF outq = <<>>
           THEN xfer' = "close" /\ UNCHANGED <<pending, outq, wrote>>
           ELSE pending' = Head(outq) /\ outq' = Tail(outq) /\ UNCHANGED <<wrote, xfer>>
  /\ UNCHANGED <<bridge, offer, outClosed, sentClose, inSide, peerSide, owning, server, cause,
                 app, inbound, callback, deadline, watching>>

\* Whatever is left unsent goes with the transport; nobody waits on it.
shutdown_transport == xfer' = "done" /\ outq' = <<>> /\ pending' = 0

\* owed_close: what the cause owes the peer, unless the server aborts; then
\* the transport is shut down.
owed_close ==
  /\ bridge = "settling"
  /\ \/ /\ xfer = "close" /\ (mode = "abort" \/ cause \in {"ServerCancelled", "PeerDisconnected"})
        /\ shutdown_transport /\ UNCHANGED sentClose
     \/ /\ xfer = "close" /\ mode # "abort" /\ cause \notin {"ServerCancelled", "PeerDisconnected"}
        /\ sentClose' = (peerEnd # "gone")
        /\ IF cause = "ServerShutdown" THEN xfer' = "await" /\ UNCHANGED <<outq, pending>>
           ELSE shutdown_transport
     \/ /\ xfer = "await" /\ (mode = "abort" \/ peerEnd # "open")
        /\ shutdown_transport /\ UNCHANGED sentClose
  /\ UNCHANGED <<bridge, offer, outClosed, wrote, inSide, peerSide, owning, server,
                 cause, app, inbound, callback, deadline, watching>>

\* The callback is over and its deadline with it.
CallbackOver == callback' = "over" /\ deadline' = "none" /\ watching' = TRUE

\* The callback finishes, beside the pumps or within its deadline.
HandlerReturns ==
  /\ callback = "running" /\ bridge \in {"running", "offered", "committed", "settling"}
  /\ CallbackOver
  /\ UNCHANGED <<bridge, offer, outSide, inSide, peerSide, owning, server, cause, app, inbound, xfer>>

\* settle_within: the deadline drops the callback where it stands.
settle_callback ==
  /\ bridge = "settling" /\ callback = "running"
  /\ deadline = "grace" \/ stopPhase = "expired"
  /\ CallbackOver
  /\ UNCHANGED <<bridge, offer, outSide, inSide, peerSide, owning, server, cause, app, inbound, xfer>>

\* narrow: the first abort seen shortens a graceful deadline when a cancel
\* was commanded.
narrow ==
  /\ bridge = "settling" /\ callback = "running" /\ watching /\ mode = "abort"
  /\ watching' = FALSE
  /\ deadline' = IF stopPhase = "cancelled" THEN "grace" ELSE deadline
  /\ UNCHANGED <<bridge, offer, outSide, inSide, peerSide, owning, server, cause, app, inbound,
                 callback, xfer>>

\* The task's own state goes with it.
TaskEnds == offer' = "none" /\ deadline' = "none" /\ watching' = TRUE /\ xfer' = "none"

release_permit ==
  /\ bridge = "settling" /\ xfer = "done" /\ callback # "running"
  /\ bridge' = "released" /\ wsPermit' = FALSE
  /\ TaskEnds
  /\ UNCHANGED <<outSide, inSide, peerSide, traffic, fault, head, server, cause, app, inbound, callback>>

\* A bridge that outlasts a forced stop is taken away where it stands.
TakenAway ==
  /\ bridge \in {"running", "offered", "committed", "settling"} /\ mode = "abort"
  /\ bridge' = "gone" /\ wsPermit' = FALSE
  /\ callback' = "over"
  /\ outClosed' = TRUE /\ inClosed' = TRUE /\ outq' = <<>> /\ pending' = 0 /\ inHeld' = 0
  /\ TaskEnds
  /\ UNCHANGED <<wrote, sentClose, inq, peerSide, traffic, fault, head, server, cause, app, inbound>>

-----------------------------------------------------------------------------
(* The application's halves. *)

Committed == IF cause # "none" THEN cause ELSE "ServerCancelled"
AppRest == <<owning, server, bridge, offer, cause, pending, outClosed, wrote, sentClose,
             peerSide, inbound, settlingState>>

\* send: the live check, then the wait for a slot.
live_check ==
  /\ traffic = "out" /\ sendAlive /\ ~waiting
  /\ IF cause # "none" THEN heard' = heard \cup {cause} /\ UNCHANGED waiting
     ELSE waiting' = TRUE /\ UNCHANGED heard
  /\ UNCHANGED <<AppRest, outq, inSide, sendAlive, admitted, receiver, received>>

admit_send ==
  /\ waiting /\ waiting' = FALSE
  /\ IF outClosed
     THEN heard' = heard \cup {Committed} /\ UNCHANGED <<outq, admitted>>
     ELSE /\ Len(outq) < QueueSize /\ admitted < OutFrames
          /\ admitted' = admitted + 1 /\ outq' = Append(outq, admitted')
          /\ UNCHANGED heard
  /\ UNCHANGED <<AppRest, inSide, sendAlive, receiver, received>>

\* The last sender goes, a pending send with it.
DropSenders ==
  /\ sendAlive /\ sendAlive' = FALSE /\ waiting' = FALSE
  /\ UNCHANGED <<AppRest, outq, inSide, admitted, receiver, received, heard>>

\* next_receive: a cause that discards is asked before the queue.
Discarding ==
  LET settled == IF cause # "none" THEN cause ELSE IF inClosed THEN "ServerCancelled" ELSE "none"
  IN settled \in {"ServerCancelled", "ReceiverDropped"}

next_receive ==
  /\ traffic = "in" /\ receiver = "alive"
  /\ IF Discarding
     THEN inq' = <<>> /\ heard' = heard \cup {Committed} /\ UNCHANGED receiver
     ELSE receiver' = "receiving" /\ UNCHANGED <<inq, heard>>
  /\ UNCHANGED <<AppRest, outq, inHeld, inClosed, sendAlive, waiting, admitted, received>>

\* The queue's own receive: a message, or its closure.
settle_receive ==
  /\ receiver = "receiving" /\ receiver' = "alive"
  /\ IF inq # <<>>
     THEN received' = Append(received, Head(inq)) /\ inq' = Tail(inq) /\ UNCHANGED heard
     ELSE inClosed /\ heard' = heard \cup {Committed} /\ UNCHANGED <<received, inq>>
  /\ UNCHANGED <<AppRest, outq, inHeld, inClosed, sendAlive, waiting, admitted>>

\* A pending receive is dropped or times out: it took nothing.
recv_timeout ==
  /\ receiver = "receiving" /\ receiver' = "alive"
  /\ UNCHANGED <<AppRest, outq, inSide, sendAlive, waiting, admitted, received, heard>>

DropReceiver ==
  /\ receiver # "dropped" /\ receiver' = "dropped" /\ inq' = <<>>
  /\ UNCHANGED <<AppRest, outq, inHeld, inClosed, sendAlive, waiting, admitted, received, heard>>

-----------------------------------------------------------------------------
(* The peer and the server. *)

World == <<owning, bridge, offer, cause, outSide, inSide, peerRead, app, inbound, settlingState>>

PeerActs ==
  /\ bridge \notin {"none", "gated", "released", "gone"}
  /\ \/ /\ traffic = "in" /\ peerEnd = "open" /\ peerSent < InFrames
        /\ peerSent' = peerSent + 1 /\ UNCHANGED peerEnd
     \/ peerEnd = "open" /\ peerEnd' = "closed" /\ UNCHANGED peerSent
     \/ peerEnd # "gone" /\ peerEnd' = "gone" /\ UNCHANGED peerSent
  /\ UNCHANGED <<World, server>>

\* The stop commits its phase, and then publishes the mode.
StopActs ==
  /\ bridge \notin {"none", "released", "gone"}
  /\ \/ /\ stopPhase = "running" /\ stopPhase' \in {"graceful", "cancelled"} /\ UNCHANGED mode
     \/ /\ stopPhase = "graceful" /\ stopPhase' \in {"cancelled", "expired"} /\ UNCHANGED mode
     \/ /\ mode' = CASE stopPhase = "graceful" -> "graceful"
                     [] stopPhase \in {"cancelled", "expired"} -> "abort"
                     [] OTHER -> mode
        /\ mode' # mode /\ UNCHANGED stopPhase
  /\ UNCHANGED <<World, peerSent, peerEnd>>

BridgeStep ==
  \/ complete_upgrade_transfer \/ open_bridge \/ OutTake \/ OutWrite \/ InRead \/ InAdmit
  \/ first_answer \/ commit_cause \/ close_endpoints \/ Dispose \/ owed_close
  \/ settle_callback \/ narrow \/ release_permit

WsNext ==
  \/ BridgeStep \/ admit_send \/ settle_receive \/ handle_ws_upgrade \/ HandlerReturns \/ TakenAway \/ live_check
  \/ DropSenders \/ next_receive \/ recv_timeout \/ DropReceiver \/ PeerActs \/ StopActs

-----------------------------------------------------------------------------
(* Properties. *)

Ordinals(s) == \A i \in DOMAIN s : s[i] = i

\* Both halves, whichever way they learn that the connection is over, report
\* one cause: the committed one, or ServerCancelled when the bridge was taken
\* away before it committed (TerminalState::committed).
CauseAgreed == heard \subseteq {Committed} /\ (heard # {} /\ cause = "none" => bridge = "gone")

\* Admitted messages are written in admission order, once; an orderly end
\* that no forced stop or lost peer cut short has written all of them by the
\* time the bridge releases the permit (OutboundPump::pending, drain).
OutboundPromise ==
  /\ Ordinals(wrote) /\ Ordinals(received)
  /\ bridge = "released" /\ Drains /\ mode # "abort" /\ peerEnd # "gone" => Len(wrote) = admitted

\* A receive owner told of an orderly end has been given every message its
\* queue admitted; nothing admitted is skipped or repeated.
InboundPromise ==
  /\ Len(received) + Len(inq) <= inbound
  /\ receiver # "dropped" /\ cause \notin {"ServerCancelled", "ReceiverDropped"} /\ bridge # "gone"
       => Len(received) + Len(inq) = inbound

\* The permit outlives the callback and the transport, a callback runs only
\* on a connection whose 101 was committed, and a faulty handshake gets none.
OwnershipKept ==
  /\ callback = "running" => wsPermit /\ head = "101"
  /\ bridge = "released" => callback # "running" /\ ~wsPermit
  /\ head = "101" => fault = {}

WebSocketSafe == CauseAgreed /\ OutboundPromise /\ InboundPromise /\ OwnershipKept

\* The cause is fixed once, nothing follows our close frame onto the wire,
\* and a queue that closed admits nothing more.
WebSocketSteps ==
  /\ cause # "none" => cause' = cause
  /\ sentClose => wrote' = wrote
  /\ outClosed => admitted' = admitted

\* An aborting server gets its permit back whatever the peer and the callback
\* do, and a half parked on a queue of an ended bridge is woken.
WsReleased ==
  /\ mode = "abort" /\ head = "101" => ~wsPermit
  /\ bridge \in {"released", "gone"} => receiver # "receiving" /\ ~waiting
WsReleases == []<>WsReleased
=============================================================================
