------------------------------ MODULE WsProxy -------------------------------
(***************************************************************************)
(* One proxied WebSocket (crates/camber/src/http/ws_proxy: backend, proxy, *)
(* framing): the backend handshake that precedes the client's 101, the     *)
(* forwarding loop, the exchange of close frames in each way a bridge can  *)
(* end, and the permit the bridge owns.                                    *)
(*                                                                         *)
(* A data frame is its ordinal on the side that sent it; Close is 0.  The  *)
(* WebSocket library refuses to write after a close was written and keeps  *)
(* the reply it owes to a received close until the next flush.             *)
(***************************************************************************)
EXTENDS Naturals, Sequences

CONSTANTS
  SideFrames,    \* bound on the data frames of a side
  Answers101     \* how a backend's answer may look

Sides == {"client", "backend"}
Other(s) == IF s = "client" THEN "backend" ELSE "client"

VARIABLES
  pxStage,       \* where the handler, then the bridge, is
  pxHead,        \* the client's answer
  pxAnswer,      \* the backend's answer
  pxPermit,      \* the connection permit is held
  pxMode,        \* ServerControl
  pxSent,        \* per side: the data frames it sent
  pxEnd,         \* per side: "open", "closed" by its close frame, "gone"
  pxRead,        \* per side: what the bridge read of it, a close included
  pxWire,        \* per side: what the bridge wrote to it
  pxHand         \* the frame being written, and the side it came from

pxVars == <<pxStage, pxHead, pxAnswer, pxPermit, pxMode, pxSent, pxEnd, pxRead, pxWire, pxHand>>
pxPeers == <<pxSent, pxEnd>>
Empty == [from |-> "client", frame |-> 0, full |-> FALSE]

PxInit ==
  /\ pxStage = "admit" /\ pxHead = "none" /\ pxAnswer = "none"
  /\ pxPermit = TRUE /\ pxMode = "running"
  /\ pxSent = [s \in Sides |-> 0] /\ pxEnd = [s \in Sides |-> "open"]
  /\ pxRead = [s \in Sides |-> <<>>] /\ pxWire = [s \in Sides |-> <<>>]
  /\ pxHand = Empty

-----------------------------------------------------------------------------
(* handle_proxy_ws: nothing is promised to the client before the backend   *)
(* agreed.                                                                 *)

RefuseClient(status) == pxHead' = status /\ pxStage' = "ended" /\ pxPermit' = FALSE

\* The client's own handshake and the backend's address.
handle_proxy_ws ==
  /\ pxStage = "admit"
  /\ \/ pxStage' = "connect" /\ UNCHANGED <<pxHead, pxPermit>>
     \/ \E status \in {"4xx", "502"} : RefuseClient(status)
  /\ UNCHANGED <<pxAnswer, pxMode, pxPeers, pxRead, pxWire, pxHand>>

\* dial within the connect deadline, inside the request deadline.
within_connect ==
  /\ pxStage = "connect"
  /\ \/ pxStage' = "exchange" /\ UNCHANGED <<pxHead, pxPermit>>
     \/ \E status \in {"502", "504"} : RefuseClient(status)
  /\ UNCHANGED <<pxAnswer, pxMode, pxPeers, pxRead, pxWire, pxHand>>

\* validate_answer: one field wrong refuses the handshake.
Validated(answer) == answer \in {"agreed", "noProtocol"}

exchange ==
  /\ pxStage = "exchange"
  /\ \/ /\ pxAnswer' \in Answers101
        /\ IF Validated(pxAnswer') THEN pxStage' = "handoff" /\ UNCHANGED <<pxHead, pxPermit>>
           ELSE RefuseClient("502")
     \/ RefuseClient("504") /\ UNCHANGED pxAnswer
  /\ UNCHANGED <<pxMode, pxPeers, pxRead, pxWire, pxHand>>

\* prepare_ws_handoff and register, then open_bridge in the released task.
register_proxy ==
  /\ \/ /\ pxStage = "handoff"
        /\ \/ pxHead' = "101" /\ pxStage' = "upgrading" /\ UNCHANGED pxPermit
           \/ RefuseClient("5xx")
     \/ /\ pxStage = "upgrading" /\ UNCHANGED pxHead
        /\ \/ pxStage' = "forward" /\ UNCHANGED pxPermit
           \/ pxStage' = "ended" /\ pxPermit' = FALSE
  /\ UNCHANGED <<pxAnswer, pxMode, pxPeers, pxRead, pxWire, pxHand>>

-----------------------------------------------------------------------------
(* The wire. *)

ClosedTo(s) == pxWire[s] # <<>> /\ pxWire[s][Len(pxWire[s])] = 0
CanWrite(s) == pxEnd[s] # "gone" /\ ~ClosedTo(s)
PxWritten(s, frame) == [pxWire EXCEPT ![s] = Append(@, frame)]
\* What the bridge can read next of a side: a data frame, its close, its loss.
DataNext(s) == Len(pxRead[s]) < pxSent[s]
CloseNext(s) == Len(pxRead[s]) = pxSent[s] /\ pxEnd[s] = "closed"
LostNext(s) == pxEnd[s] = "gone" \/ (Len(pxRead[s]) = pxSent[s] + 1)
\* send_close, close: a close that cannot be written is only logged.
PxClosing(s) == IF CanWrite(s) THEN PxWritten(s, 0) ELSE pxWire
Bridge == <<pxHead, pxAnswer, pxMode, pxPeers>>

-----------------------------------------------------------------------------
(* forward_proxy_frames. *)

\* A stop other than the graceful one owes the peers no more than a close.
stop_proxy_bridge ==
  /\ pxStage = "forward" /\ pxMode # "running"
  /\ pxStage' = IF pxMode = "graceful" THEN "closeClient" ELSE "owed"
  /\ UNCHANGED <<Bridge, pxPermit, pxRead, pxWire, pxHand>>

\* A frame of one side is taken, or its stream ended.
TakeFrame(s) ==
  /\ pxStage = "forward"
  /\ \/ /\ DataNext(s) \/ CloseNext(s)
        /\ LET frame == IF DataNext(s) THEN Len(pxRead[s]) + 1 ELSE 0
           IN /\ pxRead' = [pxRead EXCEPT ![s] = Append(@, frame)]
              /\ pxHand' = [from |-> s, frame |-> frame, full |-> TRUE]
        /\ pxStage' = "write"
     \/ LostNext(s) /\ pxStage' = "owed" /\ UNCHANGED <<pxRead, pxHand>>
  /\ UNCHANGED <<Bridge, pxPermit, pxWire>>

\* forward_client_frame, forward_backend_frame: the send is not raced with the
\* control; a failure or a backend's close ends the loop, a client's close
\* first waits for the backend's.
WriteFrame ==
  /\ pxStage = "write"
  /\ LET to == Other(pxHand.from)
     IN IF CanWrite(to)
        THEN /\ pxWire' = PxWritten(to, pxHand.frame)
             /\ pxStage' = CASE pxHand.frame # 0 -> "forward"
                             [] pxHand.from = "client" -> "drainBackend"
                             [] OTHER -> "owed"
        ELSE pxStage' = "owed" /\ UNCHANGED pxWire
  /\ pxHand' = Empty
  /\ UNCHANGED <<Bridge, pxPermit, pxRead>>

\* forward_backend_close: the client's close was answered by the library, and
\* the answer leaves with the flush that follows the backend's own close.
forward_backend_close ==
  /\ pxStage = "drainBackend" /\ pxEnd["backend"] # "open"
  /\ pxWire' = PxClosing("client") /\ pxStage' = "owed"
  /\ UNCHANGED <<Bridge, pxPermit, pxRead, pxHand>>

-----------------------------------------------------------------------------
(* The endings. *)

\* graceful_close_proxy, until an abort: a close to each, then both drained.
graceful_close_proxy ==
  /\ \/ /\ pxStage = "closeClient" /\ pxMode # "abort"
        /\ pxWire' = PxClosing("client") /\ pxStage' = "closeBackend"
     \/ /\ pxStage = "closeBackend" /\ pxMode # "abort"
        /\ pxWire' = PxClosing("backend") /\ pxStage' = "drainBoth"
     \/ /\ pxStage = "drainBoth" /\ \A s \in Sides : pxEnd[s] # "open"
        /\ pxStage' = "settled" /\ UNCHANGED pxWire
     \/ /\ pxStage \in {"closeClient", "closeBackend", "drainBoth"} /\ pxMode = "abort"
        /\ pxStage' = "settled" /\ UNCHANGED pxWire
  /\ UNCHANGED <<Bridge, pxPermit, pxRead, pxHand>>

\* settle_proxy_transports, and the permit dropped last.
settle_proxy_transports ==
  /\ \/ /\ pxStage = "owed" /\ pxWire' = PxClosing("backend") /\ pxStage' = "owedClient"
        /\ UNCHANGED pxPermit
     \/ /\ pxStage = "owedClient" /\ pxWire' = PxClosing("client") /\ pxStage' = "settled"
        /\ UNCHANGED pxPermit
     \/ /\ pxStage = "settled" /\ pxStage' = "ended" /\ pxPermit' = FALSE /\ UNCHANGED pxWire
  /\ UNCHANGED <<Bridge, pxRead, pxHand>>

\* The server takes away a bridge its forced stop did not end.
BridgeTaken ==
  /\ pxStage \notin {"admit", "connect", "exchange", "handoff", "ended"} /\ pxMode = "abort"
  /\ pxStage' = "ended" /\ pxPermit' = FALSE /\ pxHand' = Empty
  /\ UNCHANGED <<Bridge, pxRead, pxWire>>

-----------------------------------------------------------------------------
(* Environment. *)

PxSideActs(s) ==
  /\ pxStage # "ended" /\ pxHead = "101"
  /\ \/ pxEnd[s] = "open" /\ pxSent[s] < SideFrames
        /\ pxSent' = [pxSent EXCEPT ![s] = @ + 1] /\ UNCHANGED pxEnd
     \/ pxEnd[s] = "open" /\ pxEnd' = [pxEnd EXCEPT ![s] = "closed"] /\ UNCHANGED pxSent
     \/ pxEnd[s] # "gone" /\ pxEnd' = [pxEnd EXCEPT ![s] = "gone"] /\ UNCHANGED pxSent
  /\ UNCHANGED <<pxStage, pxHead, pxAnswer, pxPermit, pxMode, pxRead, pxWire, pxHand>>

PxStopActs ==
  /\ pxStage # "ended" /\ pxHead = "101"
  /\ pxMode' \in CASE pxMode = "running" -> {"graceful", "abort"}
                   [] pxMode = "graceful" -> {"abort"}
                   [] OTHER -> {}
  /\ UNCHANGED <<pxStage, pxHead, pxAnswer, pxPermit, pxPeers, pxRead, pxWire, pxHand>>

PxStep ==
  \/ handle_proxy_ws \/ within_connect \/ exchange \/ register_proxy
  \/ stop_proxy_bridge \/ (\E s \in Sides : TakeFrame(s)) \/ WriteFrame
  \/ forward_backend_close \/ graceful_close_proxy \/ settle_proxy_transports

PxNext == PxStep \/ BridgeTaken \/ (\E s \in Sides : PxSideActs(s)) \/ PxStopActs

-----------------------------------------------------------------------------
(* Properties. *)

Untouched == pxMode # "abort" /\ pxHead = "101"

\* The client is told 101 only after the backend's handshake was validated.
BackendAgreedFirst == pxHead = "101" => Validated(pxAnswer)

\* Each side is written the other's frames, in order and each once, and then
\* at most one close; a side the bridge still forwards to has been given
\* everything read from the other.
ForwardsInOrder ==
  \A s \in Sides :
    LET lane == pxWire[s] data == SelectSeq(lane, LAMBDA f : f # 0)
    IN /\ \A i \in DOMAIN data : data[i] = i
       /\ \A i \in DOMAIN lane : lane[i] = 0 => i = Len(lane)
       /\ pxStage = "forward" => lane = pxRead[Other(s)]

\* A bridge that ended by itself, under no abort, wrote a close frame to every
\* peer that was still there to read it (end_client_transport, send_close).
EveryPeerToldGoodbye ==
  pxStage = "settled" /\ Untouched => \A s \in Sides : pxEnd[s] # "gone" => ClosedTo(s)

WsProxySafe ==
  BackendAgreedFirst /\ ForwardsInOrder /\ EveryPeerToldGoodbye

\* After an abort the permit comes back, although a blocked write is not raced
\* with the control; a graceful stop both of whose peers answer also ends.
ProxyReleased ==
  pxMode = "abort" \/ (pxMode # "running" /\ \A s \in Sides : pxEnd[s] # "open") => ~pxPermit
ProxyReleases == []<>ProxyReleased
=============================================================================
