------------------------------ MODULE Transport ------------------------------
(* The raw transports (net/accept.rs, net/tcp.rs, net/udp.rs,               *)
(* net/listener.rs): the accept loop of serve_tcp and serve_tcp_tls with    *)
(* its set of handler tasks, the receive loop of serve_udp that runs one    *)
(* handler at a time, and the socket file a Unix listener owns. The stop is *)
(* the pair of lifecycle latches of module Loops.                           *)
EXTENDS Integers, FiniteSets

CONSTANTS Peers,          \* connections or datagrams that arrive
          Modes           \* which of "tcp", "tls", "udp", "unix" to serve

VARIABLES transport,
          loop,           \* the serving loop
          stopFired,           \* a lifecycle latch has fired
          peer,           \* peer[p]: where the connection or datagram is
          served,         \* what the serve call returned
          file,           \* what the socket path names: nothing, our socket, another's
          cleanup         \* the cleanup of the path: its step and what it found

transportVars == <<transport, loop, stopFired, peer, served, file, cleanup>>

RunningHandlers == {p \in Peers : peer[p] \in {"handshake", "handling"}}
FinishedHandlers == {p \in Peers : peer[p] = "finished"}
NoCleanup == [step |-> "none", found |-> "none", removed |-> "none", raced |-> FALSE]

TransportInit ==
    /\ transport \in Modes /\ loop = "select" /\ stopFired = FALSE /\ served = "none"
    /\ peer = [p \in Peers |-> "away"]
    /\ file = IF transport = "unix" THEN "ours" ELSE "none"
    /\ cleanup = NoCleanup

PeerTo(p, to) == peer' = [peer EXCEPT ![p] = to]
Streaming == transport # "udp"

-----------------------------------------------------------------------------
(* accept_loop. The select is biased: a stop, then a finished handler, then *)
(* the next connection.                                                     *)
Arrives(p) ==
    /\ peer[p] = "away" /\ PeerTo(p, "offered")
    /\ UNCHANGED <<transport, loop, stopFired, served, file, cleanup>>
ReapHandler(p) ==
    /\ Streaming /\ loop = "select" /\ ~stopFired /\ p \in FinishedHandlers /\ PeerTo(p, "joined")
    /\ UNCHANGED <<transport, loop, stopFired, served, file, cleanup>>
Accept(p) ==
    /\ Streaming /\ loop = "select" /\ ~stopFired /\ FinishedHandlers = {} /\ peer[p] = "offered"
    /\ PeerTo(p, IF transport = "tls" THEN "handshake" ELSE "handling")
    /\ UNCHANGED <<transport, loop, stopFired, served, file, cleanup>>
(* An exhausted descriptor table backs off; any other failure ends the call.*)
AcceptFails ==
    /\ Streaming /\ loop = "select" /\ ~stopFired /\ FinishedHandlers = {}
    /\ \/ loop' = "backoff" /\ UNCHANGED served
       \/ loop' = "stopping" /\ served' = "io error"
    /\ UNCHANGED <<transport, stopFired, peer, file, cleanup>>
BackoffEnds ==
    /\ loop = "backoff" /\ loop' = "select"
    /\ UNCHANGED <<transport, stopFired, peer, served, file, cleanup>>
LoopStops ==
    /\ loop = "select" /\ stopFired
    /\ loop' = "stopping" /\ served' = "ok"
    /\ UNCHANGED <<transport, stopFired, peer, file, cleanup>>

(* stop_handlers: every handler is aborted and joined before the call ends. *)
AbortHandler(p) ==
    /\ Streaming /\ loop = "stopping" /\ p \in RunningHandlers \cup FinishedHandlers
    /\ PeerTo(p, IF p \in RunningHandlers THEN "aborted" ELSE "joined")
    /\ UNCHANGED <<transport, loop, stopFired, served, file, cleanup>>
ServeReturns ==
    /\ loop = "stopping" /\ RunningHandlers = {} /\ FinishedHandlers = {}
    /\ loop' = "returned"
    /\ UNCHANGED <<transport, stopFired, peer, served, file, cleanup>>

(* handle_connection, handle_tls_connection: a handshake that fails or      *)
(* outlives its ten seconds ends the handler without the user's.            *)
Handshake(p) ==
    /\ peer[p] = "handshake" /\ \E to \in {"handling", "finished"} : PeerTo(p, to)
    /\ UNCHANGED <<transport, loop, stopFired, served, file, cleanup>>
HandlerEnds(p) ==
    /\ Streaming /\ peer[p] = "handling" /\ PeerTo(p, "finished")
    /\ UNCHANGED <<transport, loop, stopFired, served, file, cleanup>>

(* recv_loop: a datagram's handler runs inside the loop, which sees a stop  *)
(* only between datagrams; a transient failure is skipped.                  *)
Receive(p) ==
    /\ ~Streaming /\ loop = "select" /\ ~stopFired /\ peer[p] = "offered"
    /\ PeerTo(p, "handling") /\ loop' = "dispatch"
    /\ UNCHANGED <<transport, stopFired, served, file, cleanup>>
DispatchEnds(p) ==
    /\ ~Streaming /\ loop = "dispatch" /\ peer[p] = "handling"
    /\ PeerTo(p, "joined") /\ loop' = "select"
    /\ UNCHANGED <<transport, stopFired, served, file, cleanup>>
ReceiveFails ==
    /\ ~Streaming /\ loop = "select" /\ ~stopFired
    /\ loop' = "stopping" /\ served' = "io error"
    /\ UNCHANGED <<transport, stopFired, peer, file, cleanup>>

FireStop ==
    /\ ~stopFired /\ stopFired' = TRUE
    /\ UNCHANGED <<transport, loop, peer, served, file, cleanup>>

-----------------------------------------------------------------------------
(* cleanup_unix_socket, on demand and when the listener is dropped: look    *)
(* whose file the path names, and remove it only if it is the bound one.    *)
CleanupLook ==
    /\ transport = "unix" /\ loop = "returned" /\ cleanup.step \in {"none", "done"}
    /\ file # "none" \/ cleanup.step = "none"
    /\ cleanup' = [cleanup EXCEPT !.step = IF file = "ours" THEN "remove" ELSE "done", !.found = file]
    /\ UNCHANGED <<transport, loop, stopFired, peer, served, file>>
CleanupRemove ==
    /\ cleanup.step = "remove"
    /\ cleanup' = [cleanup EXCEPT !.step = "done", !.removed = file] /\ file' = "none"
    /\ UNCHANGED <<transport, loop, stopFired, peer, served>>
(* Another process replaces the file at the path.                           *)
Replace ==
    /\ transport = "unix" /\ file # "other" /\ file' = "other"
    /\ cleanup' = [cleanup EXCEPT !.raced = @ \/ cleanup.step = "remove"]
    /\ UNCHANGED <<transport, loop, stopFired, peer, served>>

-----------------------------------------------------------------------------
TransportProgress ==
    \/ BackoffEnds \/ LoopStops \/ ServeReturns \/ CleanupRemove
    \/ \E p \in Peers : ReapHandler(p) \/ AbortHandler(p) \/ Accept(p) \/ Receive(p) \/ DispatchEnds(p)

TransportNext ==
    \/ TransportProgress \/ AcceptFails \/ ReceiveFails \/ FireStop \/ CleanupLook \/ Replace
    \/ \E p \in Peers : Arrives(p) \/ Handshake(p) \/ HandlerEnds(p)

TransportSpec == TransportInit /\ [][TransportNext]_transportVars
(* The executor runs the loop; an aborted handler stops at its next await;  *)
(* a datagram's handler returns.                                            *)
FairTransportSpec == TransportSpec /\ WF_transportVars(TransportProgress)
-----------------------------------------------------------------------------
(* A serve call that has returned has joined every handler it started: none *)
(* outlives it, whether a stop or a failed accept ended it; Ok means it was *)
(* stopped; and a Unix listener removes a file another process bound only   *)
(* if that happened between its look and its removal.                       *)
ServeJoins ==
    /\ loop = "returned" => RunningHandlers = {} /\ FinishedHandlers = {}
    /\ served = "ok" => stopFired
    /\ ~Streaming => Cardinality(RunningHandlers) <= 1 /\ (RunningHandlers # {} => loop = "dispatch")
    /\ \A p \in Peers : peer[p] = "aborted" => Streaming /\ served # "none"
    /\ cleanup.removed = "other" => cleanup.raced

(* A stop ends every serve call, also one that is backing off.              *)
ServeRests == stopFired => loop = "returned"
ServeStops == []<>ServeRests
=============================================================================
