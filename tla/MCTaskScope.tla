---------------------------- MODULE MCTaskScope -----------------------------
(* The task scope, for TLC, with the primitives the rest of the runtime is  *)
(* built from and the WebSocket bridges and proxies that run under it. The  *)
(* components share no state: `part` says which one a behaviour exercises,  *)
(* and the others are absent.                                               *)
EXTENDS TaskScope, Turn, TaskHandle, Loops, Breaker, RateLimit, Transport, CancelWatch,
        WebSocket, WsHandshake, WsProxy

VARIABLE part

(* Handshake heads: a good one, and every head that differs from it in one  *)
(* or two fields.                                                           *)
GoodKey == [padded |-> TRUE, symbols |-> 22, known |-> TRUE, last |-> 16]
Site == [host |-> "site", port |-> 0]
Page(scheme, host, port) == [scheme |-> scheme, host |-> host, port |-> port]
GoodHead ==
    [method |-> "GET", version |-> "1.1", upgrade |-> <<"websocket">>,
     connection |-> <<<<"upgrade">>>>, chunked |-> FALSE, length |-> <<>>,
     wsVersion |-> <<13>>, protocols |-> <<<<"a", "b">>>>, key |-> <<GoodKey>>,
     origin |-> <<>>, host |-> <<Site>>, fields |-> {"x-request", "x-forwarded-for", "cookie"}]
MCAlternatives(f) ==
    CASE f = "method" -> {"POST"}
      [] f = "version" -> {"1.0"}
      [] f = "upgrade" -> {<<>>, <<"h2c">>, <<"websocket", "websocket">>}
      [] f = "connection" -> {<<>>, <<<<"close">>, <<"x-request", "upgrade">>>>,
                              <<<<"upgrade">>, <<"">>>>}
      [] f = "chunked" -> {TRUE}
      [] f = "length" -> {<<0>>, <<0, 5>>}
      [] f = "wsVersion" -> {<<>>, <<8>>, <<13, 13>>}
      [] f = "protocols" -> {<<>>, <<<<"b">>, <<"a">>>>, <<<<"a", "">>>>}
      [] f = "key" -> {<<>>, <<GoodKey, GoodKey>>, <<[GoodKey EXCEPT !.last = 17]>>,
                       <<[GoodKey EXCEPT !.symbols = 21]>>, <<[GoodKey EXCEPT !.known = FALSE]>>}
      [] f = "origin" -> {<<Page("http", "site", p)>> : p \in {0, 80, 443, 70000}}
                         \cup {<<Page("https", "site", p)>> : p \in {0, 443}}
                         \cup {<<Page("ws", "site", 0)>>, <<Page("http", "other", 0)>>,
                               <<Page("http", "", 0)>>, <<Page("http", "site", 0), Page("http", "site", 0)>>}
      [] f = "host" -> {<<>>, <<Site, Site>>} \cup {<<[Site EXCEPT !.port = p]>> : p \in {80, 443, 8080, 70000}}
      [] f = "fields" -> {{"authorization"}}
MCHsRequests ==
    {GoodHead} \cup
    UNION {UNION {{[GoodHead EXCEPT ![f] = u, ![g] = v] : u \in MCAlternatives(f), v \in MCAlternatives(g)}
                    : g \in DOMAIN GoodHead} : f \in DOMAIN GoodHead}
MCHsTargets == {NoTarget, [scheme |-> "http", host |-> "up", port |-> 0],
                [scheme |-> "https", host |-> "up", port |-> 8443], [scheme |-> "ftp", host |-> "up", port |-> 0]}
GoodReply == [status |-> "101", upgrade |-> <<"websocket">>, connection |-> <<<<"upgrade">>>>,
              accept |-> <<"ours">>, extensions |-> FALSE, protocol |-> <<>>]
MCHsReplies ==
    {GoodReply, [GoodReply EXCEPT !.status = "200"], [GoodReply EXCEPT !.upgrade = <<>>],
     [GoodReply EXCEPT !.connection = <<<<"close">>>>], [GoodReply EXCEPT !.accept = <<"theirs">>],
     [GoodReply EXCEPT !.accept = <<"ours", "ours">>], [GoodReply EXCEPT !.extensions = TRUE]}
    \cup {[GoodReply EXCEPT !.protocol = p] : p \in {<<"a">>, <<"b">>, <<"c">>, <<"a", "b">>}}

Parts == {"scope", "turn", "handle", "loops", "breaker", "bucket", "transport", "watch",
          "websocket", "handshake", "proxy"}
allVars == <<part, vars, turnVars, handleVars, loopVars, breakerVars, bucketVars,
             transportVars, watchVars, wsVars, hsVars, pxVars>>

active ==
    CASE part = "scope" -> vars
      [] part = "turn" -> turnVars
      [] part = "handle" -> handleVars
      [] part = "loops" -> loopVars
      [] part = "breaker" -> breakerVars
      [] part = "bucket" -> bucketVars
      [] part = "transport" -> transportVars
      [] part = "watch" -> watchVars
      [] part = "websocket" -> wsVars
      [] part = "handshake" -> hsVars
      [] part = "proxy" -> pxVars

(* The main component is there in every behaviour; the others' variables    *)
(* hold 0 in the behaviours that do not exercise them.                      *)
InitAll ==
    /\ part \in Parts /\ Init
    /\ IF part = "turn" THEN TurnInit
       ELSE /\ permits = 0 /\ line = 0 /\ ticket = 0 /\ reserved = 0 /\ turnClosed = 0
            /\ queued = 0 /\ fut = 0 /\ entered = 0 /\ outcome = 0 /\ waitCancelled = 0
            /\ overdue = 0
    /\ IF part = "handle" THEN HandleInit
       ELSE /\ flavour = 0 /\ source = 0 /\ body = 0 /\ verdict = 0 /\ slot = 0
            /\ sender = 0 /\ waker = 0 /\ caller = 0 /\ got = 0 /\ cancelCall = 0
            /\ cancelFlag = 0 /\ cancelToken = 0 /\ cancelTx = 0 /\ inbox = 0 /\ sent = 0
            /\ peerAlive = 0 /\ recv = 0
    /\ IF part = "loops" THEN LoopsInit
       ELSE /\ kind = 0 /\ place = 0 /\ now = 0 /\ at = 0 /\ looked = 0 /\ noticed = 0
            /\ fired = 0 /\ request = 0 /\ halted = 0 /\ halting = 0 /\ permit = 0
            /\ wake = 0 /\ woke = 0 /\ afterStop = 0 /\ arrived = 0
    /\ IF part = "breaker" THEN BreakerInit
       ELSE /\ circuit = 0 /\ failures = 0 /\ age = 0 /\ inner = 0 /\ checkStep = 0
            /\ prior = 0 /\ unwound = 0
    /\ IF part = "bucket" THEN BucketInit
       ELSE /\ bucketClock = 0 /\ tokens = 0 /\ lastRefill = 0 /\ spot = 0 /\ readAt = 0
            /\ expected = 0 /\ owed = 0 /\ granted = 0
    /\ IF part = "transport" THEN TransportInit
       ELSE /\ transport = 0 /\ loop = 0 /\ stopFired = 0 /\ peer = 0 /\ served = 0
            /\ file = 0 /\ cleanup = 0
    /\ IF part = "watch" THEN WatchInit
       ELSE /\ current = 0 /\ watchTask = 0 /\ installing = 0 /\ displaced = 0
            /\ requestedBy = 0 /\ watchPanics = 0 /\ watchStop = 0 /\ revoked = 0
    /\ IF part = "websocket" THEN WsInit
       ELSE /\ traffic = 0 /\ fault = 0 /\ head = 0 /\ bridge = 0 /\ wsPermit = 0
            /\ mode = 0 /\ stopPhase = 0 /\ offer = 0 /\ cause = 0 /\ outq = 0
            /\ pending = 0 /\ outClosed = 0 /\ wrote = 0 /\ sentClose = 0 /\ inq = 0
            /\ inHeld = 0 /\ inClosed = 0 /\ peerSent = 0 /\ peerRead = 0 /\ peerEnd = 0
            /\ sendAlive = 0 /\ waiting = 0 /\ admitted = 0 /\ inbound = 0 /\ receiver = 0
            /\ received = 0 /\ callback = 0 /\ deadline = 0 /\ watching = 0 /\ xfer = 0
            /\ heard = 0
    /\ IF part = "handshake" THEN HsInit
       ELSE /\ hsRequest = 0 /\ hsTarget = 0 /\ hsOffer = 0 /\ hsReply = 0 /\ hsChosen = 0
            /\ hsHead = 0
    /\ IF part = "proxy" THEN PxInit
       ELSE /\ pxStage = 0 /\ pxHead = 0 /\ pxAnswer = 0 /\ pxPermit = 0 /\ pxMode = 0
            /\ pxSent = 0 /\ pxEnd = 0 /\ pxRead = 0 /\ pxWire = 0 /\ pxHand = 0

NextAll ==
    \/ /\ part = "scope" /\ Next
       /\ UNCHANGED <<part, turnVars, handleVars, loopVars, breakerVars, bucketVars,
                         transportVars, watchVars, wsVars, hsVars, pxVars>>
    \/ /\ part = "turn" /\ TurnNext
       /\ UNCHANGED <<part, vars, handleVars, loopVars, breakerVars, bucketVars,
                         transportVars, watchVars, wsVars, hsVars, pxVars>>
    \/ /\ part = "handle" /\ HandleNext
       /\ UNCHANGED <<part, vars, turnVars, loopVars, breakerVars, bucketVars,
                         transportVars, watchVars, wsVars, hsVars, pxVars>>
    \/ /\ part = "loops" /\ LoopsNext
       /\ UNCHANGED <<part, vars, turnVars, handleVars, breakerVars, bucketVars,
                         transportVars, watchVars, wsVars, hsVars, pxVars>>
    \/ /\ part = "breaker" /\ BreakerNext
       /\ UNCHANGED <<part, vars, turnVars, handleVars, loopVars, bucketVars,
                         transportVars, watchVars, wsVars, hsVars, pxVars>>
    \/ /\ part = "bucket" /\ BucketNext
       /\ UNCHANGED <<part, vars, turnVars, handleVars, loopVars, breakerVars,
                         transportVars, watchVars, wsVars, hsVars, pxVars>>
    \/ /\ part = "transport" /\ TransportNext
       /\ UNCHANGED <<part, vars, turnVars, handleVars, loopVars, breakerVars,
                         bucketVars, watchVars, wsVars, hsVars, pxVars>>
    \/ /\ part = "watch" /\ WatchNext
       /\ UNCHANGED <<part, vars, turnVars, handleVars, loopVars, breakerVars,
                         bucketVars, transportVars, wsVars, hsVars, pxVars>>
    \/ /\ part = "websocket" /\ WsNext
       /\ UNCHANGED <<part, vars, turnVars, handleVars, loopVars, breakerVars,
                         bucketVars, transportVars, watchVars, hsVars, pxVars>>
    \/ /\ part = "handshake" /\ HsNext
       /\ UNCHANGED <<part, vars, turnVars, handleVars, loopVars, breakerVars,
                         bucketVars, transportVars, watchVars, wsVars, pxVars>>
    \/ /\ part = "proxy" /\ PxNext
       /\ UNCHANGED <<part, vars, turnVars, handleVars, loopVars, breakerVars,
                         bucketVars, transportVars, watchVars, wsVars, hsVars>>

(* Each component's fairness. In one behaviour only one disjunct of a       *)
(* conjunct below can be taken, so each states the fairness of one thread   *)
(* of every component.                                                      *)
Thread1 ==
    \/ part = "scope" /\ DrainStep /\ UNCHANGED part
    \/ part = "turn" /\ TurnProgress /\ UNCHANGED part
    \/ part = "handle" /\ TaskProgress /\ UNCHANGED part
    \/ part = "loops" /\ LoopProgress /\ UNCHANGED part
    \/ part = "breaker" /\ CheckProgress /\ UNCHANGED part
    \/ part = "transport" /\ TransportProgress /\ UNCHANGED part
    \/ part = "websocket" /\ BridgeStep /\ UNCHANGED part
    \/ part = "proxy" /\ PxStep /\ UNCHANGED part
Thread2 ==
    \/ part = "scope" /\ (\E c \in Kids : AdmitFairly(c)) /\ UNCHANGED part
    \/ part = "handle" /\ CallerProgress /\ UNCHANGED part
    \/ part = "loops" /\ RequestProgress /\ UNCHANGED part
    \/ part = "breaker" /\ CooldownTick /\ UNCHANGED part
    \/ part = "websocket" /\ admit_send /\ UNCHANGED part
    \/ part = "proxy" /\ BridgeTaken /\ UNCHANGED part
Thread3 ==
    \/ part = "scope" /\ (\E c \in Kids : Drop(c)) /\ UNCHANGED part
    \/ part = "handle" /\ CancelSend /\ UNCHANGED part
    \/ part = "websocket" /\ settle_receive /\ UNCHANGED part
Thread4 ==
    \/ part = "scope" /\ (\E k \in Closers : Close(k) \/ FireClosing(k) \/ FireShutdown(k)) /\ UNCHANGED part

FairAll ==
    /\ InitAll /\ [][NextAll]_allVars
    /\ WF_active(Thread1) /\ WF_active(Thread2) /\ WF_active(Thread3) /\ WF_active(Thread4)

-----------------------------------------------------------------------------
(* The primitives keep their promises in every state: turn.rs, task.rs,     *)
(* schedule.rs, circuit_breaker.rs, rate_limit.rs, net/ and the cancel      *)
(* watcher; and so does a WebSocket bridge, from whose close cause its ends *)
(* may conclude which messages were written, handed over or discarded       *)
(* (http/ws_proxy/direct.rs, websocket/), and a WebSocket proxy, which      *)
(* promises nothing before its backend agreed and forwards every frame in   *)
(* order (http/ws_proxy/proxy.rs). Each is stated in its module.            *)
PrimitivesSound ==
    CASE part = "scope" -> TypeOK
      [] part = "turn" -> TurnExact
      [] part = "handle" -> HandleHonest /\ CancelObserved
      [] part = "loops" -> LoopsDisciplined
      [] part = "breaker" -> BreakerSound
      [] part = "bucket" -> RateHeld
      [] part = "transport" -> ServeJoins
      [] part = "watch" -> WatchConsistent
      [] part = "websocket" -> WebSocketSafe
      [] part = "handshake" -> HandshakeSound
      [] part = "proxy" -> WsProxySafe

(* What no step may do: grant a turn after close or out of order (turn.rs), *)
(* let a displaced cancel watcher stop the runtime (runtime_state.rs),      *)
(* change a bridge's close cause once committed, or write after its close   *)
(* frame (http/ws_proxy/direct.rs).                                         *)
PrimitiveSteps ==
    [][CASE part = "turn" -> TurnCloseFinal /\ TurnFifo
         [] part = "watch" -> OnlyCurrentStops
         [] part = "websocket" -> WebSocketSteps
         [] OTHER -> TRUE]_<<turnVars, watchVars, wsVars>>

(* What must happen: acquisitions settle, joins are answered, loops and     *)
(* serve calls stop, a healed resource's circuit closes, and a bridge gives *)
(* its permit back and wakes who waits on it, a proxy its transports.       *)
PrimitivesRest ==
    CASE part = "turn" -> TurnRests
      [] part = "handle" -> HandleRests
      [] part = "loops" -> LoopsRest
      [] part = "breaker" -> BreakerRests
      [] part = "transport" -> ServeRests
      [] part = "websocket" -> WsReleased
      [] part = "proxy" -> ProxyReleased
      [] OTHER -> TRUE
PrimitivesLive == []<>PrimitivesRest
=============================================================================
