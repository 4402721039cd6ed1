------------------------- MODULE MCRuntimeServices --------------------------
(* The runtime's lifecycle, for TLC, with the services it owns: the DNS-01  *)
(* certificate owner, a NATS connection with its publishers and             *)
(* subscriptions, an SQS client, the HTTP client's operations and response  *)
(* bodies and multipart uploads. They share no state: `part` says which one *)
(* a behaviour exercises, and the others are absent.                        *)
EXTENDS RuntimeLifecycle, Dns01, Nats, NatsSubscription, Sqs, ClientSend, ClientBody,
        MultipartSession

VARIABLE part
MCScript == <<"field", "chunk", "chunk", "fieldEnd", "field", "fieldEnd", "end">>

Parts == {"runtime", "dns01", "nats", "subscription", "sqs", "send", "body",
          "multipart"}
allVars == <<part, vars, dnVars, natsVars, subVars, sqsVars, sendVars, bodyVars,
             msVars>>

active ==
    CASE part = "runtime" -> vars
      [] part = "dns01" -> dnVars
      [] part = "nats" -> natsVars
      [] part = "subscription" -> subVars
      [] part = "sqs" -> sqsVars
      [] part = "send" -> sendVars
      [] part = "body" -> bodyVars
      [] part = "multipart" -> msVars

(* The main component is there in every behaviour; the others' variables    *)
(* hold 0 in the behaviours that do not exercise them.                      *)
InitAll ==
    /\ part \in Parts /\ Init
    /\ IF part = "dns01" THEN DnInit
       ELSE /\ dnOwner = 0 /\ dnOrder = 0 /\ dnCache = 0 /\ dnStop = 0 /\ dnClaim = 0
            /\ dnAged = 0 /\ dnLedger = 0
    /\ IF part = "nats" THEN NatsInit
       ELSE /\ acked = 0 /\ entry = 0 /\ link = 0 /\ connects = 0 /\ drops = 0 /\ pub = 0
            /\ transport = 0 /\ seen = 0 /\ token = 0 /\ mark = 0 /\ reply = 0
            /\ outcome = 0 /\ queued = 0 /\ sentOn = 0 /\ stored = 0 /\ replies = 0
            /\ nextToken = 0 /\ awaiting = 0 /\ ended = 0 /\ closer = 0
    /\ IF part = "subscription" THEN SubInit
       ELSE /\ subEntry = 0 /\ slow = 0 /\ sub = 0 /\ subPermit = 0 /\ buffer = 0
            /\ arrived = 0 /\ streamEnd = 0 /\ call = 0 /\ closedAs = 0 /\ taken = 0
            /\ answers = 0
    /\ IF part = "sqs" THEN SqsInit
       ELSE /\ sqsEntry = 0 /\ sqsOp = 0 /\ sqsAsked = 0 /\ sqsPc = 0 /\ sqsMark = 0
            /\ sqsApplied = 0 /\ sqsAnswer = 0 /\ sqsResult = 0 /\ sqsBatch = 0
    /\ IF part = "send" THEN SendInit
       ELSE /\ plan = 0 /\ stage = 0 /\ outgoing = 0 /\ lane = 0 /\ hop = 0 /\ retried = 0
            /\ followed = 0 /\ tick = 0 /\ bound = 0 /\ wake = 0 /\ asked = 0 /\ record = 0
            /\ answer = 0 /\ sentWire = 0 /\ secret = 0
    /\ IF part = "body" THEN BodyInit
       ELSE /\ bare = 0 /\ slotPhase = 0 /\ fact = 0 /\ demanded = 0 /\ chunk = 0
            /\ ownerWaker = 0 /\ callerWaker = 0 /\ ownerAt = 0 /\ ownerWoken = 0
            /\ caller = 0 /\ callerWoken = 0 /\ headReply = 0 /\ counted = 0 /\ held = 0
            /\ final = 0 /\ source = 0 /\ ready = 0 /\ timers = 0 /\ recordedAs = 0
            /\ got = 0 /\ told = 0
    /\ IF part = "multipart" THEN MsInit
       ELSE /\ msSlot = 0 /\ msIssued = 0 /\ msSettled = 0 /\ msDriver = 0 /\ msKind = 0
            /\ msReply = 0 /\ msTerminal = 0 /\ msTaken = 0 /\ msCaller = 0 /\ msAsked = 0
            /\ msField = 0 /\ msGot = 0

NextAll ==
    \/ /\ part = "runtime" /\ Next
       /\ UNCHANGED <<part, dnVars, natsVars, subVars, sqsVars, sendVars, bodyVars,
                         msVars>>
    \/ /\ part = "dns01" /\ DnNext
       /\ UNCHANGED <<part, vars, natsVars, subVars, sqsVars, sendVars, bodyVars,
                         msVars>>
    \/ /\ part = "nats" /\ NatsNext
       /\ UNCHANGED <<part, vars, dnVars, subVars, sqsVars, sendVars, bodyVars,
                         msVars>>
    \/ /\ part = "subscription" /\ SubNext
       /\ UNCHANGED <<part, vars, dnVars, natsVars, sqsVars, sendVars, bodyVars,
                         msVars>>
    \/ /\ part = "sqs" /\ SqsNext
       /\ UNCHANGED <<part, vars, dnVars, natsVars, subVars, sendVars, bodyVars,
                         msVars>>
    \/ /\ part = "send" /\ SendNext
       /\ UNCHANGED <<part, vars, dnVars, natsVars, subVars, sqsVars, bodyVars,
                         msVars>>
    \/ /\ part = "body" /\ BodyNext
       /\ UNCHANGED <<part, vars, dnVars, natsVars, subVars, sqsVars, sendVars,
                         msVars>>
    \/ /\ part = "multipart" /\ MsNext
       /\ UNCHANGED <<part, vars, dnVars, natsVars, subVars, sqsVars, sendVars,
                         bodyVars>>

(* Each component's fairness. In one behaviour only one disjunct of a       *)
(* conjunct below can be taken, so each states the fairness of one thread   *)
(* of every component.                                                      *)
Thread1 ==
    \/ part = "runtime" /\ DriverStep /\ UNCHANGED part
    \/ part = "dns01" /\ DnStep /\ UNCHANGED part
    \/ part = "nats" /\ PublishStep /\ UNCHANGED part
    \/ part = "subscription" /\ ReceiveStep /\ UNCHANGED part
    \/ part = "sqs" /\ SqsStep /\ UNCHANGED part
    \/ part = "send" /\ SendProgress /\ UNCHANGED part
    \/ part = "body" /\ OwnerStep /\ UNCHANGED part
    \/ part = "multipart" /\ MsDriverStep /\ UNCHANGED part
Thread2 ==
    \/ part = "body" /\ CallerStep /\ UNCHANGED part
    \/ part = "multipart" /\ MsCallerStep /\ UNCHANGED part
Thread3 ==
    \/ part = "body" /\ Fires("operation") /\ UNCHANGED part

FairAll ==
    /\ InitAll /\ [][NextAll]_allVars
    /\ WF_active(Thread1) /\ WF_active(Thread2) /\ WF_active(Thread3)

-----------------------------------------------------------------------------
(* The services the runtime owns keep their promises in every state: what   *)
(* the certificate owner serves and leaves in the DNS zone (dns01/), what a *)
(* publisher, a subscriber or an SQS caller is told of its message (mq/),   *)
(* what a client operation and a streamed response body say of their own    *)
(* end (http/client/), and that a multipart upload's events arrive once, in *)
(* order, and its end is told truthfully (http/multipart/session.rs), each  *)
(* as stated in its module.                                                 *)
ServicesSound ==
    CASE part = "runtime" -> TypeOK
      [] part = "dns01" -> Dns01Safe
      [] part = "nats" -> NatsSafe
      [] part = "subscription" -> SubscriptionSafe
      [] part = "sqs" -> SqsHonest
      [] part = "send" -> ClientSendSafe
      [] part = "body" -> ClientBodySafe
      [] part = "multipart" -> MultipartSessionSafe

(* What no step may do: serve an older certificate than the one being       *)
(* served (dns01/owner.rs), replace the first terminal of a response body   *)
(* (http/client/body/state.rs) or of a multipart session, or admit a        *)
(* command to a revoked session (http/multipart/session.rs).                *)
ServiceSteps == 
    [][CASE part = "dns01" -> ServedAdvances
         [] part = "body" -> FactKept
         [] part = "multipart" -> MultipartSessionSteps
         [] OTHER -> TRUE]_<<dnVars, bodyVars, msVars>>

(* What must happen: a renewal reaches its next tick or the stop,           *)
(* publishes, SQS calls and client operations return, a waiting receiver or *)
(* body reader is answered, a multipart session answers or ends, and their  *)
(* owners end.                                                              *)
ServicesRest ==
    CASE part = "dns01" -> RenewalRests
      [] part = "nats" -> PublishersBack
      [] part = "subscription" -> ReceiversBack
      [] part = "sqs" -> SqsCallsBack
      [] part = "send" -> OperationOver
      [] part = "body" -> BodyRests
      [] part = "multipart" -> SessionRests
      [] OTHER -> TRUE
ServicesLive == []<>ServicesRest
=============================================================================
