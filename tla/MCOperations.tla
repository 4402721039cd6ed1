---------------------------- MODULE MCOperations ----------------------------
(* Integration operations, for TLC, with the other operations an            *)
(* application starts and waits for: client requests, the reading of a      *)
(* multipart body and the order of a certificate with several               *)
(* authorizations. They share no state: `part` says which one a behaviour   *)
(* exercises, and the others are absent.                                    *)
EXTENDS MCIntegration, ClientSend, MultipartParser, Dns01

VARIABLE part
(* Bodies that open properly, with one header block that may lack its       *)
(* terminator, some text and an ending that may be missing.                 *)
Tokens == {CRLF, Dashes, Boundary, <<"x">>}
Texts == {FlattenSeq(s) : s \in SeqOf(Tokens, 3)}
Headers == <<"x">> \o CRLF
MCBodies ==
    {<<>>} \cup
    {Dashes \o Boundary \o CRLF \o h \o t \o e :
        h \in {Headers, Headers \o CRLF,
               Headers \o CRLF \o <<"x">> \o DELIMITER_PREFIX \o Boundary \o CRLF \o Headers \o CRLF},
        t \in Texts,
        e \in {<<>>, DELIMITER_PREFIX \o Boundary \o Dashes,
               DELIMITER_PREFIX \o Boundary \o Dashes \o CRLF}}

Parts == {"integration", "send", "parser", "dns01"}
allVars == <<part, vars, sendVars, mpVars, dnVars>>

active ==
    CASE part = "integration" -> vars
      [] part = "send" -> sendVars
      [] part = "parser" -> mpVars
      [] part = "dns01" -> dnVars

(* The main component is there in every behaviour; the others' variables    *)
(* hold 0 in the behaviours that do not exercise them.                      *)
InitAll ==
    /\ part \in Parts /\ Init
    /\ IF part = "send" THEN SendInit
       ELSE /\ plan = 0 /\ stage = 0 /\ outgoing = 0 /\ lane = 0 /\ hop = 0 /\ retried = 0
            /\ followed = 0 /\ tick = 0 /\ bound = 0 /\ wake = 0 /\ asked = 0 /\ record = 0
            /\ answer = 0 /\ sentWire = 0 /\ secret = 0
    /\ IF part = "parser" THEN MpInit
       ELSE /\ mpBody = 0 /\ mpFed = 0 /\ mpParser = 0 /\ mpSource = 0 /\ mpGot = 0
            /\ mpHeads = 0 /\ mpOutcome = 0
    /\ IF part = "dns01" THEN DnInit
       ELSE /\ dnOwner = 0 /\ dnOrder = 0 /\ dnCache = 0 /\ dnStop = 0 /\ dnClaim = 0
            /\ dnAged = 0 /\ dnLedger = 0

NextAll ==
    \/ /\ part = "integration" /\ Next
       /\ UNCHANGED <<part, sendVars, mpVars, dnVars>>
    \/ /\ part = "send" /\ SendNext
       /\ UNCHANGED <<part, vars, mpVars, dnVars>>
    \/ /\ part = "parser" /\ MpNext
       /\ UNCHANGED <<part, vars, sendVars, dnVars>>
    \/ /\ part = "dns01" /\ DnNext
       /\ UNCHANGED <<part, vars, sendVars, mpVars>>

All == InitAll /\ [][NextAll]_allVars

-----------------------------------------------------------------------------
(* A client operation sends what its policy allows, to whom it allows, and  *)
(* records what happened (http/client/operation.rs); and the incremental    *)
(* multipart parser reads any body, however it is cut into frames, as the   *)
(* buffered one does (http/multipart/parser.rs); and an order answers for   *)
(* every TXT record it may have left in the zone (dns01/order.rs).          *)
OperationsSound ==
    CASE part = "integration" -> TypeOK
      [] part = "send" -> ClientSendSafe
      [] part = "parser" -> MultipartParsed
      [] part = "dns01" -> Dns01Safe
=============================================================================
