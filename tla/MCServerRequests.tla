-------------------------- MODULE MCServerRequests --------------------------
(* A server with a connection limit, for TLC, with what it does for each    *)
(* request: its routing and answering, the service policy it runs under and *)
(* the admission of request bodies. They share no state: `part` says which  *)
(* one a behaviour exercises, and the others are absent.                    *)
EXTENDS MCServer, Routing, Answering, Policies, Admission

VARIABLE part
(* Routes that overlap at every step of a walk, and paths that reach them.  *)
MCRoutePatterns ==
    {<<"a">>, <<"a", "b">>, <<"a", ":x">>, <<":y", "", "b">>, <<":x", ":y">>, <<"a", "*r">>}
MCRoutePrefixes == {<<>>, <<":x">>}
MCRequestPaths ==
    {<<"", "">>, <<"", "a">>, <<"a", "b">>, <<"", "b", "b", "">>, <<"a", "c">>,
     <<"a", "", "b", "c", "">>}
MCHealthPath == <<"a">>

Parts == {"server", "routing", "answering", "policies", "admission"}
allVars == <<part, vars, rtVars, anVars, pcVars, adVars>>

active ==
    CASE part = "server" -> vars
      [] part = "routing" -> rtVars
      [] part = "answering" -> anVars
      [] part = "policies" -> pcVars
      [] part = "admission" -> adVars

(* The main component is there in every behaviour; the others' variables    *)
(* hold 0 in the behaviours that do not exercise them.                      *)
InitAll ==
    /\ part \in Parts /\ Init
    /\ IF part = "routing" THEN RtInit
       ELSE /\ rtLog = 0 /\ rtTries = 0 /\ rtMode = 0 /\ rtHosts = 0 /\ rtDefault = 0
            /\ rtServing = 0
    /\ IF part = "answering" THEN AnInit
       ELSE /\ anRoute = 0 /\ anHttp2 = 0 /\ anUpgrade = 0 /\ anHead = 0 /\ anFrames = 0
            /\ anSkip = 0 /\ anHealthy = 0 /\ anPc = 0 /\ anChain = 0 /\ anPlan = 0
            /\ anDepth = 0 /\ anReached = 0 /\ anHand = 0 /\ anRefusals = 0 /\ anCalls = 0
            /\ anEntered = 0 /\ anWork = 0 /\ anOrigin = 0 /\ anCounted = 0
    /\ IF part = "policies" THEN PcInit
       ELSE /\ pcGroup = 0 /\ pcConf = 0 /\ pcContained = 0 /\ pcHosted = 0 /\ pcKind = 0
            /\ pcServing = 0
    /\ IF part = "admission" THEN AdInit
       ELSE /\ adPlan = 0 /\ adPhase = 0 /\ adHead = 0 /\ adLimit = 0 /\ adSeen = 0
            /\ adKept = 0 /\ adReserve = 0 /\ adPermit = 0 /\ adTaken = 0 /\ adAsked = 0

NextAll ==
    \/ /\ part = "server" /\ Next
       /\ UNCHANGED <<part, rtVars, anVars, pcVars, adVars>>
    \/ /\ part = "routing" /\ RtNext
       /\ UNCHANGED <<part, vars, anVars, pcVars, adVars>>
    \/ /\ part = "answering" /\ AnNext
       /\ UNCHANGED <<part, vars, rtVars, pcVars, adVars>>
    \/ /\ part = "policies" /\ PcNext
       /\ UNCHANGED <<part, vars, rtVars, anVars, adVars>>
    \/ /\ part = "admission" /\ AdNext
       /\ UNCHANGED <<part, vars, rtVars, anVars, pcVars>>

All == InitAll /\ [][NextAll]_allVars

-----------------------------------------------------------------------------
(* A request is answered by the nearest route or refused with what it may   *)
(* ask for (http/trie.rs); whatever middleware, handlers and mappers do, it *)
(* gets one answer that says truthfully where it came from                  *)
(* (http/middleware.rs, http/rejection.rs); every bound resolves by the     *)
(* intent of the layers that set it and is reported as enforced             *)
(* (http/policy_resolution.rs), and no body is kept past the bound its      *)
(* admission decided (http/body_admission.rs).                              *)
RequestsSound ==
    CASE part = "server" -> TypeOK
      [] part = "routing" -> RoutingSound
      [] part = "answering" -> AnsweringSound
      [] part = "policies" -> PoliciesSound
      [] part = "admission" -> AdmissionSound
=============================================================================
