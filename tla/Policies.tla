------------------------------ MODULE Policies ------------------------------
(***************************************************************************)
(* The service policy: the bounds that the runtime, the server, a host     *)
(* router, a router and a route registration set, their resolution when a  *)
(* server starts, and the report it hands to the operator.                 *)
(*                                                                         *)
(* A bound is a number and Unbounded is above every number, so that        *)
(* narrowing is taking the least.  The dimensions that follow one rule are *)
(* represented by one of them: "total" stands for the two request          *)
(* deadlines, "upload" and "download" for the three bounds of a transfer.  *)
(***************************************************************************)
EXTENDS Integers, FiniteSets, FiniteSetsExt

CONSTANTS
    SettingValues,         \* the numbers a caller passes to a setter
    LargestDeadline,       \* MAX_POLICY_DEADLINE
    DefaultDeadline,       \* the request and the shutdown default
    DefaultBody,           \* DEFAULT_MAX_BODY
    DefaultCap,            \* DEFAULT_REQUEST_BODY_HARD_CAP
    Unbounded              \* above every number a caller passes

ASSUME PolicyNumbers ==
    /\ SettingValues \subseteq Nat
    /\ {LargestDeadline, DefaultDeadline, DefaultBody, DefaultCap, Unbounded} \subseteq Nat \ {0}
    /\ \A n \in SettingValues \cup {LargestDeadline, DefaultDeadline, DefaultBody, DefaultCap} : n < Unbounded
    /\ DefaultDeadline <= LargestDeadline

VARIABLES
    pcGroup,        \* which independent group of dimensions is configured
    pcConf,         \* what each layer set
    pcContained,    \* a configured runtime contains the server
    pcHosted,       \* the server serves a host router
    pcKind,         \* the route's registration
    pcServing       \* the server is starting: its settings are frozen

pcVars == <<pcGroup, pcConf, pcContained, pcHosted, pcKind, pcServing>>

PolicyLayer == {"runtime", "server", "host", "router", "route"}
PolicyDimension == {"total", "upload", "download", "shutdown", "cap", "body"}
RouteDimensions == {"total", "upload", "download"}
Registrations == {"async", "sse", "sse_body", "websocket", "multipart", "proxy", "proxy_stream"}

\* The setters of each layer.  A registration sets its transfer budgets: an
\* SSE route the download, a proxy route both.
Settable(layer) ==
    CASE layer \in {"runtime", "server"} -> {"total", "upload", "download", "shutdown", "cap"}
      [] layer \in {"host", "router"} -> {"total", "upload", "download", "body"}
      [] OTHER -> {"upload", "download"}

\* Dimensions that never meet are configured in separate behaviours.
Groups == {PolicyLayer \X {dimension} : dimension \in {"total", "download", "shutdown"}}
             \cup {({"runtime", "server"} \X {"cap"}) \cup ({"host", "router"} \X {"body"}) \cup {<<"route", "upload">>}}

Unset == -1

\* finite_duration and positive_limit refuse zero, a deadline has a largest
\* value, a router's body limit may be zero, and only a budget is unbounded.
Accepts(dimension, value) ==
    CASE dimension = "body" -> value # Unbounded
      [] dimension = "shutdown" -> value \in 1..LargestDeadline
      [] dimension = "total" -> value \in 1..LargestDeadline \cup {Unbounded}
      [] dimension = "cap" -> value \notin {0, Unbounded}
      [] OTHER -> value # 0

(***************************************************************************)
(* The containment rule.                                                   *)
(***************************************************************************)
Hard(dimension) == dimension = "shutdown"

SupplierIsBlind(hard, innerExplicit, outerExplicit) == "narrower"

Supplier(hard, innerExplicit, outerExplicit) ==
    CASE ~innerExplicit /\ outerExplicit -> "outer"
      [] ~hard /\ innerExplicit /\ ~outerExplicit -> "inner"
      [] OTHER -> "narrower"

narrow(inner, outer) == Min({inner, outer})

supplied_sources(supplier, inner, outer, effective) ==
    CASE supplier = "inner" -> inner.sources
      [] supplier = "outer" -> outer.sources
      [] inner.value = effective /\ outer.value = effective -> inner.sources \cup outer.sources
      [] inner.value = effective -> inner.sources
      [] OTHER -> outer.sources

Sourced(value, sources, explicit) == [value |-> value, sources |-> sources, explicit |-> explicit]

choose(supplier, inner, outer) ==
    CASE supplier = "inner" -> inner.value
      [] supplier = "outer" -> outer.value
      [] OTHER -> narrow(inner.value, outer.value)

\* One value inside another: the side the rule chooses, and its sources.
contained_by(inner, outer, hard) ==
    LET supplier == Supplier(hard, inner.explicit, outer.explicit)
        value == choose(supplier, inner, outer)
    IN  Sourced(value, supplied_sources(supplier, inner, outer, value), inner.explicit \/ outer.explicit)

\* RouteBudgets resolves by clearing what a side gives up, and narrowing.
budgets_contained_by(inner, outer) ==
    LET supplier == Supplier(FALSE, inner.explicit, outer.explicit)
        value == narrow(IF supplier = "outer" THEN Unbounded ELSE inner.value,
                        IF supplier = "inner" THEN Unbounded ELSE outer.value)
    IN  Sourced(value, supplied_sources(supplier, inner, outer, value), inner.explicit \/ outer.explicit)

\* Two byte maxima that both apply.
narrowed_by(inner, outer) ==
    LET value == Min({inner.value, outer.value})
    IN  Sourced(value, supplied_sources("narrower", inner, outer, value), TRUE)

(***************************************************************************)
(* What each layer brings.                                                 *)
(***************************************************************************)
DefaultOf(dimension) ==
    CASE dimension \in {"total", "shutdown"} -> DefaultDeadline
      [] dimension = "cap" -> DefaultCap
      [] dimension = "body" -> DefaultBody
      [] OTHER -> Unbounded

SetBy(layer, dimension) == pcConf[layer][dimension] # Unset

\* A server policy names its layer for every dimension, defaulted or not.
located(layer, dimension) ==
    LET set == SetBy(layer, dimension)
    IN  Sourced(IF set THEN pcConf[layer][dimension] ELSE DefaultOf(dimension), {<<layer, ~set>>}, set)

\* A layer of budgets that set nothing is unbounded and names no layer.
located_budgets(layer, dimension) ==
    IF SetBy(layer, dimension) THEN located(layer, dimension) ELSE Sourced(Unbounded, {}, FALSE)

\* EffectiveServerPolicy::resolve
ServerBound(dimension) ==
    LET local == located("server", dimension)
        outer == located("runtime", dimension)
    IN  CASE ~pcContained -> local
          [] dimension \in RouteDimensions -> budgets_contained_by(local, outer)
          [] OTHER -> contained_by(local, outer, Hard(dimension))

\* HostRouter::freeze, the part of the budgets.
HostBudgets(dimension) ==
    IF pcHosted THEN budgets_contained_by(located_budgets("host", dimension), ServerBound(dimension))
                ELSE ServerBound(dimension)

RouterBudgets(dimension) == budgets_contained_by(located_budgets("router", dimension), HostBudgets(dimension))

\* registration_budgets: which budgets the registration brings.
Registers(dimension) ==
    \/ dimension = "download" /\ pcKind \in {"sse", "sse_body", "proxy_stream"}
    \/ dimension = "upload" /\ pcKind = "proxy_stream"

RegistrationBudgets(dimension) ==
    IF Registers(dimension) THEN located_budgets("route", dimension) ELSE Sourced(Unbounded, {}, FALSE)

RouteBudgets(dimension) == budgets_contained_by(RegistrationBudgets(dimension), RouterBudgets(dimension))

\* ConfiguredCeiling::inside and resolved: a child that set nothing takes the
\* host's ceiling, and the hard cap always applies.
ceiling_inside ==
    CASE ~pcHosted -> located("router", "body")
      [] SetBy("router", "body") -> contained_by(located("router", "body"), located("host", "body"), FALSE)
      [] OTHER -> located("host", "body")

ResolvedCeiling == narrowed_by(ceiling_inside, ServerBound("cap"))

registration_upload_limit ==
    IF pcKind \in {"proxy", "proxy_stream"} /\ SetBy("route", "upload") THEN pcConf["route"]["upload"] ELSE Unbounded

\* The report's bound for the route, and the number a request reads.
registration_body_bound ==
    IF registration_upload_limit = Unbounded THEN ResolvedCeiling
    ELSE narrowed_by(ResolvedCeiling, Sourced(registration_upload_limit, {<<"route", FALSE>>}, TRUE))

registration_ceiling == Min({ResolvedCeiling.value, registration_upload_limit})

registration_reads_body == pcKind \notin {"websocket", "sse"}

admission_counts_upload == pcKind \in {"multipart", "proxy_stream"}

\* TransferOwner::deadlines_only, taken by the two consumers whose payload
\* admission has counted already.
DropsMaximum(dimension) == dimension = "upload" /\ pcKind \in {"multipart", "proxy_stream"}

\* The narrow owner of a transfer, as a request makes it: the registration's
\* budget narrowed under the router's, with no thought of intent.
EnforcedTransfer(dimension) ==
    IF DropsMaximum(dimension) THEN Unbounded
    ELSE narrow(RegistrationBudgets(dimension).value, RouterBudgets(dimension).value)

(***************************************************************************)
(* The report.                                                             *)
(***************************************************************************)
\* A diagnostic for an explicit setting whose resolution differs from it.
changed(layer, dimension, configured, effective) ==
    IF configured = effective.value THEN {}
    ELSE {[layer |-> layer, dimension |-> dimension, configured |-> configured,
           effective |-> effective.value, sources |-> effective.sources]}

DiagnosticsOf(layer, dimension, effective) ==
    IF SetBy(layer, dimension) THEN changed(layer, dimension, pcConf[layer][dimension], effective) ELSE {}

ServerDiagnostics == UNION {DiagnosticsOf("server", dimension, ServerBound(dimension)) : dimension \in Settable("server")}

HostDiagnostics ==
    IF ~pcHosted THEN {}
    ELSE UNION {DiagnosticsOf("host", dimension, HostBudgets(dimension)) : dimension \in RouteDimensions}
           \cup DiagnosticsOf("host", "body", narrowed_by(located("host", "body"), ServerBound("cap")))

RouterDiagnostics ==
    UNION {DiagnosticsOf("router", dimension, RouterBudgets(dimension)) : dimension \in RouteDimensions}
      \cup DiagnosticsOf("router", "body", ResolvedCeiling)

RouteDiagnostics ==
    UNION {DiagnosticsOf("route", dimension, RouteBudgets(dimension)) :
              dimension \in {d \in RouteDimensions : Registers(d)}}
      \cup IF registration_reads_body /\ registration_upload_limit # Unbounded
           THEN changed("route", "body", registration_upload_limit, registration_body_bound) ELSE {}

\* What report_routes records for the route: admission counts the payload of
\* some registrations, which then report the deadlines of their upload only.
ReportedBudgets(dimension) ==
    IF dimension = "upload" /\ admission_counts_upload THEN Sourced(Unbounded, {}, FALSE) ELSE RouteBudgets(dimension)

Diagnostics == ServerDiagnostics \cup HostDiagnostics \cup RouterDiagnostics \cup RouteDiagnostics

(***************************************************************************)
(* The actions: a builder is configured, and a terminal serve call freezes *)
(* it.  The report is a function of the frozen settings, so it is not a    *)
(* variable of its own.                                                    *)
(***************************************************************************)
PcInit ==
    /\ pcGroup \in Groups
    /\ pcConf = [layer \in PolicyLayer |-> [dimension \in PolicyDimension |-> Unset]]
    /\ pcContained = FALSE /\ pcHosted = FALSE /\ pcKind = "async"
    /\ pcServing = FALSE

\* A setter that refuses its argument returns an error and no builder.
configure(layer, dimension, value) ==
    /\ ~pcServing
    /\ <<layer, dimension>> \in pcGroup /\ dimension \in Settable(layer)
    /\ Accepts(dimension, value)
    /\ pcConf' = [pcConf EXCEPT ![layer][dimension] = value]
    /\ UNCHANGED <<pcGroup, pcContained, pcHosted, pcKind, pcServing>>

serve(contained, hosted, kind) ==
    /\ ~pcServing
    /\ pcContained' = contained /\ pcHosted' = hosted /\ pcKind' = kind
    /\ pcServing' = TRUE
    /\ UNCHANGED <<pcGroup, pcConf>>

PcNext ==
    \/ \E layer \in PolicyLayer, dimension \in PolicyDimension, value \in SettingValues \cup {Unbounded} :
          configure(layer, dimension, value)
    \/ \E contained \in BOOLEAN, hosted \in BOOLEAN, kind \in Registrations : serve(contained, hosted, kind)

(***************************************************************************)
(* Properties.                                                             *)
(***************************************************************************)
InChain == {"server", "router"} \cup (IF pcContained THEN {"runtime"} ELSE {}) \cup (IF pcHosted THEN {"host"} ELSE {})

ChainOf(dimension) == InChain \cup (IF Registers(dimension) THEN {"route"} ELSE {})

BroughtBy(layer, dimension) ==
    CASE SetBy(layer, dimension) -> pcConf[layer][dimension]
      [] layer \in {"runtime", "server"} -> DefaultOf(dimension)
      [] OTHER -> Unbounded

SetIn(layers, dimension) == {layer \in layers : SetBy(layer, dimension)}

LeastOf(layers, dimension) == Min({BroughtBy(layer, dimension) : layer \in layers})

\* However many layers contain a route, and in whatever order their edges are
\* resolved, a budget ends up at the least value any of them set explicitly,
\* or at the least default when none of them set it: no default narrows an
\* explicit choice, and no explicit choice is widened.
IntentDecides ==
    \A dimension \in RouteDimensions :
       LET set == SetIn(ChainOf(dimension), dimension)
       IN  RouteBudgets(dimension).value =
              LeastOf(IF set # {} THEN set ELSE ChainOf(dimension), dimension)

\* The two bounds that always apply: no request body limit exceeds the hard
\* cap, whatever the routers asked for, and a contained server never drains
\* past its runtime's deadline, defaulted or not.
CapsAlwaysApply ==
    /\ ResolvedCeiling.value <= ServerBound("cap").value
    /\ pcContained => ServerBound("shutdown").value <= BroughtBy("runtime", "shutdown")
    /\ SetBy("server", "shutdown") => ServerBound("shutdown").value <= pcConf["server"]["shutdown"]
    /\ ResolvedCeiling.value =
          Min({ServerBound("cap").value} \cup
              (LET set == SetIn(InChain \cap {"host", "router"}, "body")
               IN  IF set # {} THEN {LeastOf(set, "body")} ELSE {DefaultBody}))

\* The layers a report names are the ones at whose value the bound stands:
\* every named layer brought exactly that value, every layer that set exactly
\* that value is named, and a finite bound names at least one.
SourcesHonest ==
    \A dimension \in RouteDimensions :
       LET effective_bound == RouteBudgets(dimension)
       IN  /\ \A source \in effective_bound.sources : BroughtBy(source[1], dimension) = effective_bound.value
           /\ \A layer \in SetIn(ChainOf(dimension), dimension) :
                 pcConf[layer][dimension] = effective_bound.value => <<layer, FALSE>> \in effective_bound.sources
           /\ effective_bound.value < Unbounded => effective_bound.sources # {}

\* The report states what requests are held to: the body limit a route reports
\* is the number its admission reads, and the transfer bounds it reports are
\* the ones the narrow transfer owner enforces.
ReportIsEnforced ==
    /\ registration_body_bound.value = registration_ceiling
    /\ \A dimension \in {"upload", "download"} : ReportedBudgets(dimension).value = EnforcedTransfer(dimension)

Containing(layer) ==
    CASE layer = "runtime" -> {}
      [] layer = "server" -> {"runtime"}
      [] layer = "host" -> {"runtime", "server"}
      [] layer = "router" -> {"runtime", "server", "host"}
      [] OTHER -> {"runtime", "server", "host", "router"}

\* The operator is told of every narrowing and of nothing else: a diagnostic
\* says that a bound is lower than an explicit setting and names a layer other
\* than the one that set it, and a budget has one at exactly the layers whose
\* setting an explicit value of a containing layer undercut.
DiagnosticsExact ==
    /\ \A said \in Diagnostics :
          /\ said.effective < said.configured
          /\ \E source \in said.sources : source[1] # said.layer
    /\ \A dimension \in RouteDimensions :
          {said.layer : said \in {any \in Diagnostics : any.dimension = dimension}}
             = {layer \in SetIn(ChainOf(dimension), dimension) :
                   \E outer \in SetIn(Containing(layer) \cap InChain, dimension) :
                      pcConf[outer][dimension] < pcConf[layer][dimension]}

\* What a serving server resolved and reports (EffectiveServerPolicy, PolicyReport).
PoliciesSound ==
    pcServing => IntentDecides /\ CapsAlwaysApply /\ SourcesHonest /\ ReportIsEnforced /\ DiagnosticsExact
=============================================================================
