------------------------------ MODULE Routing -------------------------------
(***************************************************************************)
(* How a request finds its handler (http/trie.rs, router.rs, host_router.rs *)
(* and the start-up check of server.rs).  Routes are registered one by one *)
(* and by prefix, on routers that a host router names; the server freezes  *)
(* them when it starts, after which every request is looked up in the same *)
(* tries.  A written path is the sequence of texts between its slashes,    *)
(* empty ones included.  PUT, PATCH, DELETE and OPTIONS are treated as     *)
(* POST is and left out.                                                   *)
(***************************************************************************)
EXTENDS Naturals, Sequences, SequencesExt

CONSTANTS
  Params, Wildcards,     \* the texts that begin with `:`, and with `*`
  RoutePatterns,         \* the written patterns of a run
  RoutePrefixes,         \* the written prefixes of a run
  RequestPaths,          \* the written request paths of a run
  HealthPath,            \* the health route, as one internal path
  RouteLimit,            \* a mount or a route is added below this many
  HostLimit,             \* how many hosts a run adds
  PathSegmentLimit       \* PATH_SEGMENT_LIMIT

VARIABLES
  rtLog,       \* the registrations, in order
  rtTries,     \* per router and node: the registrations it holds, in order
  rtMode,      \* Routes: "single", or "host" for a host router of two
  rtHosts,     \* the host router's names and routers, in order of `add`
  rtDefault,   \* its default router, 0 for none
  rtServing    \* "building", "refused" at start-up, or "serving"

rtVars == <<rtLog, rtTries, rtMode, rtHosts, rtDefault, rtServing>>

CANONICAL_METHODS == <<"GET", "HEAD", "POST">>
RouteMethods == ToSet(CANONICAL_METHODS)

-----------------------------------------------------------------------------
(* Patterns and the mutable trie. *)

Written(texts) == SelectSeq(texts, LAMBDA t : t # "")

\* parse_segments: a segment is static, a parameter or a wildcard, and an
\* empty one is none.  One label per kind of child a node can have.
SegmentLabel(t) == IF t \in Params THEN ":" ELSE IF t \in Wildcards THEN "*" ELSE t
parse_segments(pattern) ==
  LET w == Written(pattern) IN [i \in DOMAIN w |-> SegmentLabel(w[i])]

\* The names a registration keeps beside its handler, in the pattern's order.
CaptureNames(pattern) == SelectSeq(Written(pattern), LAMBDA t : t \in Params \cup Wildcards)

\* insert_segments: the node a pattern ends at.  The parameters of one node
\* share one child whatever they are called, and a wildcard ends the walk.
NodeOf(pattern) ==
  LET labels == parse_segments(pattern)
      wild == {i \in DOMAIN labels : labels[i] = "*"}
  IN IF wild = {} THEN labels
     ELSE SubSeq(labels, 1, CHOOSE i \in wild : \A j \in wild : i <= j)

Held(trie, node) == IF node \in DOMAIN trie THEN trie[node] ELSE <<>>
insert_route(trie, route) ==
  LET node == NodeOf(route.pattern)
  IN [n \in DOMAIN trie \cup {node} |->
        IF n = node THEN Append(Held(trie, node), route) ELSE trie[n]]

\* claims_static: only static children are walked, and the node they lead to
\* has to hold a handler.
claims_static(trie, path) == Held(trie, Written(path)) # <<>>

-----------------------------------------------------------------------------
(* The frozen trie. *)

answers_head(kind) == kind # "multipart"

\* freeze_handlers: of two registrations of one method at one node, the later.
Slot(handlers, m) == Last(SelectSeq(handlers, LAMBDA h : h.method = m))
SlotTaken(handlers, m) == \E i \in DOMAIN handlers : handlers[i].method = m
head_from_get(handlers) == SlotTaken(handlers, "GET") /\ answers_head(Slot(handlers, "GET").kind)
slot_serves(handlers, m) == SlotTaken(handlers, m) \/ (m = "HEAD" /\ head_from_get(handlers))
select_slot(handlers, m) == IF SlotTaken(handlers, m) THEN Slot(handlers, m) ELSE Slot(handlers, "GET")

\* freeze_claim: the route a refusal at this node names, and what it serves.
FirstRegistered(handlers) ==
  SelectSeq(CANONICAL_METHODS, LAMBDA m : SlotTaken(handlers, m))[1]
freeze_claim(handlers) ==
  [route |-> Slot(handlers, FirstRegistered(handlers)),
   served |-> {m \in RouteMethods : slot_serves(handlers, m)}]

\* resolve: the nodes a path leads to, in the order they are offered: the
\* static child, the parameter and the wildcard of each node, depth first.
Walk(trie, segments) ==
  LET n == Len(segments)
      Under(i) == {k \in [1 .. i -> ToSet(segments) \cup {":"}] :
                     \A j \in 1 .. i : k[j] \in {segments[j], ":"}}
      visit[k \in UNION {Under(i) : i \in 0 .. n}] ==
        IF Len(k) = n THEN <<k>>
        ELSE visit[Append(k, segments[Len(k) + 1])]
             \o visit[Append(k, ":")] \o <<Append(k, "*")>>
  IN SelectSeq(visit[<<>>], LAMBDA k : Held(trie, k) # <<>>)

\* split_path_segments keeps where each segment stands, which wildcard_span
\* needs: the span keeps the separators between its segments.
SegmentsAt(path) == SelectSeq([i \in DOMAIN path |-> i], LAMBDA i : path[i] # "")
TooDeep(path) == Len(SegmentsAt(path)) > PathSegmentLimit
wildcard_span(path, from) ==
  LET at == SegmentsAt(path) IN SubSeq(path, at[from], at[Len(at)])

\* What resolve gathered on its way back from a node, the deepest first.
Unwound(path, node) ==
  LET at == SegmentsAt(path)
      captured == SelectSeq([i \in DOMAIN node |-> i], LAMBDA i : node[i] \in {":", "*"})
  IN Reverse([c \in DOMAIN captured |->
                IF node[captured[c]] = ":" THEN <<path[at[captured[c]]]>>
                ELSE wildcard_span(path, captured[c])])

Nothing == [found |-> "unmatched"]
select(trie, m, path) ==
  LET serving == SelectSeq(Walk(trie, Written(path)), LAMBDA k : slot_serves(Held(trie, k), m))
  IN IF serving = <<>> THEN Nothing
     ELSE [found |-> "matched", route |-> select_slot(Held(trie, serving[1]), m),
           captures |-> Reverse(Unwound(path, serving[1]))]

\* The names a handler finds its captures under: the two lists are zipped.
bind_params(found) ==
  LET names == CaptureNames(found.route.pattern)
  IN [i \in DOMAIN names \cap DOMAIN found.captures |-> <<names[i], found.captures[i]>>]

refuse_method(trie, path) ==
  LET nodes == Walk(trie, Written(path))
      claims == [i \in DOMAIN nodes |-> freeze_claim(Held(trie, nodes[i]))]
  IN IF claims = <<>> THEN Nothing
     ELSE [found |-> "mismatch", route |-> claims[1].route,
           allow |-> UNION {claims[i].served : i \in DOMAIN claims}]

\* A method outside the enum ("OTHER") selects nothing.
lookup(trie, m, path) ==
  IF TooDeep(path) THEN [found |-> "too deep"]
  ELSE LET s == IF m \in RouteMethods THEN select(trie, m, path) ELSE Nothing
       IN IF s # Nothing THEN s ELSE refuse_method(trie, path)

-----------------------------------------------------------------------------
(* Hosts.  An authority is a name, how it is bracketed and how its port is *)
(* written; `upper` says that the name is not in lower case.               *)

Authorities ==
  [name : {"", "a", "b", "other"}, bracket : {"none", "closed", "open"}, upper : BOOLEAN,
   port : {"absent", "number", "empty", "text", "two"}]

has_valid_authority_port(a) ==
  CASE a.bracket = "none" -> a.port = "absent" \/ (a.name # "" /\ a.port = "number")
    [] a.bracket = "closed" -> a.port \in {"absent", "number"}
    [] a.bracket = "open" -> FALSE
is_valid_host(a) == (a.bracket # "none" \/ a.name # "" \/ a.port # "absent") /\ has_valid_authority_port(a)

\* strip_host_port and lowercase_hostname: what is looked up.
strip_host_port(a) == [name |-> a.name, bracket |-> a.bracket, upper |-> a.upper]
lowercase_hostname(h) == [h EXCEPT !.upper = FALSE]

\* resolve_host: the routers that may answer.  A name added twice is found by
\* a binary search, at either place.
resolve_host(a) ==
  LET key == lowercase_hostname(strip_host_port(a))
      named == {i \in DOMAIN rtHosts : rtHosts[i].host = key}
  IN IF ~is_valid_host(a) THEN {"refused"}
     ELSE IF named # {} THEN {rtHosts[i].router : i \in named}
     ELSE {rtDefault} \ {0}

-----------------------------------------------------------------------------
(* Registration and start-up. *)

Routers == IF rtMode = "single" THEN {1} ELSE {1, 2}

RtInit ==
  /\ rtMode \in {"single", "host"}
  /\ rtLog = <<>> /\ rtHosts = <<>> /\ rtDefault = 0 /\ rtServing = "building"
  /\ rtTries = [r \in {1, 2} |-> [n \in {} |-> <<>>]]

\* A host router is built from routers that already have their routes.
Building ==
  /\ rtServing = "building" /\ rtHosts = <<>> /\ rtDefault = 0
  /\ Len(rtLog) < IF rtMode = "single" THEN RouteLimit ELSE 1

\* Router::add, add_stream, multipart and the rest: one method, one pattern.
add_route(r, m, p, kind) ==
  /\ Building
  /\ LET route == [router |-> r, method |-> m, pattern |-> p, kind |-> kind, at |-> Len(rtLog) + 1]
     IN /\ rtLog' = Append(rtLog, route)
        /\ rtTries' = [rtTries EXCEPT ![r] = insert_route(@, route)]
  /\ UNCHANGED <<rtMode, rtHosts, rtDefault, rtServing>>

\* PrefixPatterns::under: everything beneath a prefix, and the prefix itself.
PrefixPatterns(prefix) == <<prefix \o <<CHOOSE w \in Wildcards : TRUE>>, prefix>>

\* mount_prefix, once per method: mount_static claims GET, and
\* insert_proxy_routes every method.
mount(r, prefix, methods, kind) ==
  /\ Building
  /\ LET Mounted(m, k) == [router |-> r, method |-> methods[m], pattern |-> PrefixPatterns(prefix)[k],
                           kind |-> kind, at |-> Len(rtLog) + 2 * (m - 1) + k]
         routes == [i \in 1 .. 2 * Len(methods) |-> Mounted((i + 1) \div 2, 2 - (i % 2))]
     IN /\ rtLog' = rtLog \o routes
        /\ rtTries' = [rtTries EXCEPT ![r] = FoldLeft(insert_route, @, routes)]
  /\ UNCHANGED <<rtMode, rtHosts, rtDefault, rtServing>>

\* HostRouter::add, under a name in either case, and set_default.
add_host(name, upper, r) ==
  /\ rtServing = "building" /\ rtMode = "host" /\ Len(rtHosts) < HostLimit
  /\ rtHosts' = Append(rtHosts,
       [host |-> lowercase_hostname([name |-> name, bracket |-> "none", upper |-> upper]),
        router |-> r])
  /\ UNCHANGED <<rtLog, rtTries, rtMode, rtDefault, rtServing>>
set_default(r) ==
  /\ rtServing = "building" /\ rtMode = "host" /\ rtDefault' = r
  /\ UNCHANGED <<rtLog, rtTries, rtMode, rtHosts, rtServing>>

\* HttpServer: refuse_shadowed, then freeze.
start_routes ==
  /\ rtServing = "building"
  /\ rtServing' = IF \E r \in Routers : claims_static(rtTries[r], HealthPath)
                  THEN "refused" ELSE "serving"
  /\ UNCHANGED <<rtLog, rtTries, rtMode, rtHosts, rtDefault>>

RtNext ==
  \/ \E r \in Routers, p \in RoutePatterns :
       \/ \E m \in RouteMethods : add_route(r, m, p, "async")
       \/ add_route(r, "POST", p, "multipart")
       \/ add_route(r, "GET", p, "multipart")
  \/ \E r \in Routers, p \in RoutePrefixes :
       mount(r, p, <<"GET">>, "static") \/ mount(r, p, CANONICAL_METHODS, "proxy")
  \/ \E r \in Routers, n \in {"a", "b"}, u \in BOOLEAN : add_host(n, u, r)
  \/ \E r \in Routers : set_default(r)
  \/ start_routes
  \/ rtServing # "building" /\ UNCHANGED rtVars

RtSpec == RtInit /\ [][RtNext]_rtVars

-----------------------------------------------------------------------------
(* What a peer may conclude, said of the registrations alone.              *)

\* The pattern, up to its wildcard, beside the segments of the path.
Matches(route, path) ==
  LET w == Written(route.pattern)
      s == Written(path)
      wild == {i \in DOMAIN w : w[i] \in Wildcards}
      n == IF wild = {} THEN Len(w) ELSE (CHOOSE i \in wild : \A j \in wild : i <= j)
  IN /\ IF wild = {} THEN Len(s) = n ELSE Len(s) >= n
     /\ \A i \in 1 .. n : w[i] \in Params \cup Wildcards \/ w[i] = s[i]

Closeness(t) == IF t \in Wildcards THEN 3 ELSE IF t \in Params THEN 2 ELSE 1
Closer(p, q) ==
  LET v == Written(p)
      w == Written(q)
  IN \E i \in DOMAIN v \cap DOMAIN w :
       /\ Closeness(v[i]) < Closeness(w[i])
       /\ \A j \in 1 .. i - 1 : Closeness(v[j]) = Closeness(w[j])

AnswersMethod(route, m) ==
  route.method = m \/ (m = "HEAD" /\ route.method = "GET" /\ route.kind # "multipart")

\* Among the routes of a router that match a path: none nearer, and none at
\* the same place registered later or for the method itself.
Nearest(r, m, path) ==
  LET fit == {i \in DOMAIN rtLog : rtLog[i].router = r /\ Matches(rtLog[i], path)}
      Level(i, j) == ~Closer(rtLog[i].pattern, rtLog[j].pattern) /\ ~Closer(rtLog[j].pattern, rtLog[i].pattern)
      standing == {i \in fit : \A j \in fit : j > i /\ Level(i, j) => rtLog[j].method # rtLog[i].method}
      able == {i \in standing : AnswersMethod(rtLog[i], m)}
  IN {i \in able : \A j \in able \ {i} :
        Closer(rtLog[i].pattern, rtLog[j].pattern) \/ (Level(i, j) /\ rtLog[i].method = m)}

\* What each parameter and wildcard of a pattern stands for in a path.
Bound(route, path) ==
  LET w == Written(route.pattern)
      at == SegmentsAt(path)
      names == SelectSeq([i \in DOMAIN w |-> i], LAMBDA i : w[i] \in Params \cup Wildcards)
  IN [n \in DOMAIN names |->
        <<w[names[n]],
          SubSeq(path, at[names[n]], IF w[names[n]] \in Params THEN at[names[n]] ELSE at[Len(at)])>>]

\* A request is answered by the nearest registered route that answers its
\* method, the later of two at one place, with each of its names bound to its
\* own segment (TrieNode::select).
NearestRouteAnswers ==
  rtServing = "serving" =>
    \A r \in Routers, m \in RouteMethods, path \in RequestPaths :
      LET found == lookup(rtTries[r], m, path)
          nearest == Nearest(r, m, path)
      IN ~TooDeep(path) =>
           IF nearest = {} THEN found.found # "matched"
           ELSE /\ found.found = "matched" /\ nearest = {found.route.at}
                /\ bind_params(found) = Bound(found.route, path)

\* A refusal is one the peer cannot disprove: `Allow` names exactly the
\* methods the same path is answered for, the route it names is the one a
\* request for some allowed method would reach, and a path is unmatched only
\* where no registered pattern matches it (TrieNode::refuse_method).
AllowedExactly ==
  rtServing = "serving" =>
    \A r \in Routers, m \in RouteMethods \cup {"OTHER"}, path \in RequestPaths :
      LET found == lookup(rtTries[r], m, path)
          Said(n) == lookup(rtTries[r], n, path)
      IN CASE found.found = "mismatch" ->
                /\ found.allow # {} /\ m \notin found.allow
                /\ found.allow = {n \in RouteMethods : Said(n).found = "matched"}
                /\ \E n \in found.allow : Said(n).route = found.route
           [] found.found = "unmatched" ->
                \A i \in DOMAIN rtLog : rtLog[i].router = r => ~Matches(rtLog[i], path)
           [] OTHER -> TRUE

\* A server that started serves every static route it was given: none is
\* hidden behind the health route, on whichever host it was registered
\* (refuse_shadowed).
NoRouteShadowed ==
  rtServing = "serving" => \A i \in DOMAIN rtLog : rtLog[i].pattern # HealthPath

\* Which router answers does not depend on how the authority is written: a
\* name in another case, or with its port, reaches the routers added under it,
\* and the default one answers for the names nobody added (claiming_router).
HostsByName ==
  rtServing = "serving" =>
    \A a \in Authorities :
      is_valid_host(a) /\ a.bracket = "none" =>
        LET added == {i \in DOMAIN rtHosts : rtHosts[i].host.name = a.name}
        IN IF added = {} THEN resolve_host(a) = {rtDefault} \ {0}
           ELSE resolve_host(a) = {rtHosts[i].router : i \in added}

\* What a serving router answers (FrozenNode::lookup, HostRouter).
RoutingSound == NearestRouteAnswers /\ AllowedExactly /\ NoRouteShadowed /\ HostsByName
=============================================================================
