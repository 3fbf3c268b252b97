------------------------------ MODULE Recorder ------------------------------
(***************************************************************************)
(* The recorder: a proxy whose handlers run concurrently, keep what passed *)
(* through them under one mutex, and answer the client; Ctrl+C drains it   *)
(* for two seconds; what it kept becomes a scenario.                       *)
(*                                                                         *)
(* The browsing is a set of requests                                       *)
(*   [kind, method, host, path, operation, carries, secret, reply]         *)
(* path is a sequence of segments, operation the GraphQL operation or "",  *)
(* secret where it has a literal credential ("none", "header", "field"),   *)
(* and carries the other values it has, each [value, where]: "query" as    *)
(* written in the query, "encoded" percent-encoded in it, "text" in the    *)
(* body or a header, "number" bare in the body, "secret" inside the longer *)
(* text of that credential.  reply is the values of the answer, cookies    *)
(* first, each [name, value, long]: a cookie counts as long, and of the    *)
(* rest only a text of some length among the first of its list, which can  *)
(* be told from chance.  kind is "page", "static", "telemetry", "options", *)
(* "ignored", "connect" or "direct", which is no proxy request.  No value  *)
(* is part of another.  The client sends a request once it has been given  *)
(* the values in it that some answer carries.                              *)
(***************************************************************************)
EXTENDS Gate

CONSTANTS
    Identifiers,    \* the segments that look like an identifier
    Versions,       \* the segments that look like a version
    Sanitize(_)     \* sanitize: lower case, letters, digits and inner underscores

VARIABLES
    traffic,        \* the requests of the session, by name
    onlyHosts,      \* the -host option
    allowed,        \* recorder.allowed, adopted from the first request without -host
    entries,        \* recorder.entries: names of requests, in the order recorded
    dropped,        \* recorder.dropped, a count by reason
    tunneled,       \* recorder.tunneled, a count
    serving,        \* "down", "open", "draining", "closed"
    handlers,       \* where the handler of each request is
    learned         \* what the client was given

recorderVars == <<traffic, onlyHosts, allowed, entries, dropped, tunneled, serving, handlers, learned>>

Reasons == {"noAnswer", "outside", "options", "telemetry", "static", "ignored"}

Values(request) == {request.reply[i].value : i \in DOMAIN request.reply}

\* The value is in the request, in that place.
Carries(request, value, where) == [value |-> value, where |-> where] \in request.carries

\* A whole segment, a whole item of the query once decoded, any part of the rest.
Uses(request, value) ==
    value \in ToSet(request.path) \/ \E c \in request.carries : c.value = value

Served(session) == UNION {Values(session[q]) : q \in DOMAIN session}

RecorderInit(session, hosts) ==
    /\ traffic = session /\ onlyHosts = hosts /\ allowed = hosts
    /\ entries = <<>> /\ dropped = [r \in Reasons |-> 0] /\ tunneled = 0
    /\ serving = "down"
    /\ handlers = [q \in DOMAIN session |-> "unsent"] /\ learned = {}

(***************************************************************************)
(* The handlers.                                                           *)
(***************************************************************************)
\* What is outside, a preflight, telemetry, an asset or was asked to be left out is noise.
ClassifyRequest(request, hosts) ==
    CASE request.host \notin hosts -> "outside"
      [] request.host \in hosts /\ request.kind # "page" -> request.kind
      [] OTHER -> ""

ToProxy(q) ==
    /\ serving = "open" /\ handlers[q] = "unsent"
    /\ \A v \in Served(traffic) : Uses(traffic[q], v) => v \in learned

\* Counted before the dial, whatever the dial gives.
Tunnel(q) ==
    /\ ToProxy(q) /\ traffic[q].kind = "connect"
    /\ tunneled' = tunneled + 1
    /\ handlers' = [handlers EXCEPT ![q] = "tunneled"]
    /\ UNCHANGED <<traffic, onlyHosts, allowed, entries, dropped, serving, learned>>

\* A request with no host was not sent to a proxy; the others go on to the target.
Handle(q) ==
    /\ ToProxy(q) /\ traffic[q].kind # "connect"
    /\ handlers' = [handlers EXCEPT ![q] = IF traffic[q].kind = "direct" THEN "refused" ELSE "asking"]
    /\ UNCHANGED <<traffic, onlyHosts, allowed, entries, dropped, tunneled, serving, learned>>

RoundTripFails_Uncounted(q) ==
    /\ handlers[q] = "asking"
    /\ handlers' = [handlers EXCEPT ![q] = "failed"]
    /\ UNCHANGED <<traffic, onlyHosts, allowed, entries, dropped, tunneled, serving, learned>>

\* 502, and the omission is counted.
RoundTripFails(q) ==
    /\ handlers[q] = "asking"
    /\ handlers' = [handlers EXCEPT ![q] = "failed"]
    /\ dropped' = [dropped EXCEPT !["noAnswer"] = @ + 1]
    /\ UNCHANGED <<traffic, onlyHosts, allowed, entries, tunneled, serving, learned>>

\* record, under the mutex: the first host recorded becomes the only one.
Record(q) ==
    LET hosts == IF allowed = {} THEN {traffic[q].host} ELSE allowed
        reason == ClassifyRequest(traffic[q], hosts)
    IN /\ handlers[q] = "asking"
       /\ allowed' = hosts
       /\ entries' = IF reason = "" THEN Append(entries, q) ELSE entries
       /\ dropped' = IF reason = "" THEN dropped ELSE [dropped EXCEPT ![reason] = @ + 1]
       /\ handlers' = [handlers EXCEPT ![q] = "recorded"]
       /\ UNCHANGED <<traffic, onlyHosts, tunneled, serving, learned>>

\* Only now does the client see the answer, so what it sends with a value of it is
\* recorded after it.
Answer(q) ==
    /\ handlers[q] = "recorded"
    /\ handlers' = [handlers EXCEPT ![q] = "answered"]
    /\ learned' = learned \cup Values(traffic[q])
    /\ UNCHANGED <<traffic, onlyHosts, allowed, entries, dropped, tunneled, serving>>

InFlight == {q \in DOMAIN handlers : handlers[q] \in {"asking", "recorded"}}

HandlerStep ==
    \E q \in DOMAIN traffic :
        Tunnel(q) \/ Handle(q) \/ RoundTripFails(q) \/ Record(q) \/ Answer(q)

(***************************************************************************)
(* Serve.                                                                  *)
(***************************************************************************)
Listen ==
    /\ serving = "down" /\ serving' = "open"
    /\ UNCHANGED <<traffic, onlyHosts, allowed, entries, dropped, tunneled, handlers, learned>>

\* Ctrl+C: Shutdown takes no new request.
Interrupt ==
    /\ serving = "open" /\ serving' = "draining"
    /\ UNCHANGED <<traffic, onlyHosts, allowed, entries, dropped, tunneled, handlers, learned>>

\* It returns when the last handler does, or after two seconds with some still at work.
Shutdown(expired) ==
    /\ serving = "draining" /\ (expired \/ InFlight = {})
    /\ serving' = "closed"
    /\ UNCHANGED <<traffic, onlyHosts, allowed, entries, dropped, tunneled, handlers, learned>>

(***************************************************************************)
(* Build: the entries become groups, and the groups steps.                 *)
(***************************************************************************)
\* The name of a route: its method and its segments, identifiers and versions left out.
Resource(path) ==
    LET words == SelectSeq(path, LAMBDA s : s \notin Identifiers \cup Versions)
    IN IF words = <<>> THEN "raiz"
       ELSE FoldLeft(LAMBDA name, s : name \o " " \o s, Head(words), Tail(words))

\* Every operation of a GraphQL service has one address, so the operation is the route.
Subject(request) == IF request.operation # "" THEN request.operation ELSE Resource(request.path)
Route(request) ==
    (IF request.operation # "" THEN "graphql" ELSE request.method) \o " " \o Subject(request)

\* The requests that are the first of their route, by their place among the recorded.
Firsts(recorded) ==
    {i \in DOMAIN recorded : \A j \in 1 .. i - 1 : Route(recorded[j]) # Route(recorded[i])}

NthOf(places, n) == CHOOSE i \in places : Cardinality({j \in places : j <= i}) = n

\* Groups in the order their first request was recorded: that one, and all of the route.
GroupByRoute(recorded) ==
    [g \in 1 .. Cardinality(Firsts(recorded)) |->
        LET first == recorded[NthOf(Firsts(recorded), g)]
        IN [first |-> first,
            requests |-> {recorded[i] : i \in {j \in DOMAIN recorded : Route(recorded[j]) = Route(first)}}]]

VariableName_Leaf(name, subject, captures) == name

Qualified(subject, name) == Sanitize(subject) \o "_" \o name

\* What is left of the name of a leaf.
Plain(name) == IF Sanitize(name) = "" THEN "value" ELSE Sanitize(name)

\* The name of the leaf, or one that says where it came from when that is taken.
VariableName(name, subject, captures) ==
    IF \E i \in DOMAIN captures : captures[i].variable = name THEN Qualified(subject, name) ELSE name

\* Every value of every first answer, in order.
Offers(groups) ==
    FlattenSeq([g \in DOMAIN groups |->
        [i \in DOMAIN groups[g].first.reply |-> [step |-> g, candidate |-> groups[g].first.reply[i]]]])

Consumers(groups, offer) ==
    {g \in DOMAIN groups : g > offer.step /\ Uses(groups[g].first, offer.candidate.value)}

\* A value is captured where it first shows up, if the first request of a later group uses it.
Claim(groups, captures, offer) ==
    IF \/ ~offer.candidate.long \/ Consumers(groups, offer) = {}
       \/ \E i \in DOMAIN captures : captures[i].value = offer.candidate.value
    THEN captures
    ELSE Append(captures,
         [step |-> offer.step, value |-> offer.candidate.value, leaf |-> Plain(offer.candidate.name),
          variable |-> VariableName(Plain(offer.candidate.name), Subject(groups[offer.step].first), captures)])

Correlate(groups) ==
    LET offers == Offers(groups)
        claimed[n \in 0 .. Len(offers)] ==
            IF n = 0 THEN <<>> ELSE Claim(groups, claimed[n - 1], offers[n])
    IN claimed[Len(offers)]

\* The substitutions of a group, and the variable that stands for a value in it.
Substitutions(groups, captures, g) ==
    {captures[i] : i \in {j \in DOMAIN captures :
        captures[j].step < g /\ Uses(groups[g].first, captures[j].value)}}

Correlated(substitutions, value) == \E s \in substitutions : s.value = value

VariableOf(substitutions, value) == (CHOOSE s \in substitutions : s.value = value).variable

Braced(name) == "${" \o name \o "}"

\* The source of a segment is named after the last before it that looks like no
\* identifier, as it reads by then: a reference in its place is short or long too.
ParameterName(before) ==
    LET named == {b \in DOMAIN before : before[b] \notin Identifiers}
    IN IF named = {} THEN "id" ELSE Sanitize(before[Max(named)]) \o "_id"

TemplateSegment(before, segment, substitutions) ==
    IF Correlated(substitutions, segment) THEN Braced(VariableOf(substitutions, segment))
    ELSE IF segment \in Identifiers THEN Braced(ParameterName(before) \o ".value") ELSE segment

Templated(path, substitutions) ==
    LET upTo[n \in 0 .. Len(path)] ==
            IF n = 0 THEN <<>>
            ELSE Append(upTo[n - 1], TemplateSegment(upTo[n - 1], path[n], substitutions))
    IN upTo[Len(path)]

\* The segments of a path that become data, as [name, values]: an identifier no answer
\* gave, with what the other requests of the group had in its place.
TemplatePath(group, substitutions) ==
    LET path == group.first.path IN
    {[name |-> ParameterName(SubSeq(Templated(path, substitutions), 1, i - 1)),
      values |-> {e.path[i] : e \in {r \in group.requests : i \in DOMAIN r.path}}] :
        i \in {j \in DOMAIN path : path[j] \in Identifiers /\ ~Correlated(substitutions, path[j])}}

\* The call is read again once its values are replaced, and a reference in the place of
\* a bare number is no JSON: the step then stays the http one it was.
AsGraphQL(request, substitutions) ==
    /\ request.operation # ""
    /\ ~\E s \in substitutions : Carries(request, s.value, "number")

(***************************************************************************)
(* RenderYAML: the scenario the groups become.                             *)
(***************************************************************************)
Reference(name, source, block, step, field) ==
    [name |-> name, source |-> source, env |-> FALSE, fallback |-> FALSE, raw |-> FALSE,
     block |-> block, step |-> step, field |-> field]

\* A literal credential is swapped whole for a variable read from the environment, except
\* in a GraphQL body, which was moved out of the body by then.
Masked(request, graphql) ==
    \/ request.secret = "header"
    \/ request.secret = "field" /\ ~graphql

StepKey(request, graphql) ==
    IF graphql THEN Route(request) ELSE request.method \o " " \o Subject(request)

RenderStep(groups, captures, g) ==
    LET own == {captures[i] : i \in {j \in DOMAIN captures : captures[j].step = g}}
        graphql == AsGraphQL(groups[g].first, Substitutions(groups, captures, g))
        protocol == IF graphql THEN "graphql" ELSE "http"
        key == StepKey(groups[g].first, graphql)
    IN [kind |-> "map",
        keys |-> {protocol, "expect"} \cup (IF own = {} THEN {} ELSE {"capture"})
                 \cup (IF graphql THEN {} ELSE {"name"}),
        node |-> [kind |-> "map", bad |-> {}, source |-> "",
                  keys |-> IF graphql THEN {"query", "variables"} ELSE {"method", "path", "body"}],
        name |-> key, derived |-> key, weight |-> 0,
        captures |-> {[variable |-> c.variable, kind |-> "scalar", keys |-> {}, bad |-> {},
                       from |-> "json"] : c \in own},
        expect |-> [kind |-> "map", keys |-> {"status"}, bad |-> {}], address |-> ""]

\* Where a value of the request becomes a reference.  A GraphQL step has the path it was
\* recorded with and no query, a percent-encoded item does not read like the value, and
\* what is inside a masked credential went with it.
ReplacedIn(request, graphql, value) ==
    (IF ~graphql /\ (value \in ToSet(request.path) \/ Carries(request, value, "query"))
     THEN {"path"} ELSE {})
    \cup
    (IF \/ Carries(request, value, "text") \/ Carries(request, value, "number")
        \/ Carries(request, value, "secret") /\ ~Masked(request, graphql)
     THEN {IF graphql THEN "variables" ELSE "body"} ELSE {})

StepReferences(groups, captures, g) ==
    LET request == groups[g].first
        substitutions == Substitutions(groups, captures, g)
        graphql == AsGraphQL(request, substitutions)
    IN (UNION {{Reference(s.variable, "", "step", g, field) : field \in ReplacedIn(request, graphql, s.value)} :
                s \in substitutions})
       \cup (IF graphql THEN {}
             ELSE {Reference("value", p.name, "step", g, "path") : p \in TemplatePath(groups[g], substitutions)})
       \cup (IF Masked(request, graphql) THEN {Reference("token", "", "step", g, "headers")} ELSE {})

RenderReferences(groups, captures) == UNION {StepReferences(groups, captures, g) : g \in DOMAIN groups}

\* The starting guess: a ramp, a plateau and one rule per step.
RenderLoad ==
    [kind |-> "map", keys |-> {"profiles"}, bad |-> {}, model |-> "", users |-> 0, duration |-> 0,
     think |-> 0, profiles |-> <<
        [kind |-> "map", bad |-> {}, profile |-> "ramp", keys |-> {"from", "to", "duration"},
         from |-> [number |-> 1, unit |-> "/s"], to |-> [number |-> 20, unit |-> "/s"], duration |-> 30],
        [kind |-> "map", bad |-> {}, profile |-> "steady", keys |-> {"rate", "duration"},
         from |-> [number |-> 0, unit |-> ""], to |-> [number |-> 20, unit |-> "/s"], duration |-> 60]>>]

RenderSLO(groups, captures) ==
    [i \in 1 .. Len(groups) + 1 |->
       [target |-> IF i > Len(groups) THEN "global"
                   ELSE StepKey(groups[i].first, AsGraphQL(groups[i].first, Substitutions(groups, captures, i))),
        metric |-> IF i > Len(groups) THEN "errors" ELSE "p95", operator |-> "<",
        limit |-> IF i > Len(groups) THEN 1 ELSE 500, readable |-> TRUE, quoted |-> FALSE]]

\* A credential that stays in a GraphQL body is literal unless a value inside it was
\* replaced.  blank stands for the sections that are not written: their keys are absent.
RenderYAML(groups, captures, blank) ==
    LET Subs(g) == Substitutions(groups, captures, g)
        GraphQL(g) == AsGraphQL(groups[g].first, Subs(g))
        masked == \E g \in DOMAIN groups : Masked(groups[g].first, GraphQL(g))
        parameters == UNION {TemplatePath(groups[g], Subs(g)) : g \in DOMAIN groups}
        left == {g \in DOMAIN groups :
                    /\ groups[g].first.secret = "field" /\ GraphQL(g)
                    /\ ~\E s \in Subs(g) : Carries(groups[g].first, s.value, "secret")}
        environment == [name |-> "TOKEN", source |-> "", env |-> TRUE, fallback |-> FALSE, raw |-> FALSE,
                        block |-> "variables", step |-> 0, field |-> "token"]
    IN [blank EXCEPT
          !.keys = {"name", "target", "load", "scenario", "slo"}
                   \cup (IF masked THEN {"variables"} ELSE {}) \cup (IF parameters = {} THEN {} ELSE {"data"}),
          !.vars = IF masked THEN {"token"} ELSE {},
          !.secrets = {[block |-> "step", text |-> "literal"] : g \in left},
          !.load = RenderLoad,
          !.steps = [g \in DOMAIN groups |-> RenderStep(groups, captures, g)],
          !.data = [n \in {p.name : p \in parameters} |->
                      [kind |-> "map", keys |-> {"file", "consume"}, bad |-> {}, seed |-> "", seedVar |-> "",
                       fields |-> <<>>, columns |-> {"value"}]],
          !.slo = RenderSLO(groups, captures),
          !.refs = RenderReferences(groups, captures) \cup (IF masked THEN {environment} ELSE {})]
=============================================================================
