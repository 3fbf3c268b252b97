------------------------------ MODULE Scenario ------------------------------
(***************************************************************************)
(* The scenario file: what Parse and Validate accept, what a reference in  *)
(* it becomes, the order of a mix and the migration of the old format.     *)
(* Only operators: Command reads, runs and rewrites files with them.       *)
(*                                                                         *)
(* A YAML node is [kind, keys, bad]: "map", "list" or "scalar", the keys   *)
(* of a map, and those whose value its reader refuses (not a number, not a *)
(* duration, not one of the listed words).  A reference ${name} is         *)
(*   [name, source, env, fallback, raw, block, step, field]                *)
(* source is the data source of a dotted name ("" for a plain one), env    *)
(* that the name is in capitals, fallback that it was written              *)
(* ${NAME:-value}, raw that its key keeps its raw text (a credential or    *)
(* the seed), block the part of the file it is in, step its step (0 for    *)
(* the login), and field the field, or the variable it defines.            *)
(***************************************************************************)
EXTENDS Steps, SequencesExt, Integers

Known(n, keys) == n.kind = "map" /\ KnownKeys(n, keys)

(***************************************************************************)
(* Load.  A rate is [number, unit]; times are in seconds.                  *)
(***************************************************************************)
Closed(load) == "model" \in load.keys /\ load.model = "closed"

\* A rate needs its unit: a bare number used to be read as per second.
ReadRate(rate) == rate.unit \in {"/s", "/m", "/h"} /\ rate.number > 0

PerHour(rate) ==
    rate.number * (CASE rate.unit = "/s" -> 3600 [] rate.unit = "/m" -> 60 [] OTHER -> 1)

From(phase) == IF "from" \in phase.keys THEN PerHour(phase.from) ELSE 0
To(phase) == IF {"to", "rate"} \intersect phase.keys # {} THEN PerHour(phase.to) ELSE 0

ReadPhase(phase) ==
    /\ phase.profile \in {"ramp", "steady", "spike"}
    /\ Known(phase, {"from", "to", "rate", "duration"})
    /\ "from" \in phase.keys => ReadRate(phase.from)
    /\ {"to", "rate"} \intersect phase.keys # {} => ReadRate(phase.to)
    /\ phase.profile = "ramp" => From(phase) # 0 \/ To(phase) # 0

Phases(load) == IF "profiles" \in load.keys THEN load.profiles ELSE <<>>

ReadOpenLoad(load) ==
    /\ {"users", "duration", "thinkTime"} \intersect load.keys = {}
    /\ \A i \in DOMAIN Phases(load) : ReadPhase(load.profiles[i])

ReadClosedLoad(load) ==
    /\ "profiles" \notin load.keys
    /\ {"users", "duration"} \subseteq load.keys
    /\ load.users > 0 /\ load.duration > 0
    /\ "thinkTime" \in load.keys => load.think >= 0

ReadLoad(load) ==
    /\ Known(load, {"model", "profiles", "users", "duration", "thinkTime"})
    /\ "model" \in load.keys => load.model \in {"open", "closed"}
    /\ IF Closed(load) THEN ReadClosedLoad(load) ELSE ReadOpenLoad(load)

\* The arrivals of a phase: the area under its line, from one rate to the other.
InitialRate(phase) == IF phase.profile = "ramp" THEN From(phase) ELSE To(phase)
PhaseTime(phase) == IF "duration" \in phase.keys THEN phase.duration ELSE 0
CountInPhase(phase) == (InitialRate(phase) + To(phase)) * PhaseTime(phase)

\* CompilePlan: the fractions of the phases add up before the total is rounded down.
TotalRequests(load) ==
    IF Closed(load) THEN 0
    ELSE FoldLeft(LAMBDA sum, phase : sum + CountInPhase(phase), 0, Phases(load)) \div 7200

(***************************************************************************)
(* Steps.                                                                  *)
(***************************************************************************)
Protocols == {"http", "graphql", "grpc", "websocket", "sse", "kafka", "amqp", "mqtt", "await"}

ParseCapture(expression) ==
    expression \in {"status", "body", "json", "header", "cookie", "regex"}

ReadFullCapture(c) ==
    KnownKeys(c, {"from", "default", "required"}) /\ "from" \in c.keys /\ ParseCapture(c.from)

ReadCaptures(captures) ==
    \A c \in captures : IF c.kind = "map" THEN ReadFullCapture(c) ELSE ParseCapture(c.from)

ReadAssertions(n) == Known(n, {"status", "bodyContains", "bodyMatches", "json", "header"})

\* Exactly one key of a step names a protocol, which decodes the rest; the words of
\* the old format are refused like any unknown one.
Protocol(step) == CHOOSE p \in step.keys \intersect Protocols : TRUE

ReadStep(step) ==
    /\ step.kind = "map"
    /\ step.keys \subseteq {"name", "expect", "capture", "weight"} \cup Protocols
    /\ Cardinality(step.keys \intersect Protocols) = 1
    /\ "expect" \in step.keys => ReadAssertions(step.expect)
    /\ "capture" \in step.keys => ReadCaptures(step.captures)
    /\ "weight" \in step.keys => step.weight > 0
    /\ Decode(Protocol(step), step.node)

Captured(step) == IF "capture" \in step.keys THEN {c.variable : c \in step.captures} ELSE {}
StepName(step) == IF "name" \in step.keys THEN step.name ELSE step.derived
Weight(step) == IF "weight" \in step.keys THEN step.weight ELSE 0

(***************************************************************************)
(* Authentication, data, rules and brokers.                                *)
(***************************************************************************)
AuthKind(auth) == IF "type" \in auth.keys THEN auth.type ELSE "token"

ReadAuth(auth) ==
    /\ Known(auth, {"type", "obtain", "refreshAfter", "header", "user", "password"})
    /\ AuthKind(auth) \in {"token", "basic", "header"}
    /\ "obtain" \in auth.keys => ReadStep(auth.obtain)
    /\ AuthKind(auth) = "token" => "obtain" \in auth.keys
    /\ AuthKind(auth) = "basic" => {"user", "password"} \subseteq auth.keys

ReadGenerator(g) ==
    \/ g.kind # "map"
    \/ /\ KnownKeys(g, {"type", "format", "newEvery"})
       /\ "type" \in g.keys
       /\ g.type = "pattern" => "format" \in g.keys

\* The seed is read from its raw text, expanded in place; a missing variable leaves
\* nothing, which is no whole number.
ReadSeed(source, defined) ==
    \/ source.seed = "number"
    \/ source.seed = "reference" /\ source.seedVar \in defined

Synthetic(source) == "file" \notin source.keys
Fields(source) == IF "generate" \in source.keys THEN DOMAIN source.fields ELSE {}

ReadData(sources, defined) ==
    \A name \in DOMAIN sources : LET source == sources[name] IN
        /\ Known(source, {"file", "generate", "consume", "seed"})
        /\ "seed" \in source.keys => ReadSeed(source, defined)
        /\ \A f \in Fields(source) : ReadGenerator(source.fields[f])
        /\ "file" \in source.keys \/ Fields(source) # {}

ScopeOf(target) == IF target \in {"global", "journey", "regression"} THEN target ELSE "step"

LatencyMetrics == {"p50", "p75", "p90", "p95", "p99", "p99.9", "max"}

IsRegressionMetric(metric) ==
    metric \in {"journeyP50", "journeyP75", "journeyP90", "journeyP95", "journeyP99",
                "journeyP99.9", "journeyMax", "globalP50", "globalP75", "globalP90",
                "globalP95", "globalP99", "globalP99.9", "globalMax"}

DescribeMetric(target, metric) ==
    CASE ScopeOf(target) = "regression" -> IsRegressionMetric(metric)
      [] ScopeOf(target) = "global" ->
            metric \in LatencyMetrics \cup {"errors", "success", "throughput"}
      [] ScopeOf(target) = "journey" -> metric \in LatencyMetrics
      [] OTHER -> metric \in LatencyMetrics \cup {"errors", "success"}

\* "success: 99" means at least, "errors: 1" means at most.
Operator(rule) ==
    CASE rule.operator # "" -> rule.operator
      [] rule.operator = "" /\ rule.metric \in {"success", "throughput"} -> ">="
      [] OTHER -> "<="

ReadSLO(rules) ==
    \A i \in DOMAIN rules :
        DescribeMetric(rules[i].target, rules[i].metric) /\ rules[i].readable

ReadBrokerTLS(tls) ==
    \/ tls.kind = "scalar" /\ tls.bad = {}               \* true or false
    \/ Known(tls, {"ca", "certificate", "key"})

\* Only ${VAR}: the fallback would be the secret written in the file.
RefuseLiteralSecret(text) == text # "reference"

ReadBrokerAuth(auth) ==
    /\ Known(auth, {"type", "user", "password", "region"})
    /\ "type" \in auth.keys
    /\ auth.type \in {"saslPlain", "scramSha256", "scramSha512", "mskIam", "certificate"}
    /\ "password" \in auth.keys => ~RefuseLiteralSecret(auth.password)

SupportsAMQP(auth) == auth.type \in {"saslPlain", "certificate"}

ReadBroker(technology, broker) ==
    /\ Known(broker, {"brokers", "addresses", "auth", "tls"})
    /\ "tls" \in broker.keys => ReadBrokerTLS(broker.tls)
    /\ "auth" \in broker.keys =>
         /\ ReadBrokerAuth(broker.auth)
         /\ broker.auth.type = "mskIam" => "region" \in broker.auth.keys
         /\ technology = "amqp" => SupportsAMQP(broker.auth)

ReadMessaging(messaging) ==
    /\ messaging.kind = "map"
    /\ messaging.keys \subseteq {"kafka", "amqp"}
    /\ \A t \in messaging.keys : ReadBroker(t, messaging.brokers[t])

ReadRequirements(n) == n.kind = "list" /\ n.keys \subseteq {"kafka", "amqp", "mqtt", "credential"}

(***************************************************************************)
(* References.  defined is what the process environment holds; session is  *)
(* what the interface injects into a run.                                  *)
(***************************************************************************)
StepsOf(doc) == IF "scenario" \in doc.keys THEN doc.steps ELSE <<>>
VarsOf(doc) == IF "variables" \in doc.keys THEN doc.vars ELSE {}
AuthOf(doc) == IF "auth" \in doc.keys THEN {doc.auth} ELSE {}
Logins(doc) == {a.obtain : a \in {b \in AuthOf(doc) : "obtain" \in b.keys}}
SourcesOf(doc) == IF "data" \in doc.keys THEN DOMAIN doc.data ELSE {}
RulesOf(doc) == IF "slo" \in doc.keys THEN doc.slo ELSE <<>>

\* expandEnvironment: capitals that are defined or have a fallback, before any field is
\* read; lower case waits for the iteration and a raw field for its own reader.
ExpandEnvironment(refs, defined) ==
    {r \in refs : ~(r.env /\ ~r.raw /\ (r.fallback \/ r.name \in defined))}

\* A dotted name is looked up whole, and no environment holds one.
InEnvironment(r, defined) == r.source = "" /\ r.name \in defined

References(doc, defined) == ExpandEnvironment(doc.refs, defined)

\* Neither the order of the steps nor the kind of authentication is looked at.
KnownVariables(doc) ==
    VarsOf(doc)
    \cup (UNION {Captured(StepsOf(doc)[i]) : i \in DOMAIN StepsOf(doc)})
    \cup (UNION {Captured(login) : login \in Logins(doc)})

ResolveFromSource(doc, r) ==
    /\ r.source \in SourcesOf(doc)
    /\ Synthetic(doc.data[r.source]) => r.name \in Fields(doc.data[r.source])

CheckReferences(doc, defined) ==
    \A r \in References(doc, defined) :
        \/ r.fallback \/ r.env \/ InEnvironment(r, defined)
        \/ r.source = "" /\ r.name \in KnownVariables(doc)
        \/ r.source # "" /\ ResolveFromSource(doc, r)

MissingEnvironment(doc, defined) ==
    {r.name : r \in {q \in References(doc, defined) :
                        q.env /\ ~q.fallback /\ q.name \notin defined}}

\* What a broker reads its user and password from is not a variable of the run.
BrokerCredentialNames(doc) ==
    {r.name : r \in {q \in doc.refs : q.block = "messaging" /\ q.field \in {"user", "password"}}}

\* The columns of a file are known once it is open; the login is not looked at.
CheckDataFields(doc, defined) ==
    \A r \in References(doc, defined) :
        r.source \in SourcesOf(doc) /\ r.step # 0 /\ ~Synthetic(doc.data[r.source])
            => r.name \in doc.data[r.source].columns

(***************************************************************************)
(* Credentials are swept before the expansion, while ${SECRET} and the     *)
(* secret are still different texts.  A secret is [block, text].           *)
(***************************************************************************)
WrittenSafely(text) == text \in {"empty", "reference", "capture"}

RefuseLiteralCredentials(doc) ==
    \E s \in doc.secrets : s.block \notin {"variables", "messaging"} /\ ~WrittenSafely(s.text)

RefuseLiteralVariable(doc) ==
    \E s \in doc.secrets : s.block = "variables" /\ s.text \notin {"empty", "reference"}

\* The value of a variable is expanded as the file is read: whatever it refers to and
\* the environment does not hold is gone from it.
BlankVars(doc, defined) ==
    {r.field : r \in {q \in doc.refs : q.block = "variables" /\ ~q.fallback /\ ~InEnvironment(q, defined)}}

(***************************************************************************)
(* Parse and Validate.                                                     *)
(***************************************************************************)
TopKeys == {"name", "target", "requires", "variables", "auth", "tls", "messaging", "data",
            "load", "scenario", "slo"}

\* What any text may be: the recipe of a generator, looked up when the source is opened,
\* and the text a field is compared with.
FreeText == {"recipe", "comparison"}

\* A word of the old format is unknown, and a number left as ${RATE} is no number.
Parse(doc, defined) ==
    /\ doc.form = "map"
    /\ ~RefuseLiteralCredentials(doc)
    /\ doc.keys \subseteq TopKeys
    /\ \A w \in doc.words : w.old => w.where \in FreeText
    /\ "variables" \in doc.keys => ~RefuseLiteralVariable(doc)
    /\ "load" \in doc.keys =>
         ReadLoad(doc.load) /\ \A r \in References(doc, defined) : r.block # "load"
    /\ \A i \in DOMAIN StepsOf(doc) : ReadStep(doc.steps[i])
    /\ \A a \in AuthOf(doc) : ReadAuth(a)
    /\ "data" \in doc.keys => ReadData(doc.data, defined)
    /\ "tls" \in doc.keys => ReadBrokerTLS(doc.tls)
    /\ "messaging" \in doc.keys => ReadMessaging(doc.messaging)
    /\ "requires" \in doc.keys => ReadRequirements(doc.requires)
    /\ ReadSLO(RulesOf(doc))
    /\ CheckReferences(doc, defined)

\* The target after interpolateKnown: "", "unresolved" or what was written.
Target(doc, defined) ==
    LET refs == {r \in References(doc, defined) : r.block = "target"}
        Of(r) == IF InEnvironment(r, BlankVars(doc, defined)) THEN ""
                 ELSE IF r.fallback \/ InEnvironment(r, VarsOf(doc) \cup defined) THEN doc.target
                 ELSE "unresolved"
    IN IF "target" \notin doc.keys THEN ""
       ELSE IF refs = {} THEN doc.target ELSE Of(CHOOSE r \in refs : TRUE)

ValidTarget(target) == target \in {"http", "broker"}

\* The technology a step's broker is of; a poll over http has none.
BrokerTechnology(step) ==
    CASE Protocol(step) \in {"kafka", "amqp"} -> Protocol(step)
      [] Protocol(step) = "await" /\ "http" \notin step.node.keys ->
            IF "kafka" \in step.node.keys THEN "kafka" ELSE "amqp"
      [] OTHER -> ""

\* The messaging block as a step of the technology sees it.
MessagingFor(doc, technology) ==
    IF "messaging" \in doc.keys /\ technology \in doc.messaging.keys
       /\ {"brokers", "addresses"} \intersect doc.messaging.brokers[technology].keys # {}
    THEN "given" ELSE "none"

CheckBrokers(doc, defined) ==
    \A i \in DOMAIN StepsOf(doc) : LET step == doc.steps[i] IN
        \/ BrokerTechnology(step) = ""
        \/ step.address # ""
        \/ MessagingFor(doc, BrokerTechnology(step)) = "given"
        \/ Target(doc, defined) \notin {"", "http"}

CheckSLOSteps(doc) ==
    \A i \in DOMAIN RulesOf(doc) :
        \/ ScopeOf(doc.slo[i].target) # "step"
        \/ \E j \in DOMAIN StepsOf(doc) : StepName(doc.steps[j]) = doc.slo[i].target

HasMix(doc) == \E i \in DOMAIN StepsOf(doc) : Weight(doc.steps[i]) > 0

\* A weight picks an alternative, so what one alternative captures another cannot use.
\* Of several steps that capture a name only the last is remembered.
ChainedCaptures(doc, defined) ==
    \E r \in References(doc, defined) :
        LET producers == {i \in DOMAIN StepsOf(doc) : r.name \in Captured(doc.steps[i])}
        IN r.block = "step" /\ r.source = "" /\ producers # {} /\ Max(producers) # r.step

CheckMix_OnlyWeights(doc, defined) ==
    HasMix(doc) => \A i \in DOMAIN StepsOf(doc) : Weight(doc.steps[i]) > 0

CheckMix(doc, defined) ==
    HasMix(doc) =>
        /\ \A i \in DOMAIN StepsOf(doc) : Weight(doc.steps[i]) > 0
        /\ ~ChainedCaptures(doc, defined)

Validate(doc, defined) ==
    /\ "name" \in doc.keys /\ doc.name # ""
    /\ ValidTarget(Target(doc, defined))
    /\ StepsOf(doc) # <<>>
    /\ "load" \in doc.keys /\ (~Closed(doc.load) => Phases(doc.load) # <<>>)
    /\ \A i, j \in DOMAIN StepsOf(doc) :
         StepName(doc.steps[i]) = StepName(doc.steps[j]) => i = j
    /\ CheckMix(doc, defined) /\ CheckBrokers(doc, defined) /\ CheckSLOSteps(doc)
    /\ \A i \in DOMAIN Phases(doc.load) : LET phase == doc.load.profiles[i] IN
         PhaseTime(phase) > 0 /\ (phase.profile # "ramp" => To(phase) > 0)

(***************************************************************************)
(* What a run sends: the order of a mix and the value of a reference.      *)
(***************************************************************************)
GreatestCommonDivisor(weights) ==
    Max({d \in 1 .. Min(weights) : \A w \in weights : w % d = 0})

Shares(doc) ==
    LET gcd == GreatestCommonDivisor({Weight(doc.steps[i]) : i \in DOMAIN doc.steps})
    IN [i \in DOMAIN doc.steps |-> Weight(doc.steps[i]) \div gcd]

Slots(doc) ==
    UNION {{[step |-> i, copy |-> c] : c \in 0 .. Shares(doc)[i] - 1} : i \in DOMAIN doc.steps}

Before_Grouped(doc, a, b) == <<a.step, a.copy>> # <<b.step, b.copy>> /\
    (a.step < b.step \/ (a.step = b.step /\ a.copy < b.copy))

\* Copy c of a step with share s sits at (c + 1/2) total / s; fractions compare by
\* cross multiplication where the code compares floats.
Before(doc, a, b) ==
    LET left == (2 * a.copy + 1) * Shares(doc)[b.step]
        right == (2 * b.copy + 1) * Shares(doc)[a.step]
    IN \/ left < right
       \/ left = right /\ (a.step < b.step \/ (a.step = b.step /\ a.copy < b.copy))

MixOrder(doc) ==
    LET slots == Slots(doc)
        Rank(a) == Cardinality({b \in slots : Before(doc, b, a)}) + 1
    IN [n \in 1 .. Cardinality(slots) |-> (CHOOSE a \in slots : Rank(a) = n).step]

\* The steps iteration n (from 0) runs, in order.
StepsOfIteration(doc, n) ==
    IF HasMix(doc)
    THEN LET order == MixOrder(doc) IN <<order[(n % Len(order)) + 1]>>
    ELSE [i \in DOMAIN StepsOf(doc) |-> i]

ResolvedFields(protocol) ==
    CASE protocol = "kafka"     -> KafkaResolve
      [] protocol = "amqp"      -> AMQPResolve
      [] protocol = "mqtt"      -> MQTTResolve
      [] protocol = "grpc"      -> GRPCResolve
      [] protocol = "websocket" -> WebSocketResolve
      [] protocol = "sse"       -> SSEResolve
      [] protocol = "http"      -> HTTPResolve
      [] protocol = "graphql"   -> GraphQLResolve
      [] OTHER                  -> AwaitResolve

\* ResolveWith puts the session next to the variables, whose text was expanded before.
RunVars(doc, defined, session) ==
    (VarsOf(doc) \ BlankVars(doc, defined)) \cup (session \ BrokerCredentialNames(doc))

\* Values.Resolve: the values of the iteration, then the environment, then the fallback.
\* A variable that came out empty is found, and is empty.
ResolvesToNothing(doc, defined, known, r) ==
    /\ r.source = "" /\ r.name \notin known
    /\ \/ r.name \in BlankVars(doc, defined) /\ r.name \in VarsOf(doc)
       \/ r.name \notin defined /\ ~r.fallback

(***************************************************************************)
(* Migrate.  A word is [where, old, quoted]: the context of a key or of a  *)
(* listed value, whether it is of the old format, and whether it is in     *)
(* quotes, which moves the text the edit looks for.  The target of a rule  *)
(* is quoted or not in the same way.  The author's own text (paths,        *)
(* bodies, names) is no word.                                              *)
(***************************************************************************)
\* The contexts descend reaches.  Blocks of protocols younger than the old format, and
\* whatever sits in an unknown key, are left alone.
Visited == FreeText \cup
           {"top", "load", "profile", "auth", "source", "generateField", "broker",
            "brokerAuth", "tls", "requires", "step", "expect", "capture", "captureBody", "http",
            "graphql", "kafka", "amqp", "await", "awaitSource", "awaitHTTP", "limits"}

\* apply edits only where the line still holds the word at the node's column.
Renamed(w) == w.old /\ w.where \in Visited /\ ~w.quoted

DeclaredStepNames(doc) ==
    {StepName(doc.steps[i]) : i \in {j \in DOMAIN StepsOf(doc) : "name" \in doc.steps[j].keys}}

\* An unnamed step reports under the key its protocol derives, and that key changed.
OldDerivedName == "aguardar pedidos"
NewDerivedName == "await pedidos"

RenameDerivedStep(target, declared) ==
    IF target = OldDerivedName /\ target \notin declared THEN NewDerivedName ELSE target

OldScopes == [jornada |-> "journey", regressao |-> "regression"]

\* A target in quotes is left as it was and nothing is said of it: unlike an old word,
\* it still parses, as the name of a step.
RenameTarget(rule, declared) ==
    IF rule.quoted THEN rule.target
    ELSE IF rule.target \in DOMAIN OldScopes THEN OldScopes[rule.target]
    ELSE RenameDerivedStep(rule.target, declared)

\* The rewritten file; what is no map has nothing to rename.
Migrate(doc) ==
    LET rules == [i \in DOMAIN doc.slo |->
            [doc.slo[i] EXCEPT !.target = RenameTarget(doc.slo[i], DeclaredStepNames(doc))]]
        words == {IF Renamed(w) THEN [w EXCEPT !.old = FALSE] ELSE w : w \in doc.words}
    IN IF doc.form # "map" THEN doc ELSE [doc EXCEPT !.words = words, !.slo = rules]
=============================================================================
