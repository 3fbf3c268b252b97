------------------------------- MODULE Steps -------------------------------
(***************************************************************************)
(* What one step of a scenario is, for each of the nine protocols: which   *)
(* YAML nodes its Decode accepts, which of its fields Resolve substitutes, *)
(* where it finds its address, and which error class its Execute reports.  *)
(* Only operators: Iteration runs the steps, Scenario reads them.          *)
(*                                                                         *)
(* A node is [kind, keys, bad, source]: the form it was written in, the    *)
(* keys it holds, those whose value is refused, and the form of the source *)
(* of an await.  A call to the outside world ends "ok" or with one of      *)
(* Failures; the world w of a step is [open, write, answer, status, body,  *)
(* messages], where body is what the answer carries: "data", "errors" or   *)
(* "neither".  conn is the connection a step was handed by its protocol's  *)
(* cache: [cached, up, confirms, resolved].                                *)
(***************************************************************************)
EXTENDS Naturals, Sequences, FiniteSetsExt

Failures == {"refused", "late", "denied", "forbidden", "other"}

\* An Execute is a list of stages, each of which may end the step; the first that
\* fails gives the class, and a step none of whose stages fails succeeded.
Stage(fails, class) == [fails |-> fails, class |-> class]

FirstFailure(stages) ==
    LET failing == {i \in DOMAIN stages : stages[i].fails}
    IN IF failing = {} THEN "success" ELSE stages[Min(failing)].class

(***************************************************************************)
(* Error kinds to classes.                                                 *)
(***************************************************************************)
\* The texts ClassifyError recognises are the ones a refused credential and a
\* missing permission arrive with.
IsCredential(e) == e \in {"denied", "forbidden"}

CredentialClass(e) == IF e = "denied" THEN "auth" ELSE "authorization"

Classify(e) == IF e = "late" THEN "timeout" ELSE "network"

KafkaClassify(e) ==
    CASE e = "late" -> "timeout"
      [] IsCredential(e) -> CredentialClass(e)
      [] e = "refused" -> "network"
      [] OTHER -> "messaging"

AMQPClassify(e) ==
    CASE e = "late" -> "timeout"
      [] IsCredential(e) -> CredentialClass(e)
      [] e = "refused" -> "network"
      [] OTHER -> "messaging"

GRPCClassify(e) ==
    CASE e = "denied" -> "auth"
      [] e = "forbidden" -> "authorization"
      [] e = "late" -> "timeout"
      [] e = "refused" -> "network"
      [] OTHER -> "status"

\* A GraphQL error arrives with status 200; only data without errors is a success.
ClassifyBody(body) == IF body = "data" THEN "success" ELSE "graphql"

(***************************************************************************)
(* Addresses.  A step declares one or none, the messaging block of the     *)
(* scenario s is "none", "empty" or "given", and the target is "", "http"  *)
(* or "broker".                                                            *)
(***************************************************************************)
BrokerAddress(c, s) ==
    CASE c.address # "" -> c.address
      [] c.address = "" /\ s.messaging = "given" -> "messaging"
      [] c.address = "" /\ s.messaging # "given" /\ s.target = "broker" -> "target"
      [] OTHER -> ""

\* amqp takes any non-empty target first and refuses an http one afterwards.
AMQPAddress(c, s) ==
    LET found == CASE c.address # "" -> c.address
                   [] c.address = "" /\ s.messaging = "given" -> "messaging"
                   [] OTHER -> s.target
    IN IF found = "http" THEN "" ELSE found

\* mqtt and grpc fall back on the target, whatever its scheme.
StepOrTarget(c, s) == IF c.address # "" THEN c.address ELSE s.target

\* A relative path needs a target.
BuildURL(c, s) == IF c.address # "" THEN c.address ELSE s.target

Address(c, s) ==
    CASE c.protocol \in {"kafka", "await"} -> BrokerAddress(c, s)
      [] c.protocol = "amqp" -> AMQPAddress(c, s)
      [] c.protocol \in {"mqtt", "grpc"} -> StepOrTarget(c, s)
      [] OTHER -> BuildURL(c, s)

(***************************************************************************)
(* Execute.  c is the resolved configuration, s the scenario, w the world. *)
(***************************************************************************)
KafkaExecute(c, s, w, conn) == FirstFailure(<<
    Stage(BrokerAddress(c, s) = "", "config"),
    Stage(~c.wellFormed, "config"),                      \* broker.Transport()
    Stage(w.write # "ok", KafkaClassify(w.write)) >>)

\* The confirmation exists only on a connection opened with confirms.
AMQPExecute(c, s, w, conn) == FirstFailure(<<
    Stage(AMQPAddress(c, s) = "", "config"),
    Stage(~conn.cached /\ w.open # "ok",
          IF IsCredential(w.open) THEN CredentialClass(w.open) ELSE "network"),
    Stage(~conn.up, "network"),                          \* takeChannel on a dead link
    Stage(w.write # "ok", AMQPClassify(w.write)),
    Stage(c.confirm /\ conn.confirms /\ w.answer # "ok", AMQPClassify(w.answer)) >>)

\* A connection that is late is reported by a plain error, so it reads as network.
MQTTExecute(c, s, w, conn) == FirstFailure(<<
    Stage(StepOrTarget(c, s) = "", "config"),
    Stage(~conn.cached /\ w.open # "ok", "network"),
    Stage(~conn.up, "network"),                          \* publish on a dropped client
    Stage(w.answer # "ok", Classify(w.answer)) >>)

\* A stream that the server closes, or that the deadline ends, is a success.
IsStreamEnd(answer) == answer \in {"ok", "late"}

\* The stream delivered all the messages the step asked for.
Enough(c, w) == c.maxMessages > 0 /\ w.messages >= c.maxMessages

\* The descriptors come from a file or from the target's reflection, and what goes
\* wrong with either is a configuration error.
GRPCExecute(c, s, w, conn) == FirstFailure(<<
    Stage(StepOrTarget(c, s) = "", "config"),
    Stage(w.open # "ok" /\ ~conn.resolved, "config"),
    Stage(~c.wellFormed, "config"),
    Stage(w.answer # "ok" /\ ~(c.stream /\ Enough(c, w)), GRPCClassify(w.answer)) >>)

WebSocketExecute(c, s, w, conn) == FirstFailure(<<
    Stage(BuildURL(c, s) = "", "config"),
    Stage(~c.wellFormed, "config"),
    Stage(w.open # "ok", Classify(w.open)),
    Stage(c.send /\ w.write # "ok", Classify(w.write)),
    Stage(c.maxMessages > 0 /\ ~Enough(c, w) /\ ~IsStreamEnd(w.answer), Classify(w.answer)),
    Stage(c.maxMessages = 0 /\ c.awaitReply /\ w.answer # "ok", Classify(w.answer)) >>)

SSEExecute(c, s, w, conn) == FirstFailure(<<
    Stage(BuildURL(c, s) = "", "config"),
    Stage(~c.wellFormed, "config"),
    Stage(w.open # "ok", Classify(w.open)),
    Stage(w.status \notin 200 .. 299, "status"),
    Stage(~Enough(c, w) /\ ~IsStreamEnd(w.answer), Classify(w.answer)) >>)

HTTPExecute(c, s, w, conn) == FirstFailure(<<
    Stage(BuildURL(c, s) = "", "config"),
    Stage(~c.wellFormed, "config"),
    Stage(w.open # "ok", Classify(w.open)),
    Stage(w.answer # "ok", Classify(w.answer)),
    Stage(w.status >= 400, "status") >>)

GraphQLExecute(c, s, w, conn) == FirstFailure(<<
    Stage(BuildURL(c, s) = "", "config"),
    Stage(~c.wellFormed, "config"),                      \* variables not JSON
    Stage(w.open # "ok", Classify(w.open)),
    Stage(w.answer # "ok", Classify(w.answer)),
    Stage(w.status >= 400, "status"),
    Stage(ClassifyBody(w.body) # "success", "graphql") >>)

\* Waiting on a broker; the delivery itself is the module Subscription.
AwaitExecute(c, s, w, conn) == FirstFailure(<<
    Stage(BrokerAddress(c, s) = "", "config"),
    Stage(~conn.up, "config"),                           \* subscribe could not open
    Stage(w.answer # "ok", "timeout") >>)

\* What one poll of an await over http has to show.
Satisfied(c, w) ==
    /\ w.open = "ok" /\ w.answer = "ok"
    /\ IF c.until = "status" THEN w.status = 200 ELSE w.body = "data"

\* Waiting by polling ends in success or, when the limit fires after a poll that
\* failed or did not show the effect, in a timeout; Iteration repeats the polls.
AwaitOverHTTP(c, s, w, conn) == FirstFailure(<<
    Stage(BuildURL(c, s) = "", "config"),
    Stage(~Satisfied(c, w), "timeout") >>)

Execute(c, s, w, conn) ==
    CASE c.protocol = "kafka"     -> KafkaExecute(c, s, w, conn)
      [] c.protocol = "amqp"      -> AMQPExecute(c, s, w, conn)
      [] c.protocol = "mqtt"      -> MQTTExecute(c, s, w, conn)
      [] c.protocol = "grpc"      -> GRPCExecute(c, s, w, conn)
      [] c.protocol = "websocket" -> WebSocketExecute(c, s, w, conn)
      [] c.protocol = "sse"       -> SSEExecute(c, s, w, conn)
      [] c.protocol = "http"      -> HTTPExecute(c, s, w, conn)
      [] c.protocol = "graphql"   -> GraphQLExecute(c, s, w, conn)
      [] c.protocol = "await"     -> AwaitExecute(c, s, w, conn)
      [] c.protocol = "polling"   -> AwaitOverHTTP(c, s, w, conn)

(***************************************************************************)
(* Decode: what each protocol accepts in a scenario file.                  *)
(***************************************************************************)
KnownKeys(n, known) == n.keys \subseteq known /\ n.bad = {}

KafkaDecode(n) ==
    /\ n.kind = "map"
    /\ KnownKeys(n, {"topic", "key", "value", "headers", "brokers", "acks", "timeout",
                     "partition", "group"})
    /\ {"topic", "value"} \subseteq n.keys

AMQPDecode(n) ==
    /\ n.kind = "map"
    /\ KnownKeys(n, {"exchange", "routingKey", "queue", "body", "messageId", "headers",
                     "url", "persistent", "confirm", "timeout"})
    /\ {"routingKey", "queue"} \intersect n.keys # {}
    /\ "body" \in n.keys

MQTTDecode(n) ==
    \/ n.kind = "scalar" /\ n.bad = {}
    \/ /\ n.kind = "map"
       /\ KnownKeys(n, {"topic", "payload", "qos", "retain", "broker", "clientId",
                        "username", "password", "timeout"})
       /\ "topic" \in n.keys

GRPCDecode(n) ==
    \/ n.kind = "scalar" /\ n.bad = {}
    \/ /\ n.kind = "map"
       /\ KnownKeys(n, {"method", "service", "message", "target", "descriptorSet",
                        "maxMessages", "metadata", "timeout"})
       /\ "method" \in n.keys

WebSocketDecode(n) ==
    \/ n.kind = "scalar"
    \/ /\ n.kind = "map"
       /\ KnownKeys(n, {"path", "send", "awaitReply", "maxMessages", "origin", "headers",
                        "timeout"})

SSEDecode(n) ==
    \/ n.kind = "scalar"
    \/ n.kind = "map" /\ KnownKeys(n, {"path", "maxMessages", "headers", "timeout"})

HTTPDecode(n) ==
    \/ n.kind = "scalar" /\ n.bad = {}                   \* "METHOD /path" or "/path"
    \/ /\ n.kind = "map"
       /\ KnownKeys(n, {"method", "path", "headers", "body", "timeout", "followRedirects"})
       /\ "path" \in n.keys

\* The operation name comes from the query or from its own key; one is needed.
GraphQLDecode(n) ==
    /\ \/ n.kind = "scalar"
       \/ /\ n.kind = "map"
          /\ KnownKeys(n, {"query", "operation", "variables", "path", "headers", "timeout"})
          /\ "query" \in n.keys
    /\ n.bad = {} \/ "operation" \in n.keys              \* bad: an anonymous query

\* A topic on its own is taken unread; a map without one is refused.
ReadSource(source) == source \in {"scalar", "mapWithTopic"}

AwaitDecode(n) ==
    /\ n.kind = "map"
    /\ KnownKeys(n, {"kafka", "amqp", "http", "until", "interval", "key", "field",
                     "equals", "timeout"})
    /\ \/ "http" \in n.keys /\ "until" \in n.keys        \* validateHTTP
       \/ /\ "http" \notin n.keys
          /\ {"kafka", "amqp"} \intersect n.keys # {} /\ ReadSource(n.source)
          /\ {"key", "equals"} \intersect n.keys # {}

Decode(protocol, n) ==
    CASE protocol = "kafka"     -> KafkaDecode(n)
      [] protocol = "amqp"      -> AMQPDecode(n)
      [] protocol = "mqtt"      -> MQTTDecode(n)
      [] protocol = "grpc"      -> GRPCDecode(n)
      [] protocol = "websocket" -> WebSocketDecode(n)
      [] protocol = "sse"       -> SSEDecode(n)
      [] protocol = "http"      -> HTTPDecode(n)
      [] protocol = "graphql"   -> GraphQLDecode(n)
      [] protocol = "await"     -> AwaitDecode(n)
      [] OTHER                  -> FALSE

(***************************************************************************)
(* Resolve: the fields in which a reference is substituted at run time.    *)
(* In any other field of the step a reference is sent as it was written.   *)
(***************************************************************************)
KafkaResolve == {"topic", "key", "group", "value", "headers"}
AMQPResolve == {"exchange", "routingKey", "queue", "messageId", "body", "headers"}
MQTTResolve == {"topic", "broker", "username", "password", "payload"}
GRPCResolve == {"message", "target", "metadata"}
WebSocketResolve == {"path", "send", "origin", "headers"}
SSEResolve == {"path", "headers"}
HTTPResolve == {"path", "headers", "body"}
GraphQLResolve == {"variables", "path", "headers"}
AwaitResolve == {"topic", "equals", "field", "path", "until"}
=============================================================================
