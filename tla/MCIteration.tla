---------------------------- MODULE MCIteration ----------------------------
(* Scenarios of the instance: every protocol, every consume policy, with and *)
(* without a login, over runs and debugs of one process.                     *)
EXTENDS Iteration

CONSTANTS g1, g2
MCGoroutines == {g1, g2}

Plain == [protocol |-> "http", address |-> "", wellFormed |-> TRUE, confirm |-> FALSE,
          maxMessages |-> 0, awaitReply |-> FALSE, send |-> FALSE, stream |-> FALSE,
          until |-> "path", group |-> FALSE, capture |-> "none", checks |-> FALSE]

Kafka == [Plain EXCEPT !.protocol = "kafka", !.group = TRUE]
Await == [Plain EXCEPT !.protocol = "await", !.capture = "optional"]
AMQP == [Plain EXCEPT !.protocol = "amqp", !.confirm = TRUE]
MQTT == [Plain EXCEPT !.protocol = "mqtt"]
GRPC == [Plain EXCEPT !.protocol = "grpc", !.stream = TRUE, !.maxMessages = 1]
WebSocket == [Plain EXCEPT !.protocol = "websocket", !.send = TRUE, !.awaitReply = TRUE]
SSE == [Plain EXCEPT !.protocol = "sse", !.maxMessages = 1]
Login == [Plain EXCEPT !.capture = "required", !.checks = TRUE]
GraphQL == [Plain EXCEPT !.protocol = "graphql"]
Polling == [Plain EXCEPT !.protocol = "polling"]

Scenario(steps, target, login, refresh, consume, kinds, declared) ==
    [steps |-> steps, target |-> target, messaging |-> "none", auth |-> login,
     refresh |-> refresh, consume |-> consume, kinds |-> kinds, tls |-> declared]

RunRun == <<"run", "run">>
DebugRun == <<"debug", "run">>
SecondTLS == <<FALSE, TRUE>>
FirstTLS == <<TRUE, FALSE>>

MCScenarios == {
    [Scenario(<<Kafka, Await>>, "broker", "none", 0, "circular", RunRun, SecondTLS)
        EXCEPT !.messaging = "given"],
    Scenario(<<AMQP>>, "broker", "none", 0, "circular", DebugRun, SecondTLS),
    Scenario(<<MQTT>>, "broker", "none", 0, "sequential", RunRun, SecondTLS),
    Scenario(<<GRPC>>, "broker", "basic", 0, "random", RunRun, <<TRUE, TRUE>>),
    Scenario(<<WebSocket, SSE>>, "http", "basic", 0, "uniquePerUser", DebugRun, FirstTLS),
    Scenario(<<Login, GraphQL>>, "http", "obtain", 0, "sequential", DebugRun, FirstTLS),
    Scenario(<<Login, Polling>>, "http", "obtain", 2, "circular", DebugRun, FirstTLS)}
=============================================================================
