----------------------------- MODULE Iteration -----------------------------
(***************************************************************************)
(* The iterations of a run over the process-wide protocols: the executor's *)
(* runIteration and runStep, the data sources, the authentication manager  *)
(* and the connections, subscriptions and lag watchers the protocols keep  *)
(* between steps and between the runs of one process (server, default      *)
(* mode: one run or debug at a time).                                      *)
(*                                                                         *)
(* Values are small numbers and 0 is "not set": a row of the data file,    *)
(* the token the login gave, the id a step captured (its iteration + 1).   *)
(***************************************************************************)
EXTENDS Steps, TLC

CONSTANTS
    Goroutines,       \* iterations that may be in flight together
    Scenarios,        \* the scenarios of the instance
    Faults,           \* ways a call to the outside world may fail
    Rows,             \* lines of the data file
    MaxRuns,          \* runs and debugs of one process
    MaxIterations,    \* iterations of a run
    MaxClock,         \* ticks of the clock a token can age by
    MaxPolls,         \* polls of an await over http
    MaxDrops          \* times the broker drops a link

None == "none"

\* A scenario that passed validation has steps, and says of every run of the process
\* whether it is a debug and whether it declares TLS.
ASSUME IterationAssumption ==
    /\ IsFiniteSet(Goroutines) /\ None \notin Goroutines
    /\ Faults \subseteq Failures
    /\ Rows \in Nat \ {0} /\ MaxRuns \in Nat \ {0} /\ MaxIterations \in Nat \ {0}
    /\ {MaxClock, MaxPolls, MaxDrops} \subseteq Nat
    /\ \A s \in Scenarios :
         /\ s.kinds \in [1 .. MaxRuns -> {"run", "debug"}]
         /\ s.tls \in [1 .. MaxRuns -> BOOLEAN]
         /\ s.refresh \in Nat
         /\ Len(s.steps) \in Nat \ {0}
         /\ \A i \in 1 .. Len(s.steps) : s.steps[i].confirm \in BOOLEAN

Names == {"row", "token", "id"}

\* Protocols that keep something open from one step to the next.
Kept == {"kafka", "amqp", "mqtt", "grpc", "await"}

VARIABLES
    scen,      \* the scenario of this process
    run,       \* [id, phase, prepared]: the run or debug under way
    source,    \* [position, exhausted, handed]: the data source of the run
    auth,      \* the manager: [lock, asking, values, obtained, at, obtains]
    it,        \* the iteration of each goroutine
    issued,    \* iterations dispatched by the run
    conns,     \* what each protocol keeps: [gen, up, confirms, tls, resolved]
    nextGen,   \* identities given to connections
    dead,      \* connections CloseAll closed
    tls,       \* the run whose TLS settings the protocols hold, 0 for none
    watcher,   \* the lag watcher of the group: [state, by, last, problem, silent]
    stopWatch, \* a cancel function is stored
    lag,       \* what each finished run reported: [last, problem]
    clock,
    drops

vars == <<scen, run, source, auth, it, issued, conns, nextGen, dead, tls, watcher,
          stopWatch, lag, clock, drops>>

Unset == [n \in Names |-> 0]
NoConn == [gen |-> 0, up |-> FALSE, confirms |-> FALSE, tls |-> 0, resolved |-> FALSE]
Idle == [pc |-> "idle", iteration |-> 0, row |-> 0, values |-> Unset, step |-> 0,
         gen |-> 0, open |-> "ok", polls |-> 0]
NewManager == [lock |-> None, asking |-> FALSE, values |-> Unset, obtained |-> FALSE,
               at |-> 0, obtains |-> 0]
NewSource == [position |-> 0, exhausted |-> FALSE, handed |-> [r \in 1 .. Rows |-> 0]]
NewProtocols == [p \in Kept |-> NoConn]
NoReading == [run |-> 0, phase |-> "none"]
NoLag == [last |-> NoReading, problem |-> FALSE]
NoWatcher == [state |-> None, by |-> 0, last |-> NoReading, problem |-> FALSE, silent |-> FALSE]

Init ==
    /\ scen \in Scenarios
    /\ run = [id |-> 0, phase |-> "idle", prepared |-> 0]
    /\ source = NewSource /\ auth = NewManager
    /\ it = [g \in Goroutines |-> Idle] /\ issued = 0
    /\ conns = NewProtocols /\ nextGen = 1 /\ dead = {} /\ tls = 0
    /\ watcher = NoWatcher /\ stopWatch = FALSE /\ lag = <<>>
    /\ clock = 0 /\ drops = 0

Step(g) == scen.steps[it[g].step]
Debugging == scen.kinds[run.id] = "debug"
Planned == IF Debugging THEN 1 ELSE MaxIterations
Set(values, incoming) ==
    [n \in Names |-> IF incoming[n] # 0 THEN incoming[n] ELSE values[n]]

(***************************************************************************)
(* A run: engine.New, preparation, load, lag, CloseAll.                    *)
(***************************************************************************)
\* Protocols are told about TLS only by a run that declares it.
ApplyTLS(r) == IF scen.tls[r] THEN r ELSE tls

\* engine.New: fresh sources and manager, the protocols of the process as they are.
StartRun ==
    /\ run.phase = "idle" /\ run.id < MaxRuns
    /\ run' = [id |-> run.id + 1, prepared |-> 0,
               phase |-> IF scen.kinds[run.id + 1] = "debug" THEN "load" ELSE "prepare"]
    /\ source' = NewSource /\ auth' = NewManager /\ issued' = 0
    /\ tls' = ApplyTLS(run.id + 1)
    /\ UNCHANGED <<scen, it, conns, nextGen, dead, watcher, stopWatch, lag, clock, drops>>

Opened_NotCounted(p, c) == [gen |-> nextGen + 1, up |-> TRUE, confirms |-> c.confirm, tls |-> tls,
                            resolved |-> FALSE]
Opened(p, c) == [gen |-> nextGen, up |-> TRUE, confirms |-> c.confirm, tls |-> tls,
                 resolved |-> FALSE]

\* A group is watched once per process: a watcher found under its key is left alone.
WatchLag(c) ==
    IF c.group /\ Address(c, scen) # "" /\ watcher.state = None
    THEN /\ watcher' = [NoWatcher EXCEPT !.state = "watching", !.by = run.id]
         /\ stopWatch' = TRUE
    ELSE UNCHANGED <<watcher, stopWatch>>

\* What Prepare opens for a step: the subscription of an await, and the writer of a
\* kafka step, which dials only a broker with credentials (a messaging block).
Prepares(c) == c.protocol = "await" \/ (c.protocol = "kafka" /\ scen.messaging = "given")

\* One step prepared: the first failure is printed, ends the preparation and the load
\* starts all the same.
Prepare(fails) ==
    /\ run.phase = "prepare" /\ run.prepared < Len(scen.steps)
    /\ LET c == scen.steps[run.prepared + 1] IN
         /\ fails => Prepares(c)
         /\ WatchLag(c)
         /\ IF Prepares(c) /\ conns[c.protocol].gen = 0 /\ (fails => c.protocol = "kafka")
            THEN conns' = [conns EXCEPT ![c.protocol] = Opened(c.protocol, c)] /\ nextGen' = nextGen + 1
            ELSE UNCHANGED <<conns, nextGen>>
    /\ run' = IF fails THEN [run EXCEPT !.phase = "load"] ELSE [run EXCEPT !.prepared = @ + 1]
    /\ UNCHANGED <<scen, source, auth, it, issued, dead, tls, lag, clock, drops>>

StartLoad ==
    /\ run.phase = "prepare" /\ run.prepared = Len(scen.steps)
    /\ run' = [run EXCEPT !.phase = "load"]
    /\ UNCHANGED <<scen, source, auth, it, issued, conns, nextGen, dead, tls, watcher,
                   stopWatch, lag, clock, drops>>

\* The group of iterations is waited for before the load counts as over.
AllDone_NoWait == TRUE
AllDone == \A g \in Goroutines : it[g].pc = "idle"

\* ConsumerLag, up to the unlock: the watch is told to stop.  A debug reports no lag.
EndLoad ==
    /\ run.phase = "load" /\ issued = Planned /\ AllDone
    /\ run' = [run EXCEPT !.phase = "stopped"]
    /\ stopWatch' = IF Debugging THEN stopWatch ELSE FALSE
    /\ UNCHANGED <<scen, source, auth, it, issued, conns, nextGen, dead, tls, watcher,
                   lag, clock, drops>>

Close_LeavesOpen == conns
Close == [p \in Kept |-> NoConn]

\* ConsumerLag waits for the watchers and reports all of them; then CloseAll.
WatchersDone_NoWait == TRUE
WatchersDone == watcher.state # "watching"

EndRun ==
    /\ run.phase = "stopped" /\ (Debugging \/ WatchersDone)
    /\ lag' = Append(lag, IF Debugging THEN NoLag ELSE [last |-> watcher.last, problem |-> watcher.problem])
    /\ dead' = dead \union {conns[p].gen : p \in Kept}
    /\ conns' = Close
    /\ stopWatch' = FALSE
    /\ run' = [run EXCEPT !.phase = "idle"]
    /\ UNCHANGED <<scen, source, auth, it, issued, nextGen, tls, watcher, clock, drops>>

\* A reading of the lag: which run, and in which part of it.
Reading == [run |-> run.id, phase |-> run.phase]

\* What a read brings: the lag, a failure, which is noted beside the reading kept so
\* far, or nothing, neither a value nor a problem: the answer knows no topic, or no offset
\* the group committed on some partition.  silent is history: the last answer was such.
Answers == {"lag", "nothing", "failure"}

Read(answer) ==
    CASE answer = "lag" -> [watcher EXCEPT !.last = Reading, !.silent = FALSE]
      [] answer = "nothing" -> [watcher EXCEPT !.silent = TRUE]
      [] OTHER -> [watcher EXCEPT !.problem = TRUE]

Sample(answer) ==
    /\ watcher.state = "watching" /\ run.phase # "idle"
    /\ watcher' = Read(answer)
    /\ UNCHANGED <<scen, run, source, auth, it, issued, conns, nextGen, dead, tls,
                   stopWatch, lag, clock, drops>>

\* The context of the watch is done: one last reading, then the goroutine ends.
LastSample(answer) ==
    /\ watcher.state = "watching" /\ ~stopWatch
    /\ watcher' = [Read(answer) EXCEPT !.state = "done"]
    /\ UNCHANGED <<scen, run, source, auth, it, issued, conns, nextGen, dead, tls,
                   stopWatch, lag, clock, drops>>

(***************************************************************************)
(* An iteration: data, authentication, steps.                              *)
(***************************************************************************)
Dispatch(g) ==
    /\ run.phase = "load" /\ it[g].pc = "idle"
    /\ issued < Planned
    /\ issued' = issued + 1
    /\ it' = [it EXCEPT ![g] = [Idle EXCEPT !.pc = "data", !.iteration = issued]]
    /\ UNCHANGED <<scen, run, source, auth, conns, nextGen, dead, tls, watcher, stopWatch,
                   lag, clock, drops>>

Advance_NotStored(position) == position
Advance(position) == position + 1

\* The line a source hands out; 0 when a sequential source has run out.
NextRow(iteration) ==
    CASE scen.consume = "random" -> 1 .. Rows
      [] scen.consume = "uniquePerUser" -> {(iteration % Rows) + 1}
      [] scen.consume = "sequential" ->
            {IF source.position >= Rows THEN 0 ELSE source.position + 1}
      [] OTHER -> {(source.position % Rows) + 1}

Next_(g, row) ==
    source' = [source EXCEPT
        !.position = IF scen.consume \in {"random", "uniquePerUser"} THEN @ ELSE Advance(@),
        !.exhausted = @ \/ row = 0,
        !.handed = [r \in 1 .. Rows |-> IF r = row THEN @[r] + 1 ELSE @[r]]]

\* A source with nothing left ends the iteration with a sample of its own.
Data(g) ==
    /\ it[g].pc = "data"
    /\ \E row \in NextRow(it[g].iteration) :
         /\ Next_(g, row)
         /\ it' = [it EXCEPT ![g] =
                IF row = 0 THEN Idle
                ELSE [@ EXCEPT !.row = row, !.values["row"] = row, !.step = 1,
                               !.pc = IF scen.auth = "obtain" THEN "auth" ELSE "step"]]
    /\ UNCHANGED <<scen, run, auth, issued, conns, nextGen, dead, tls, watcher, stopWatch,
                   lag, clock, drops>>

Expired == scen.refresh > 0 /\ clock - auth.at >= scen.refresh

EnsureToken_Unlocked(g) ==
    /\ it[g].pc = "auth"
    /\ it' = [it EXCEPT ![g].pc = IF auth.obtained /\ ~Expired THEN "copy" ELSE "asking"]
    /\ UNCHANGED <<scen, run, source, auth, issued, conns, nextGen, dead, tls, watcher,
                   stopWatch, lag, clock, drops>>

\* ensureToken: under the mutex for as long as the request takes.
EnsureToken(g) ==
    /\ it[g].pc = "auth" /\ auth.lock = None
    /\ IF auth.obtained /\ ~Expired
       THEN /\ it' = [it EXCEPT ![g].pc = "copy"]
            /\ UNCHANGED auth
       ELSE /\ it' = [it EXCEPT ![g].pc = "asking"]
            /\ auth' = [auth EXCEPT !.lock = g]
    /\ UNCHANGED <<scen, run, source, issued, conns, nextGen, dead, tls, watcher,
                   stopWatch, lag, clock, drops>>

\* What the login captured: the values it changed, and no others.
Obtained_WholeContext(input, output) == output
Obtained(input, output) == [n \in Names |-> IF output[n] = input[n] THEN 0 ELSE output[n]]

Unlock(m) == [m EXCEPT !.lock = None]

\* The login answered: "ok" with its captures, "unchecked" when a declared check of
\* the status failed below 400 and nothing was captured, "refused" otherwise.
TokenAnswered(g, answer) ==
    /\ it[g].pc = "asking"
    /\ LET input == it[g].values
           output == IF answer = "ok" THEN [input EXCEPT !["token"] = auth.obtains + 1]
                     ELSE input
       IN IF answer = "refused"
          THEN /\ auth' = Unlock(auth)
               /\ it' = [it EXCEPT ![g] = Idle]
          ELSE /\ auth' = Unlock([auth EXCEPT !.values = Obtained(input, output),
                                              !.obtained = TRUE, !.at = clock,
                                              !.obtains = @ + 1])
               /\ it' = [it EXCEPT ![g].pc = "copy"]
    /\ UNCHANGED <<scen, run, source, issued, conns, nextGen, dead, tls, watcher,
                   stopWatch, lag, clock, drops>>

\* The token is copied under a second lock, so it may be a newer one by then.
CopyToken(g) ==
    /\ it[g].pc = "copy" /\ auth.lock = None
    /\ it' = [it EXCEPT ![g].values = Set(@, auth.values), ![g].pc = "step"]
    /\ UNCHANGED <<scen, run, source, auth, issued, conns, nextGen, dead, tls, watcher,
                   stopWatch, lag, clock, drops>>

\* What a protocol's cache answers.  mqtt looks whether its client is connected;
\* amqp hands out the link it has, dead or not.
Usable(p) == conns[p].gen # 0 /\ (p = "mqtt" => conns[p].up)

Calls == {"ok"} \union Faults

\* A kafka writer and a grpc client connect later, on their own.
Opening(p) == IF p \in {"kafka", "grpc"} THEN {"ok"} ELSE Calls

\* The step finds no connection to use, and opens one.
Opens(c) == c.protocol \in Kept /\ Address(c, scen) # "" /\ ~Usable(c.protocol)

\* runStep up to the request: the connection is taken, or opened, under the mutex.
BeginStep(g) ==
    /\ it[g].pc = "step"
    /\ LET c == Step(g) IN
       IF Opens(c)
       THEN \E open \in Opening(c.protocol) :
              /\ it' = [it EXCEPT ![g].pc = "wait", ![g].open = open,
                                  ![g].gen = IF open = "ok" THEN nextGen ELSE 0]
              /\ IF open = "ok"
                 THEN /\ conns' = [conns EXCEPT ![c.protocol] = Opened(c.protocol, c)]
                      /\ nextGen' = nextGen + 1
                 ELSE UNCHANGED <<conns, nextGen>>
       ELSE /\ it' = [it EXCEPT ![g].pc = "wait", ![g].open = "ok",
                      ![g].gen = IF c.protocol \in Kept THEN conns[c.protocol].gen ELSE 0]
            /\ UNCHANGED <<conns, nextGen>>
    /\ UNCHANGED <<scen, run, source, auth, issued, dead, tls, watcher, stopWatch, lag,
                   clock, drops>>

\* The connection as the step finds it when it uses it: someone may have dropped it.
Held(g) ==
    LET p == Step(g).protocol
        current == p \in Kept /\ conns[p].gen = it[g].gen
    IN [cached |-> it[g].open = "ok", up |-> it[g].gen # 0 /\ current /\ conns[p].up,
        confirms |-> current /\ conns[p].confirms, resolved |-> current /\ conns[p].resolved]

\* What the world may answer a step of protocol p whose connection opened as given:
\* only what the protocol asks of it varies.
World(p, open) ==
    LET Asked(protocols, answers, default) == IF p \in protocols THEN answers ELSE {default}
    IN [open : Asked({"grpc", "websocket", "sse", "http", "graphql", "polling"}, Calls, open),
        write : Asked({"kafka", "amqp", "websocket"}, Calls, "ok"),
        answer : IF p = "kafka" THEN {"ok"} ELSE Calls,
        status : Asked({"http", "graphql", "sse", "polling"}, {200, 404}, 200),
        body : Asked({"graphql", "polling"}, {"data", "errors", "neither"}, "data"),
        messages : Asked({"grpc", "websocket", "sse"}, 0 .. 1, 0)]

\* How the step may end: its class, and whether grpc got to know its method.
Endings(g) ==
    LET c == Step(g)
        held == Held(g)
    IN {[class |-> Execute(c, scen, w, held),
         resolved |-> c.protocol = "grpc" /\ Address(c, scen) # "" /\ w.open = "ok"] :
        w \in World(c.protocol, it[g].open)}

\* Checks and assertions are evaluated on a success, captures after them: a required
\* one that is not in the response fails the step, an optional one takes its default.
Check(c, class, holds) == IF class = "success" /\ c.checks /\ ~holds THEN "assertion" ELSE class

Capture(c, class, found) ==
    IF class = "success" /\ c.capture = "required" /\ ~found THEN "correlation" ELSE class

Captures(g, class, found) ==
    IF class = "success" /\ Step(g).capture # "none"
    THEN [it[g].values EXCEPT !["id"] = IF found THEN it[g].iteration + 1 ELSE 0]
    ELSE it[g].values

\* mqtt drops the cached client after an error, whichever client is cached by then,
\* and keeps it after a timeout; grpc keeps the method it resolved, however the call
\* itself then ends.
After(g, end) ==
    LET p == Step(g).protocol IN
    CASE p = "mqtt" /\ end.class = "network" /\ it[g].gen # 0 -> [conns EXCEPT !["mqtt"] = NoConn]
      [] p = "grpc" /\ end.resolved /\ it[g].gen # 0 /\ conns["grpc"].gen = it[g].gen ->
            [conns EXCEPT !["grpc"].resolved = TRUE]
      [] OTHER -> conns

\* The answer, the checks and the captures; a failed step ends the iteration.
FinishStep(g) ==
    /\ it[g].pc = "wait"
    /\ \E end \in Endings(g),
          holds \in IF Step(g).checks THEN BOOLEAN ELSE {TRUE},
          found \in IF Step(g).capture = "none" THEN {TRUE} ELSE BOOLEAN :
         LET checked == Check(Step(g), end.class, holds)
             class == Capture(Step(g), checked, found)
         IN /\ conns' = After(g, end)
            /\ it' = [it EXCEPT ![g] =
                   IF class = "success" /\ it[g].step < Len(scen.steps)
                   THEN [@ EXCEPT !.pc = "step", !.step = it[g].step + 1, !.gen = 0, !.polls = 0,
                                  !.values = Captures(g, checked, found)]
                   ELSE Idle]
    /\ UNCHANGED <<scen, run, source, auth, issued, nextGen, dead, tls, watcher, stopWatch,
                   lag, clock, drops>>

\* A poll that did not show the effect, with time left for another one.
PollAgain(g) ==
    /\ it[g].pc = "wait" /\ Step(g).protocol = "polling" /\ it[g].polls < MaxPolls
    /\ it' = [it EXCEPT ![g].polls = @ + 1]
    /\ UNCHANGED <<scen, run, source, auth, issued, conns, nextGen, dead, tls, watcher,
                   stopWatch, lag, clock, drops>>

(***************************************************************************)
(* The environment.                                                        *)
(***************************************************************************)
Tick ==
    /\ clock < MaxClock /\ run.phase = "load" /\ scen.refresh > 0
    /\ clock' = clock + 1
    /\ UNCHANGED <<scen, run, source, auth, it, issued, conns, nextGen, dead, tls, watcher,
                   stopWatch, lag, drops>>

\* The broker drops a link.
Drop(p) ==
    /\ drops < MaxDrops /\ conns[p].up
    /\ conns' = [conns EXCEPT ![p].up = FALSE]
    /\ drops' = drops + 1
    /\ UNCHANGED <<scen, run, source, auth, it, issued, nextGen, dead, tls, watcher,
                   stopWatch, lag, clock>>

IterationStep(g) ==
    \/ Dispatch(g) \/ Data(g) \/ BeginStep(g) \/ FinishStep(g)
    \/ \E answer \in {"ok", "unchecked", "refused"} : TokenAnswered(g, answer)

RunStep == StartRun \/ (\E fails \in BOOLEAN : Prepare(fails)) \/ StartLoad \/ EndLoad \/ EndRun

\* The process has served its last run.
Finished == run.phase = "idle" /\ run.id = MaxRuns /\ WatchersDone /\ UNCHANGED vars

Next ==
    \/ RunStep \/ Tick
    \/ \E answer \in Answers : Sample(answer) \/ LastSample(answer)
    \/ \E g \in Goroutines : IterationStep(g) \/ EnsureToken(g) \/ CopyToken(g) \/ PollAgain(g)
    \/ \E p \in {"amqp", "mqtt"} : Drop(p)
    \/ Finished

\* The goroutine is not at a call that ends only when the other side answers: the dial
\* and upgrade of a websocket, an amqp link with its channels and confirmations, and the
\* opening of a subscription are given no deadline by the code.
HasDeadline(g) ==
    it[g].pc \in {"step", "wait"} =>
        LET c == Step(g) IN
        IF it[g].pc = "step" THEN ~(c.protocol \in {"amqp", "await"} /\ Opens(c))
        ELSE c.protocol \notin {"websocket", "amqp"}

\* Any other call has a deadline, so it answers; goroutines are scheduled and a mutex is
\* not withheld for ever from one that keeps asking.  Calls without a deadline, the
\* preparation, samples, ticks, further polls and drops are the environment's and get
\* no fairness.
Fairness ==
    /\ WF_vars(StartRun \/ StartLoad \/ EndLoad \/ EndRun)
    /\ WF_vars(\E answer \in Answers : LastSample(answer))
    /\ \A g \in Goroutines :
         /\ WF_vars(HasDeadline(g) /\ IterationStep(g))
         /\ SF_vars(EnsureToken(g) \/ CopyToken(g))

Spec == Init /\ [][Next]_vars /\ Fairness

(***************************************************************************)
(* Properties.                                                             *)
(***************************************************************************)
\* The type of the state; connections are identified by the numbers given out so far.
TypeOK ==
    /\ run \in [id : 0 .. MaxRuns, phase : {"idle", "prepare", "load", "stopped"}, prepared : Nat]
    /\ source.position \in 0 .. MaxIterations
    /\ auth.lock \in Goroutines \union {None} /\ auth.obtains \in 0 .. MaxRuns * MaxIterations
    /\ \A g \in Goroutines :
         /\ it[g].pc \in {"idle", "data", "auth", "asking", "copy", "step", "wait"}
         /\ it[g].values \in [Names -> Nat] /\ it[g].gen \in 0 .. nextGen - 1
    /\ \A p \in Kept : conns[p].gen \in 0 .. nextGen - 1

\* A step is sent with the row its own iteration drew and with an id its own
\* iteration captured: what the login leaves in the manager, which every iteration
\* copies, never brings another iteration's data along (auth.go:91-94).
OwnValues ==
    \A g \in Goroutines : it[g].pc \in {"step", "wait"} =>
        /\ it[g].values["row"] = it[g].row
        /\ it[g].values["id"] \in {0, it[g].iteration + 1}

\* The token is obtained once and refreshed when it expires, never per request
\* (auth.go:38), however many iterations find it missing at the same time.  A login that
\* fails obtains nothing and is not counted.
TokenNotPerRequest ==
    auth.obtains <= IF scen.refresh = 0 THEN 1 ELSE 1 + (clock \div scen.refresh)

\* A sequential source gives each line once and runs out only after the last one; a
\* circular one gives no line again before the others (data.go Next).
EachLineInTurn ==
    /\ scen.consume = "sequential" =>
         /\ \A r \in 1 .. Rows : source.handed[r] <= 1
         /\ source.exhausted => \A r \in 1 .. Rows : source.handed[r] = 1
    /\ scen.consume = "circular" =>
         \A r, q \in 1 .. Rows : source.handed[r] <= source.handed[q] + 1

\* No step is using a connection when CloseAll closes it: the run waits for its
\* iterations first and no other run of the process is under way.
NoUseAfterClose ==
    \A g \in Goroutines : it[g].pc = "wait" /\ it[g].gen # 0 => it[g].gen \notin dead

\* A run that declares TLS settings talks over connections made with them, not over
\* ones an earlier run of the process left open (protocol.go WithTLS).
OwnTLS ==
    \A p \in {"mqtt", "grpc"} :
        run.id > 0 /\ scen.tls[run.id] /\ conns[p].gen # 0 => conns[p].tls = run.id

\* The lag a run reports for the watch it started was read after its load stopped, never
\* in the middle of it (kafka.go:111-114), unless the run says there was a problem or the
\* last read brought nothing: then what an earlier read brought is reported in silence.
OwnLagIsFinal ==
    \A r \in DOMAIN lag : watcher.by = r =>
        \/ lag[r].problem \/ watcher.silent
        \/ lag[r].last = [run |-> r, phase |-> "stopped"]

\* A load that started ends, and the run with it, unless some call without a deadline is
\* never answered: no iteration waits for ever for the token or for an answer it gave a
\* deadline, nor the run for the lag watcher.
RunEnds ==
    (\A g \in Goroutines : []<>HasDeadline(g)) => (run.phase = "load" ~> run.phase = "idle")
=============================================================================
