# braunrate: a verification project in TLA+

braunrate is a load generator: it compiles a scenario into a plan of arrivals,
runs one iteration per arrival (or a fixed number of users in a loop), measures
every step, and turns the measurements into a document, a verdict and an exit
code for CI. The same engine runs behind a command line and behind an HTTP
server. Its central promise is that it never reports a number it did not
measure; most of what is stated here is about that promise under concurrency.

The modules are written from the Go source. `PROJECT.json` maps every definition
to the lines it stands for, lists the hazards of the code and says which
properties guard against them.

## The parts of the system

| Part | State | Operations | What is hard | What makes it correct |
|---|---|---|---|---|
| engine (`internal/engine/executor.go`) | dispatch index, in-flight counter, iteration counter, context | `driveOpen`, `driveClosed`, `runIteration`, `runStep`, `Execute` | one goroutine per arrival, cancel at any moment, shutdown order | in-flight limit, every arrival sent or dropped, the run ends |
| collector (`internal/metrics/collector.go`, `aggregate.go`) | sample channel, aggregates, counters, per-second buckets | `Record` (never blocks), `RecordDispatch`, `RecordJourney`, `consume`, `Close` | many senders, one consumer, a full channel, a channel closed under senders | every sample measured or counted as lost, none sent after close |
| document and verdict (`result.go`, `sanity.go`, `variety.go`, `runner.go`) | none | `BuildDocument`, `CheckSanity`, `Valid`, `verdict` | thresholds and integer rounding; what invalidates what | code 0 or 1 only for a run that measured what it set out to |
| SLO (`internal/slo`, `report/comparison`) | none | `Evaluate`, `evaluateRegression`, `Compare` | missing data, closed-loop distributions, runs that cannot be compared | exit code 0 only when every rule holds of the numbers reported |
| await (`internal/protocol/wait`) | held messages, order, registered waiters | `deliver`, `await`, `shutdown`, `subscribe`, HTTP polling | delivery racing registration and timeout, a send outside the mutex, the cap | no lost wakeup, no blocked reader, no message twice |
| protocols and registry (`internal/protocol/...`) | process-wide connection, writer and watcher caches | `Decode`, `Resolve`, `Prepare`, `Execute`, `Close`, `CloseAll`, `ConsumerLag` | several runs in one process share them; links drop | nothing is used once closed, a run uses its own TLS and reports its own lag |
| authentication (`internal/auth`) | token, time obtained | `Header`, `ensureToken` | one token for all iterations, refresh, failing endpoint | obtained once per period, never with another iteration's data |
| data and mix (`internal/data`, `scenario/mix.go`, `engine/plan.go`) | row cursor, mix order, compiled phases | `Next`, `stepsOf`, `CompilePlan` | exhaustion, rounding, ties | each line in its turn, each alternative its share |
| scenario (`internal/scenario`) | the parsed tree | `Parse`, `Validate`, `ResolveWith`, `Migrate` | a reference that resolves to nothing, at run time, in silence | what is accepted can be sent |
| server runs (`internal/server/runs.go`, `server.go`) | busy flag, run store, status, cancel flag, context, lines, watchers | `startRun`, `debug`, `cancelRun`, `finish`, `append`, `close`, `follow` | handlers, run goroutine, progress goroutine and clients interleave | one run at a time, no lost cancel, a gapless stream, settled before told |
| recorder (`internal/recorder`) | log, counts, adopted host, behind a mutex | `handle`, `tunnel`, `record`, `Serve`, `Build` | concurrent handlers, draining, correlation by order | every request is in the scenario or in a count; a replay sends what its own step captured |
| command line (`cmd/braunrate`, `internal/runner`) | the files read and written | one function per command | files edited, cut short or left by a crash | the exit code is what happened; migrating loses nothing |
| importers, reports, DSL, demo, site, UI | none | translation and printing | - | see "Not modelled" |

Calls and messages: the server (or the command line) calls `runner.Execute`,
which calls `engine.Execute`; iterations call the protocols and hand samples to
the collector over a channel; the engine calls the server back with progress;
`BuildDocument` reads the collector once it is closed; `runner` judges the
document and `runStore.finish` publishes the outcome.

## Modules

| Module | Models | Extends or instantiates |
|---|---|---|
| `Verdict` | warnings, sanity checks, validity and exit code, as operators over a document record | - |
| `Accounting` | the abstract promise of a run's books: arrivals are sent or dropped, samples measured or lost, published once and complete | - |
| `Engine` | dispatcher, closed loop, iterations, collector, cancel, shutdown, document, verdict | extends `Verdict`, instantiates `Accounting` |
| `EngineProofs`, `VerdictProofs` | the proofs about `Engine`, and about its verdict | extend `Engine`, `EngineProofs` |
| `Subscription` | the subscription behind an `await` step | - |
| `Runs` | admission, life of a run, cancel, and the stream of its lines | - |
| `Steps` | the nine protocols as operators: what `Decode` accepts, what `Resolve` substitutes, where the address comes from, which error class `Execute` ends with | - |
| `Iteration` | the runs of one process: preparation, iterations, data, token, connection caches, lag watcher, `CloseAll` | extends `Steps` |
| `Scenario` | `Parse`, `Validate`, references, mix order, number of arrivals, `Migrate`, as operators | extends `Steps` |
| `Gate` | SLO rules, comparison with a previous run, regression, as operators | extends `Scenario`, `Verdict` |
| `Recorder` | the proxy's handlers and shutdown; grouping, correlation and `RenderYAML` | extends `Gate` |
| `Command` | one invocation of the command line over its files | extends `Recorder` |
| `SubscriptionProofs`, `RunsProofs`, `IterationProofs` | the proofs about these modules | extend them |
| `CommandProofs` | the proofs about migrating | extends `Command` |
| `RunningProofs` | the proofs about what a run sends, how a mix is ordered and what the exit code says | extends `Command` |
| `RecordingProofs` | the proofs about recording | extends `CommandProofs`, `RunningProofs` |
| `MCEngine`, `MCSubscription`, `MCRuns`, `MCIteration`, `MCCommand` | the instances TLC checks | the above |

### Engine

Variables keep the names of the code (`inflight`, `current`, `Sent`,
`LostSamples`, `JourneysStarted`...). `driver` is the program counter of the
goroutine of `Execute`; `pc[g]` that of the goroutine of arrival or user `g`.
The atomics and the collector's critical sections are single steps, since each
is one atomic operation or one hold of `collector.mu`. Two pairs are merged:
the check of the in-flight counter with the add that follows (only the
dispatcher adds), and the two deferred calls at the end of an iteration.

Abstractions: a sample is its step and whether it succeeded; all data sources and
the authentication report under step 0; a dispatch is late or not; the window of
a closed loop is before 99% of it, before its end, or over; whether a varied
source collapsed to one value, and whether the SLO rules pass, are chosen freely.
An iteration runs all steps in order or, with a mix (`Mixed`), one of them: the code
takes it from a fixed cycle, the module takes any, which includes the cycle. `MaxIterations` bounds a closed loop.

### Subscription

`hand[r]` is the message a reader carries: read, not yet delivered (`to` is
nobody), or unregistered its waiter and about to send. A message is a number, a
correlation value a model value, or empty, which `deliver` ignores. Waiters may
share a value: `OwnRegistration` alone assumes they do not.

### Runs

`pc[r]` is first the handler of `startRun` and then the run's goroutine. `Cancel`
is the critical section of `run.cancel` and `CancelStop` the call of `stop()`
after it, so a cancel interleaves with `arm` and `finish` as in the code. The load
is one step (`Drive` to `DriveEnds`); the progress goroutine (`ticker`) runs
beside it and is not waited for. A line is its kind. The channel between the
goroutine of `follow` and the client is one with the goroutine: a slow client is a
goroutine that does not step.

### Steps and Iteration

A call to the outside world ends "ok" or in one of five ways (`Failures`); each
protocol's `Execute` is the list of its stages in the order of the code, and the
first that fails gives the error class. `Iteration` runs those steps: a goroutine
(`it[g]`) draws a line of the data source, gets the token (`EnsureToken` takes the
mutex, `TokenAnswered` gives it back, `CopyToken` is the second critical section of
`Header`), and for each step takes or opens the connection (`BeginStep`) and then
uses it (`FinishStep`), so that a drop, a refresh or another step can come between.
`conns`, `watcher`, `tls` and `stopWatch` belong to the process and survive a run
unless `CloseAll` clears them, as in the code. Connections have identities
(`gen`), which is what lets a property speak of one that is used after it was
closed. A read of the lag brings a value, a failure, or neither (`lag.go:71`,
`lag.go:99`); `watcher.silent` remembers that the last one brought neither.

Abstractions: one connection per protocol, one watched group and one data source;
values are small numbers, a captured id being that of its iteration. Debugs and runs
follow one another (the server's default); `-concurrent`, with which one run's
`CloseAll` closes what another uses, is not modelled.

### Scenario and Gate

A scenario file is a record of sections. A YAML node is its form, its keys and those
keys whose value its reader refuses: that is all `Parse` tells apart. References are
a set of records that say where each `${name}` stands, so that what is expanded while
reading, what is resolved per iteration and what is never resolved can be told apart.
Rates are kept per hour and durations in seconds, so that the number of arrivals is an
integer computation rounded where the code rounds. `MixOrder` compares positions by
cross multiplication where the code compares floats; ties are broken alike.
`Migrate` renames words in the contexts the rewriter descends into; the target of a rule
follows the derived name of an unnamed step, or the old name of a scope. What is in quotes
is skipped, key or value, since the edit looks for the text at the column of the quote. An
old word that stays behind no longer parses, except where any text may stand (`FreeText`),
and the target of a rule, which still parses as the name of a step.

A distribution is one number, 0 when empty, with the latency counted from the schedule
and the one from the sending apart; that is what `Reported()` chooses between.

### Recorder and Command

The recorder's handlers take one step each for the request, the failed round trip, the
critical section of `record` and the answer; the client sends a request once it has
been given the values in it. `Build` and `RenderYAML` are operators over what was
recorded, and their result is read back by the same `Parse`. A request carries a value in
a segment of its path, in its query, plain or percent-encoded, in its text, in its text as
a bare number, or inside a credential, which is as far as `uses`, `apply`, `templatePath`
and the masking tell places apart; a bare number replaced in a GraphQL body is no JSON any
more, and the step falls back to http. `Sanitize` is a constant: names may become equal,
or empty. No value is part of another, so `apply` replaces whole values only.

`Collect` takes the three critical sections of `Entries`, `Dropped` and `Tunneled` as one: a
handler that ended between them, which has to have outlived the two seconds of the
shutdown, would be counted although its entry was not kept. The failure of
`NewRequestWithContext` (`recorder.go:134`) is left out: the URL was parsed already.

`Command` composes all of it: an invocation is chosen from `Invocations`, its files
are read and written in the order of the code, and every write may be refused, cut
short or complete. An editor may save the scenario between its two readings, and a
migration may crash at any write and be given again; a file cut short may then be broken,
unchanged, refused or converted, whatever is left of it (`MigrateOne`). `Document` builds the document of
a load from an outcome (sent, cut short, dropped, failing share, latencies):
`Collected` is what the collector holds and `DropCorrectedLatency` what a closed loop
leaves of it. The load itself is the subject of `Engine` and `Iteration`.

## Runs of TLC

| Run | Question | Bounds |
|---|---|---|
| `engine` | does a run end, keep its books and get judged only on a measurement? | 3 arrivals or 2 users with 2 iterations, 2 slots, a channel of 1, 2 steps |
| `engine_mix` | with a mix, is a run judged only when every alternative was measured? | as `engine`, channel of 2 |
| `engine_cancel` (violation) | does every run a cancel cut short come out invalid? | 2 arrivals |
| `subscription` | deliver, await, timer and shutdown in every interleaving | 2 waiters, 2 values, 2 readers, a cap of 2, 3 messages |
| `subscription_cap` (violation) | is a message evicted only when the cap is reached? | 1 waiter, 3 values, 3 messages |
| `runs` | admission, cancel, release, and what a follower sees | 2 runs, 2 clients that cancel, 1 follower of the first run, a channel of 1, 1 tick |
| `runs_cancel` (violation) | does an accepted cancel rule out "done"? | 1 run, 1 client |
| `stream_end` (violation) | is the last line always the verdict? | 1 run, 1 follower |
| `iteration` | does an iteration keep its own values, and a run its own token, lines, connections and lag? | 2 goroutines, 2 runs of up to 3 iterations, 7 scenarios over all protocols, 2 rows, 2 ticks, 1 further poll, 1 drop, calls ok, refused or late |
| `command` | does what is accepted get sent whole, does the exit code tell the truth, is nothing lost in a migration or a recording? | 802 invocations, 7 outcomes of a load, 11 browsing sessions of up to 4 requests, 3 attempts at a migration |
| `gate_closed` (violation) | is a step rule of a closed loop read against what is reported? | 2 scenarios, every set of outputs |
| `gate_baseline` (violation) | does a regression rule fail when there is nothing to compare with? | the scenarios with SLO rules, with and without a baseline |

Why these bounds: three arrivals and two slots let an arrival be dropped while
others run and a later one take a slot given back; a channel of one overflows as
soon as two samples meet; two steps tell a broken journey from a complete one.
Two readers, two waiters and a cap of two let a delivery meet a registration, a
timeout and an eviction at once; three messages overflow the cap. One tick is enough
for a progress line before, between or after the lines of `finish`, and with a
channel of one for a follower to miss the verdict. Two goroutines and a third
iteration let a refresh, a failed login and a copy of the token meet; two runs
show what the first leaves to the second; two rows and three iterations exhaust or
wrap a source. The scenarios of `MCCommand` are a few accepted ones varied in one
section at a time, so that each check of `Parse` and `Validate` refuses some and lets
others through; four requests allow a value to pass from step to step and two captures to
have one leaf, and three attempts a
migration that crashes in each of its two writes and is then completed. `command` lets a
process end, so deadlock is not checked there.

### What the runs show

- `InflightBounded`, `NoRecordAfterClose`, `EverySampleAccounted`,
  `EveryArrivalAccounted`, `OneArrivalAfterCancel`: the books and the shutdown of
  a run, also when it is canceled and when channel and slots are exhausted.
- `VerdictOnlyOnMeasurement`: exit code 0 or 1 implies that nothing was dropped or
  lost, that every dispatched arrival or begun iteration became a journey, and
  that every declared step answered at least once.
- `RunEnds`: `Execute` returns. `KeepsBooks`: `Engine` implements `Accounting`.
- `HandOverNeverBlocks`, `NoLostWakeup`, `NoStaleRegistration`,
  `MessageInOnePlace`, `HeldIsBounded`, `OwnRegistration`, `EveryAwaitReturns`:
  the subscription. `MessageInOnePlace` also says what the code does not prevent:
  a message can end in the channel of an await that has just reported a timeout,
  because `deliver` sends after it released the mutex.
- `OneAtATime`, `CancelReachesContext`, `ServerComesFree`: the server.
- `NoSendToClosedWatcher`, `NoGapAtHandover`, `EndSeenMeansSettled`,
  `EveryStreamEnds`: the stream.
- `OwnValues`, `TokenNotPerRequest`, `EachLineInTurn`: what iterations share does not
  mix them up. `NoUseAfterClose`, `OwnTLS`, `OwnLagIsFinal`: what runs of one process
  share does not either; `RunEnds`: every load that started ends, unless a call that has
  no deadline is never answered (see "Fairness").
- `NoSilentBlank`: no accepted scenario sends a step without an address or with a
  reference that resolved to nothing. Some blanks the code does accept are excused
  by name in `Excused` (see below).
- `MixKeepsShare`: the shares are the weights in lowest terms, a whole cycle gives each
  alternative exactly its share, and at any point of it an alternative is off by at most
  half an iteration plus half its share for every alternative past the second. With two or
  three alternatives that is within one iteration; with more it is not, because
  alternatives of equal weight are placed at the same positions.
- `ExitTellsTheTruth`: code 0, 1 or 3 of a run, a comparison, a debug and a recording
  each mean what they say, whatever failed to be written. A regression rule is read the
  way its author means it: an improvement, a change within the noise and a comparison with
  a blocking caveat are no worsening. Arguments that were refused are not spoken of, and
  two kinds of rule are left to the runs that refute them: the latency of a step in a closed
  loop (`GateReadsWhatIsReported`) and a regression without a baseline
  (`RegressionNeedsBaseline`).
- `MigrationIsSafe`: after any crash and failed write the author's text is on disk, and a
  replaced scenario parses and keeps its rules on their steps, or `Validate` says that a
  rule in quotes names none (a name that two steps shared, which `Validate` refuses, points
  at neither).
- `RecordedOrSaid`, `RecordingReplays`: the recorder loses no request it handled, and
  a replay sends the value the step it came from captures, in the path, the query or the
  text where it was sent.

What the code accepts and these properties leave out, each named in its definition:

- a reference to a value the same or a later step captures, or one a login captures
  under basic authentication, which never logs in (`knownVariables` looks at neither);
- a `variables` entry that refers to a name only the session provides: it is expanded to
  nothing when the file is read, while `ResolveWith` no longer reports it missing; and a
  session name that a broker's credential also uses (`references.go:257`);
- a request still waiting for the target when the recorder's two seconds are over
  (`recorder.go:106`) is neither kept nor counted;
- a capture for which both names are taken, that of the leaf and the one with the subject
  before it, shares a variable with another (`build.go:341`); and a value is only looked
  for in the answers to the first request of a route (`build.go:193`);
- an `amqp` step whose own address is an http one: `Validate` takes it, and every
  iteration refuses it (`amqp.go:214`);
- what stays as it was recorded: the path and the query of a GraphQL step (`build.go:253`),
  though a data source is made of the identifiers in that path; an item of the query that
  is percent-encoded, which `uses` finds decoded and `apply` does not (`build.go:391`); and
  a value inside a credential that is masked whole;
- `migrate -output` naming the scenario itself writes no `.bak` (`main.go:1086`), and a
  scenario that a crash cut short and that is migrated again may be backed up over the
  author's text (`main.go:1089`), which is then in neither file;
- a rule in quotes keeps its old target (`migration.go:158`): the file is replaced, and only
  the message of `Validate` tells; a recipe or a comparison in quotes stays without one;
- a last read of the lag that finds no topic, or nothing committed on a partition, leaves
  the number of an earlier read in its place without a problem (`lag.go:71`, `lag.go:99`),
  where the comment at `kafka.go:111-114` wants the final one;
- the lag a later run of a process reports for a group an earlier one watched is the
  earlier one's (`kafka.go:598`); `OwnLagIsFinal` is about the run that began the watch;
- `uniquePerUser` is handed the iteration, not the user (`executor.go:339`);
- a change against a baseline of 0 counts as none (`comparison.go:180`), and a plan
  summary tells apart neither the user counts of closed loops nor the initial rates of
  ramps (`comparison.go:147`).

### Disagreements found

1. `CutShortComesOutInvalid`: `runShorterThanPlan` tolerates 1% in integer
   arithmetic, so a canceled run can be valid; `runs.go` and the answer to the
   cancel say it never is.
2. `EvictsOnlyAtCap`: `subscription.order` keeps entries of messages already taken
   or replaced, so messages are evicted below the cap.
3. `CanceledNeverDone`: a cancel between `wasCanceled` and `settle` is accepted and
   the run still becomes done.
4. `LastLineIsVerdict`: the progress goroutine can append after the verdict.
5. `GateReadsWhatIsReported`: `slo.go:81` reads the corrected latency of a step, which
   `dropCorrectedLatency` has emptied in a closed loop, so a latency rule of a step
   passes on 0 whatever the report shows.
6. `RegressionNeedsBaseline`: a regression rule with no baseline is noted and passes
   (`slo.go:126`); the comment at `slo.go:17-18` and the name of the test at
   `criteria_test.go:251` say that it does not pass by default.

Met while modelling and not given a run:
the comment at `main.go:1078-1081` says a migrated rule is not renamed, and
`renameDerivedStep` renames it; a JMeter plan with samplers `Login`, `Login` and
`Login 2` is imported with two steps named `Login 2`, which `import` writes and
`Validate` refuses later.

## Fairness

Weak fairness of every goroutine's steps: the Go scheduler runs every runnable
goroutine. In `Engine` this includes the clock and the return of every protocol call, which for
the calls without a deadline named below is an assumption about the target. In `Subscription` a waiter's timer
eventually fires; no message has to arrive. In `Runs` a load and a debug iteration
end (`RunEnds`), and a client that stays reads; nobody has to start, cancel,
follow or leave. In `Iteration` a step of a run is weakly fair, and one of an iteration
where it has a deadline (`HasDeadline`): http, graphql, sse and grpc calls and polls have
30 seconds or what the step says, mqtt waits with a timeout, the writer of kafka has those
of its library and the lag client 5 seconds. No deadline is given to the dial and upgrade
of a websocket (`websocket.go:202-222`), to an amqp link, its channels and, unless the
step declares a timeout, its confirmations (`amqp.go:235`, `amqp.go:264`), nor to the
opening of a subscription. Those calls, and the preparation before the load, get no fairness,
and `RunEnds` speaks of the runs in which they are answered; a target that accepts a
websocket's connection and says nothing hangs a run that nobody cancels. `CloseAll` is taken
to return. The two critical sections of the authentication are strongly fair: they are enabled again and again while others hold
the mutex, and Go's mutex hands itself to a waiter that has starved for a
millisecond. Samples of the lag, ticks, further polls and drops get no fairness.
`Command` states safety only: a process may be killed at any moment.

## Proofs

Every invariant and the refinement a passing run checks is a theorem, proved for all values
of the constants from the `ASSUME` of its module alone; none is inductive as it stands. Each
proof module states the inductive invariant as a conjunction of named parts, was checked
with TLC on the run's instance first, and proves it with one lemma or step per action.

| Module | Theorems | Assumed of the constants |
|---|---|---|
| `EngineProofs` | `TypeOK`, `InflightBounded`, `NoRecordAfterClose`, `EverySampleAccounted`, `EveryArrivalAccounted`, `OneArrivalAfterCancel`, the refinement `KeepsBooks` | natural numbers, capacity and steps positive |
| `VerdictProofs` | `VerdictOnlyOnMeasurement` | the same |
| `SubscriptionProofs` | `TypeOK`, `HandOverNeverBlocks`, `NoLostWakeup`, `NoStaleRegistration`, `HeldIsBounded`, `OwnRegistration`, `MessageInOnePlace` | a positive cap; "nobody" is no waiter |
| `RunsProofs` | `TypeOK`, `OneAtATime`, `CancelReachesContext`, `NoSendToClosedWatcher`, `NoGapAtHandover`, `EndSeenMeansSettled` | a positive buffer; "no run" is no run |
| `IterationProofs` | `TypeOK`, `OwnValues`, `TokenNotPerRequest`, `EachLineInTurn`, `NoUseAfterClose`, `OwnTLS`, `OwnLagIsFinal` | finitely many goroutines; rows, runs and iterations positive; scenarios of the declared shape with at least one step |
| `CommandProofs` | `MigrationIsSafe` | the shape of a scenario file; no step derives a name of the old format |
| `RunningProofs` | `RunInv` (only accepted scenarios run), `MixKeepsShare`, `NoSilentBlank`, `CodeInv` (the code is decided by verdict and writes), `ExitTellsTheTruth` | `RunAssumption`: what the decoder makes of a file (lists are sequences, weights, rates and times are integers, an environment name has no dot); outcomes are natural numbers, and a latency, counted from the schedule, is never below the service time |
| `RecordingProofs` | `RecordedOrSaid`, `RecordingReplays` | sessions are finite, their requests of the kinds `Recorder` names, and an answer is a list of values |

### Engine and its verdict

- `SlotsInv`: the in-flight counter is the number of goroutines running, plus one
  while the dispatcher holds a slot it has not used. It needs counting: the lemmas
  `RunningGrows` and `RunningShrinks` say how the cardinality moves. Without it the
  counter could not be shown to stay in the naturals.
- `ShapeInv`: which goroutines exist in which loop, so that the arrival being
  dispatched is a fresh one.
- `LifeInv`: what each stage of the shutdown has established (no goroutine left,
  channel closed, channel drained), the order the code relies on.
- `BooksInv`: both ledgers balance at every moment (samples in the channel included),
  and the document copies them.
- `CancelInv`: where the dispatcher can be once the context is canceled.

`BooksStep` shows that a step of `Engine` is a step of `Accounting` or leaves its
variables alone; it uses `IInv` for the steps after publication, when no goroutine may
move a counter.

`VerdictProofs` builds on that invariant. A valid document has no failed setup, nothing
lost and a sample of every declared step; from this it has to follow that every begun
iteration became a journey. `JourneyInv` says so while the iterations run: as long as no
trace of a failed setup is in the aggregates, the channel or the lost count, the
iterations begun are the journeys counted plus those under way. `SampleInv` ties a
sample of a declared step to an iteration that counts, `AggregateInv` errors to counts,
and `JudgeInv` the exit code to the document.

### Subscription

The properties speak of the mutex's data; the send happens outside it. `RegisteredInv`
says what a registration excludes (a message held, sent or on its way), `CarriedInv` what
a reader about to send excludes, so that each critical section can rely on what the others
left. `MessageInOnePlace` is a sum of cardinalities; `PlaceInv` says the same without
counting (a message is somewhere, not in two kinds of place, not twice in one), and a
lemma turns it into the sum.

### Runs

`OutcomeInv` ties the status, the outcome and the closing of a run to where its goroutine
is, `LinesInv` the final line to both, and `WatcherInv` a follower's registration to the
run still being open. `HandoverInv` strengthens `NoGapAtHandover` by a bound on the
length: without it an append to a closed run could not be shown to keep a prefix one.

### Iteration

`CountInv` counts, as the in-flight argument does: lines drawn and tokens asked for plus
iterations that may still do so never exceed the iterations issued. `IdentityInv` keeps the
identities of connections apart over the runs of a process, `ValuesInv` says that nothing
but the token passes through the manager, `TokenInv` that the mutex is held by the one that
asks and only when the token is missing or expired, which bounds the number of tokens
obtained by the clock, failed logins aside; `LineInv` says where each policy stands in the file after any number of lines,
by division with remainder; `WatchInv` orders the watcher's last reading after the load.

### Command

A migration: `FilesInv` (a scenario on disk is the author's, a converted one cut short or
the conversion, whole and parsing), `BackupInv` and `WritingInv` (what holds between the
reading of a file and each of its two writes). The step that matters is the repetition: it
must not back up a converted file over the author's text. That rests on the lemma
`MigrateTwice`, that migrating twice is migrating once; the one way past it is a file cut
short (`Overwritten`), which `FirstInv` rules out of the first attempt. The rules follow
their steps by `MigrateKeepsRules`, where `QuotedIsRefused` shows that a rule left behind in
quotes is one `Validate` reports.

A run: `RunInv` says which stages each command has, that the file read is the one named or
what an editor saved over it, and that what runs, or ran, is a scenario that passed `Check`,
`RequireEnvironment` and `CheckDataFields` as it was last read.

- `NoSilentBlank` is then a statement about `Scenario`'s operators alone: a reference of an
  accepted scenario is in the run's variables, captured by a step of the same iteration,
  captured by a login, or excused (`PlainReferences`); or a column of its data source
  (`DataReferences`); and the address is there (`EveryStepHasAnAddress`). With a mix it needs
  that the order of the cycle names steps (`OrderNamesSteps`).
- `MixKeepsShare`: `BeforeIsALine` shows that the comparison of `MixOrder` is a strict total
  order, `EveryPlaceIsTaken` that the ranks of its slots are 1 to their number, and
  `DriftBound` sums, over the alternatives, how many copies of each stand before a slot
  (`CopiesInStep`, `CopiesElsewhere`), which is where the bound comes from.
- `ExitTellsTheTruth`: `EvaluationSays`, `RegressionAgrees` and `OthersAgree` show rule by
  rule that what `Evaluate` computes is what the rule means (`RulesAgree`), over the sums of
  counts and errors of the steps (`TotalSumsUp`); a rule without a baseline passes
  (`UnbasedPasses`), which is why it can be left out of both directions. `CodeInv` carries that to the end of the
  process: `PendingInv` (the outputs still to be written, each once), `PlanInv` (the code
  it will end with), `EndInv` (a code was given by the plan or by a write that failed) and
  `BlankInv` (no output exists before the writing begins).

These need induction over data. The library's induction theorems take an operator as a
parameter, which the provers cannot instantiate; `LeastNumber` and `CountingUp`, derived
from `WFMin` for the order of the naturals, state the same about a set, and a recursive
function or a fold is shown to exist by counting up to its length (`SumExists`,
`WhatIsCaptured`).

A recording: `LedgerInv` balances handled requests against entries and counts at every
step of a handler; `KeptInv` carries the balance over the moment Serve returns, past which
handlers go on: those that were asking then are the ones cut off.

That it replays is an argument about order. A handler records before it answers and the
client sends a value only once it was answered with it (`LearnedInv`), so the entry that
sends it stands after the one that carried it, unless that one was left out (`DecidedInv`,
`ProducedBefore`); `KeptOrderInv` keeps this for what was collected, whatever a late handler
still records, and `GeneratedInv` ties the scenario to it. Groups are in the order of their
first requests (`GroupsInOrder`), the values offered in the order of the groups
(`OffersInOrder`), and after each of them the captures made are the first of each value,
under the first name that is free (`CapturesAfter`, `ClaimStep`). So the producer's step
comes before the consumer's and its capture is the only one of its variable
(`CapturedBefore`), which is what the reference reads. That the reference stands where the
value was sent is a case for each place (`WhereReplaced`, `ReplacedReplays`).

### Only model-checked

- The liveness properties `RunEnds` (of `Engine` and of `Iteration`), `EveryAwaitReturns`,
  `ServerComesFree` and `EveryStreamEnds`: fairness is out of the prover's reach.

A recursive operator would cost the prover its SMT backend, so recursion in the modules proved
about is written as recursive functions and folds.

Two practical notes: `@` nested in an inner `EXCEPT`, and string constants with a space in
them, are mistranslated on their way to the SMT solver, so the proved modules avoid the
first and keep the second away from arithmetic.

## Plan

- `-concurrent`: two runs at once over the caches of `Iteration`.
- The stream's replay of a closed run, and the key of the subscription cache: the two
  hazards of `PROJECT.json` no property covers.

## Not modelled

- Reports, the site and the UI print; the DSL builds the tree `Scenario` starts from; the
  demo and the test support are targets to practise on.
- The importers of curl, `.har` and `.jmx` translate text; what all of them end in,
  `RenderYAML` and the reading back of its result, is modelled.
- `metrics.Merge` has no caller outside its tests.
- The time series of the collector and all histograms are data no verdict reads, and the
  instants of a plan are a square root in floating point.
- The contents of requests and responses: whether a path or a pattern is found, a check
  holds or a call fails is chosen freely.

Every part is listed under `components` in `PROJECT.json`.
