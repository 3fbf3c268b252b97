------------------------------- MODULE Engine -------------------------------
(***************************************************************************)
(* One load run: the dispatcher of engine.Execute, the goroutines that run *)
(* iterations, and the metrics collector they report to.                   *)
(*                                                                         *)
(* Open loop: a single dispatcher walks the arrivals 0..Total-1 of the     *)
(* compiled plan and starts one goroutine per arrival, unless MaxInflight  *)
(* are already running.  Closed loop: Users goroutines repeat iterations   *)
(* until the window closes.  Every iteration hands samples to the          *)
(* collector through a channel of Capacity that never blocks; a single     *)
(* consumer goroutine moves them into the aggregates.                      *)
(*                                                                         *)
(* Time is abstracted: a dispatch is late or it is not, and the window of  *)
(* a closed loop is in one of three stages.  The time series, histograms   *)
(* and variety counters the same calls feed are not part of this module.   *)
(***************************************************************************)
EXTENDS Integers, Sequences, FiniteSets, Verdict

CONSTANTS
    Total,         \* arrivals of the compiled plan (open loop)
    Users,         \* virtual users (closed loop)
    MaxInflight,   \* Options.MaxInflight
    Capacity,      \* buffer of Collector.input
    Steps,         \* declared steps of the scenario
    Mixed,         \* Spec.HasMix(): an iteration runs one of the steps, not all
    MaxIterations  \* bound on the iterations of a closed loop

ASSUME EngineAssumption ==
    /\ Total \in Nat
    /\ Users \in Nat
    /\ MaxInflight \in Nat
    /\ Capacity \in Nat \ {0}
    /\ Steps \in Nat \ {0}
    /\ MaxIterations \in Nat

ASSUME MixAssumption == Mixed \in BOOLEAN

VARIABLES
    closed,       \* Load.Closed(): which of the two loops drives the run
    canceledAt,   \* -1, or the dispatcher's index when the context was canceled
    window,       \* closed loop clock: before 99% of the window, before its end, past it
    driver,       \* where the goroutine of Execute is
    index,        \* next arrival of the open loop
    current,      \* the dispatcher's local copy of inflight.Add(1)
    inflight,     \* the atomic counter of driveOpen
    iterations,   \* the atomic counter of driveClosed
    pc,           \* where each iteration goroutine is
    step,         \* the step each of them is running
    input,        \* Collector.input
    inputClosed,  \* close(collector.input) happened
    finished,     \* close(collector.finished) happened
    aggregates,   \* Collector.aggregates, 0 being the data and authentication steps
    Sent, Completed, LateDispatches, DroppedByInflightLimit,
    LostSamples, PeakInflight, JourneysStarted, JourneysCompleted,
    recorded,     \* history: calls of Collector.Record
    doc,          \* the document of BuildDocument, NoDocument before
    exit          \* the exit code, -1 before

dispatcher == <<driver, index, current>>
goroutines == <<pc, step, iterations>>
counters   == <<Sent, LateDispatches, DroppedByInflightLimit, PeakInflight>>
journeys   == <<JourneysStarted, JourneysCompleted>>
samples    == <<input, LostSamples, recorded>>
consumed   == <<aggregates, Completed, finished>>
outcome    == <<doc, exit>>

vars == <<closed, canceledAt, window, dispatcher, inflight, goroutines, counters,
          journeys, samples, consumed, inputClosed, outcome>>

Arrivals     == 0 .. (Total - 1)
VirtualUsers == Total .. (Total + Users - 1)
Goroutines   == Arrivals \cup VirtualUsers
Declared     == 1 .. Steps
SetupStep    == 0
Sample       == [step : 0 .. Steps, ok : BOOLEAN]
NoDocument   == [planned |-> -1]

canceled == canceledAt >= 0

\* The goroutines the WaitGroup still counts.
Running == {g \in Goroutines : pc[g] \notin {"none", "gone"}}

\* The type of the state; the in-flight counter is a natural number.
TypeOK ==
    /\ closed \in BOOLEAN
    /\ canceledAt \in {-1} \cup 0 .. Total
    /\ window \in {"early", "tolerated", "over"}
    /\ driver \in {"loop", "wait", "dispatch", "join", "close", "drain", "judge", "done"}
    /\ index \in 0 .. Total
    /\ current \in Nat
    /\ inflight \in Nat
    /\ iterations \in Nat
    /\ pc \in [Goroutines -> {"none", "top", "setup", "step", "broken", "complete",
                              "leave", "gone"}]
    /\ step \in [Goroutines -> 0 .. Steps]
    /\ input \in Seq(Sample)
    /\ inputClosed \in BOOLEAN
    /\ finished \in BOOLEAN
    /\ aggregates \in [0 .. Steps -> [count : Nat, errors : Nat]]
    /\ Sent \in Nat
    /\ Completed \in Nat
    /\ LateDispatches \in Nat
    /\ DroppedByInflightLimit \in Nat
    /\ LostSamples \in Nat
    /\ PeakInflight \in Nat
    /\ JourneysStarted \in Nat
    /\ JourneysCompleted \in Nat
    /\ recorded \in Nat
    /\ exit \in {-1, ExitPassed, ExitSLO, ExitInvalid}

Init ==
    /\ closed \in BOOLEAN
    /\ canceledAt = -1
    /\ window = "early"
    /\ driver = "loop" /\ index = 0 /\ current = 0
    /\ inflight = 0
    /\ pc = [g \in Goroutines |-> "none"]
    /\ step = [g \in Goroutines |-> 0]
    /\ iterations = 0
    /\ Sent = 0 /\ LateDispatches = 0 /\ DroppedByInflightLimit = 0 /\ PeakInflight = 0
    /\ JourneysStarted = 0 /\ JourneysCompleted = 0
    /\ input = <<>> /\ LostSamples = 0 /\ recorded = 0
    /\ aggregates = [s \in 0 .. Steps |-> [count |-> 0, errors |-> 0]]
    /\ Completed = 0 /\ finished = FALSE
    /\ inputClosed = FALSE
    /\ doc = NoDocument /\ exit = -1

-----------------------------------------------------------------------------
(* The dispatcher of the open loop.  The context is looked at only here, at *)
(* the top of the loop: WaitUntil does not watch it.                        *)

MoreArrivals_StopsOneShort == index < Total - 1 /\ ~canceled
MoreArrivals_IgnoresCancel == index < Total

MoreArrivals == index < Total /\ ~canceled

LoopTop ==
    /\ driver = "loop" /\ ~closed
    /\ driver' = IF MoreArrivals THEN "wait" ELSE "join"
    /\ UNCHANGED <<closed, canceledAt, window, index, current, inflight, goroutines,
                   counters, journeys, samples, consumed, inputClosed, outcome>>

HasRoom_OffByOne == inflight <= MaxInflight

HasRoom == inflight < MaxInflight

\* RecordInflightDrop and continue: the arrival is gone.
Drop ==
    /\ driver = "wait"
    /\ ~HasRoom
    /\ DroppedByInflightLimit' = DroppedByInflightLimit + 1
    /\ index' = index + 1
    /\ driver' = "loop"
    /\ UNCHANGED <<closed, canceledAt, window, current, inflight, goroutines, Sent,
                   LateDispatches, PeakInflight, journeys, samples, consumed,
                   inputClosed, outcome>>

\* inflight.Load() passed the limit and inflight.Add(1) follows.  Only this
\* goroutine adds, so the two are one step.
Admit ==
    /\ driver = "wait"
    /\ HasRoom
    /\ inflight' = inflight + 1
    /\ current' = inflight + 1
    /\ driver' = "dispatch"
    /\ UNCHANGED <<closed, canceledAt, window, index, goroutines, counters, journeys,
                   samples, consumed, inputClosed, outcome>>

\* RecordDispatch, group.Add(1) and the go statement.
Dispatch(late) ==
    /\ driver = "dispatch"
    /\ Sent' = Sent + 1
    /\ PeakInflight' = IF current > PeakInflight THEN current ELSE PeakInflight
    /\ LateDispatches' = IF late THEN LateDispatches + 1 ELSE LateDispatches
    /\ pc' = [pc EXCEPT ![index] = "setup"]
    /\ index' = index + 1
    /\ driver' = "loop"
    /\ UNCHANGED <<closed, canceledAt, window, current, inflight, step, iterations,
                   DroppedByInflightLimit, journeys, samples, consumed, inputClosed,
                   outcome>>

-----------------------------------------------------------------------------
(* The closed loop.                                                         *)

SpawnUsers ==
    /\ driver = "loop" /\ closed
    /\ pc' = [g \in Goroutines |-> IF g \in VirtualUsers THEN "top" ELSE pc[g]]
    /\ driver' = "join"
    /\ UNCHANGED <<closed, canceledAt, window, index, current, inflight, step,
                   iterations, counters, journeys, samples, consumed, inputClosed,
                   outcome>>

\* Another iteration, numbered by iterations.Add(1) - 1.
UserAgain(g) ==
    /\ pc[g] = "top"
    /\ ~canceled /\ window # "over"
    /\ iterations < MaxIterations
    /\ iterations' = iterations + 1
    /\ pc' = [pc EXCEPT ![g] = "setup"]
    /\ UNCHANGED <<closed, canceledAt, window, dispatcher, inflight, step, counters,
                   journeys, samples, consumed, inputClosed, outcome>>

UserStops(g) ==
    /\ pc[g] = "top"
    /\ canceled \/ window = "over"
    /\ pc' = [pc EXCEPT ![g] = "gone"]
    /\ UNCHANGED <<closed, canceledAt, window, dispatcher, inflight, step, iterations,
                   counters, journeys, samples, consumed, inputClosed, outcome>>

\* The clock of the window moves on.
Tick ==
    /\ closed /\ driver = "join"
    /\ \/ window = "early" /\ window' = "tolerated"
       \/ window = "tolerated" /\ window' = "over"
    /\ UNCHANGED <<closed, canceledAt, dispatcher, inflight, goroutines, counters,
                   journeys, samples, consumed, inputClosed, outcome>>

-----------------------------------------------------------------------------
(* runIteration.                                                            *)

\* Collector.Record: a send that never blocks.  With the buffer full the sample
\* is counted as lost instead.
Record(sample) ==
    /\ recorded' = recorded + 1
    /\ IF Len(input) < Capacity
       THEN /\ input' = Append(input, sample)
            /\ UNCHANGED LostSamples
       ELSE /\ LostSamples' = LostSamples + 1
            /\ UNCHANGED input

\* A data source ran out or the token could not be obtained: one failed sample,
\* and the iteration ends without a journey.
SetupFails(g) ==
    /\ pc[g] = "setup"
    /\ Record([step |-> SetupStep, ok |-> FALSE])
    /\ pc' = [pc EXCEPT ![g] = "leave"]
    /\ UNCHANGED <<closed, canceledAt, window, dispatcher, inflight, step, iterations,
                   counters, journeys, consumed, inputClosed, outcome>>

\* stepsOf: the steps an iteration may begin with.  Which alternative of a mix it
\* runs follows from its number; here it is any of them.
FirstSteps == IF Mixed THEN Declared ELSE {1}

SetupPasses(g, first) ==
    /\ pc[g] = "setup"
    /\ pc' = [pc EXCEPT ![g] = "step"]
    /\ step' = [step EXCEPT ![g] = first]
    /\ UNCHANGED <<closed, canceledAt, window, dispatcher, inflight, iterations,
                   counters, journeys, samples, consumed, inputClosed, outcome>>

LastStep(g) == Mixed \/ step[g] = Steps

\* runStep returned a sample; the first one that is not a success ends the
\* iteration.
RunStep(g, ok) ==
    /\ pc[g] = "step"
    /\ Record([step |-> step[g], ok |-> ok])
    /\ pc' = [pc EXCEPT ![g] = IF ~ok THEN "broken"
                               ELSE IF LastStep(g) THEN "complete" ELSE "step"]
    /\ step' = [step EXCEPT ![g] = IF ok /\ ~LastStep(g) THEN @ + 1 ELSE @]
    /\ UNCHANGED <<closed, canceledAt, window, dispatcher, inflight, iterations,
                   counters, journeys, consumed, inputClosed, outcome>>

RecordJourney(g) ==
    /\ pc[g] \in {"broken", "complete"}
    /\ JourneysStarted' = JourneysStarted + 1
    /\ JourneysCompleted' = IF pc[g] = "complete" THEN JourneysCompleted + 1
                                                 ELSE JourneysCompleted
    /\ pc' = [pc EXCEPT ![g] = "leave"]
    /\ UNCHANGED <<closed, canceledAt, window, dispatcher, inflight, step, iterations,
                   counters, samples, consumed, inputClosed, outcome>>

\* Only an arrival took a slot, so only an arrival gives one back.
SlotsAfterLeaving_AnyLoop == inflight - 1

SlotsAfterLeaving == IF closed THEN inflight ELSE inflight - 1

\* The deferred inflight.Add(-1) and group.Done() of an arrival; a virtual user
\* goes back to the top of its loop.
Leave(g) ==
    /\ pc[g] = "leave"
    /\ pc' = [pc EXCEPT ![g] = IF closed THEN "top" ELSE "gone"]
    /\ inflight' = SlotsAfterLeaving
    /\ UNCHANGED <<closed, canceledAt, window, dispatcher, step, iterations, counters,
                   journeys, samples, consumed, inputClosed, outcome>>

-----------------------------------------------------------------------------
(* The collector's consumer goroutine.                                      *)

\* Aggregate.Record
Counted(aggregate, sample) ==
    [count  |-> aggregate.count + 1,
     errors |-> IF sample.ok THEN aggregate.errors ELSE aggregate.errors + 1]

\* Collector.apply
Consume ==
    /\ input # <<>>
    /\ LET sample == Head(input)
       IN  aggregates' = [aggregates EXCEPT ![sample.step] = Counted(@, sample)]
    /\ Completed' = Completed + 1
    /\ input' = Tail(input)
    /\ UNCHANGED <<closed, canceledAt, window, dispatcher, inflight, goroutines,
                   counters, journeys, LostSamples, recorded, finished, inputClosed,
                   outcome>>

\* The range over a closed and drained channel ends.
ConsumerEnds ==
    /\ inputClosed /\ input = <<>> /\ ~finished
    /\ finished' = TRUE
    /\ UNCHANGED <<closed, canceledAt, window, dispatcher, inflight, goroutines,
                   counters, journeys, samples, aggregates, Completed, inputClosed,
                   outcome>>

-----------------------------------------------------------------------------
(* The end of Execute and of ExecuteSpec.                                   *)

\* group.Wait() returns when every goroutine called group.Done().
GroupIdle_NoWait == TRUE

GroupIdle == Running = {}

Join ==
    /\ driver = "join"
    /\ GroupIdle
    /\ driver' = "close"
    /\ UNCHANGED <<closed, canceledAt, window, index, current, inflight, goroutines,
                   counters, journeys, samples, consumed, inputClosed, outcome>>

CloseInput_LeavesOpen ==
    /\ driver = "close"
    /\ driver' = "drain"
    /\ UNCHANGED <<closed, canceledAt, window, index, current, inflight, goroutines,
                   counters, journeys, samples, consumed, inputClosed, outcome>>

\* Collector.Close: close the channel, then wait for the consumer.
CloseInput ==
    /\ driver = "close"
    /\ inputClosed' = TRUE
    /\ driver' = "drain"
    /\ UNCHANGED <<closed, canceledAt, window, index, current, inflight, goroutines,
                   counters, journeys, samples, consumed, outcome>>

Document(collapsed) ==
    [closed |-> closed, planned |-> IF closed THEN 0 ELSE Total,
     windowRan |-> window # "early",
     sent |-> Sent, dropped |-> DroppedByInflightLimit, late |-> LateDispatches,
     lost |-> LostSamples, completed |-> Completed,
     started |-> JourneysStarted, ended |-> JourneysCompleted,
     steps |-> aggregates, declared |-> Declared, collapsed |-> collapsed]

\* <-collector.finished
ConsumerDone_NoWait == TRUE

ConsumerDone == finished

BuildDocument(collapsed) ==
    /\ driver = "drain" /\ ConsumerDone
    /\ doc' = Document(collapsed)
    /\ driver' = "judge"
    /\ UNCHANGED <<closed, canceledAt, window, index, current, inflight, goroutines,
                   counters, journeys, samples, consumed, inputClosed, exit>>

\* The SLO rules run over a valid document only, then the verdict.
Judge(sloPassed) ==
    /\ driver = "judge"
    /\ exit' = ExitCode(doc, sloPassed)
    /\ driver' = "done"
    /\ UNCHANGED <<closed, canceledAt, window, index, current, inflight, goroutines,
                   counters, journeys, samples, consumed, inputClosed, doc>>

\* The context of the run is canceled: Ctrl-C, or a cancel request.
Cancel ==
    /\ ~canceled /\ driver # "done"
    /\ canceledAt' = index
    /\ UNCHANGED <<closed, window, dispatcher, inflight, goroutines, counters, journeys,
                   samples, consumed, inputClosed, outcome>>

Terminated == driver = "done" /\ UNCHANGED vars

-----------------------------------------------------------------------------
DriverStep ==
    \/ LoopTop \/ Drop \/ Admit \/ SpawnUsers \/ Join \/ CloseInput
    \/ \E late \in BOOLEAN : Dispatch(late)
    \/ \E collapsed \in BOOLEAN : BuildDocument(collapsed)
    \/ \E sloPassed \in BOOLEAN : Judge(sloPassed)

GoroutineStep(g) ==
    \/ UserAgain(g) \/ UserStops(g) \/ SetupFails(g) \/ RecordJourney(g) \/ Leave(g)
    \/ \E first \in FirstSteps : SetupPasses(g, first)
    \/ \E ok \in BOOLEAN : RunStep(g, ok)

ConsumerStep == Consume \/ ConsumerEnds

Next ==
    \/ DriverStep
    \/ \E g \in Goroutines : GoroutineStep(g)
    \/ ConsumerStep
    \/ Tick
    \/ Cancel
    \/ Terminated

\* Every goroutine is scheduled, time passes and every protocol call returns.  The last
\* is assumed of the calls: most have a deadline, and RunEnds of Iteration is about the
\* ones that have none.  Nobody has to cancel.
Fairness ==
    /\ WF_vars(DriverStep)
    /\ \A g \in Goroutines : WF_vars(GoroutineStep(g))
    /\ WF_vars(ConsumerStep)
    /\ WF_vars(Tick)

Spec     == Init /\ [][Next]_vars
FairSpec == Spec /\ Fairness

-----------------------------------------------------------------------------
Published == doc # NoDocument

\* driveOpen never has more iterations in flight than Options.MaxInflight, and
\* the peak the report quotes never exceeds it either, although the slot is
\* given back by another goroutine than the one that took it.
InflightBounded == inflight <= MaxInflight /\ PeakInflight <= MaxInflight

\* Once Collector.Close closed the channel, no goroutine is left that could
\* still call Collector.Record: a send on a closed channel panics, and would
\* take the whole process down with the results of the run.
NoRecordAfterClose == inputClosed => Running = {}

\* The document accounts for every sample ever handed to the collector: it is
\* in an aggregate or in LostSamples.  Nothing stays in the channel.
EverySampleAccounted ==
    Published => doc.completed + doc.lost = recorded

\* The document accounts for every arrival the dispatcher took up, and an open
\* loop that was not canceled took up all of them.
EveryArrivalAccounted ==
    Published /\ ~closed =>
        /\ doc.sent + doc.dropped = index
        /\ index = Total \/ canceled

\* At most one arrival is taken up after the context was canceled: the one the
\* dispatcher was already waiting for.
OneArrivalAfterCancel == canceled => index <= canceledAt + 1

\* Exit code 0 or 1 is a judgement on the target, so the run behind it measured
\* what it set out to: no arrival dropped, no sample lost, a journey for every
\* arrival dispatched or iteration begun, and every declared step answered at
\* least once.
VerdictOnlyOnMeasurement ==
    exit \in {ExitPassed, ExitSLO} =>
        /\ doc.dropped = 0 /\ doc.lost = 0
        /\ closed => doc.started = iterations
        /\ ~closed => doc.started = doc.sent /\ doc.sent >= (Total * 99) \div 100
        /\ \A s \in Declared : doc.steps[s].count > doc.steps[s].errors
        /\ doc.ended > 0

\* The comment in runStore.finish says of a canceled run that what it measured is
\* the part that ran, and that "the document already comes out invalid by the
\* short run check".  Stated of an open loop the cancel really cut short.
CutShortComesOutInvalid ==
    ~closed /\ canceled /\ index < Total /\ exit # -1 => exit = ExitInvalid

\* When the protocol calls return so does Execute: no goroutine is waited for that
\* can no longer finish, and the consumer gets to the end of the channel.
RunEnds == <>(driver = "done")

\* The run implements the bookkeeping of Accounting.
Books == INSTANCE Accounting WITH
    Arrivals <- Total, taken <- index, sent <- Sent, dropped <- DroppedByInflightLimit,
    produced <- recorded, measured <- Completed, lost <- LostSamples,
    published <- Published

KeepsBooks == Books!Spec
=============================================================================
