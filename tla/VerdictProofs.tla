--------------------------- MODULE VerdictProofs ---------------------------
(***************************************************************************)
(* Exit codes 0 and 1 stand for a measurement, for every plan, number of   *)
(* users, in-flight limit, channel capacity and number of steps.           *)
(*                                                                         *)
(* The document knows nothing of an iteration that ended before its first  *)
(* step: what gives it away is the failed sample of the synthetic step it  *)
(* left, or the lost sample counted in its place, and either makes the     *)
(* document invalid.  So the argument follows the samples from the         *)
(* goroutine through the channel into the aggregates.                      *)
(***************************************************************************)
EXTENDS EngineProofs

\* The synthetic step holds failures only, and no step more failures than samples.
AggregateInv ==
    /\ \A s \in 0 .. Steps : aggregates[s].errors <= aggregates[s].count
    /\ aggregates[SetupStep].errors = aggregates[SetupStep].count
    /\ \A i \in 1 .. Len(input) : input[i].step = SetupStep => ~input[i].ok

\* Iterations that have begun and whose journey is not counted yet.
Travelling == {g \in Goroutines : pc[g] \in {"setup", "step", "broken", "complete"}}

\* Nothing shows that an iteration failed before its first step.
NoTrace ==
    /\ aggregates[SetupStep].count = 0 /\ LostSamples = 0
    /\ \A i \in 1 .. Len(input) : input[i].step # SetupStep

Begun == IF closed THEN iterations ELSE Sent

JourneyInv == NoTrace => Begun = JourneysStarted + Cardinality(Travelling)

\* A sample of a declared step comes from an iteration that counts as a journey.
SampleInv ==
    \A s \in Declared :
        aggregates[s].count > 0 \/ (\E i \in 1 .. Len(input) : input[i].step = s) =>
            \/ JourneysStarted > 0
            \/ \E g \in Goroutines : pc[g] \in {"step", "broken", "complete"}

\* The document is what the run counted, and the exit code is read off it.
JudgeInv ==
    /\ driver \in {"judge", "done"} => \E c \in BOOLEAN : doc = Document(c)
    /\ driver # "done" => exit = -1
    /\ exit \in {ExitPassed, ExitSLO} => Valid(doc)

\* The virtual users are spawned before anything else runs.
SpawnInv == closed /\ driver = "loop" => \A g \in Goroutines : pc[g] = "none"

VInv == AggregateInv /\ JourneyInv /\ SampleInv /\ JudgeInv /\ SpawnInv

-----------------------------------------------------------------------------
(* Samples on their way.                                                    *)

\* The iterations under way can be counted.
LEMMA TravellingFinite == IsFiniteSet(Travelling) /\ Cardinality(Travelling) \in Nat
  <1>1. IsFiniteSet(Travelling)
    BY GoroutinesFinite, FS_Subset DEF Travelling
  <1> QED
    BY <1>1, FS_CardinalityType

\* An iteration that begins is one more of them, and one that ends one less.
LEMMA TravellingMoves ==
  ASSUME NEW g \in Goroutines
  PROVE  /\ g \notin Travelling /\ Travelling' = Travelling \cup {g} =>
              Cardinality(Travelling') = Cardinality(Travelling) + 1
         /\ g \in Travelling /\ Travelling' = Travelling \ {g} =>
              Cardinality(Travelling') = Cardinality(Travelling) - 1
  BY TravellingFinite, FS_AddElement, FS_RemoveElement

\* What the channel and the aggregates show when a goroutine records a sample.
LEMMA RecordKeeps ==
  ASSUME TypeOK, AggregateInv, NEW s \in Sample, Record(s), UNCHANGED aggregates,
         s.step = SetupStep => ~s.ok
  PROVE  /\ AggregateInv'
         /\ NoTrace' => NoTrace /\ s.step # SetupStep
         /\ \A i \in 1 .. Len(input') :
               input'[i] = s \/ \E j \in 1 .. Len(input) : input'[i] = input[j]
  <1>1. input \in Seq(Sample) /\ Len(input) \in Nat /\ LostSamples \in Nat
    BY DEF TypeOK
  <1>2. CASE Len(input) < Capacity
    <2>1. input' = Append(input, s) /\ UNCHANGED LostSamples
      BY <1>2 DEF Record
    <2>2. /\ Len(input') = Len(input) + 1
          /\ \A i \in 1 .. Len(input) : input'[i] = input[i]
          /\ input'[Len(input) + 1] = s
      BY <1>1, <2>1
    <2> HIDE DEF Record
    <2>3. \A i \in 1 .. Len(input') : i \in 1 .. Len(input) \/ i = Len(input) + 1
      BY <1>1, <2>2
    <2>4. AggregateInv'
      BY <2>2, <2>3 DEF AggregateInv
    <2>5. /\ Len(input) + 1 \in 1 .. Len(input')
          /\ \A i \in 1 .. Len(input) : i \in 1 .. Len(input')
      BY <1>1, <2>2
    <2>6. NoTrace' => NoTrace /\ s.step # SetupStep
      BY <2>1, <2>2, <2>5 DEF NoTrace
    <2>7. \A i \in 1 .. Len(input') :
             input'[i] = s \/ \E j \in 1 .. Len(input) : input'[i] = input[j]
      BY <2>2, <2>3
    <2> QED
      BY <2>4, <2>6, <2>7
  <1>3. CASE ~(Len(input) < Capacity)
    <2>1. input' = input /\ LostSamples' = LostSamples + 1
      BY <1>3 DEF Record
    <2>2. ~NoTrace'
      BY <1>1, <2>1 DEF NoTrace
    <2>3. AggregateInv'
      BY <2>1 DEF AggregateInv
    <2> QED
      BY <2>1, <2>2, <2>3
  <1> QED
    BY <1>2, <1>3

\* What they show when the consumer moves a sample from one to the other.
LEMMA ConsumeKeeps ==
  ASSUME TypeOK, AggregateInv, Consume
  PROVE  /\ AggregateInv'
         /\ NoTrace' => NoTrace
         /\ \A s \in 0 .. Steps : aggregates'[s].count > 0 =>
               aggregates[s].count > 0 \/ \E j \in 1 .. Len(input) : input[j].step = s
         /\ \A i \in 1 .. Len(input') : \E j \in 1 .. Len(input) : input'[i] = input[j]
  <1> DEFINE h == Head(input)
  <1>1. h \in Sample /\ input # <<>> /\ Len(input) \in Nat /\ Len(input') = Len(input) - 1
    BY ConsumeEffect
  <1>2. /\ input' = Tail(input) /\ UNCHANGED LostSamples
        /\ aggregates' = [aggregates EXCEPT ![h.step] = Counted(aggregates[h.step], h)]
    BY DEF Consume
  <1>3. input \in Seq(Sample) /\ Len(input) > 0 /\ h = input[1]
    BY <1>1 DEF TypeOK
  <1>4. \A i \in 1 .. Len(input') : input'[i] = input[i + 1] /\ i + 1 \in 1 .. Len(input)
    BY <1>1, <1>2, <1>3
  <1>5. \A i \in 1 .. Len(input) : i = 1 \/ (i - 1 \in 1 .. Len(input') /\ input[i] = input'[i - 1])
    <2> TAKE i \in 1 .. Len(input)
    <2>1. CASE i # 1
      <3>1. i - 1 \in 1 .. Len(input') /\ (i - 1) + 1 = i
        BY <1>1, <2>1
      <3> QED
        BY <1>4, <3>1
    <2> QED
      BY <2>1
  <1>6. h.step \in 0 .. Steps /\ h.ok \in BOOLEAN
    BY <1>1 DEF Sample
  <1>7. \A s \in 0 .. Steps : aggregates[s].count \in Nat /\ aggregates[s].errors \in Nat
    BY DEF TypeOK
  <1>8. \A s \in 0 .. Steps :
           /\ s # h.step => aggregates'[s] = aggregates[s]
           /\ s = h.step =>
                /\ aggregates'[s].count = aggregates[s].count + 1
                /\ aggregates'[s].errors = IF h.ok THEN aggregates[s].errors
                                           ELSE aggregates[s].errors + 1
    <2>1. aggregates \in [0 .. Steps -> [count : Nat, errors : Nat]]
      BY DEF TypeOK
    <2> HIDE DEF h
    <2> QED
      BY <1>2, <1>6, <2>1 DEF Counted
  <1>9. SetupStep \in 0 .. Steps
    BY EngineAssumption DEF SetupStep
  <1>10. h.step = SetupStep => ~h.ok
    BY <1>1, <1>3 DEF AggregateInv
  <1> HIDE DEF h
  <1>11. AggregateInv'
    <2>1. \A s \in 0 .. Steps : aggregates'[s].errors <= aggregates'[s].count
      BY <1>6, <1>7, <1>8 DEF AggregateInv
    <2>2. aggregates'[SetupStep].errors = aggregates'[SetupStep].count
      BY <1>7, <1>8, <1>9, <1>10 DEF AggregateInv
    <2>3. \A i \in 1 .. Len(input') : input'[i].step = SetupStep => ~input'[i].ok
      BY <1>4 DEF AggregateInv
    <2> QED
      BY <2>1, <2>2, <2>3 DEF AggregateInv
  <1>12. NoTrace' => NoTrace
    <2> SUFFICES ASSUME NoTrace' PROVE NoTrace
      OBVIOUS
    <2>1. h.step # SetupStep /\ aggregates[SetupStep].count = 0
      BY <1>7, <1>8, <1>9 DEF NoTrace
    <2>2. \A i \in 1 .. Len(input) : input[i].step # SetupStep
      BY <1>3, <1>5, <2>1 DEF NoTrace
    <2> QED
      BY <1>2, <2>1, <2>2 DEF NoTrace
  <1>13. \A s \in 0 .. Steps : aggregates'[s].count > 0 =>
            aggregates[s].count > 0 \/ \E j \in 1 .. Len(input) : input[j].step = s
    BY <1>1, <1>3, <1>8
  <1>14. \A i \in 1 .. Len(input') : \E j \in 1 .. Len(input) : input'[i] = input[j]
    BY <1>4
  <1> QED
    BY <1>11, <1>12, <1>13, <1>14

-----------------------------------------------------------------------------
(* The steps.                                                               *)

CountsInv == AggregateInv /\ JourneyInv /\ SampleInv

\* A run starts with nothing measured.
LEMMA InitVInv == Init => VInv
  <1> SUFFICES ASSUME Init PROVE VInv
    OBVIOUS
  <1> USE EngineAssumption DEF Init
  <1>1. \A s \in 0 .. Steps : aggregates[s].count = 0 /\ aggregates[s].errors = 0
    OBVIOUS
  <1>2. Len(input) = 0 /\ SetupStep \in 0 .. Steps
    BY DEF SetupStep
  <1>3. AggregateInv
    BY <1>1, <1>2 DEF AggregateInv
  <1>4. JourneyInv
    <2>1. Travelling = {}
      BY DEF Travelling
    <2> QED
      BY <2>1, FS_EmptySet DEF JourneyInv, Begun
  <1>5. SampleInv
    BY <1>1, <1>2 DEF SampleInv, Declared
  <1>6. JudgeInv
    BY DEF JudgeInv, ExitPassed, ExitSLO
  <1>7. SpawnInv
    BY DEF SpawnInv
  <1> QED
    BY <1>3, <1>4, <1>5, <1>6, <1>7 DEF VInv

\* A step that records nothing and moves no iteration into or out of its journey.
LEMMA CountsFrame ==
  ASSUME VInv, UNCHANGED <<aggregates, input, LostSamples, closed, iterations, Sent,
                           JourneysStarted>>,
         \A g \in Goroutines :
            pc'[g] = pc[g] \/ {pc[g], pc'[g]} \subseteq {"none", "top", "leave", "gone"}
                           \/ (pc[g] = "setup" /\ pc'[g] = "step")
  PROVE  CountsInv'
  <1>1. Travelling' = Travelling
    BY DEF Travelling
  <1>2. AggregateInv'
    BY DEF VInv, AggregateInv
  <1>3. JourneyInv'
    BY <1>1 DEF VInv, JourneyInv, NoTrace, Begun
  <1>4. \A g \in Goroutines : pc[g] \in {"step", "broken", "complete"} =>
           pc'[g] \in {"step", "broken", "complete"}
    OBVIOUS
  <1>5. SampleInv'
    BY <1>4 DEF VInv, SampleInv
  <1> QED
    BY <1>2, <1>3, <1>5 DEF CountsInv

\* An arrival is dispatched, or a virtual user begins another iteration.
LEMMA BeginKeeps ==
  ASSUME IInv, VInv, NEW g \in Goroutines, pc' = [pc EXCEPT ![g] = "setup"],
         pc[g] \in {"none", "top"}, Begun' = Begun + 1,
         UNCHANGED <<aggregates, input, LostSamples, JourneysStarted>>
  PROVE  CountsInv'
  <1>1. \A h \in Goroutines : pc'[h] = IF h = g THEN "setup" ELSE pc[h]
    BY DEF IInv, TypeOK
  <1>2. g \notin Travelling /\ Travelling' = Travelling \cup {g}
    BY <1>1 DEF Travelling
  <1>3. Cardinality(Travelling') = Cardinality(Travelling) + 1
    BY <1>2, TravellingMoves
  <1>4. JourneysStarted \in Nat
    BY DEF IInv, TypeOK
  <1>5. JourneyInv'
    BY <1>3, <1>4, TravellingFinite DEF VInv, JourneyInv, NoTrace
  <1>6. AggregateInv' /\ SampleInv'
    BY <1>1 DEF VInv, AggregateInv, SampleInv
  <1> QED
    BY <1>5, <1>6 DEF CountsInv

\* A failure before the first step leaves its trace.
LEMMA SetupFailsKeeps ==
  ASSUME IInv, VInv, NEW g \in Goroutines, SetupFails(g)
  PROVE  CountsInv'
  <1> DEFINE s == [step |-> SetupStep, ok |-> FALSE]
  <1>1. s \in Sample /\ s.step = SetupStep /\ ~s.ok
    BY EngineAssumption DEF Sample, SetupStep
  <1>2. /\ Record(s) /\ UNCHANGED <<aggregates, JourneysStarted>>
        /\ pc[g] = "setup" /\ pc' = [pc EXCEPT ![g] = "leave"]
    BY DEF SetupFails, consumed, journeys
  <1> HIDE DEF s
  <1>3. /\ AggregateInv' /\ ~NoTrace'
        /\ \A i \in 1 .. Len(input') :
              input'[i] = s \/ \E j \in 1 .. Len(input) : input'[i] = input[j]
    BY <1>1, <1>2, RecordKeeps DEF IInv, VInv
  <1>4. \A h \in Goroutines : pc'[h] = IF h = g THEN "leave" ELSE pc[h]
    BY <1>2 DEF IInv, TypeOK
  <1>5. \A d \in Declared : d # SetupStep
    BY DEF Declared, SetupStep
  <1>6. \A d \in Declared : (\E i \in 1 .. Len(input') : input'[i].step = d) =>
           \E j \in 1 .. Len(input) : input[j].step = d
    BY <1>1, <1>3, <1>5
  <1>7. SampleInv'
    BY <1>2, <1>4, <1>6 DEF VInv, SampleInv
  <1> QED
    BY <1>3, <1>7 DEF CountsInv, JourneyInv

\* A step's sample comes from an iteration that is on its journey, and stays on it.
LEMMA RunStepKeeps ==
  ASSUME IInv, VInv, NEW g \in Goroutines, NEW ok \in BOOLEAN, RunStep(g, ok)
  PROVE  CountsInv'
  <1> DEFINE s == [step |-> step[g], ok |-> ok]
  <1>1. /\ Record(s) /\ UNCHANGED <<aggregates, JourneysStarted, closed, iterations, Sent>>
        /\ pc[g] = "step"
        /\ pc' = [pc EXCEPT ![g] = IF ~ok THEN "broken"
                                   ELSE IF LastStep(g) THEN "complete" ELSE "step"]
    BY DEF RunStep, consumed, journeys, counters
  <1>2. s \in Sample /\ s.step # SetupStep
    <2>1. step[g] \in 1 .. Steps
      BY <1>1 DEF IInv, ShapeInv
    <2> QED
      BY <2>1, EngineAssumption DEF Sample, SetupStep
  <1> HIDE DEF s
  <1>3. AggregateInv' /\ (NoTrace' => NoTrace)
    BY <1>1, <1>2, RecordKeeps DEF IInv, VInv
  <1>4. \A h \in Goroutines : IF h = g THEN pc'[h] \in {"step", "broken", "complete"}
                              ELSE pc'[h] = pc[h]
    BY <1>1 DEF IInv, TypeOK
  <1>5. Travelling' = Travelling
    BY <1>1, <1>4 DEF Travelling
  <1>6. JourneyInv'
    BY <1>1, <1>3, <1>5 DEF VInv, JourneyInv, Begun
  <1>7. SampleInv'
    BY <1>4 DEF SampleInv
  <1> QED
    BY <1>3, <1>6, <1>7 DEF CountsInv

\* A journey is counted when its iteration ends.
LEMMA RecordJourneyKeeps ==
  ASSUME IInv, VInv, NEW g \in Goroutines, RecordJourney(g)
  PROVE  CountsInv'
  <1>1. /\ JourneysStarted' = JourneysStarted + 1 /\ pc[g] \in {"broken", "complete"}
        /\ pc' = [pc EXCEPT ![g] = "leave"]
        /\ UNCHANGED <<aggregates, input, LostSamples, closed, iterations, Sent>>
    BY DEF RecordJourney, consumed, samples, counters
  <1>2. \A h \in Goroutines : pc'[h] = IF h = g THEN "leave" ELSE pc[h]
    BY <1>1 DEF IInv, TypeOK
  <1>3. g \in Travelling /\ Travelling' = Travelling \ {g}
    BY <1>1, <1>2 DEF Travelling
  <1>4. Cardinality(Travelling') = Cardinality(Travelling) - 1
    BY <1>3, TravellingMoves
  <1>5. JourneysStarted \in Nat
    BY DEF IInv, TypeOK
  <1>6. JourneyInv'
    <2>1. NoTrace' = NoTrace /\ Begun' = Begun
      BY <1>1 DEF NoTrace, Begun
    <2> QED
      BY <1>1, <1>4, <1>5, <2>1, TravellingFinite DEF VInv, JourneyInv
  <1>7. AggregateInv' /\ SampleInv'
    BY <1>1, <1>5 DEF VInv, AggregateInv, SampleInv
  <1> QED
    BY <1>6, <1>7 DEF CountsInv

\* The consumer moves a sample into its aggregate.
LEMMA ConsumeCounts ==
  ASSUME IInv, VInv, Consume
  PROVE  CountsInv'
  <1>1. UNCHANGED <<closed, iterations, Sent, JourneysStarted, pc>>
    BY DEF Consume, goroutines, counters, journeys
  <1>2. /\ AggregateInv'
        /\ NoTrace' => NoTrace
        /\ \A s \in 0 .. Steps : aggregates'[s].count > 0 =>
              aggregates[s].count > 0 \/ \E j \in 1 .. Len(input) : input[j].step = s
        /\ \A i \in 1 .. Len(input') : \E j \in 1 .. Len(input) : input'[i] = input[j]
    BY ConsumeKeeps DEF IInv, VInv
  <1>3. JourneyInv'
    BY <1>1, <1>2 DEF VInv, JourneyInv, Begun, Travelling
  <1>4. Declared \subseteq 0 .. Steps
    BY EngineAssumption DEF Declared
  <1>5. SampleInv'
    BY <1>1, <1>2, <1>4 DEF VInv, SampleInv
  <1> QED
    BY <1>2, <1>3, <1>5 DEF CountsInv

\* Every step keeps what the run counted.
LEMMA NextCounts == IInv /\ VInv /\ [Next]_vars => CountsInv'
  <1> SUFFICES ASSUME IInv, VInv, [Next]_vars PROVE CountsInv'
    OBVIOUS
  <1> USE DEF dispatcher, goroutines, counters, journeys, samples, consumed, outcome
  <1>1. ASSUME UNCHANGED <<aggregates, input, LostSamples, closed, iterations, Sent,
                           JourneysStarted, pc>>
        PROVE  CountsInv'
    BY <1>1, CountsFrame
  <1>2. CASE LoopTop \/ Drop \/ Admit \/ Join \/ CloseInput \/ Tick \/ Cancel \/ ConsumerEnds
    BY <1>1, <1>2 DEF LoopTop, Drop, Admit, Join, CloseInput, Tick, Cancel, ConsumerEnds
  <1>3. CASE (\E collapsed \in BOOLEAN : BuildDocument(collapsed))
                \/ (\E sloPassed \in BOOLEAN : Judge(sloPassed)) \/ UNCHANGED vars
    BY <1>1, <1>3 DEF BuildDocument, Judge, vars
  <1>4. ASSUME NEW late \in BOOLEAN, Dispatch(late) PROVE CountsInv'
    <2>1. index \in Goroutines /\ pc[index] = "none" /\ ~closed
      BY <1>4, EngineAssumption DEF IInv, TypeOK, ShapeInv, Goroutines, Arrivals, Dispatch
    <2>2. /\ Sent' = Sent + 1 /\ pc' = [pc EXCEPT ![index] = "setup"]
          /\ UNCHANGED <<closed, aggregates, input, LostSamples, JourneysStarted>>
      BY <1>4 DEF Dispatch
    <2>3. Begun' = Begun + 1
      BY <2>1, <2>2 DEF Begun
    <2> QED
      BY <2>1, <2>2, <2>3, BeginKeeps
  <1>5. CASE SpawnUsers
    <2>1. \A g \in Goroutines : pc[g] = "none"
      BY <1>5 DEF SpawnUsers, VInv, SpawnInv
    <2> QED
      BY <1>5, <2>1, CountsFrame DEF SpawnUsers
  <1>6. ASSUME NEW g \in Goroutines, UserAgain(g) PROVE CountsInv'
    <2>1. closed /\ pc[g] = "top"
      BY <1>6 DEF IInv, ShapeInv, UserAgain
    <2>2. /\ iterations' = iterations + 1 /\ pc' = [pc EXCEPT ![g] = "setup"]
          /\ UNCHANGED <<closed, aggregates, input, LostSamples, JourneysStarted>>
      BY <1>6 DEF UserAgain
    <2>3. Begun' = Begun + 1
      BY <2>1, <2>2 DEF Begun
    <2> QED
      BY <2>1, <2>2, <2>3, BeginKeeps
  <1>7. ASSUME NEW g \in Goroutines, UserStops(g) \/ Leave(g)
                  \/ \E first \in FirstSteps : SetupPasses(g, first)
        PROVE  CountsInv'
    <2>1. /\ UNCHANGED <<aggregates, input, LostSamples, closed, iterations, Sent,
                         JourneysStarted>>
      BY <1>7 DEF UserStops, Leave, SetupPasses
    <2>2. \A h \in Goroutines :
            pc'[h] = pc[h] \/ {pc[h], pc'[h]} \subseteq {"none", "top", "leave", "gone"}
                           \/ (pc[h] = "setup" /\ pc'[h] = "step")
      BY <1>7 DEF UserStops, Leave, SetupPasses, IInv, TypeOK
    <2> QED
      BY <2>1, <2>2, CountsFrame
  <1>8. ASSUME NEW g \in Goroutines,
               SetupFails(g) \/ RecordJourney(g) \/ \E ok \in BOOLEAN : RunStep(g, ok)
        PROVE  CountsInv'
    BY <1>8, SetupFailsKeeps, RecordJourneyKeeps, RunStepKeeps
  <1>9. CASE Consume
    BY <1>9, ConsumeCounts
  <1> QED
    BY <1>2, <1>3, <1>4, <1>5, <1>6, <1>7, <1>8, <1>9
    DEF Next, DriverStep, GoroutineStep, ConsumerStep, Terminated

\* The document is not touched once it is built, and neither are the counters it was
\* built from; the exit code is set once.
LEMMA NextJudge == IInv /\ VInv /\ [Next]_vars => JudgeInv'
  <1> SUFFICES ASSUME IInv, VInv, [Next]_vars PROVE JudgeInv'
    OBVIOUS
  <1> USE DEF dispatcher, goroutines, counters, journeys, samples, consumed, outcome
  <1> DEFINE Counters == <<closed, window, Sent, DroppedByInflightLimit, LateDispatches,
                           LostSamples, Completed, JourneysStarted, JourneysCompleted,
                           aggregates>>
  <1>1. ASSUME UNCHANGED Counters PROVE \A c \in BOOLEAN : Document(c)' = Document(c)
    BY <1>1 DEF Document
  <1>2. ASSUME driver \notin {"judge", "done"}, driver' \notin {"judge", "done"},
               UNCHANGED exit, UNCHANGED doc
        PROVE  JudgeInv'
    BY <1>2 DEF VInv, JudgeInv
  <1>3. ASSUME UNCHANGED Counters, UNCHANGED <<driver, doc, exit>> PROVE JudgeInv'
    BY <1>1, <1>3 DEF VInv, JudgeInv
  <1>4. CASE LoopTop \/ Drop \/ Admit \/ Join \/ CloseInput \/ SpawnUsers
                \/ \E late \in BOOLEAN : Dispatch(late)
    BY <1>2, <1>4 DEF LoopTop, Drop, Admit, Join, CloseInput, SpawnUsers, Dispatch
  <1>5. ASSUME NEW c \in BOOLEAN, BuildDocument(c) PROVE JudgeInv'
    <2>1. /\ doc' = Document(c) /\ driver = "drain" /\ driver' = "judge" /\ UNCHANGED exit
          /\ UNCHANGED Counters
      BY <1>5 DEF BuildDocument
    <2>2. Document(c)' = Document(c)
      BY <1>1, <2>1
    <2>3. exit' = -1
      BY <2>1 DEF VInv, JudgeInv
    <2> QED
      BY <2>1, <2>2, <2>3 DEF JudgeInv, ExitPassed, ExitSLO
  <1>6. ASSUME NEW slo \in BOOLEAN, Judge(slo) PROVE JudgeInv'
    <2>1. /\ exit' = ExitCode(doc, slo) /\ driver = "judge" /\ driver' = "done"
          /\ UNCHANGED doc /\ UNCHANGED Counters
      BY <1>6 DEF Judge
    <2>2. \E c \in BOOLEAN : doc' = Document(c)'
      BY <1>1, <2>1 DEF VInv, JudgeInv
    <2>3. exit' \in {ExitPassed, ExitSLO} => Valid(doc)
      BY <2>1 DEF ExitCode, ExitPassed, ExitSLO, ExitInvalid
    <2>4. Valid(doc)' = Valid(doc)
      BY <2>1
    <2> QED
      BY <2>1, <2>2, <2>3, <2>4 DEF JudgeInv
  <1>7. ASSUME NEW g \in Goroutines, GoroutineStep(g) PROVE JudgeInv'
    <2>1. g \in Running
      BY <1>7 DEF GoroutineStep, UserAgain, UserStops, SetupFails, RecordJourney, Leave,
                  SetupPasses, RunStep, Running
    <2>2. driver \notin {"judge", "done"}
      BY <2>1 DEF IInv, LifeInv
    <2>3. UNCHANGED <<driver, doc, exit>>
      BY <1>7 DEF GoroutineStep, UserAgain, UserStops, SetupFails, RecordJourney, Leave,
                  SetupPasses, RunStep
    <2> QED
      BY <1>2, <2>2, <2>3
  <1>8. CASE Consume \/ Tick
    <2>1. driver \notin {"judge", "done"}
      BY <1>8 DEF Consume, Tick, IInv, LifeInv
    <2> QED
      BY <1>2, <1>8, <2>1 DEF Consume, Tick
  <1>9. CASE Cancel \/ ConsumerEnds \/ UNCHANGED vars
    BY <1>3, <1>9 DEF Cancel, ConsumerEnds, vars
  <1> QED
    BY <1>4, <1>5, <1>6, <1>7, <1>8, <1>9 DEF Next, DriverStep, ConsumerStep, Terminated

\* Nothing runs in a closed loop until the virtual users are spawned.
LEMMA NextSpawn == IInv /\ VInv /\ [Next]_vars => SpawnInv'
  <1> SUFFICES ASSUME IInv, VInv, [Next]_vars, closed', driver' = "loop"
               PROVE  \A g \in Goroutines : pc'[g] = "none"
    BY DEF SpawnInv
  <1> USE DEF dispatcher, goroutines, counters, journeys, samples, consumed, outcome
  <1>1. CASE DriverStep
    <2>1. closed /\ driver \in {"wait", "dispatch"}
      BY <1>1 DEF DriverStep, LoopTop, Drop, Admit, SpawnUsers, Join, CloseInput, Dispatch,
                  BuildDocument, Judge
    <2> QED
      BY <2>1 DEF IInv, ShapeInv
  <1>2. ASSUME NEW g \in Goroutines, GoroutineStep(g) PROVE FALSE
    <2>1. pc[g] # "none" /\ closed /\ driver = "loop"
      BY <1>2 DEF GoroutineStep, UserAgain, UserStops, SetupFails, RecordJourney, Leave,
                  SetupPasses, RunStep
    <2> QED
      BY <2>1 DEF VInv, SpawnInv
  <1>3. CASE ConsumerStep \/ Tick \/ Cancel \/ UNCHANGED vars
    <2>1. UNCHANGED <<closed, driver, pc>>
      BY <1>3 DEF ConsumerStep, Consume, ConsumerEnds, Tick, Cancel, vars
    <2> QED
      BY <2>1 DEF VInv, SpawnInv
  <1> QED
    BY <1>1, <1>2, <1>3 DEF Next, Terminated

\* The counts, the document and the exit code hold together throughout a run.
LEMMA SpecVInv == Spec => []VInv
  <1>1. IInv /\ VInv /\ [Next]_vars => VInv'
    BY NextCounts, NextJudge, NextSpawn DEF VInv, CountsInv
  <1> QED
    BY <1>1, InitVInv, SpecIInv, PTL DEF Spec

-----------------------------------------------------------------------------
\* Exit code 0 or 1 is given only to a run that dropped no arrival, lost no sample, ran
\* the plan to 99%, carried every iteration it began through to a journey and saw every
\* declared step succeed once (runner.Verdict over metrics.CheckSanity).
THEOREM VerdictIsMeasured == Spec => []VerdictOnlyOnMeasurement
  <1>1. IInv /\ VInv => VerdictOnlyOnMeasurement
    <2> SUFFICES ASSUME IInv, VInv, exit \in {ExitPassed, ExitSLO}
                 PROVE  /\ doc.dropped = 0 /\ doc.lost = 0
                        /\ closed => doc.started = iterations
                        /\ ~closed => doc.started = doc.sent /\ doc.sent >= (Total * 99) \div 100
                        /\ \A s \in Declared : doc.steps[s].count > doc.steps[s].errors
                        /\ doc.ended > 0
      BY DEF VerdictOnlyOnMeasurement
    <2>1. driver = "done" /\ Valid(doc)
      BY DEF VInv, JudgeInv, ExitPassed, ExitSLO
    <2>2. PICK c \in BOOLEAN : doc = Document(c)
      BY <2>1 DEF VInv, JudgeInv
    <2>3. /\ doc.closed = closed /\ doc.planned = IF closed THEN 0 ELSE Total
          /\ doc.sent = Sent /\ doc.dropped = DroppedByInflightLimit /\ doc.lost = LostSamples
          /\ doc.started = JourneysStarted /\ doc.ended = JourneysCompleted
          /\ doc.steps = aggregates /\ doc.declared = Declared
      BY <2>2 DEF Document
    <2> HIDE DEF Document
    <2>4. /\ Sent \in Nat /\ DroppedByInflightLimit \in Nat /\ LostSamples \in Nat
          /\ JourneysStarted \in Nat /\ JourneysCompleted \in Nat
          /\ \A s \in 0 .. Steps : aggregates[s].count \in Nat /\ aggregates[s].errors \in Nat
          /\ DOMAIN aggregates = 0 .. Steps
      BY DEF IInv, TypeOK
    <2>5. Running = {} /\ Len(input) = 0
      BY <2>1 DEF IInv, LifeInv
    <2>6. doc.dropped = 0 /\ doc.lost = 0
      <3>1. /\ doc.dropped > 0 => \E w \in EvaluateWarnings(doc) : w.severity = "high"
            /\ doc.lost > 0 => \E w \in EvaluateWarnings(doc) : w.severity = "high"
        <4> DEFINE saturated == [kind |-> "generatorSaturated", severity |-> "high"]
                   lost == [kind |-> "lostSamples", severity |-> "high"]
        <4>1. saturated.severity = "high" /\ lost.severity = "high"
          OBVIOUS
        <4>2. doc.dropped > 0 => saturated \in EvaluateWarnings(doc)
          BY DEF EvaluateWarnings
        <4>3. doc.lost > 0 => lost \in EvaluateWarnings(doc)
          BY DEF EvaluateWarnings
        <4> QED
          BY <4>1, <4>2, <4>3
      <3> QED
        BY <2>1, <2>3, <2>4, <3>1 DEF Valid, InvalidatingWarnings
    <2>7. \A s \in 0 .. Steps : aggregates[s].count > 0 => aggregates[s].errors # aggregates[s].count
      BY <2>1, <2>3, <2>4 DEF Valid, EverythingFailed
    <2>8. Declared \subseteq 0 .. Steps /\ 1 \in Declared /\ SetupStep \in 0 .. Steps
      BY EngineAssumption DEF Declared, SetupStep
    <2>9. \A s \in Declared : aggregates[s].count > 0
      BY <2>1, <2>3, <2>4, <2>8 DEF Valid, DeclaredStepWithoutSamples
    <2>10. \A s \in Declared : doc.steps[s].count > doc.steps[s].errors
      BY <2>3, <2>4, <2>7, <2>8, <2>9 DEF VInv, AggregateInv
    <2>11. NoTrace
      BY <2>3, <2>4, <2>5, <2>6, <2>7, <2>8 DEF VInv, AggregateInv, NoTrace
    <2>12. Travelling = {} /\ \A g \in Goroutines : pc[g] \notin {"step", "broken", "complete"}
      BY <2>5 DEF Running, Travelling
    <2>13. JourneysStarted = Begun
      BY <2>4, <2>11, <2>12, FS_EmptySet DEF VInv, JourneyInv, Begun
    <2>14. JourneysStarted > 0
      BY <2>8, <2>9, <2>12 DEF VInv, SampleInv
    <2>15. doc.ended > 0
      BY <2>1, <2>3, <2>4, <2>14 DEF Valid, NoJourneyCompleted
    <2>16. ~closed => doc.sent >= (Total * 99) \div 100
      <3>1. CASE Total = 0
        BY <2>3, <2>4, <3>1
      <3>2. CASE Total # 0 /\ ~closed
        <4>1. ~(doc.sent + doc.dropped < (Total * 99) \div 100)
          BY <2>1, <2>3, <3>2, EngineAssumption DEF Valid, RunShorterThanPlan
        <4> QED
          BY <2>3, <2>4, <2>6, <4>1, EngineAssumption
      <3> QED
        BY <3>1, <3>2
    <2> QED
      BY <2>3, <2>6, <2>10, <2>13, <2>15, <2>16 DEF Begun
  <1> QED
    BY <1>1, SpecIInv, SpecVInv, PTL
=============================================================================
