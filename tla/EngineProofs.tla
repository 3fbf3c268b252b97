---------------------------- MODULE EngineProofs ----------------------------
(***************************************************************************)
(* Proofs about Engine, for every plan, number of users, in-flight limit,  *)
(* channel capacity and number of steps.                                   *)
(***************************************************************************)
EXTENDS Engine, FiniteSetTheorems, TLAPS

\* The slots taken are the arrivals running, plus the one being dispatched.
\* Without this inflight.Add(-1) could not be shown to stay above zero.
SlotsInv ==
    IF closed THEN inflight = 0
    ELSE inflight = Cardinality(Running) + (IF driver = "dispatch" THEN 1 ELSE 0)

\* The slot the dispatcher holds in its local variable is one of the limit too.
BoundInv == InflightBounded /\ current <= MaxInflight

\* Which goroutines exist in each loop.
ShapeInv ==
    /\ closed => index = 0 /\ driver \notin {"wait", "dispatch"}
    /\ ~closed => \A g \in Goroutines : pc[g] # "top" /\ (pc[g] # "none" => g < index)
    /\ driver \in {"wait", "dispatch"} => index < Total
    /\ \A g \in Goroutines : pc[g] = "step" => step[g] \in 1 .. Steps

\* What each stage of the shutdown has established.
LifeInv ==
    /\ driver \in {"close", "drain", "judge", "done"} => Running = {}
    /\ inputClosed <=> driver \in {"drain", "judge", "done"}
    /\ finished => inputClosed /\ input = <<>>
    /\ driver \in {"judge", "done"} => finished
    /\ Published <=> driver \in {"judge", "done"}

\* Both ledgers balance at every moment, and the document copies them.
BooksInv ==
    /\ recorded = Len(input) + Completed + LostSamples
    /\ Sent + DroppedByInflightLimit = index
    /\ Published => /\ doc.completed = Completed /\ doc.lost = LostSamples
                    /\ doc.sent = Sent /\ doc.dropped = DroppedByInflightLimit

\* Where the dispatcher can be once the context is canceled.
CancelInv ==
    /\ ~closed /\ driver \notin {"loop", "wait", "dispatch"} => index = Total \/ canceled
    /\ canceled => \/ index = canceledAt
                   \/ index = canceledAt + 1 /\ driver \notin {"wait", "dispatch"}

IInv == TypeOK /\ SlotsInv /\ BoundInv /\ ShapeInv /\ LifeInv /\ BooksInv /\ CancelInv

-----------------------------------------------------------------------------
\* Arrivals and virtual users are integer intervals, so there are finitely many.
LEMMA GoroutinesFinite == IsFiniteSet(Goroutines)
  <1>1. IsFiniteSet(Arrivals)
    BY FS_Interval, EngineAssumption DEF Arrivals
  <1>2. IsFiniteSet(VirtualUsers)
    BY FS_Interval, EngineAssumption DEF VirtualUsers
  <1> QED
    BY <1>1, <1>2, FS_Union DEF Goroutines

\* The goroutines the WaitGroup counts are finitely many, so they can be counted.
LEMMA RunningFinite == IsFiniteSet(Running)
  BY GoroutinesFinite, FS_Subset DEF Running

\* Their number is a natural number.
LEMMA RunningCardinality == Cardinality(Running) \in Nat
  BY RunningFinite, FS_CardinalityType

\* An arrival that starts takes the count up by one.
LEMMA RunningGrows ==
  ASSUME NEW g \in Goroutines, g \notin Running, Running' = Running \cup {g}
  PROVE  Cardinality(Running') = Cardinality(Running) + 1
  BY RunningFinite, FS_AddElement

\* An arrival that ends takes it down by one, and there was one to take.
LEMMA RunningShrinks ==
  ASSUME NEW g \in Goroutines, g \in Running, Running' = Running \ {g}
  PROVE  /\ Cardinality(Running') = Cardinality(Running) - 1
         /\ Cardinality(Running) >= 1
  <1>1. Cardinality(Running') = Cardinality(Running) - 1
    BY RunningFinite, FS_RemoveElement
  <1>2. Cardinality(Running) # 0
    BY RunningFinite, FS_EmptySet
  <1> QED
    BY <1>1, <1>2, RunningCardinality

\* What BuildDocument assigns is never the absent document.
LEMMA DocumentIsPublished ==
  ASSUME NEW c \in BOOLEAN
  PROVE  Document(c) # NoDocument
  <1>1. Document(c).planned >= 0
    BY EngineAssumption DEF Document
  <1>2. NoDocument.planned = -1
    BY DEF NoDocument
  <1> QED
    BY <1>1, <1>2

\* A run starts with the inductive invariant.
LEMMA InitIInv == Init => IInv
  <1> SUFFICES ASSUME Init PROVE IInv
    OBVIOUS
  <1> USE DEF Init
  <1>1. Running = {}
    BY DEF Running
  <1>2. TypeOK
    <2>1. /\ step \in [Goroutines -> 0 .. Steps]
          /\ aggregates \in [0 .. Steps -> [count : Nat, errors : Nat]]
      BY EngineAssumption
    <2>2. pc \in [Goroutines -> {"none", "top", "setup", "step", "broken", "complete",
                                 "leave", "gone"}]
      OBVIOUS
    <2>3. input \in Seq(Sample)
      OBVIOUS
    <2>4. canceledAt \in {-1} \cup 0 .. Total /\ index \in 0 .. Total
      BY EngineAssumption
    <2>5. exit \in {-1, ExitPassed, ExitSLO, ExitInvalid}
      OBVIOUS
    <2> QED
      BY <2>1, <2>2, <2>3, <2>4, <2>5 DEF TypeOK
  <1>3. SlotsInv
    BY <1>1, FS_EmptySet DEF SlotsInv
  <1>4. BoundInv /\ ShapeInv
    BY EngineAssumption DEF BoundInv, InflightBounded, ShapeInv
  <1>5. LifeInv /\ BooksInv /\ CancelInv
    BY <1>1 DEF LifeInv, BooksInv, CancelInv, Published, canceled
  <1> QED
    BY <1>2, <1>3, <1>4, <1>5 DEF IInv

\* Collector.Record puts the sample in the channel or counts it as lost.
LEMMA RecordEffect ==
  ASSUME TypeOK, NEW s \in Sample, Record(s)
  PROVE  /\ input' \in Seq(Sample) /\ LostSamples' \in Nat /\ recorded' \in Nat
         /\ recorded' = recorded + 1
         /\ Len(input') + LostSamples' = Len(input) + LostSamples + 1
  <1>1. input \in Seq(Sample) /\ LostSamples \in Nat /\ recorded \in Nat
    BY DEF TypeOK
  <1>2. Append(input, s) \in Seq(Sample) /\ Len(Append(input, s)) = Len(input) + 1
    BY <1>1
  <1>3. Len(input) \in Nat
    BY <1>1
  <1> QED
    BY <1>1, <1>2, <1>3 DEF Record

\* The consumer takes one sample out of the channel and counts it.
LEMMA ConsumeEffect ==
  ASSUME TypeOK, Consume
  PROVE  /\ Head(input) \in Sample /\ input # <<>> /\ input' \in Seq(Sample)
         /\ Len(input) \in Nat /\ Len(input') = Len(input) - 1
         /\ Completed' = Completed + 1 /\ Completed' \in Nat
         /\ aggregates' \in [0 .. Steps -> [count : Nat, errors : Nat]]
  <1>1. input \in Seq(Sample) /\ Completed \in Nat /\ input # <<>> /\ input' = Tail(input)
        /\ Completed' = Completed + 1
    BY DEF TypeOK, Consume
  <1>2. Head(input) \in Sample /\ Tail(input) \in Seq(Sample) /\ Len(input) \in Nat
        /\ Len(Tail(input)) = Len(input) - 1
    BY <1>1
  <1>3. Head(input).step \in 0 .. Steps
    BY <1>2 DEF Sample
  <1>4. Counted(aggregates[Head(input).step], Head(input)) \in [count : Nat, errors : Nat]
    BY <1>2, <1>3 DEF TypeOK, Sample, Counted
  <1>5. aggregates' \in [0 .. Steps -> [count : Nat, errors : Nat]]
    BY <1>3, <1>4 DEF TypeOK, Consume
  <1> QED
    BY <1>1, <1>2, <1>5

\* Every step of the dispatcher, of an iteration, of the consumer, of the clock and
\* of a cancel keeps the inductive invariant.
LEMMA NextIInv == IInv /\ [Next]_vars => IInv'
  <1> SUFFICES ASSUME IInv, [Next]_vars PROVE IInv'
    OBVIOUS
  <1> USE EngineAssumption DEF IInv, dispatcher, goroutines, counters, journeys, samples,
          consumed, outcome
  <1>1. CASE LoopTop
    <2>1. Running' = Running
      BY <1>1 DEF Running, TypeOK, LoopTop, MoreArrivals
    <2>2. TypeOK'
      BY <1>1 DEF TypeOK, LoopTop, MoreArrivals
    <2>3. SlotsInv'
      BY <1>1, <2>1, RunningCardinality DEF SlotsInv, ShapeInv, TypeOK, LoopTop, MoreArrivals
    <2>4. BoundInv' /\ ShapeInv'
      BY <1>1 DEF BoundInv, InflightBounded, ShapeInv, TypeOK, LoopTop, MoreArrivals
    <2>5. LifeInv' /\ BooksInv'
      BY <1>1, <2>1 DEF LifeInv, BooksInv, Published, TypeOK, Running, LoopTop, MoreArrivals
    <2>6. CancelInv'
      BY <1>1 DEF CancelInv, canceled, TypeOK, ShapeInv, LoopTop, MoreArrivals
    <2> QED
      BY <2>2, <2>3, <2>4, <2>5, <2>6
  <1>2. CASE Drop
    <2>1. Running' = Running
      BY <1>2 DEF Running, TypeOK, Drop, HasRoom
    <2>2. TypeOK'
      BY <1>2 DEF TypeOK, Drop, HasRoom, ShapeInv
    <2>3. SlotsInv'
      BY <1>2, <2>1, RunningCardinality DEF SlotsInv, ShapeInv, TypeOK, Drop, HasRoom
    <2>4. BoundInv' /\ ShapeInv'
      BY <1>2, SMTT(30) DEF BoundInv, InflightBounded, ShapeInv, TypeOK, Drop, HasRoom, Goroutines, Arrivals, VirtualUsers
    <2>5. LifeInv' /\ BooksInv'
      BY <1>2, <2>1 DEF LifeInv, BooksInv, Published, TypeOK, Running, Drop, HasRoom
    <2>6. CancelInv'
      BY <1>2 DEF CancelInv, canceled, TypeOK, ShapeInv, Drop, HasRoom
    <2> QED
      BY <2>2, <2>3, <2>4, <2>5, <2>6
  <1>3. CASE Admit
    <2>1. Running' = Running
      BY <1>3 DEF Running, TypeOK, Admit, HasRoom
    <2>2. TypeOK'
      BY <1>3 DEF TypeOK, Admit, HasRoom
    <2>3. SlotsInv'
      BY <1>3, <2>1, RunningCardinality, SMTT(30) DEF SlotsInv, ShapeInv, TypeOK, Admit, HasRoom
    <2>4. BoundInv' /\ ShapeInv'
      BY <1>3 DEF BoundInv, InflightBounded, ShapeInv, TypeOK, Admit, HasRoom
    <2>5. LifeInv' /\ BooksInv'
      BY <1>3, <2>1 DEF LifeInv, BooksInv, Published, TypeOK, Running, Admit, HasRoom
    <2>6. CancelInv'
      BY <1>3 DEF CancelInv, canceled, TypeOK, ShapeInv, Admit, HasRoom
    <2> QED
      BY <2>2, <2>3, <2>4, <2>5, <2>6
  <1>4. ASSUME NEW late \in BOOLEAN, Dispatch(late) PROVE IInv'
    <2>0. index \in Goroutines /\ pc[index] = "none" /\ ~closed
      BY <1>4 DEF TypeOK, ShapeInv, Goroutines, Arrivals, Dispatch
    <2>1. index \notin Running /\ Running' = Running \cup {index}
      BY <1>4, <2>0 DEF Running, TypeOK, Dispatch
    <2>2. TypeOK'
      BY <1>4, <2>0 DEF TypeOK, Dispatch, ShapeInv, Goroutines, Arrivals
    <2>3. SlotsInv'
      BY <1>4, <2>0, <2>1, RunningGrows, RunningCardinality DEF SlotsInv, Dispatch
    <2>4. BoundInv' /\ ShapeInv'
      BY <1>4, <2>0, SMTT(30) DEF BoundInv, InflightBounded, ShapeInv, TypeOK, Dispatch
    <2>5. LifeInv' /\ BooksInv'
      BY <1>4, <2>1, <2>0 DEF LifeInv, BooksInv, Published, TypeOK, Running, Dispatch
    <2>6. CancelInv'
      BY <1>4 DEF CancelInv, canceled, TypeOK, ShapeInv, Dispatch
    <2> QED
      BY <2>2, <2>3, <2>4, <2>5, <2>6
  <1>5. CASE SpawnUsers
    <2>1. closed /\ driver' = "join"
      BY <1>5 DEF SpawnUsers
    <2>2. TypeOK'
      BY <1>5 DEF TypeOK, SpawnUsers
    <2>3. SlotsInv'
      BY <1>5, <2>1, RunningCardinality DEF SlotsInv, ShapeInv, TypeOK, SpawnUsers
    <2>4. BoundInv' /\ ShapeInv'
      BY <1>5 DEF BoundInv, InflightBounded, ShapeInv, TypeOK, SpawnUsers
    <2>5. LifeInv' /\ BooksInv'
      BY <1>5, <2>1 DEF LifeInv, BooksInv, Published, TypeOK, Running, SpawnUsers
    <2>6. CancelInv'
      BY <1>5 DEF CancelInv, canceled, TypeOK, ShapeInv, SpawnUsers
    <2> QED
      BY <2>2, <2>3, <2>4, <2>5, <2>6
  <1>6. ASSUME NEW g \in Goroutines, UserAgain(g) PROVE IInv'
    <2>1. Running' = Running
      BY <1>6 DEF Running, TypeOK, UserAgain
    <2>2. TypeOK'
      BY <1>6 DEF TypeOK, UserAgain
    <2>3. SlotsInv'
      BY <1>6, <2>1, RunningCardinality DEF SlotsInv, ShapeInv, TypeOK, UserAgain
    <2>4. BoundInv' /\ ShapeInv'
      BY <1>6 DEF BoundInv, InflightBounded, ShapeInv, TypeOK, UserAgain
    <2>5. LifeInv' /\ BooksInv'
      BY <1>6, <2>1 DEF LifeInv, BooksInv, Published, TypeOK, Running, UserAgain
    <2>6. CancelInv'
      BY <1>6 DEF CancelInv, canceled, TypeOK, ShapeInv, UserAgain
    <2> QED
      BY <2>2, <2>3, <2>4, <2>5, <2>6
  <1>7. ASSUME NEW g \in Goroutines, UserStops(g) PROVE IInv'
    <2>0. closed
      BY <1>7 DEF ShapeInv, UserStops
    <2>1. Running' \subseteq Running
      BY <1>7 DEF Running, TypeOK, UserStops
    <2>2. TypeOK'
      BY <1>7 DEF TypeOK, UserStops
    <2>3. SlotsInv'
      BY <1>7, <2>1, RunningCardinality DEF SlotsInv, ShapeInv, TypeOK, UserStops
    <2>4. BoundInv' /\ ShapeInv'
      BY <1>7 DEF BoundInv, InflightBounded, ShapeInv, TypeOK, UserStops
    <2>5. LifeInv' /\ BooksInv'
      BY <1>7, <2>1, <2>0 DEF LifeInv, BooksInv, Published, TypeOK, Running, UserStops
    <2>6. CancelInv'
      BY <1>7 DEF CancelInv, canceled, TypeOK, ShapeInv, UserStops
    <2> QED
      BY <2>2, <2>3, <2>4, <2>5, <2>6
  <1>8. CASE Tick
    <2>1. Running' = Running
      BY <1>8 DEF Running, TypeOK, Tick
    <2>2. TypeOK'
      BY <1>8 DEF TypeOK, Tick
    <2>3. SlotsInv'
      BY <1>8, <2>1, RunningCardinality DEF SlotsInv, ShapeInv, TypeOK, Tick
    <2>4. BoundInv' /\ ShapeInv'
      BY <1>8 DEF BoundInv, InflightBounded, ShapeInv, TypeOK, Tick
    <2>5. LifeInv' /\ BooksInv'
      BY <1>8, <2>1 DEF LifeInv, BooksInv, Published, TypeOK, Running, Tick
    <2>6. CancelInv'
      BY <1>8 DEF CancelInv, canceled, TypeOK, ShapeInv, Tick
    <2> QED
      BY <2>2, <2>3, <2>4, <2>5, <2>6
  <1>9. ASSUME NEW g \in Goroutines, SetupFails(g) PROVE IInv'
    <2> DEFINE sample == [step |-> SetupStep, ok |-> FALSE]
    <2>1. /\ pc[g] = "setup" /\ pc' = [pc EXCEPT ![g] = "leave"]
          /\ UNCHANGED <<closed, canceledAt, window, dispatcher, inflight, step, iterations,
                         counters, journeys, consumed, inputClosed, outcome>>
      BY <1>9 DEF SetupFails
    <2>2. sample \in Sample /\ Record(sample)
      BY <1>9 DEF SetupFails, Sample, SetupStep
    <2>3. /\ input' \in Seq(Sample) /\ LostSamples' \in Nat /\ recorded' \in Nat
          /\ recorded' = recorded + 1
          /\ Len(input') + LostSamples' = Len(input) + LostSamples + 1
      BY <2>2, RecordEffect
    <2>4. g \in Running /\ Running' = Running
      BY <2>1 DEF Running, TypeOK
    <2>5. TypeOK'
      BY <2>1, <2>3 DEF TypeOK
    <2>6. SlotsInv' /\ BoundInv' /\ ShapeInv' /\ CancelInv'
      BY <2>1, <2>4 DEF SlotsInv, BoundInv, InflightBounded, ShapeInv, CancelInv, canceled, TypeOK
    <2>7. LifeInv'
      BY <2>1, <2>4 DEF LifeInv, Published
    <2>8. BooksInv'
      <3>1. ~Published
        BY <2>4 DEF LifeInv
      <3>2. Len(input) \in Nat /\ Len(input') \in Nat
        BY <2>3 DEF TypeOK
      <3>3. /\ recorded = Len(input) + Completed + LostSamples /\ Completed' = Completed
            /\ Completed \in Nat /\ LostSamples \in Nat
        BY <2>1 DEF BooksInv, TypeOK
      <3>4. recorded' = Len(input') + Completed' + LostSamples'
        BY <2>3, <3>2, <3>3, SMTT(30)
      <3>5. Sent' + DroppedByInflightLimit' = index' /\ ~Published'
        BY <2>1, <3>1 DEF BooksInv, Published
      <3> QED
        BY <3>4, <3>5 DEF BooksInv
    <2> QED
      BY <2>5, <2>6, <2>7, <2>8
  <1>10. ASSUME NEW g \in Goroutines, NEW first \in FirstSteps, SetupPasses(g, first)
         PROVE  IInv'
    <2>0. first \in 1 .. Steps
      BY <1>10, EngineAssumption DEF FirstSteps, Declared
    <2>1. Running' = Running
      BY <1>10 DEF Running, TypeOK, SetupPasses
    <2>2. TypeOK'
      BY <1>10, <2>0 DEF TypeOK, SetupPasses
    <2>3. SlotsInv'
      BY <1>10, <2>1, RunningCardinality DEF SlotsInv, ShapeInv, TypeOK, SetupPasses
    <2>4. BoundInv' /\ ShapeInv'
      BY <1>10, <2>0 DEF BoundInv, InflightBounded, ShapeInv, TypeOK, SetupPasses
    <2>5. LifeInv' /\ BooksInv'
      BY <1>10, <2>1 DEF LifeInv, BooksInv, Published, TypeOK, Running, SetupPasses
    <2>6. CancelInv'
      BY <1>10 DEF CancelInv, canceled, TypeOK, ShapeInv, SetupPasses
    <2> QED
      BY <2>2, <2>3, <2>4, <2>5, <2>6
  <1>11. ASSUME NEW g \in Goroutines, NEW ok \in BOOLEAN, RunStep(g, ok) PROVE IInv'
    <2> DEFINE sample == [step |-> step[g], ok |-> ok]
    <2>1. /\ pc[g] = "step"
          /\ pc' = [pc EXCEPT ![g] = IF ~ok THEN "broken"
                                     ELSE IF LastStep(g) THEN "complete" ELSE "step"]
          /\ step' = [step EXCEPT ![g] = IF ok /\ ~LastStep(g) THEN step[g] + 1 ELSE step[g]]
          /\ UNCHANGED <<closed, canceledAt, window, dispatcher, inflight, iterations,
                         counters, journeys, consumed, inputClosed, outcome>>
      BY <1>11 DEF RunStep
    <2>2. sample \in Sample /\ Record(sample)
      BY <1>11 DEF RunStep, Sample, TypeOK
    <2>3. /\ input' \in Seq(Sample) /\ LostSamples' \in Nat /\ recorded' \in Nat
          /\ recorded' = recorded + 1
          /\ Len(input') + LostSamples' = Len(input) + LostSamples + 1
      BY <2>2, RecordEffect
    <2>4. g \in Running /\ Running' = Running
      BY <2>1 DEF Running, TypeOK
    <2>5. TypeOK'
      <3>1. step[g] \in 1 .. Steps
        BY <2>1 DEF ShapeInv
      <3>2. step' \in [Goroutines -> 0 .. Steps]
        BY <2>1, <3>1, EngineAssumption DEF TypeOK, LastStep
      <3> QED
        BY <2>1, <2>3, <3>2, SMTT(30) DEF TypeOK
    <2>6. SlotsInv' /\ BoundInv' /\ CancelInv'
      BY <2>1, <2>4 DEF SlotsInv, BoundInv, InflightBounded, CancelInv, canceled
    <2>7. ShapeInv'
      <3>1. step[g] \in 1 .. Steps
        BY <2>1 DEF ShapeInv
      <3>2. ~LastStep(g) => step[g] + 1 \in 1 .. Steps
        BY <3>1, EngineAssumption DEF LastStep
      <3>3. pc'[g] = "step" => step'[g] \in 1 .. Steps
        BY <2>1, <3>1, <3>2 DEF TypeOK
      <3>4. \A h \in Goroutines \ {g} : pc'[h] = pc[h] /\ step'[h] = step[h]
        BY <2>1 DEF TypeOK
      <3>5. \A h \in Goroutines : pc'[h] = "step" => step'[h] \in 1 .. Steps
        BY <3>3, <3>4 DEF ShapeInv
      <3>6. \A h \in Goroutines : /\ pc'[h] = "top" => pc[h] = "top"
                                  /\ pc'[h] # "none" => pc[h] # "none"
        BY <2>1 DEF TypeOK
      <3> QED
        BY <2>1, <3>5, <3>6 DEF ShapeInv
    <2>8. LifeInv'
      BY <2>1, <2>4 DEF LifeInv, Published
    <2>9. BooksInv'
      <3>1. ~Published
        BY <2>4 DEF LifeInv
      <3>2. Len(input) \in Nat /\ Len(input') \in Nat
        BY <2>3, SMTT(30) DEF TypeOK
      <3>3. /\ recorded = Len(input) + Completed + LostSamples /\ Completed' = Completed
            /\ Completed \in Nat /\ LostSamples \in Nat
        BY <2>1 DEF BooksInv, TypeOK
      <3>4. recorded' = Len(input') + Completed' + LostSamples'
        BY <2>3, <3>2, <3>3
      <3>5. Sent' + DroppedByInflightLimit' = index' /\ ~Published'
        BY <2>1, <3>1 DEF BooksInv, Published
      <3> QED
        BY <3>4, <3>5 DEF BooksInv
    <2> QED
      BY <2>5, <2>6, <2>7, <2>8, <2>9
  <1>12. ASSUME NEW g \in Goroutines, RecordJourney(g) PROVE IInv'
    <2>1. Running' = Running
      BY <1>12 DEF Running, TypeOK, RecordJourney
    <2>2. TypeOK'
      BY <1>12 DEF TypeOK, RecordJourney
    <2>3. SlotsInv'
      BY <1>12, <2>1, RunningCardinality DEF SlotsInv, ShapeInv, TypeOK, RecordJourney
    <2>4. BoundInv' /\ ShapeInv'
      BY <1>12 DEF BoundInv, InflightBounded, ShapeInv, TypeOK, RecordJourney
    <2>5. LifeInv' /\ BooksInv'
      BY <1>12, <2>1 DEF LifeInv, BooksInv, Published, TypeOK, Running, RecordJourney
    <2>6. CancelInv'
      BY <1>12 DEF CancelInv, canceled, TypeOK, ShapeInv, RecordJourney
    <2> QED
      BY <2>2, <2>3, <2>4, <2>5, <2>6
  <1>13. ASSUME NEW g \in Goroutines, Leave(g) PROVE IInv'
    <2>0. g \in Running
      BY <1>13 DEF Running, Leave, SlotsAfterLeaving
    <2>1. IF closed THEN Running' = Running ELSE Running' = Running \ {g}
      BY <1>13 DEF Running, TypeOK, Leave, SlotsAfterLeaving
    <2>7. ~closed => /\ Cardinality(Running') = Cardinality(Running) - 1
                     /\ Cardinality(Running) >= 1
      BY <2>0, <2>1, RunningShrinks
    <2>8. ~closed => inflight >= 1
      BY <2>7, RunningCardinality DEF SlotsInv, TypeOK
    <2>2. TypeOK'
      BY <1>13, <2>8 DEF TypeOK, Leave, SlotsAfterLeaving, ShapeInv, SlotsInv
    <2>3. SlotsInv'
      BY <1>13, <2>1, <2>7, RunningCardinality DEF SlotsInv, Leave, SlotsAfterLeaving
    <2>4. BoundInv' /\ ShapeInv'
      BY <1>13 DEF BoundInv, InflightBounded, ShapeInv, TypeOK, Leave, SlotsAfterLeaving
    <2>5. LifeInv' /\ BooksInv'
      BY <1>13, <2>1, <2>0 DEF LifeInv, BooksInv, Published, TypeOK, Running, Leave, SlotsAfterLeaving
    <2>6. CancelInv'
      BY <1>13 DEF CancelInv, canceled, TypeOK, ShapeInv, Leave, SlotsAfterLeaving
    <2> QED
      BY <2>2, <2>3, <2>4, <2>5, <2>6
  <1>14. CASE Consume
    <2>1. /\ input # <<>>
          /\ UNCHANGED <<closed, canceledAt, window, dispatcher, inflight, goroutines,
                         counters, journeys, LostSamples, recorded, finished, inputClosed,
                         outcome>>
      BY <1>14 DEF Consume
    <2>2. /\ input' \in Seq(Sample) /\ Len(input) \in Nat /\ Len(input') = Len(input) - 1
          /\ Completed' = Completed + 1 /\ Completed' \in Nat
          /\ aggregates' \in [0 .. Steps -> [count : Nat, errors : Nat]]
      BY <1>14, ConsumeEffect
    <2>3. Running' = Running
      BY <2>1 DEF Running
    <2>4. TypeOK'
      BY <2>1, <2>2, SMTT(30) DEF TypeOK
    <2>5. SlotsInv' /\ BoundInv' /\ ShapeInv' /\ CancelInv'
      BY <2>1, <2>3 DEF SlotsInv, BoundInv, InflightBounded, ShapeInv, CancelInv, canceled
    <2>6. LifeInv'
      BY <2>1, <2>3 DEF LifeInv, Published
    <2>7. BooksInv'
      <3>1. ~Published
        BY <2>1 DEF LifeInv
      <3> QED
        BY <2>1, <2>2, <3>1 DEF BooksInv, Published, TypeOK
    <2> QED
      BY <2>4, <2>5, <2>6, <2>7
  <1>15. CASE ConsumerEnds
    <2>1. Running' = Running
      BY <1>15 DEF Running, TypeOK, ConsumerEnds
    <2>2. TypeOK'
      BY <1>15 DEF TypeOK, ConsumerEnds
    <2>3. SlotsInv'
      BY <1>15, <2>1, RunningCardinality DEF SlotsInv, ShapeInv, TypeOK, ConsumerEnds
    <2>4. BoundInv' /\ ShapeInv'
      BY <1>15 DEF BoundInv, InflightBounded, ShapeInv, TypeOK, ConsumerEnds
    <2>5. LifeInv' /\ BooksInv'
      BY <1>15, <2>1 DEF LifeInv, BooksInv, Published, TypeOK, Running, ConsumerEnds
    <2>6. CancelInv'
      BY <1>15 DEF CancelInv, canceled, TypeOK, ShapeInv, ConsumerEnds
    <2> QED
      BY <2>2, <2>3, <2>4, <2>5, <2>6
  <1>16. CASE Join
    <2>1. Running' = Running
      BY <1>16 DEF Running, TypeOK, Join, GroupIdle
    <2>2. TypeOK'
      BY <1>16 DEF TypeOK, Join, GroupIdle
    <2>3. SlotsInv'
      BY <1>16, <2>1, RunningCardinality DEF SlotsInv, ShapeInv, TypeOK, Join, GroupIdle
    <2>4. BoundInv' /\ ShapeInv'
      BY <1>16 DEF BoundInv, InflightBounded, ShapeInv, TypeOK, Join, GroupIdle
    <2>5. LifeInv' /\ BooksInv'
      BY <1>16, <2>1 DEF LifeInv, BooksInv, Published, TypeOK, Running, Join, GroupIdle
    <2>6. CancelInv'
      BY <1>16 DEF CancelInv, canceled, TypeOK, ShapeInv, Join, GroupIdle
    <2> QED
      BY <2>2, <2>3, <2>4, <2>5, <2>6
  <1>17. CASE CloseInput
    <2>1. Running' = Running
      BY <1>17 DEF Running, TypeOK, CloseInput
    <2>2. TypeOK'
      BY <1>17 DEF TypeOK, CloseInput
    <2>3. SlotsInv'
      BY <1>17, <2>1, RunningCardinality DEF SlotsInv, ShapeInv, TypeOK, CloseInput
    <2>4. BoundInv' /\ ShapeInv'
      BY <1>17 DEF BoundInv, InflightBounded, ShapeInv, TypeOK, CloseInput
    <2>5. LifeInv' /\ BooksInv'
      BY <1>17, <2>1 DEF LifeInv, BooksInv, Published, TypeOK, Running, CloseInput
    <2>6. CancelInv'
      BY <1>17 DEF CancelInv, canceled, TypeOK, ShapeInv, CloseInput
    <2> QED
      BY <2>2, <2>3, <2>4, <2>5, <2>6
  <1>18. ASSUME NEW collapsed \in BOOLEAN, BuildDocument(collapsed) PROVE IInv'
    <2>1. Running' = Running
      BY <1>18 DEF Running, TypeOK, BuildDocument, ConsumerDone
    <2>2. TypeOK'
      BY <1>18 DEF TypeOK, BuildDocument, ConsumerDone
    <2>3. SlotsInv'
      BY <1>18, <2>1, RunningCardinality DEF SlotsInv, ShapeInv, TypeOK, BuildDocument, ConsumerDone
    <2>4. BoundInv' /\ ShapeInv'
      BY <1>18 DEF BoundInv, InflightBounded, ShapeInv, TypeOK, BuildDocument, ConsumerDone
    <2>5. LifeInv' /\ BooksInv'
      BY <1>18, <2>1, DocumentIsPublished DEF LifeInv, BooksInv, Published, TypeOK, Running, BuildDocument, ConsumerDone, Document
    <2>6. CancelInv'
      BY <1>18 DEF CancelInv, canceled, TypeOK, ShapeInv, BuildDocument, ConsumerDone
    <2> QED
      BY <2>2, <2>3, <2>4, <2>5, <2>6
  <1>19. ASSUME NEW sloPassed \in BOOLEAN, Judge(sloPassed) PROVE IInv'
    <2>1. Running' = Running
      BY <1>19 DEF Running, TypeOK, Judge
    <2>2. TypeOK'
      BY <1>19 DEF TypeOK, Judge, ExitCode, ExitPassed, ExitSLO, ExitInvalid
    <2>3. SlotsInv'
      BY <1>19, <2>1, RunningCardinality DEF SlotsInv, ShapeInv, TypeOK, Judge
    <2>4. BoundInv' /\ ShapeInv'
      BY <1>19 DEF BoundInv, InflightBounded, ShapeInv, TypeOK, Judge
    <2>5. LifeInv' /\ BooksInv'
      BY <1>19, <2>1 DEF LifeInv, BooksInv, Published, TypeOK, Running, Judge
    <2>6. CancelInv'
      BY <1>19 DEF CancelInv, canceled, TypeOK, ShapeInv, Judge
    <2> QED
      BY <2>2, <2>3, <2>4, <2>5, <2>6
  <1>20. CASE Cancel
    <2>1. Running' = Running
      BY <1>20 DEF Running, TypeOK, Cancel
    <2>2. TypeOK'
      BY <1>20 DEF TypeOK, Cancel
    <2>3. SlotsInv'
      BY <1>20, <2>1, RunningCardinality DEF SlotsInv, ShapeInv, TypeOK, Cancel
    <2>4. BoundInv' /\ ShapeInv'
      BY <1>20 DEF BoundInv, InflightBounded, ShapeInv, TypeOK, Cancel
    <2>5. LifeInv' /\ BooksInv'
      BY <1>20, <2>1 DEF LifeInv, BooksInv, Published, TypeOK, Running, Cancel
    <2>6. CancelInv'
      BY <1>20 DEF CancelInv, canceled, TypeOK, ShapeInv, Cancel
    <2> QED
      BY <2>2, <2>3, <2>4, <2>5, <2>6
  <1>21. CASE UNCHANGED vars
    <2>1. Running' = Running
      BY <1>21 DEF Running, TypeOK, vars
    <2>2. TypeOK'
      BY <1>21 DEF TypeOK, vars
    <2>3. SlotsInv'
      BY <1>21, <2>1, RunningCardinality DEF SlotsInv, ShapeInv, TypeOK, vars
    <2>4. BoundInv' /\ ShapeInv'
      BY <1>21 DEF BoundInv, InflightBounded, ShapeInv, TypeOK, vars
    <2>5. LifeInv' /\ BooksInv'
      BY <1>21, <2>1 DEF LifeInv, BooksInv, Published, TypeOK, Running, vars
    <2>6. CancelInv'
      BY <1>21 DEF CancelInv, canceled, TypeOK, ShapeInv, vars
    <2> QED
      BY <2>2, <2>3, <2>4, <2>5, <2>6
  <1> QED
    BY <1>1, <1>2, <1>3, <1>4, <1>5, <1>6, <1>7, <1>8, <1>9, <1>10, <1>11, <1>12, <1>13, <1>14, <1>15, <1>16, <1>17, <1>18, <1>19, <1>20, <1>21
    DEF Next, DriverStep, GoroutineStep, ConsumerStep, Terminated

\* The inductive invariant holds throughout a run.
LEMMA SpecIInv == Spec => []IInv
  <1>1. Init => IInv
    BY InitIInv
  <1>2. IInv /\ [Next]_vars => IInv'
    BY NextIInv
  <1> QED
    BY <1>1, <1>2, PTL DEF Spec

-----------------------------------------------------------------------------
\* Type correctness; in particular inflight.Add(-1) never takes the counter
\* below zero.
THEOREM TypeCorrect == Spec => []TypeOK
  <1>1. IInv => TypeOK
    BY DEF IInv
  <1> QED
    BY <1>1, SpecIInv, PTL

\* driveOpen respects Options.MaxInflight, whatever the interleaving of the
\* goroutines that give slots back.
THEOREM InflightIsBounded == Spec => []InflightBounded
  <1>1. IInv => InflightBounded
    BY DEF IInv, BoundInv
  <1> QED
    BY <1>1, SpecIInv, PTL

\* No goroutine can send on the collector's channel once it is closed.
THEOREM NoSendOnClosedChannel == Spec => []NoRecordAfterClose
  <1>1. IInv => NoRecordAfterClose
    BY DEF IInv, LifeInv, NoRecordAfterClose
  <1> QED
    BY <1>1, SpecIInv, PTL

\* The document accounts for every sample handed to Collector.Record.
THEOREM SamplesAccounted == Spec => []EverySampleAccounted
  <1>1. IInv => EverySampleAccounted
    <2> SUFFICES ASSUME IInv, Published PROVE doc.completed + doc.lost = recorded
      BY DEF EverySampleAccounted
    <2>1. input = <<>>
      BY DEF IInv, LifeInv
    <2>2. Len(input) = 0
      BY <2>1
    <2> QED
      BY <2>2 DEF IInv, BooksInv, TypeOK
  <1> QED
    BY <1>1, SpecIInv, PTL

\* The document accounts for every arrival, and without a cancel the dispatcher
\* took up all of them.
THEOREM ArrivalsAccounted == Spec => []EveryArrivalAccounted
  <1>1. IInv => EveryArrivalAccounted
    BY DEF IInv, LifeInv, BooksInv, CancelInv, EveryArrivalAccounted
  <1> QED
    BY <1>1, SpecIInv, PTL

\* A cancel lets at most one more arrival through.
THEOREM CancelStopsArrivals == Spec => []OneArrivalAfterCancel
  <1>1. IInv => OneArrivalAfterCancel
    BY DEF IInv, CancelInv, OneArrivalAfterCancel, TypeOK, canceled
  <1> QED
    BY <1>1, SpecIInv, PTL

-----------------------------------------------------------------------------
(* Refinement: every step of the engine is a step of the bookkeeping of     *)
(* Accounting, or leaves the books alone.                                   *)

\* A step that leaves every number of the books alone, and one that may not
\* touch them any more.
LEMMA BooksStep == IInv /\ [Next]_vars => [Books!Next]_(Books!vars)
  <1> SUFFICES ASSUME IInv, [Next]_vars PROVE [Books!Next]_(Books!vars)
    OBVIOUS
  <1> USE EngineAssumption DEF Books!vars, dispatcher, goroutines, counters, journeys,
          samples, consumed, outcome
  <1>1. CASE LoopTop \/ Admit \/ SpawnUsers \/ Join \/ CloseInput \/ ConsumerEnds
             \/ Tick \/ Cancel \/ UNCHANGED vars
    BY <1>1 DEF LoopTop, Admit, SpawnUsers, Join, CloseInput, ConsumerEnds, Tick, Cancel,
                vars, Published
  <1>2. CASE Drop
    <2>1. ~Published /\ index < Total
      BY <1>2 DEF Drop, IInv, LifeInv, ShapeInv
    <2> QED
      BY <1>2, <2>1 DEF Drop, Books!Next, Books!Take, Published
  <1>3. ASSUME NEW late \in BOOLEAN, Dispatch(late) PROVE Books!Next
    <2>1. ~Published /\ index < Total
      BY <1>3 DEF Dispatch, IInv, LifeInv, ShapeInv
    <2> QED
      BY <1>3, <2>1 DEF Dispatch, Books!Next, Books!Take, Published
  <1>4. ASSUME NEW g \in Goroutines,
               \/ SetupFails(g) \/ \E ok \in BOOLEAN : RunStep(g, ok)
        PROVE  Books!Next
    <2>1. PICK s : Record(s)
      BY <1>4 DEF SetupFails, RunStep
    <2>2. g \in Running
      BY <1>4 DEF SetupFails, RunStep, Running
    <2>3. ~Published
      BY <2>2 DEF IInv, LifeInv
    <2>4. UNCHANGED <<index, Sent, DroppedByInflightLimit, Completed, doc>>
      BY <1>4 DEF SetupFails, RunStep
    <2> QED
      BY <2>1, <2>3, <2>4 DEF Record, Books!Next, Books!Produce, Published
  <1>5. ASSUME NEW g \in Goroutines,
               \/ UserAgain(g) \/ UserStops(g) \/ RecordJourney(g) \/ Leave(g)
               \/ \E first \in FirstSteps : SetupPasses(g, first)
        PROVE  UNCHANGED Books!vars
    BY <1>5 DEF UserAgain, UserStops, SetupPasses, RecordJourney, Leave, Published
  <1>6. CASE Consume
    <2>1. /\ input # <<>> /\ Completed' = Completed + 1
          /\ UNCHANGED <<index, Sent, DroppedByInflightLimit, LostSamples, recorded, doc>>
      BY <1>6 DEF Consume
    <2>2. ~Published
      BY <2>1 DEF IInv, LifeInv
    <2>3. Len(input) > 0
      BY <2>1 DEF IInv, TypeOK
    <2>4. Completed + LostSamples < recorded
      BY <2>3 DEF IInv, BooksInv, TypeOK
    <2> QED
      BY <2>1, <2>2, <2>4 DEF Books!Next, Books!Measure, Published
  <1>7. ASSUME NEW collapsed \in BOOLEAN, BuildDocument(collapsed) PROVE Books!Next
    <2>1. /\ driver = "drain" /\ finished /\ doc' = Document(collapsed)
          /\ UNCHANGED <<index, Sent, DroppedByInflightLimit, LostSamples, recorded, Completed>>
      BY <1>7 DEF BuildDocument, ConsumerDone
    <2>2. ~Published /\ input = <<>>
      BY <2>1 DEF IInv, LifeInv
    <2>3. Completed + LostSamples = recorded /\ Sent + DroppedByInflightLimit = index
      BY <2>2 DEF IInv, BooksInv, TypeOK
    <2>4. Published'
      BY <2>1, DocumentIsPublished DEF Published
    <2> QED
      BY <2>1, <2>2, <2>3, <2>4 DEF Books!Next, Books!Publish, Published
  <1>8. ASSUME NEW sloPassed \in BOOLEAN, Judge(sloPassed) PROVE UNCHANGED Books!vars
    BY <1>8 DEF Judge, Published
  <1> QED
    BY <1>1, <1>2, <1>3, <1>4, <1>5, <1>6, <1>7, <1>8
    DEF Next, DriverStep, GoroutineStep, ConsumerStep, Terminated

\* The engine implements the bookkeeping of Accounting: whatever the goroutines
\* do, the numbers are published once, complete, and never move afterwards.
THEOREM EngineKeepsBooks == Spec => KeepsBooks
  <1>1. Init => Books!Init
    BY DEF Init, Books!Init, Published
  <1> QED
    BY <1>1, BooksStep, SpecIInv, PTL DEF Spec, KeepsBooks, Books!Spec
=============================================================================
