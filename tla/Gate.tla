-------------------------------- MODULE Gate --------------------------------
(***************************************************************************)
(* The gate: how the rules of a scenario are read against the document of  *)
(* a run and against a previous one.  Only operators; Verdict decides      *)
(* before this whether the document means anything.                        *)
(*                                                                         *)
(* A document is a record of Verdict with, on top of its counters,         *)
(*   overall  [latency, service, rate]     journey  [latency, service]     *)
(*   steps    name |-> [count, errors, latency, service]                   *)
(*   run      what identifies it: [scenario, target, host, version, plan]  *)
(*   tokens   authentication requests made                                 *)
(* A distribution is the number the rules read in it, in milliseconds, and *)
(* 0 is an empty one: latency counts from the scheduled instant, service   *)
(* from the moment of sending.                                             *)
(***************************************************************************)
EXTENDS Scenario, Verdict

AcceptedNoise == 5      \* percent

Reported(r) == IF r.latency # 0 THEN r.latency ELSE r.service

\* A closed loop schedules nothing, so it has no latency counted from a schedule.
DropCorrectedLatency(d) ==
    IF ~d.closed THEN d
    ELSE [d EXCEPT !.overall.latency = 0,
                   !.journey = [latency |-> 0, service |-> d.journey.latency],
                   !.steps = [s \in DOMAIN d.steps |-> [d.steps[s] EXCEPT !.latency = 0]]]

Compare(obtained, operator, limit) ==
    CASE operator = "<"  -> obtained < limit
      [] operator = "<=" -> obtained <= limit
      [] operator = ">"  -> obtained > limit
      [] operator = ">=" -> obtained >= limit

(***************************************************************************)
(* Comparison with a previous run.                                         *)
(***************************************************************************)
\* From a run that measured nothing there is no change to speak of.
Direction(before, after) ==
    LET change == IF before > 0 THEN after - before ELSE 0
        size == IF change < 0 THEN -change ELSE change
    IN CASE size * 100 < AcceptedNoise * before \/ size = 0 -> "same"
         [] size * 100 >= AcceptedNoise * before /\ change > 0 -> "worse"
         [] OTHER -> "better"

\* A phase is known by its kind, its final rate and its seconds; a closed loop has none.
PlanSummary(d) == [i \in DOMAIN d.run.plan |->
    [profile |-> d.run.plan[i].profile, to |-> d.run.plan[i].to, duration |-> d.run.plan[i].duration]]

\* The caveats that explain a difference on their own; that both runs shared one token
\* is said and blocks nothing.
BlockingCaveats(before, after) ==
    {c \in {"scenario", "target", "host", "version"} : before.run[c] # after.run[c]}
    \cup (IF PlanSummary(before) # PlanSummary(after) THEN {"plan"} ELSE {})
    \cup (IF before.closed # after.closed THEN {"model"} ELSE {})
    \cup (IF ~Valid(before) THEN {"before invalid"} ELSE {})
    \cup (IF ~Valid(after) THEN {"after invalid"} ELSE {})

Caveats(before, after) ==
    BlockingCaveats(before, after)
    \cup (IF before.tokens > 0 \/ after.tokens > 0 THEN {"one token"} ELSE {})

Comparable(before, after) == Valid(before) /\ Valid(after)

StepDirection(before, after, s) ==
    Direction(IF s \in DOMAIN before.steps THEN Reported(before.steps[s]) ELSE 0,
              IF s \in DOMAIN after.steps THEN Reported(after.steps[s]) ELSE 0)

\* What the comparison says: the journey, or the requests when one of the runs has no
\* journey, the steps one by one, and how far the sentence may be believed.
Comparison(before, after) ==
    [comparable |-> Comparable(before, after),
     caveats    |-> Caveats(before, after),
     journey    |-> Direction(Reported(before.journey), Reported(after.journey)),
     overall    |-> Direction(Reported(before.overall), Reported(after.overall)),
     main       |-> IF before.started = 0 \/ after.started = 0
                    THEN Direction(Reported(before.overall), Reported(after.overall))
                    ELSE Direction(Reported(before.journey), Reported(after.journey)),
     steps      |-> [s \in (DOMAIN before.steps) \cup (DOMAIN after.steps) |->
                        StepDirection(before, after, s)]]

(***************************************************************************)
(* Rules.  An evaluation is [passed, noData, untrustworthy].               *)
(***************************************************************************)
Evaluation(passed) == [passed |-> passed, noData |-> FALSE, untrustworthy |-> FALSE]

\* journeyP95: the scope it compares and the percentile it reads.
SplitRegressionMetric(metric) ==
    IF metric \in {"journeyP50", "journeyP75", "journeyP90", "journeyP95", "journeyP99",
                   "journeyP99.9", "journeyMax"}
    THEN "journey" ELSE "overall"

\* baseline is <<>> or the document of the previous run.  An improvement is no worsening,
\* and a comparison that explains itself otherwise fails nobody.
EvaluateRegression(rule, d, baseline) ==
    IF baseline = <<>> THEN [Evaluation(TRUE) EXCEPT !.noData = TRUE]
    ELSE LET before == baseline[1]
             scope == SplitRegressionMetric(rule.metric)
             was == Reported(before[scope])
             is == Reported(d[scope])
             direction == Direction(was, is)
             worse == IF direction = "worse" THEN (is - was) * 100 ELSE 0
         IN CASE BlockingCaveats(before, d) # {} ->
                    [Evaluation(TRUE) EXCEPT !.untrustworthy = TRUE]
              [] BlockingCaveats(before, d) = {} /\ direction = "same" -> Evaluation(TRUE)
              [] OTHER -> Evaluation(Compare(worse, Operator(rule), rule.limit * was))

\* A sample mostly of failures measures the time to fail.
RefuseLatencyOverFailures_Never(rule, sampled, worked) == FALSE

RefuseLatencyOverFailures(rule, sampled, worked) ==
    rule.metric \in LatencyMetrics /\ sampled > 0 /\ worked * 2 < sampled

Total(d, what) == FoldFunctionOnSet(LAMBDA s, sum : sum + s[what], 0, d.steps, DOMAIN d.steps)

\* What a rule is read from.  A step rule takes the corrected latency, the others what
\* the report shows.
Sample(rule, d) ==
    CASE ScopeOf(rule.target) = "global" ->
            [latency |-> Reported(d.overall), count |-> Total(d, "count"), errors |-> Total(d, "errors"),
             sampled |-> Total(d, "count"), worked |-> Total(d, "count") - Total(d, "errors")]
      [] ScopeOf(rule.target) = "journey" ->
            [latency |-> Reported(d.journey), count |-> d.ended, errors |-> 0,
             sampled |-> d.started, worked |-> d.ended]
      [] OTHER -> LET s == d.steps[rule.target] IN
            [latency |-> s.latency, count |-> s.count, errors |-> s.errors,
             sampled |-> s.count, worked |-> s.count - s.errors]

\* A percentage of nothing is 0.
CompareShare(part, count, rule) ==
    IF count = 0 THEN Compare(0, Operator(rule), rule.limit)
    ELSE Compare(part * 100, Operator(rule), rule.limit * count)

EvaluateRule(rule, d, baseline) ==
    IF ScopeOf(rule.target) = "regression" THEN EvaluateRegression(rule, d, baseline)
    ELSE IF ScopeOf(rule.target) = "step" /\ rule.target \notin DOMAIN d.steps
    THEN [Evaluation(FALSE) EXCEPT !.noData = TRUE]
    ELSE LET s == Sample(rule, d) IN
         IF RefuseLatencyOverFailures(rule, s.sampled, s.worked)
         THEN [Evaluation(FALSE) EXCEPT !.noData = TRUE]
         ELSE Evaluation(
             CASE rule.metric \in LatencyMetrics -> Compare(s.latency, Operator(rule), rule.limit)
               [] rule.metric = "throughput" -> Compare(d.overall.rate, Operator(rule), rule.limit)
               [] rule.metric = "errors" -> CompareShare(s.errors, s.count, rule)
               [] rule.metric = "success" -> CompareShare(s.count - s.errors, s.count, rule))

Evaluate(rules, d, baseline) == \A i \in DOMAIN rules : EvaluateRule(rules[i], d, baseline).passed
=============================================================================
