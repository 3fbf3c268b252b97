------------------------------ MODULE Verdict ------------------------------
(***************************************************************************)
(* From the counters of a run to the exit code CI reads: the warnings, the *)
(* sanity check and the verdict.  Pure operators over a document record:   *)
(*                                                                         *)
(*   closed      the run used the closed loop                              *)
(*   planned     arrivals of the compiled plan (0 in a closed loop)        *)
(*   windowRan   the clock reached 99% of the declared window              *)
(*   sent, dropped, late, lost, completed                  scheduling block*)
(*   started, ended                        journeys started and completed  *)
(*   steps       function: step |-> [count, errors]                        *)
(*   declared    the declared steps                                        *)
(*   collapsed   a varied source was used with a single value all along    *)
(*                                                                         *)
(* Latencies, wording and evidence are left out: no verdict reads them     *)
(* before the SLO rules do, and those are a Boolean here.                  *)
(***************************************************************************)
EXTENDS Integers

ExitPassed  == 0
ExitSLO     == 1
ExitInvalid == 3

\* At least 1% of the dispatches went out late.
DispatchesLate(d) == d.sent > 0 /\ d.late * 100 >= d.sent

\* evaluateWarnings and VarietyWarnings.  The kinds that are never of high
\* severity and so never reach the verdict (target degradation, fixed value,
\* empty fields, scenario warnings) are left out.
EvaluateWarnings(d) ==
    (IF d.dropped > 0 THEN {[kind |-> "generatorSaturated", severity |-> "high"]} ELSE {})
    \cup
    (IF DispatchesLate(d)
     THEN {[kind |-> "generatorSaturated", severity |-> "high"]}
     ELSE IF d.late > 0
          THEN {[kind |-> "generatorOccasionallyLate", severity |-> "low"]}
          ELSE {})
    \cup
    (IF d.lost > 0 THEN {[kind |-> "lostSamples", severity |-> "high"]} ELSE {})
    \cup
    (IF d.collapsed THEN {[kind |-> "missingVariety", severity |-> "high"]} ELSE {})

NoJourneyCompleted(d) == d.started > 0 /\ d.ended = 0

DeclaredStepWithoutSamples_NoneRan(d) == \A s \in d.declared : d.steps[s].count = 0

DeclaredStepWithoutSamples(d) == \E s \in d.declared : d.steps[s].count = 0

EverythingFailed_DeclaredOnly(d) ==
    \E s \in d.declared : d.steps[s].count > 0 /\ d.steps[s].errors = d.steps[s].count

\* A step, declared or synthetic (data, authentication), whose every sample
\* failed.  Whether the finding names one step or all of them is wording.
EverythingFailed(d) ==
    \E s \in DOMAIN d.steps : d.steps[s].count > 0 /\ d.steps[s].errors = d.steps[s].count

\* The tolerance is computed by integer division, as int64 does it.
RunShorterThanPlan(d) ==
    IF d.planned > 0
    THEN d.sent + d.dropped < (d.planned * 99) \div 100
    ELSE d.closed /\ ~d.windowRan

InvalidatingWarnings(d) == \E w \in EvaluateWarnings(d) : w.severity = "high"

\* Document.Valid after CheckSanity: no check produced a finding.
Valid(d) ==
    /\ ~NoJourneyCompleted(d)
    /\ ~DeclaredStepWithoutSamples(d)
    /\ ~EverythingFailed(d)
    /\ ~RunShorterThanPlan(d)
    /\ ~InvalidatingWarnings(d)

\* SLO rules are only evaluated on a valid document.
ExitCode(d, sloPassed) ==
    IF ~Valid(d) THEN ExitInvalid
    ELSE IF sloPassed THEN ExitPassed ELSE ExitSLO
=============================================================================
