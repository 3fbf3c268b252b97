------------------------------ MODULE Command ------------------------------
(***************************************************************************)
(* One invocation of the command line, from its arguments to the exit code *)
(* a pipeline reads, over the files it reads and writes.  Other processes  *)
(* step in between: an editor saves the scenario between its two readings, *)
(* a disk fills up during a write, a crash leaves a file half written and  *)
(* the command is given again.                                             *)
(*                                                                         *)
(* An invocation is                                                        *)
(*   [command, args, docs, edited, defined, session, outputs, baseline,    *)
(*    before, after, dryRun, output, exists, traffic, hosts]               *)
(* args is "ok" or how the arguments are refused, docs the scenario files  *)
(* named, edited what an editor may save over the first, defined the       *)
(* environment, session what the interface injects ({} for the command     *)
(* line), outputs the files asked for, baseline and before/after the       *)
(* results read.  A scenario on disk is [state, doc], state being          *)
(* "absent", "torn" or "whole".                                            *)
(***************************************************************************)
EXTENDS Recorder

CONSTANTS
    Invocations,
    Outcomes,       \* what the target and the generator make of a load
    MaxAttempts     \* times a migration is started

VARIABLES
    inv, stage,
    exit,           \* Running until the process ends
    files,          \* the scenarios named by the invocation
    backups,        \* their .bak
    other,          \* the scenario written elsewhere: -output, new, import, record
    written,        \* the outputs: "absent", "torn" or "whole"
    spec,           \* the scenario as it was last read, or generated
    document,       \* <<>> or the document of the run
    plan,           \* what is left to write, and the codes it ends with
    position,       \* the file a migration is at
    attempts,
    kept            \* what the recorder was asked for when it stopped

commandVars == <<inv, stage, exit, files, backups, other, written, spec, document, plan,
                 position, attempts, kept>>
vars == <<commandVars, recorderVars>>

Running == 99
ExitBadFile == 2

Outputs == {"json", "html", "csv"}
Hows == {"refused", "torn", "whole"}     \* how a write ends

NoPlan == [pending |-> <<>>, failed |-> 0, final |-> 0]
NothingKept == [entries |-> <<>>, dropped |-> [r \in Reasons |-> 0], tunneled |-> 0, cut |-> {}]

\* What the invocations are made of: the words and the rules of a scenario, names derived
\* by this version of the format, and requests of the kinds Recorder names.
WordRecords == [where : STRING, old : BOOLEAN, quoted : BOOLEAN]
RuleRecords == [target : STRING, metric : STRING, operator : {"", "<", "<=", ">", ">="},
                limit : Int, readable : BOOLEAN, quoted : BOOLEAN]

WellFormed(doc) ==
    /\ {"form", "keys", "steps", "slo", "words", "refs"} \subseteq DOMAIN doc
    /\ doc.words \subseteq WordRecords /\ doc.slo \in Seq(RuleRecords)
    /\ \A i \in DOMAIN doc.steps : doc.steps[i].derived # OldDerivedName

ASSUME CommandAssumption ==
    /\ MaxAttempts \in Nat
    /\ \A v \in Invocations :
         /\ v.output \in {"", "other", "self"}
         /\ v.docs \in Seq({v.docs[p] : p \in DOMAIN v.docs})
         /\ \A p \in DOMAIN v.docs : WellFormed(v.docs[p])
         /\ IsFiniteSet(DOMAIN v.traffic)
         /\ \A q \in DOMAIN v.traffic :
              /\ v.traffic[q].kind \in {"page", "connect", "direct"} \cup (Reasons \ {"noAnswer", "outside"})
              /\ v.traffic[q].reply \in Seq({v.traffic[q].reply[i] : i \in DOMAIN v.traffic[q].reply})

\* What the decoder makes of a file that may be run: lists are sequences, weights, rates
\* and times are numbers, and a name in capitals has no dot.
Decoded(doc) ==
    /\ WellFormed(doc)
    /\ doc.steps \in Seq({doc.steps[i] : i \in DOMAIN doc.steps})
    /\ \A i \in DOMAIN doc.steps : doc.steps[i].weight \in Int
    /\ \A r \in doc.refs : r.env => r.source = ""
    /\ doc.load.profiles \in Seq({doc.load.profiles[i] : i \in DOMAIN doc.load.profiles})
    /\ \A i \in DOMAIN doc.load.profiles : LET phase == doc.load.profiles[i] IN
         /\ "from" \in phase.keys => phase.from.number \in Int
         /\ {"to", "rate"} \intersect phase.keys # {} => phase.to.number \in Int
         /\ "duration" \in phase.keys => phase.duration \in Int

\* A latency is counted from the schedule, and so is never below the service time.
ASSUME RunAssumption ==
    /\ \A v \in Invocations :
         /\ 1 \in DOMAIN v.docs /\ Decoded(v.docs[1]) /\ Decoded(v.edited)
         /\ v.outputs \subseteq Outputs
         /\ \A scope \in {"journey", "overall"} :
              v.before[scope].latency \in Nat /\ v.before[scope].service \in Nat
    /\ \A o \in Outcomes :
         /\ o.sent \in Nat /\ o.dropped \in Nat /\ o.cut \in BOOLEAN /\ o.rate \in Nat
         /\ o.latency \in Nat /\ o.service \in 0 .. o.latency

Init ==
    /\ inv \in Invocations
    /\ stage = "start" /\ exit = Running
    /\ files = [p \in DOMAIN inv.docs |-> [state |-> "whole", doc |-> inv.docs[p]]]
    /\ backups = [p \in DOMAIN inv.docs |-> [state |-> "absent", doc |-> inv.docs[p]]]
    /\ other = [state |-> IF inv.exists THEN "whole" ELSE "absent", doc |-> inv.edited]
    /\ written = [o \in Outputs |-> "absent"]
    /\ spec = inv.docs[1] /\ document = <<>> /\ plan = NoPlan
    /\ position = 1 /\ attempts = 1 /\ kept = NothingKept
    /\ RecorderInit(inv.traffic, inv.hosts)

\* os.WriteFile and os.Create: refused leaves what was there, and any later failure,
\* of the write or of the close, a file cut short.
Write(file, doc, how) ==
    IF how = "refused" THEN file ELSE [state |-> how, doc |-> doc]

Exit(code) == exit' = code /\ stage' = "end"
Go(next) == stage' = next /\ exit' = exit

(***************************************************************************)
(* Arguments.                                                              *)
(***************************************************************************)
\* Help is an answer; an unknown command or option, or no file, is a mistake.
RefuseArguments ==
    /\ stage = "start" /\ inv.args # "ok"
    /\ Exit(IF inv.args = "help" THEN ExitPassed ELSE ExitBadFile)
    /\ UNCHANGED <<inv, files, backups, other, written, spec, document, plan, position, attempts,
                   kept, recorderVars>>

Started(commands) == stage = "start" /\ inv.args = "ok" /\ inv.command \in commands

(***************************************************************************)
(* Reading a scenario.                                                     *)
(***************************************************************************)
Check(doc) == Parse(doc, inv.defined) /\ Validate(doc, inv.defined)

\* RequireEnvironment after ResolveWith: what the session gave is not missing.
RequireEnvironment(doc, session) == MissingEnvironment(doc, inv.defined) \subseteq session

\* The commands that send read the file once to refuse early, before any headline.
Load ==
    /\ Started({"execute", "debug"})
    /\ spec' = files[1].doc
    /\ IF Check(files[1].doc) /\ RequireEnvironment(files[1].doc, {})
       THEN Go("loaded") ELSE Exit(ExitBadFile)
    /\ UNCHANGED <<inv, files, backups, other, written, document, plan, position, attempts, kept,
                   recorderVars>>

\* validate sends nothing, so a missing variable is only a warning to it.
ValidateCommand ==
    /\ Started({"validate"})
    /\ spec' = files[1].doc
    /\ Exit(IF Check(files[1].doc) THEN ExitPassed ELSE ExitBadFile)
    /\ UNCHANGED <<inv, files, backups, other, written, document, plan, position, attempts, kept,
                   recorderVars>>

Edit ==
    /\ stage = "loaded" /\ files[1].doc # inv.edited
    /\ files' = [files EXCEPT ![1].doc = inv.edited]
    /\ UNCHANGED <<inv, stage, exit, backups, other, written, spec, document, plan, position,
                   attempts, kept, recorderVars>>

\* Execute reads the file again, and so does Debug; the server starts here.  What was
\* checked first is checked again: the scenario, the variables, then the data files and
\* the certificates, which may not open.
Prepare(opens) ==
    /\ stage = "loaded" \/ Started({"serve run"})
    /\ spec' = files[1].doc
    /\ IF Check(spec') /\ RequireEnvironment(spec', inv.session) /\ opens
          /\ CheckDataFields(spec', inv.defined)
       THEN Go("ready") ELSE Exit(ExitBadFile)
    /\ UNCHANGED <<inv, files, backups, other, written, document, plan, position, attempts, kept,
                   recorderVars>>

(***************************************************************************)
(* Running and judging.                                                    *)
(***************************************************************************)
\* The document of a load: the iterations sent, cut short or dropped, and where they
\* failed.  A failed step ends its iteration, so the steps after it have fewer samples.
Failed(o, sent) ==
    CASE o.failing = "none" -> 0
      [] o.failing = "half" -> sent \div 2
      [] o.failing = "most" -> IF sent = 0 THEN 0 ELSE sent - 1
      [] OTHER -> sent

StepCount(doc, i, sent, failed) ==
    IF HasMix(doc) THEN Cardinality({n \in 0 .. sent - 1 : StepsOfIteration(doc, n)[1] = i})
    ELSE IF i = 1 THEN sent ELSE sent - failed

StepErrors(doc, i, failed) ==
    IF HasMix(doc) THEN Cardinality({n \in 0 .. failed - 1 : StepsOfIteration(doc, n)[1] = i})
    ELSE IF i = 1 THEN failed ELSE 0

\* Arrivals the load asks for, those shed at the limit of concurrency, those sent; a run
\* cut short stops half way.
Due(doc, o) == IF Closed(doc.load) THEN o.sent ELSE TotalRequests(doc.load)
Shed(doc, o) == IF o.cut \/ Closed(doc.load) \/ o.dropped > Due(doc, o) THEN 0 ELSE o.dropped
Sent(doc, o) == IF o.cut THEN Due(doc, o) \div 2 ELSE Due(doc, o) - Shed(doc, o)

StepNames(doc) == {StepName(doc.steps[i]) : i \in DOMAIN doc.steps}

Collected(doc, o) ==
    LET sent == Sent(doc, o)
        failed == Failed(o, sent)
        StepOf(name) == CHOOSE i \in DOMAIN doc.steps : StepName(doc.steps[i]) = name
    IN [closed |-> Closed(doc.load), planned |-> TotalRequests(doc.load), windowRan |-> ~o.cut,
        sent |-> sent, dropped |-> Shed(doc, o), late |-> 0, lost |-> 0, completed |-> sent,
        started |-> sent, ended |-> sent - failed, declared |-> StepNames(doc), collapsed |-> FALSE,
        overall |-> [latency |-> o.latency, service |-> o.service, rate |-> o.rate],
        journey |-> [latency |-> o.latency, service |-> 0],
        steps |-> [name \in StepNames(doc) |->
            [count |-> StepCount(doc, StepOf(name), sent, failed),
             errors |-> StepErrors(doc, StepOf(name), failed),
             latency |-> o.latency, service |-> o.service]],
        run |-> [scenario |-> doc.name, target |-> doc.target, host |-> "here", version |-> "v1",
                 plan |-> IF Closed(doc.load) THEN <<>> ELSE
                    [i \in DOMAIN Phases(doc.load) |-> LET phase == doc.load.profiles[i] IN
                       [profile |-> phase.profile, to |-> To(phase), duration |-> PhaseTime(phase)]]],
        tokens |-> IF Logins(doc) = {} THEN 0 ELSE 1]

Document(doc, o) == DropCorrectedLatency(Collected(doc, o))

Order(outputs) ==
    LET Asked(o) == IF o \in outputs THEN <<o>> ELSE <<>>
    IN Asked("json") \o Asked("html") \o Asked("csv")
Baseline == IF inv.baseline = "read" THEN <<inv.before>> ELSE <<>>

\* ExecuteSpec: a previous result that cannot be read ends it, and the run is lost; the
\* rules are read only against a valid document.
ExecuteSpec(o) ==
    /\ stage = "ready" /\ inv.command \in {"execute", "serve run"}
    /\ document' = <<Document(spec, o)>>
    /\ IF inv.baseline = "unreadable" THEN Exit(ExitBadFile) /\ plan' = plan
       ELSE /\ Go("write")
            /\ plan' = [pending |-> Order(inv.outputs), failed |-> ExitSLO,
                        final |-> ExitCode(document'[1], Evaluate(RulesOf(spec), document'[1], Baseline))]
    /\ UNCHANGED <<inv, files, backups, other, written, spec, position, attempts, kept, recorderVars>>

\* The outputs one after the other; the first that fails ends the command.
WriteNext(how) ==
    /\ stage = "write" /\ plan.pending # <<>>
    /\ written' = IF how = "refused" THEN written ELSE [written EXCEPT ![Head(plan.pending)] = how]
    /\ plan' = [plan EXCEPT !.pending = Tail(@)]
    /\ IF how = "whole" THEN Go("write") ELSE Exit(plan.failed)
    /\ UNCHANGED <<inv, files, backups, other, spec, document, position, attempts, kept, recorderVars>>

WriteDone ==
    /\ stage = "write" /\ plan.pending = <<>>
    /\ Exit(plan.final)
    /\ UNCHANGED <<inv, files, backups, other, written, spec, document, plan, position, attempts,
                   kept, recorderVars>>

\* One iteration over every step, stopped by the first that fails; it may not get to
\* the first (no data, no token), and its lines may not reach the screen.
Complete(observed, class) == observed = Len(StepsOf(spec)) /\ class = "success"

Debug(observed, class, printed) ==
    /\ stage = "ready" /\ inv.command = "debug"
    /\ class = "success" => observed \in {0, Len(StepsOf(spec))}
    /\ plan' = [plan EXCEPT !.final = observed]
    /\ Exit(CASE observed = 0 -> ExitSLO
              [] observed > 0 /\ ~printed -> ExitBadFile
              [] OTHER -> IF Complete(observed, class) THEN ExitPassed ELSE ExitSLO)
    /\ UNCHANGED <<inv, files, backups, other, written, spec, document, position, attempts, kept,
                   recorderVars>>

(***************************************************************************)
(* report and compare read results, which may not be results.              *)
(***************************************************************************)
Report ==
    /\ Started({"report"})
    /\ IF inv.baseline # "read" THEN Exit(ExitBadFile) /\ plan' = plan
       ELSE /\ Go("write")
            /\ plan' = [pending |-> IF inv.outputs = {} THEN <<"html">> ELSE Order(inv.outputs),
                        failed |-> ExitSLO, final |-> ExitPassed]
    /\ UNCHANGED <<inv, files, backups, other, written, spec, document, position, attempts, kept,
                   recorderVars>>

CompareRuns(printed) ==
    /\ Started({"compare"})
    /\ IF inv.baseline # "read" \/ ~printed THEN Exit(ExitBadFile) /\ plan' = plan
       ELSE /\ Go("write")
            /\ plan' = [pending |-> Order(inv.outputs \intersect {"html"}), failed |-> ExitBadFile,
                        final |-> IF Comparison(inv.before, inv.after).comparable
                                  THEN ExitPassed ELSE ExitInvalid]
    /\ UNCHANGED <<inv, files, backups, other, written, spec, document, position, attempts, kept,
                   recorderVars>>

(***************************************************************************)
(* new and import write a scenario that was not there.                     *)
(***************************************************************************)
NewOne(how) ==
    /\ Started({"new"})
    /\ other' = IF inv.exists THEN other ELSE Write(other, inv.docs[1], how)
    /\ Exit(CASE inv.exists -> ExitBadFile
              [] ~inv.exists /\ how # "whole" -> ExitSLO
              [] OTHER -> ExitPassed)
    /\ UNCHANGED <<inv, files, backups, written, spec, document, plan, position, attempts, kept,
                   recorderVars>>

\* What was converted is read back before it is written; without -output it is printed.
ImportCommand(converts, how) ==
    /\ Started({"import"})
    /\ LET accepted == converts /\ Parse(inv.docs[1], inv.defined) IN
       /\ other' = IF accepted /\ inv.output # "" THEN Write(other, inv.docs[1], how) ELSE other
       /\ Exit(CASE ~converts -> ExitBadFile
                 [] converts /\ (~accepted \/ (inv.output # "" /\ how # "whole")) -> ExitSLO
                 [] OTHER -> ExitPassed)
    /\ UNCHANGED <<inv, files, backups, written, spec, document, plan, position, attempts, kept,
                   recorderVars>>

(***************************************************************************)
(* The commands that stay up: serve, ui, target and demo.                  *)
(***************************************************************************)
\* A directory that is not one, or a busy port, is said and not waited for.
StayUp(listens) ==
    /\ Started({"serve", "ui", "target", "demo"})
    /\ IF listens THEN Go("up") ELSE Exit(ExitBadFile)
    /\ UNCHANGED <<inv, files, backups, other, written, spec, document, plan, position, attempts,
                   kept, recorderVars>>

\* Ctrl+C ends the target and the demo; only a fault ends the others with a code.
GoDown(fault) ==
    /\ stage = "up" /\ (inv.command = "target" => ~fault)
    /\ Exit(IF fault THEN ExitBadFile ELSE ExitPassed)
    /\ UNCHANGED <<inv, files, backups, other, written, spec, document, plan, position, attempts,
                   kept, recorderVars>>

(***************************************************************************)
(* record.                                                                 *)
(***************************************************************************)
RecordListen(listens) ==
    /\ Started({"record"})
    /\ IF listens THEN Listen /\ Go("recording")
       ELSE Exit(ExitBadFile) /\ UNCHANGED recorderVars
    /\ UNCHANGED <<inv, files, backups, other, written, spec, document, plan, position, attempts, kept>>

\* The handlers are alive until the process ends, past the two seconds of Shutdown too.
Proxying ==
    /\ stage \in {"recording", "collected"}
    /\ HandlerStep \/ (stage = "recording" /\ (Interrupt \/ \E expired \in BOOLEAN : Shutdown(expired)))
    /\ UNCHANGED commandVars

\* The listener failed: Serve returns its error and what was recorded is not written.
AcceptFails ==
    /\ stage = "recording" /\ serving = "open"
    /\ Exit(ExitBadFile)
    /\ UNCHANGED <<inv, files, backups, other, written, spec, document, plan, position, attempts,
                   kept, recorderVars>>

\* Entries, Dropped and Tunneled are three critical sections in a row, taken here as one.
Collect ==
    /\ stage = "recording" /\ serving = "closed"
    /\ kept' = [entries |-> entries, dropped |-> dropped, tunneled |-> tunneled,
                cut |-> {q \in DOMAIN handlers : handlers[q] = "asking"}]
    /\ Go("collected")
    /\ UNCHANGED <<inv, files, backups, other, written, spec, document, plan, position, attempts,
                   recorderVars>>

Groups == GroupByRoute([i \in DOMAIN kept.entries |-> traffic[kept.entries[i]]])

\* Build, RenderYAML and the reading back of what they made, which is the last moment
\* it can be refused.  Each data file of it is written after the scenario.
BuildScenario(how) ==
    /\ stage = "collected"
    /\ LET generated == RenderYAML(Groups, Correlate(Groups), inv.edited)
           accepted == kept.entries # <<>> /\ Parse(generated, inv.defined)
       IN /\ spec' = IF kept.entries = <<>> THEN spec ELSE generated
          /\ other' = IF accepted THEN Write(other, generated, how) ELSE other
          /\ IF accepted /\ how = "whole"
             THEN /\ Go("write")
                  /\ plan' = [pending |-> IF SourcesOf(generated) = {} THEN <<>> ELSE <<"csv">>,
                              failed |-> ExitSLO, final |-> ExitPassed]
             ELSE Exit(ExitSLO) /\ plan' = plan
    /\ UNCHANGED <<inv, files, backups, written, document, position, attempts, kept, recorderVars>>

(***************************************************************************)
(* migrate: the files one after the other, each read, rewritten, read      *)
(* back, backed up and overwritten.                                        *)
(***************************************************************************)
MigrateStart ==
    /\ Started({"migrate"})
    /\ IF inv.output # "" /\ Len(inv.docs) > 1 THEN Exit(ExitBadFile) ELSE Go("migrate")
    /\ UNCHANGED <<inv, files, backups, other, written, spec, document, plan, position, attempts,
                   kept, recorderVars>>

\* What the text of a file turns out to be: no YAML, with nothing to change, or changed
\* into something the parser refuses or accepts.
Texts == {"broken", "same", "refused", "accepted"}

Conversion(doc) ==
    IF doc.form = "broken" THEN "broken"
    ELSE IF Migrate(doc) = doc THEN "same"
    ELSE IF Parse(Migrate(doc), inv.defined) THEN "accepted" ELSE "refused"

\* A file cut short may be any of them: what is left may parse, and a rule whose step is
\* declared in the part that is missing is renamed again.
MigrateOne(text) ==
    /\ stage = "migrate" /\ position <= Len(files)
    /\ files[position].state = "whole" => text = Conversion(files[position].doc)
    /\ spec' = Migrate(files[position].doc)
    /\ IF text = "same" \/ (text # "broken" /\ inv.dryRun)
       THEN Go("migrate") /\ position' = position + 1
       ELSE /\ position' = position
            /\ IF text = "accepted" THEN Go(IF inv.output = "" THEN "backup" ELSE "destination")
               ELSE Exit(ExitBadFile)
    /\ UNCHANGED <<inv, files, backups, other, written, document, plan, attempts, kept, recorderVars>>

\* All of what was left of a file cut short is still a file cut short.
Copied(file, how) == IF file.state = "torn" /\ how = "whole" THEN "torn" ELSE how

WriteBackup_Unchecked(how) ==
    /\ stage = "backup"
    /\ backups' = [backups EXCEPT ![position] = Write(@, files[position].doc, Copied(files[position], how))]
    /\ Go("destination")
    /\ UNCHANGED <<inv, files, other, written, spec, document, plan, position, attempts, kept, recorderVars>>

WriteBackup(how) ==
    /\ stage = "backup"
    /\ backups' = [backups EXCEPT ![position] = Write(@, files[position].doc, Copied(files[position], how))]
    /\ IF how = "whole" THEN Go("destination") ELSE Exit(ExitBadFile)
    /\ UNCHANGED <<inv, files, other, written, spec, document, plan, position, attempts, kept, recorderVars>>

\* -output may name the scenario itself, and then nothing keeps the original.
WriteDestination(how) ==
    /\ stage = "destination"
    /\ IF inv.output = "other"
       THEN other' = Write(other, spec, Copied(files[position], how)) /\ files' = files
       ELSE /\ files' = [files EXCEPT ![position] = Write(@, spec, Copied(@, how))]
            /\ other' = other
    /\ IF how = "whole" THEN Go("migrate") /\ position' = position + 1
       ELSE Exit(ExitBadFile) /\ position' = position
    /\ UNCHANGED <<inv, backups, written, spec, document, plan, attempts, kept, recorderVars>>

MigrateDone ==
    /\ stage = "migrate" /\ position > Len(files)
    /\ Exit(ExitPassed)
    /\ UNCHANGED <<inv, files, backups, other, written, spec, document, plan, position, attempts,
                   kept, recorderVars>>

\* The process dies with a write begun, or between two of them.
Crash(begun) ==
    /\ stage \in {"backup", "destination", "migrate"}
    /\ LET how == IF begun THEN "torn" ELSE "refused" IN
       /\ backups' = IF stage = "backup" THEN [backups EXCEPT ![position] = Write(@, files[position].doc, how)]
                     ELSE backups
       /\ files' = IF stage = "destination" /\ inv.output # "other"
                   THEN [files EXCEPT ![position] = Write(@, spec, how)] ELSE files
    /\ Exit(ExitBadFile)
    /\ UNCHANGED <<inv, other, written, spec, document, plan, position, attempts, kept, recorderVars>>

\* The same command is given again, over what the last one left.
Again ==
    /\ stage = "end" /\ inv.command = "migrate" /\ inv.args = "ok" /\ attempts < MaxAttempts
    /\ attempts' = attempts + 1 /\ position' = 1 /\ stage' = "start" /\ exit' = Running
    /\ UNCHANGED <<inv, files, backups, other, written, spec, document, plan, kept, recorderVars>>

Next ==
    \/ RefuseArguments \/ Load \/ ValidateCommand \/ Edit
    \/ \E opens \in BOOLEAN : Prepare(opens)
    \/ \E o \in Outcomes : ExecuteSpec(o)
    \/ \E how \in Hows : WriteNext(how)
    \/ WriteDone
    \/ \E observed \in 0 .. Len(StepsOf(spec)), class \in {"success", "network"}, printed \in BOOLEAN :
          Debug(observed, class, printed)
    \/ Report
    \/ \E printed \in BOOLEAN : CompareRuns(printed)
    \/ \E how \in Hows : NewOne(how)
    \/ \E converts \in BOOLEAN, how \in Hows : ImportCommand(converts, how)
    \/ \E listens \in BOOLEAN : StayUp(listens)
    \/ \E fault \in BOOLEAN : GoDown(fault)
    \/ \E listens \in BOOLEAN : RecordListen(listens)
    \/ Proxying \/ AcceptFails \/ Collect
    \/ \E how \in Hows : BuildScenario(how)
    \/ MigrateStart
    \/ \E text \in Texts : MigrateOne(text)
    \/ \E how \in Hows : WriteBackup(how)
    \/ \E how \in Hows : WriteDestination(how)
    \/ MigrateDone
    \/ \E begun \in BOOLEAN : Crash(begun)
    \/ Again

Spec == Init /\ [][Next]_vars

(***************************************************************************)
(* What a run sends.                                                       *)
(***************************************************************************)
Ran == document # <<>>

Cycle(doc) == IF HasMix(doc) THEN Len(MixOrder(doc)) ELSE 1

\* What the values of iteration n hold when it comes to its k-th step.
KnownAt(doc, n, k) ==
    LET before == {StepsOfIteration(doc, n)[j] : j \in 1 .. k - 1}
        logins == IF \E a \in AuthOf(doc) : AuthKind(a) = "basic" THEN {} ELSE Logins(doc)
    IN RunVars(doc, inv.defined, inv.session)
       \cup (UNION {Captured(doc.steps[i]) : i \in before})
       \cup (UNION {Captured(login) : login \in logins})

\* Blanks the code accepts: a name the step itself or a later one captures, a capture of
\* a login that basic authentication never makes, a variable whose own text came out
\* empty when the file was read, and a name the session gave to a broker.
Excused(doc, n, k, r) ==
    LET order == StepsOfIteration(doc, n) IN
    \/ \E j \in k .. Len(order) : r.name \in Captured(doc.steps[order[j]])
    \/ \E a \in AuthOf(doc) : AuthKind(a) = "basic" /\ \E l \in Logins(doc) : r.name \in Captured(l)
    \/ r.name \in BlankVars(doc, inv.defined)
    \/ r.name \in BrokerCredentialNames(doc) \intersect inv.session

SentWhole(doc, n, k) ==
    LET i == StepsOfIteration(doc, n)[k]
        step == doc.steps[i]
        fields == ResolvedFields(Protocol(step))
        protocol == IF Protocol(step) = "await" /\ BrokerTechnology(step) = "" THEN "polling"
                    ELSE Protocol(step)
    IN /\ \/ Address([protocol |-> protocol, address |-> step.address],
                     [messaging |-> MessagingFor(doc, BrokerTechnology(step)),
                      target |-> Target(doc, inv.defined)]) # ""
          \/ Protocol(step) = "amqp" /\ step.address = "http"
       /\ \A r \in References(doc, inv.defined) :
            r.block = "step" /\ r.step = i /\ r.field \in fields =>
              IF r.source = ""
              THEN Excused(doc, n, k, r) \/ ~ResolvesToNothing(doc, inv.defined, KnownAt(doc, n, k), r)
              ELSE r.fallback \/ r.name \in Fields(doc.data[r.source]) \cup doc.data[r.source].columns

\* No accepted scenario sends a step without an address, or with a reference that
\* resolved to nothing: what Parse, Validate, RequireEnvironment and CheckDataFields
\* refuse between them is enough for every step of every iteration of the mix
\* (validation.go:32, mix.go:105, brokers.go:17, runner.go:124), also when the file was
\* edited after it was first checked.  An amqp step whose own address is an http one is
\* accepted, and refused by every iteration (amqp.go:214).
NoSilentBlank ==
    Ran => \A n \in 0 .. Cycle(spec) - 1 : \A k \in DOMAIN StepsOfIteration(spec, n) : SentWhole(spec, n, k)

\* How far step i is from its share after n iterations, times the length of the cycle.
Drift(order, share, n, i) ==
    Cardinality({j \in 1 .. n : order[j] = i}) * Len(order) - n * share[i]

\* The shares are the weights in lowest terms; after n iterations of a cycle a step is
\* at most half an iteration, and half of its share for every alternative past the
\* second, from its share, and at the end of the cycle exactly at it (MixOrder,
\* mix.go:32): a short run measures the declared proportion, and not the order of the
\* file.  With two or three alternatives that is within one iteration; with more it is
\* not, since alternatives of equal weight sit at the same positions.
MixKeepsShare ==
    Ran /\ HasMix(spec) =>
        LET order == MixOrder(spec)
            share == Shares(spec)
            total == Len(order)
            steps == DOMAIN spec.steps
        IN /\ \A i, j \in steps : share[i] * Weight(spec.steps[j]) = share[j] * Weight(spec.steps[i])
           /\ \A n \in 0 .. total, i \in steps :
                LET slack == total + share[i] * (Len(spec.steps) - 2)
                    drift == Drift(order, share, n, i)
                IN -slack <= 2 * drift /\ 2 * drift <= slack
           /\ \A i \in steps : Drift(order, share, total, i) = 0

(***************************************************************************)
(* What the exit code says.                                                *)
(***************************************************************************)
ClosedStepRule(rule, d) == d.closed /\ ScopeOf(rule.target) = "step" /\ rule.metric \in LatencyMetrics

\* A rule on the regression of a run that was given no previous result to compare with.
Unbased(rule) == ScopeOf(rule.target) = "regression" /\ inv.baseline # "read"

\* A rule on the regression read the way its author means it: an improvement, a change
\* within the noise (any change, when the previous value was 0) and a comparison with a
\* caveat that explains it otherwise are no worsening.
RegressionHolds(rule, d) ==
    LET scope == SplitRegressionMetric(rule.metric)
        was == Reported(inv.before[scope])
        is == Reported(d[scope])
        worsening == IF is > was THEN is - was ELSE 0
    IN \/ BlockingCaveats(inv.before, d) # {} \/ Direction(was, is) = "same"
       \/ Compare(worsening * 100, Operator(rule), rule.limit * was)

\* Any other rule: the number the report shows, over a sample of which at least half
\* worked.
SampleHolds(rule, d) ==
    LET s == Sample(rule, d)
        shown == IF ScopeOf(rule.target) = "step" THEN Reported(d.steps[rule.target]) ELSE s.latency
    IN CASE rule.metric \in LatencyMetrics ->
              s.worked * 2 >= s.sampled /\ Compare(shown, Operator(rule), rule.limit)
         [] rule.metric = "throughput" -> Compare(d.overall.rate, Operator(rule), rule.limit)
         [] rule.metric = "errors" -> CompareShare(s.errors, s.count, rule)
         [] OTHER -> CompareShare(s.count - s.errors, s.count, rule)

Holds(rule, d) ==
    IF ScopeOf(rule.target) = "regression" THEN RegressionHolds(rule, d) ELSE SampleHolds(rule, d)

\* The exit code of a run is what happened: 0 only for a valid document whose every rule
\* holds, with every file asked for complete; 1 only for a rule that does not hold or a
\* file that is not complete; 3 only for a run, or a comparison, that measured nothing
\* (runner.go:124, main.go:190, main.go:425).  Two kinds of rule have a property of
\* their own: the latency of the steps of a closed loop, GateReadsWhatIsReported, and the
\* regression of a run with no previous result, RegressionNeedsBaseline.
ExitTellsTheTruth ==
    LET d == document[1]
        rules == {RulesOf(spec)[i] : i \in DOMAIN RulesOf(spec)}
        complete == \A o \in inv.outputs : written[o] = "whole"
    IN stage = "end" /\ inv.args = "ok" =>
       /\ Ran /\ exit = ExitPassed =>
            Valid(d) /\ complete /\ \A r \in rules : ClosedStepRule(r, d) \/ Unbased(r) \/ Holds(r, d)
       /\ Ran /\ exit = ExitSLO =>
            \/ ~complete
            \/ Valid(d) /\ \E r \in rules : ClosedStepRule(r, d) \/ (~Unbased(r) /\ ~Holds(r, d))
       /\ Ran /\ exit = ExitInvalid => complete /\ ~Valid(d)
       /\ inv.command = "compare" /\ exit = ExitPassed => Valid(inv.before) /\ Valid(inv.after)
       /\ inv.command = "compare" /\ exit = ExitInvalid => ~Valid(inv.before) \/ ~Valid(inv.after)
       /\ inv.command = "debug" /\ exit = ExitPassed => plan.final = Len(spec.steps)
       /\ inv.command = "record" /\ exit = ExitPassed =>
            /\ other = [state |-> "whole", doc |-> spec]
            /\ SourcesOf(spec) # {} => written["csv"] = "whole"

\* A step rule of a closed loop is read against the number the report shows.  The code
\* reads the corrected latency (slo.go:81), which a closed loop does not have.
GateReadsWhatIsReported ==
    stage = "end" /\ Ran /\ exit = ExitPassed =>
        \A i \in DOMAIN RulesOf(spec) :
            ClosedStepRule(spec.slo[i], document[1]) => Holds(spec.slo[i], document[1])

\* A rule that needs a previous result does not pass by default when none was given: the
\* gate does not answer 0 over it.  The code marks such a rule as having no data and
\* passes it (slo.go:126), although slo.go:17 says "the rules that need it then say so
\* instead of passing by default".
RegressionNeedsBaseline ==
    stage = "end" /\ Ran /\ exit = ExitPassed =>
        \A i \in DOMAIN RulesOf(spec) : ~Unbased(spec.slo[i])

(***************************************************************************)
(* Migration.                                                              *)
(***************************************************************************)
\* The key a step reported under before the format changed.
OldName(step) ==
    IF "name" \notin step.keys /\ step.derived = NewDerivedName THEN OldDerivedName ELSE StepName(step)

\* The rule of a step names it afterwards too, and one on a scope of the old format is on
\* that scope.  A name two steps shared, which Validate refuses, pointed at neither of
\* them.  A target in quotes is left as it was; when no step has that name the new
\* scenario does not validate, and the migration says so.
RulesKeepTheirSteps(old, new) ==
    \A i \in DOMAIN RulesOf(old) :
        LET rule == old.slo[i]
            named == {j \in DOMAIN StepsOf(old) : OldName(old.steps[j]) = rule.target}
            now == {StepName(new.steps[j]) : j \in DOMAIN StepsOf(new)}
        IN /\ rule.target \in DOMAIN OldScopes =>
                \/ new.slo[i].target = OldScopes[rule.target]
                \/ rule.quoted /\ (rule.target \in now \/ ~CheckSLOSteps(new))
           /\ rule.target \notin DOMAIN OldScopes => \A j \in named :
                \/ named # {j} \/ new.slo[i].target = StepName(new.steps[j])
                \/ rule.quoted /\ ~CheckSLOSteps(new)

\* Whatever crashes, fails to be written or is run again, the text the author wrote is on
\* disk, in the scenario or in its .bak, and a scenario that was replaced is one the
\* parser takes and whose rules name the steps they named (main.go:1049).  Not so when
\* -output names the scenario itself, which writes no .bak, nor when a scenario cut short
\* is migrated again and there is something to change in what is left of it: that is
\* then written over the .bak.
MigrationIsSafe ==
    inv.command = "migrate" => \A p \in DOMAIN files : LET original == [state |-> "whole", doc |-> inv.docs[p]] IN
        /\ \/ original \in {files[p], backups[p]} \/ inv.output = "self"
           \/ attempts > 1 /\ files[p].state = "torn" /\ backups[p].state = "torn"
        /\ files[p].state = "whole" /\ files[p] # original =>
             Parse(files[p].doc, inv.defined) /\ RulesKeepTheirSteps(inv.docs[p], files[p].doc)

(***************************************************************************)
(* Recording.                                                              *)
(***************************************************************************)
Stopped == stage \notin {"start", "recording"} /\ inv.command = "record" /\ serving = "closed"

\* The lines DroppedLines shows, taken together.
Omitted(count) ==
    count["noAnswer"] + count["outside"] + count["options"] + count["telemetry"]
    + count["static"] + count["ignored"]

\* When the recorder stops every request it handled is in the scenario or in a count the
\* user is shown, none twice, and without -host they are all of one host
\* (recorder.go:118, recorder.go:222).  A request still waiting for the target when
\* the two seconds are over is in neither.
RecordedOrSaid ==
    Stopped =>
        LET handled == {q \in DOMAIN traffic : handlers[q] \in {"tunneled", "failed", "recorded", "answered"}}
        IN /\ Cardinality(ToSet(kept.entries)) = Len(kept.entries)
           /\ Cardinality(handled \ kept.cut) = Len(kept.entries) + Omitted(kept.dropped) + kept.tunneled
           /\ onlyHosts = {} => Cardinality({traffic[q].host : q \in ToSet(kept.entries)}) <= 1

\* A capture for which both names are taken, also the one that says where it came from.
NameClash(captures) ==
    \E i, j, k \in DOMAIN captures :
        /\ i < k /\ captures[i].variable = captures[k].leaf
        /\ j < k /\ captures[j].variable =
                      Qualified(Subject(Groups[captures[k].step].first), captures[k].leaf)

\* What a reference of step g to a variable reads: the value last captured before it.
Replays(captures, g, name) ==
    LET before == {i \in DOMAIN captures : captures[i].variable = name /\ captures[i].step < g}
        last == Max({captures[i].step : i \in before})
    IN {captures[i].value : i \in {j \in before : captures[j].step = last}}

\* The answers that carry a value are those of first requests, which are the ones that
\* are looked at, and it is long enough in each of them.
Offered(v) ==
    \A q \in DOMAIN traffic : v \in Values(traffic[q]) =>
        /\ \E h \in DOMAIN Groups : Groups[h].first = traffic[q]
        /\ \E i \in DOMAIN traffic[q].reply : traffic[q].reply[i].value = v /\ traffic[q].reply[i].long

\* The path and the query of a request, as they are written, and its headers and body.
InPath(request, v) == v \in ToSet(request.path) \/ Carries(request, v, "query")
InText(request, v) == Carries(request, v, "text") \/ Carries(request, v, "number")

\* A value the client was given by the first request of a route, and sent in the first
\* request of another, is a reference in the same place there, to what the step it came
\* from captures: the handlers record before they answer, so the producer is always the
\* earlier step (recorder.go:156, build.go:187).  Left as they were recorded are the path
\* and the query of a GraphQL call (build.go:253), a value that is percent-encoded in the
\* query (build.go:391), and one inside a credential that is masked whole.
RecordingReplays ==
    Stopped /\ stage # "collected" /\ kept.entries # <<>> =>
        LET captures == Correlate(Groups)
            Replayed(g, v, fields) ==
                \E r \in spec.refs : /\ r.block = "step" /\ r.step = g /\ r.source = ""
                                     /\ r.field \in fields /\ Replays(captures, g, r.name) = {v}
        IN \A g \in DOMAIN Groups, v \in Served(traffic) : LET sent == Groups[g].first IN
               Offered(v) /\ ~NameClash(captures) =>
                   /\ InPath(sent, v) /\ sent.operation = "" => Replayed(g, v, {"path"})
                   /\ InText(sent, v) => Replayed(g, v, {"body", "variables"})
=============================================================================
