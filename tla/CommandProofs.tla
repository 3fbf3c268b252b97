--------------------------- MODULE CommandProofs ---------------------------
(***************************************************************************)
(* A migration is safe: proved for every set of files, however they are    *)
(* written, and for any number of crashes and repetitions.                 *)
(***************************************************************************)
EXTENDS Command, TLAPS

Migrating == inv.command = "migrate"

Original(p) == [state |-> "whole", doc |-> inv.docs[p]]
Replaced(p) == [state |-> "whole", doc |-> Migrate(inv.docs[p])]

\* The stages a migration goes through; nothing else ever moves it.
StageInv == stage \in {"start", "migrate", "backup", "destination", "end"}

\* The files and their .bak are those of the invocation.
ShapeInv ==
    /\ position \in Nat \ {0}
    /\ files \in Seq({files[p] : p \in DOMAIN files})
    /\ DOMAIN files = DOMAIN inv.docs /\ DOMAIN backups = DOMAIN inv.docs

\* A scenario on disk is the author's, a converted one cut short, or the converted one
\* whole, which parses.
FilesInv ==
    \A p \in DOMAIN inv.docs :
        \/ files[p] = Original(p)
        \/ files[p].state = "torn"
        \/ files[p] = Replaced(p) /\ Parse(Migrate(inv.docs[p]), inv.defined)

\* Whoever lost the author's text from the scenario has it in the .bak, until what is left
\* of a scenario cut short is migrated again.
Overwritten(p) == attempts > 1 /\ files[p].state = "torn" /\ backups[p].state = "torn"

BackupInv ==
    \A p \in DOMAIN inv.docs :
        \/ files[p] = Original(p) \/ backups[p] = Original(p) \/ inv.output = "self"
        \/ Overwritten(p)

\* The first time, the files still to be read are the author's: only a command given
\* again meets one that was cut short.
FirstInv ==
    /\ attempts \in Nat \ {0}
    /\ attempts = 1 /\ stage # "end" =>
         \A p \in DOMAIN inv.docs : p >= position => files[p] = Original(p)

\* Between the reading of a file and the writing of it: the file is still the author's and
\* what will be written is its conversion, or the file is one cut short; and before the
\* scenario is touched the .bak is complete, or a copy of that.
WritingInv ==
    stage \in {"backup", "destination"} =>
        /\ position \in DOMAIN inv.docs
        /\ \/ /\ files[position] = Original(position)
              /\ spec = Migrate(inv.docs[position]) /\ Parse(spec, inv.defined)
           \/ attempts > 1 /\ files[position].state = "torn"
        /\ stage = "backup" => inv.output = ""
        /\ stage = "destination" =>
             inv.output # "" \/ backups[position] = Original(position) \/ Overwritten(position)

MigrationInv == StageInv /\ ShapeInv /\ FilesInv /\ BackupInv /\ FirstInv /\ WritingInv

IInv == inv \in Invocations /\ (Migrating => MigrationInv)

(***************************************************************************)
(* What Migrate does to a scenario.                                        *)
(***************************************************************************)
\* Migrate touches the words and the rules and leaves the steps alone, so the names that
\* decide which rules follow their step are the same before and after.
LEMMA MigrateKeepsSteps ==
    ASSUME NEW doc, WellFormed(doc)
    PROVE  /\ Migrate(doc).keys = doc.keys /\ Migrate(doc).steps = doc.steps
           /\ Migrate(doc).form = doc.form
           /\ DeclaredStepNames(Migrate(doc)) = DeclaredStepNames(doc)
  <1>1. /\ Migrate(doc).keys = doc.keys /\ Migrate(doc).steps = doc.steps
        /\ Migrate(doc).form = doc.form
    BY DEF Migrate, WellFormed
  <1>2. DeclaredStepNames(Migrate(doc)) = DeclaredStepNames(doc)
    BY <1>1 DEF DeclaredStepNames, StepsOf
  <1> QED  BY <1>1, <1>2

\* A file that was migrated has nothing left to migrate (migration.go): given again, the
\* command finds it unchanged and does not write the .bak over the author's text.
LEMMA MigrateTwice ==
    ASSUME NEW doc, WellFormed(doc)
    PROVE  Migrate(Migrate(doc)) = Migrate(doc)
  <1> DEFINE names == DeclaredStepNames(doc)
             once == Migrate(doc)
  <1>1. CASE doc.form # "map"
    BY <1>1 DEF Migrate
  <1>2. CASE doc.form = "map"
    <2>1. once.form = "map" /\ DeclaredStepNames(once) = names
      BY <1>2, MigrateKeepsSteps
    <2> DEFINE Rules(rules) == [i \in DOMAIN rules |->
                   [rules[i] EXCEPT !.target = RenameTarget(rules[i], names)]]
               Words(words) == {IF Renamed(w) THEN [w EXCEPT !.old = FALSE] ELSE w : w \in words}
    <2>2. once = [doc EXCEPT !.words = Words(doc.words), !.slo = Rules(doc.slo)]
      BY <1>2 DEF Migrate
    <2> HIDE DEF once
    <2>6. Migrate(once) = [once EXCEPT !.words = Words(once.words), !.slo = Rules(once.slo)]
      BY <2>1 DEF Migrate
    <2>3. once.words = Words(doc.words) /\ once.slo = Rules(doc.slo)
      BY <2>2 DEF WellFormed
    <2>4. Words(Words(doc.words)) = Words(doc.words)
      BY DEF WellFormed, WordRecords, Renamed
    <2>5. Rules(Rules(doc.slo)) = Rules(doc.slo)
      <3> DEFINE Renaming(rule) == [rule EXCEPT !.target = RenameTarget(rule, names)]
      <3>1. ASSUME NEW rule \in RuleRecords
            PROVE  Renaming(Renaming(rule)) = Renaming(rule)
        <4>1. /\ DOMAIN OldScopes = {"jornada", "regressao"}
              /\ OldScopes["jornada"] = "journey" /\ OldScopes["regressao"] = "regression"
          BY DEF OldScopes
        <4>2. /\ Renaming(rule).quoted = rule.quoted
              /\ Renaming(rule).target = RenameTarget(rule, names)
          BY DEF RuleRecords
        <4>3. RenameTarget(Renaming(rule), names) = RenameTarget(rule, names)
          <5> HIDE DEF Renaming
          <5>1. CASE rule.quoted
            BY <4>2, <5>1 DEF RenameTarget
          <5>2. CASE ~rule.quoted /\ rule.target \in DOMAIN OldScopes
            BY <4>2, <4>1, <5>2 DEF RenameTarget, RenameDerivedStep, OldDerivedName
          <5>3. CASE ~rule.quoted /\ rule.target \notin DOMAIN OldScopes
            <6>1. RenameTarget(rule, names) = RenameDerivedStep(rule.target, names)
              BY <5>3 DEF RenameTarget
            <6>2. RenameTarget(rule, names) \notin DOMAIN OldScopes
              BY <4>1, <5>3, <6>1 DEF RenameDerivedStep, NewDerivedName
            <6>3. RenameTarget(Renaming(rule), names) = RenameDerivedStep(RenameTarget(rule, names), names)
              BY <4>2, <5>3, <6>2 DEF RenameTarget
            <6> QED  BY <6>1, <6>3 DEF RenameDerivedStep, OldDerivedName, NewDerivedName
          <5> QED  BY <5>1, <5>2, <5>3
        <4>4. [Renaming(rule) EXCEPT !.target = RenameTarget(rule, names)] = Renaming(rule)
          BY <4>2 DEF RuleRecords
        <4> QED  BY <4>2, <4>3, <4>4
      <3>2. \A i \in DOMAIN doc.slo : doc.slo[i] \in RuleRecords
        BY DEF WellFormed
      <3>3. Rules(doc.slo) = [i \in DOMAIN doc.slo |-> Renaming(doc.slo[i])]
        OBVIOUS
      <3>4. Rules(Rules(doc.slo)) = [i \in DOMAIN doc.slo |-> Renaming(Renaming(doc.slo[i]))]
        BY <3>3
      <3> HIDE DEF Renaming, Rules
      <3> QED  BY <3>1, <3>2, <3>3, <3>4
    <2>7. [once EXCEPT !.words = once.words, !.slo = once.slo] = once
      BY <2>2
    <2> QED  BY <2>3, <2>4, <2>5, <2>6, <2>7 DEF once
  <1> QED  BY <1>1, <1>2

\* What becomes of the target of one rule.
LEMMA MigrateTarget ==
    ASSUME NEW doc, WellFormed(doc), doc.form = "map", NEW i \in DOMAIN doc.slo
    PROVE  /\ doc.slo[i] \in RuleRecords
           /\ DOMAIN Migrate(doc).slo = DOMAIN doc.slo
           /\ Migrate(doc).slo[i].target = RenameTarget(doc.slo[i], DeclaredStepNames(doc))
  <1>1. doc.slo[i] \in RuleRecords
    BY DEF WellFormed
  <1>2. /\ DOMAIN Migrate(doc).slo = DOMAIN doc.slo
        /\ Migrate(doc).slo[i].target = RenameTarget(doc.slo[i], DeclaredStepNames(doc))
    BY <1>1 DEF Migrate, WellFormed, RuleRecords
  <1> QED  BY <1>1, <1>2

\* A target in quotes that names no step is what Validate refuses.
LEMMA QuotedIsRefused ==
    ASSUME NEW doc, WellFormed(doc), doc.form = "map", NEW i \in DOMAIN RulesOf(doc),
           doc.slo[i].quoted, ScopeOf(doc.slo[i].target) = "step",
           \A j \in DOMAIN StepsOf(doc) : StepName(doc.steps[j]) # doc.slo[i].target
    PROVE  ~CheckSLOSteps(Migrate(doc))
  <1>1. "slo" \in doc.keys /\ i \in DOMAIN doc.slo
    BY DEF RulesOf
  <1>2. Migrate(doc).slo[i].target = doc.slo[i].target
    BY <1>1, MigrateTarget DEF RenameTarget
  <1>3. i \in DOMAIN RulesOf(Migrate(doc))
    BY <1>1, MigrateTarget, MigrateKeepsSteps DEF RulesOf
  <1>4. StepsOf(Migrate(doc)) = StepsOf(doc) /\ Migrate(doc).steps = doc.steps
    BY MigrateKeepsSteps DEF StepsOf
  <1> QED  BY <1>2, <1>3, <1>4 DEF CheckSLOSteps

\* The rule of an unnamed step follows the name this version derives for it, a rule that
\* names a declared step stays (renameDerivedStep), and one in quotes that had to change
\* leaves a scenario that does not validate.
LEMMA MigrateKeepsRules ==
    ASSUME NEW doc, WellFormed(doc), doc.form = "map"
    PROVE  RulesKeepTheirSteps(doc, Migrate(doc))
  <1> DEFINE new == Migrate(doc)
  <1>1. new.steps = doc.steps /\ StepsOf(new) = StepsOf(doc)
    BY MigrateKeepsSteps DEF StepsOf
  <1>2. \A i \in DOMAIN doc.slo :
           /\ doc.slo[i] \in RuleRecords
           /\ new.slo[i].target = RenameTarget(doc.slo[i], DeclaredStepNames(doc))
    BY MigrateTarget
  <1> HIDE DEF new
  <1>3. ASSUME NEW i \in DOMAIN RulesOf(doc), doc.slo[i].target \in DOMAIN OldScopes
        PROVE  \/ new.slo[i].target = OldScopes[doc.slo[i].target]
               \/ /\ doc.slo[i].quoted
                  /\ \/ doc.slo[i].target \in {StepName(new.steps[j]) : j \in DOMAIN StepsOf(new)}
                     \/ ~CheckSLOSteps(new)
    <2>1. i \in DOMAIN doc.slo
      BY DEF RulesOf
    <2>2. CASE ~doc.slo[i].quoted
      BY <1>2, <1>3, <2>1, <2>2 DEF RenameTarget
    <2>3. CASE /\ doc.slo[i].quoted
               /\ \A j \in DOMAIN StepsOf(doc) : StepName(doc.steps[j]) # doc.slo[i].target
      <3>1. ScopeOf(doc.slo[i].target) = "step"
        BY <1>3 DEF ScopeOf, OldScopes
      <3> QED  BY <2>3, <3>1, QuotedIsRefused DEF new
    <2>4. CASE /\ doc.slo[i].quoted
               /\ \E j \in DOMAIN StepsOf(doc) : StepName(doc.steps[j]) = doc.slo[i].target
      BY <1>1, <2>4
    <2> QED  BY <2>1, <2>2, <2>3, <2>4
  <1>4. ASSUME NEW i \in DOMAIN RulesOf(doc), doc.slo[i].target \notin DOMAIN OldScopes,
               NEW j \in DOMAIN StepsOf(doc), doc.slo[i].target = OldName(doc.steps[j]),
               {k \in DOMAIN StepsOf(doc) : OldName(doc.steps[k]) = doc.slo[i].target} = {j}
        PROVE  \/ new.slo[i].target = StepName(new.steps[j])
               \/ doc.slo[i].quoted /\ ~CheckSLOSteps(new)
    <2> DEFINE step == doc.steps[j]
               rule == doc.slo[i]
    <2>1. i \in DOMAIN doc.slo /\ j \in DOMAIN doc.steps /\ rule \in RuleRecords
      BY <1>2 DEF RulesOf, StepsOf
    <2>2. /\ rule.quoted => new.slo[i].target = rule.target
          /\ ~rule.quoted => new.slo[i].target = RenameDerivedStep(rule.target, DeclaredStepNames(doc))
      BY <1>2, <1>4, <2>1 DEF RenameTarget
    <2>3. CASE "name" \in step.keys
      <3>1. OldName(step) = StepName(step) /\ StepName(step) \in DeclaredStepNames(doc)
        BY <2>3 DEF OldName, DeclaredStepNames
      <3> QED  BY <1>1, <1>4, <2>1, <2>2, <3>1 DEF RenameDerivedStep, RuleRecords
    <2>4. CASE "name" \notin step.keys /\ step.derived = NewDerivedName
      <3>1. OldName(step) = OldDerivedName /\ StepName(step) = NewDerivedName
        BY <2>4 DEF OldName, StepName
      <3>2. ASSUME NEW k \in DOMAIN StepsOf(doc), StepName(doc.steps[k]) = OldDerivedName
            PROVE  FALSE
        <4>1. "name" \in doc.steps[k].keys
          BY <3>2 DEF StepName, StepsOf, WellFormed
        <4>2. OldName(doc.steps[k]) = OldDerivedName
          BY <3>2, <4>1 DEF OldName
        <4> QED  BY <1>4, <2>4, <3>1, <4>1, <4>2
      <3>3. OldDerivedName \notin DeclaredStepNames(doc)
        BY <3>2 DEF DeclaredStepNames
      <3>4. CASE rule.quoted
        <4>1. ScopeOf(rule.target) = "step"
          BY <1>4, <3>1 DEF ScopeOf, OldDerivedName
        <4> QED  BY <1>4, <3>1, <3>2, <3>4, <4>1, QuotedIsRefused DEF new
      <3>5. CASE ~rule.quoted
        BY <1>1, <1>4, <2>2, <3>1, <3>3, <3>5 DEF RenameDerivedStep
      <3> QED  BY <3>4, <3>5
    <2>5. CASE "name" \notin step.keys /\ step.derived # NewDerivedName
      <3>1. OldName(step) = StepName(step) /\ StepName(step) # OldDerivedName
        BY <2>1, <2>5 DEF OldName, StepName, WellFormed
      <3> QED  BY <1>1, <1>4, <2>1, <2>2, <3>1 DEF RenameDerivedStep, RuleRecords
    <2> QED  BY <2>3, <2>4, <2>5
  <1> QED  BY <1>3, <1>4 DEF RulesKeepTheirSteps, new

(***************************************************************************)
(* The invariant.                                                          *)
(***************************************************************************)
LEMMA InitIInv == Init => IInv
  <1> SUFFICES ASSUME Init PROVE IInv
    OBVIOUS
  <1>1. inv \in Invocations
    BY DEF Init
  <1>2. inv.docs \in Seq({inv.docs[p] : p \in DOMAIN inv.docs})
    BY <1>1, CommandAssumption
  <1>3. ShapeInv
    <2>1. DOMAIN inv.docs = 1 .. Len(inv.docs) /\ Len(inv.docs) \in Nat
      BY <1>2
    <2>2. files = [p \in 1 .. Len(inv.docs) |-> Original(p)] /\ DOMAIN backups = DOMAIN inv.docs
      BY <2>1 DEF Init, Original
    <2>3. files \in Seq({files[p] : p \in DOMAIN files})
      BY <2>1, <2>2
    <2> QED  BY <2>1, <2>2, <2>3 DEF ShapeInv, Init
  <1>4. \A p \in DOMAIN inv.docs : files[p] = Original(p)
    BY DEF Init, Original
  <1>5. stage = "start" /\ attempts = 1
    BY DEF Init
  <1> QED  BY <1>1, <1>3, <1>4, <1>5 DEF IInv, MigrationInv, StageInv, FilesInv, BackupInv, FirstInv, WritingInv

\* A function on 1 .. n is a sequence over the values it takes.
LEMMA AnySequence ==
    ASSUME NEW n \in Nat, NEW f, f = [p \in 1 .. n |-> f[p]]
    PROVE  f \in Seq({f[p] : p \in DOMAIN f})
  <1> DEFINE S == {f[p] : p \in DOMAIN f}
  <1>1. f \in [1 .. n -> S]
    OBVIOUS
  <1> HIDE DEF S
  <1>2. f \in Seq(S)
    BY <1>1
  <1> QED  BY <1>2 DEF S

\* The steps that only a command other than migrate takes.
Elsewhere ==
    \/ Load \/ ValidateCommand \/ Edit
    \/ \E opens \in BOOLEAN : Prepare(opens)
    \/ \E o \in Outcomes : ExecuteSpec(o)
    \/ \E how \in Hows : WriteNext(how)
    \/ WriteDone
    \/ \E observed \in 0 .. Len(StepsOf(spec)), class \in {"success", "network"}, printed \in BOOLEAN :
          Debug(observed, class, printed)
    \/ Report
    \/ \E printed \in BOOLEAN : CompareRuns(printed)
    \/ \E how \in Hows : NewOne(how)
    \/ \E converts \in BOOLEAN, how \in Hows : ImportCommand(converts, how)
    \/ \E listens \in BOOLEAN : StayUp(listens)
    \/ \E fault \in BOOLEAN : GoDown(fault)
    \/ \E listens \in BOOLEAN : RecordListen(listens)
    \/ Proxying \/ AcceptFails \/ Collect
    \/ \E how \in Hows : BuildScenario(how)

\* A migration never takes one of them, for it is never at their stage.
LEMMA NotElsewhere ==
    ASSUME Migrating, StageInv, Elsewhere
    PROVE  FALSE
  <1> USE DEF Migrating, StageInv, Started
  <1>1. CASE Load \/ ValidateCommand \/ Edit
    BY <1>1 DEF Load, ValidateCommand, Edit
  <1>2. CASE \E opens \in BOOLEAN : Prepare(opens)
    BY <1>2 DEF Prepare
  <1>3. CASE \E o \in Outcomes : ExecuteSpec(o)
    BY <1>3 DEF ExecuteSpec
  <1>4. CASE (\E how \in Hows : WriteNext(how)) \/ WriteDone
    BY <1>4 DEF WriteNext, WriteDone
  <1>5. CASE \E observed \in 0 .. Len(StepsOf(spec)), class \in {"success", "network"}, printed \in BOOLEAN :
               Debug(observed, class, printed)
    BY <1>5 DEF Debug
  <1>6. CASE Report \/ (\E printed \in BOOLEAN : CompareRuns(printed))
    BY <1>6 DEF Report, CompareRuns
  <1>7. CASE \/ \E how \in Hows : NewOne(how)
             \/ \E converts \in BOOLEAN, how \in Hows : ImportCommand(converts, how)
    BY <1>7 DEF NewOne, ImportCommand
  <1>8. CASE \/ \E listens \in BOOLEAN : StayUp(listens)
             \/ \E fault \in BOOLEAN : GoDown(fault)
             \/ \E listens \in BOOLEAN : RecordListen(listens)
    BY <1>8 DEF StayUp, GoDown, RecordListen
  <1>9. CASE Proxying \/ AcceptFails \/ Collect \/ (\E how \in Hows : BuildScenario(how))
    BY <1>9 DEF Proxying, AcceptFails, Collect, BuildScenario
  <1> QED  BY <1>1, <1>2, <1>3, <1>4, <1>5, <1>6, <1>7, <1>8, <1>9 DEF Elsewhere

\* No step changes the invocation.
LEMMA InvocationStays == [Next]_vars => inv' = inv
  BY DEF Next, vars, commandVars, RefuseArguments, Load, ValidateCommand, Edit, Prepare, ExecuteSpec,
         WriteNext, WriteDone, Debug, Report, CompareRuns, NewOne, ImportCommand, StayUp, GoDown,
         RecordListen, Proxying, AcceptFails, Collect, BuildScenario, MigrateStart, MigrateOne,
         WriteBackup, WriteDestination, MigrateDone, Crash, Again

\* A step that leaves the files alone keeps what is known of them.
LEMMA FilesStay ==
    ASSUME IInv, inv' = inv, files' = files, backups' = backups, attempts' >= attempts, attempts' \in Nat
    PROVE  Migrating => FilesInv' /\ BackupInv'
  <1> SUFFICES ASSUME Migrating PROVE FilesInv' /\ BackupInv'
    OBVIOUS
  <1>1. FilesInv /\ BackupInv /\ attempts \in Nat
    BY DEF IInv, MigrationInv, FirstInv
  <1>2. \A p : Original(p)' = Original(p) /\ Replaced(p)' = Replaced(p)
    BY DEF Original, Replaced
  <1>3. \A p : Overwritten(p) => Overwritten(p)'
    BY <1>1 DEF Overwritten
  <1>4. FilesInv'
    BY <1>1, <1>2 DEF FilesInv
  <1>5. BackupInv'
    BY <1>1, <1>2, <1>3 DEF BackupInv
  <1> QED  BY <1>4, <1>5

\* So does what the first attempt has still to read, when the position only grows.
LEMMA FirstStays ==
    ASSUME IInv, Migrating, inv' = inv, files' = files, attempts' = attempts,
           position' \in {position, position + 1}, stage # "end"
    PROVE  FirstInv'
  <1>1. FirstInv /\ position \in Nat /\ DOMAIN inv.docs \subseteq Nat
    <2>1. ShapeInv /\ FirstInv
      BY DEF IInv, MigrationInv
    <2>2. DOMAIN files = 1 .. Len(files)
      BY <2>1 DEF ShapeInv
    <2> QED  BY <2>1, <2>2 DEF ShapeInv
  <1>2. \A p : Original(p)' = Original(p)
    BY DEF Original
  <1>3. \A p \in DOMAIN inv.docs : p >= position' => p >= position
    BY <1>1
  <1> QED  BY <1>1, <1>2, <1>3 DEF FirstInv

\* Reading and converting one file writes nothing, so the originals stay where they were.
LEMMA MigrateOneStep ==
    ASSUME IInv, Migrating, NEW text \in Texts, MigrateOne(text)
    PROVE  MigrationInv'
  <1> USE DEF MigrationInv
  <1>1. /\ inv' = inv /\ files' = files /\ backups' = backups /\ attempts' = attempts
        /\ stage = "migrate" /\ position <= Len(files)
    BY DEF MigrateOne
  <1>2. inv \in Invocations /\ MigrationInv
    BY DEF IInv
  <1>3. position \in DOMAIN inv.docs /\ position + 1 \in Nat \ {0}
    BY <1>1, <1>2 DEF ShapeInv
  <1>4. inv.docs[position] \in {inv.docs[p] : p \in DOMAIN inv.docs} /\ WellFormed(inv.docs[position])
    BY <1>2, <1>3, CommandAssumption
  <1>5. FilesInv' /\ BackupInv'
    BY <1>1, <1>2, FilesStay DEF FirstInv
  <1> DEFINE next == IF inv.output = "" THEN "backup" ELSE "destination"
  <1>6. \/ stage' \in {"end", "migrate"} /\ position' \in {position, position + 1}
        \/ /\ text = "accepted" /\ position' = position /\ stage' = next
           /\ spec' = Migrate(files[position].doc)
           /\ files[position].state = "whole" => text = Conversion(files[position].doc)
    BY DEF MigrateOne, Exit, Go, Texts
  <1>7. ShapeInv' /\ StageInv'
    BY <1>1, <1>2, <1>3, <1>6 DEF ShapeInv, StageInv
  <1>8. FirstInv'
    BY <1>1, <1>6, FirstStays
  <1>9. WritingInv'
    <2>1. CASE stage' \in {"end", "migrate"}
      BY <2>1 DEF WritingInv
    <2>2. CASE stage' = next /\ stage' \notin {"end", "migrate"}
      <3>1. /\ position' = position /\ text = "accepted"
            /\ spec' = Migrate(files[position].doc)
            /\ files[position].state = "whole" => text = Conversion(files[position].doc)
        BY <1>6, <2>2
      <3>2. Original(position)' = Original(position) /\ Original(position).state = "whole"
        BY <1>1, <3>1 DEF Original
      <3>3. \/ files'[position] = Original(position) /\ spec' = Migrate(inv.docs[position]) /\ Parse(spec', inv.defined)
            \/ attempts' > 1 /\ files'[position].state = "torn"
        <4>1. CASE files[position].state = "torn"
          <5>1. attempts \in Nat \ {0} /\ attempts # 1
            BY <1>1, <1>2, <1>3, <3>2, <4>1 DEF FirstInv, ShapeInv
          <5> QED  BY <1>1, <4>1, <5>1
        <4>2. CASE files[position].state # "torn"
          <5>1. files[position] = Original(position) \/ files[position] = Replaced(position)
            BY <1>2, <1>3, <4>2 DEF FilesInv
          <5>2. files[position].state = "whole"
            BY <5>1 DEF Original, Replaced
          <5>3. Conversion(files[position].doc) = "accepted"
            BY <3>1, <5>2
          <5>4. /\ Migrate(files[position].doc) # files[position].doc
                /\ Parse(Migrate(files[position].doc), inv.defined)
            BY <5>3 DEF Conversion
          <5>5. files[position] # Replaced(position)
            BY <1>4, <5>4, MigrateTwice DEF Replaced
          <5>6. files[position].doc = inv.docs[position]
            BY <5>1, <5>5 DEF Original
          <5> QED  BY <1>1, <3>1, <5>1, <5>4, <5>5, <5>6
        <4> QED  BY <4>1, <4>2
      <3>4. stage' = "backup" => inv.output = ""
        BY <2>2
      <3>5. stage' = "destination" => inv.output # ""
        BY <2>2
      <3> QED  BY <1>1, <1>3, <3>1, <3>2, <3>3, <3>4, <3>5 DEF WritingInv
    <2> QED  BY <1>6, <2>1, <2>2
  <1> QED  BY <1>5, <1>7, <1>8, <1>9

\* The .bak of one file changes: it is a copy of the scenario, or cut short, or as it was.
LEMMA BackupFiles ==
    ASSUME IInv, Migrating, stage = "backup", NEW how \in Hows, inv' = inv, files' = files,
           attempts' = attempts, files[position].state = "torn" => how # "whole",
           backups' = [backups EXCEPT ![position] = Write(@, files[position].doc, how)]
    PROVE  /\ FilesInv' /\ BackupInv' /\ DOMAIN backups' = DOMAIN inv.docs
           /\ how = "whole" => backups'[position] = Original(position)
           /\ how = "torn" => backups'[position].state = "torn"
  <1> USE DEF MigrationInv
  <1>1. MigrationInv
    BY DEF IInv
  <1>2. /\ position \in DOMAIN inv.docs
        /\ files[position] = Original(position) \/ (attempts > 1 /\ files[position].state = "torn")
    BY <1>1 DEF WritingInv
  <1>3. /\ DOMAIN backups' = DOMAIN inv.docs
        /\ \A p \in DOMAIN inv.docs \ {position} : backups'[p] = backups[p]
        /\ backups'[position] = Write(backups[position], files[position].doc, how)
    BY <1>1, <1>2 DEF ShapeInv
  <1>4. \A p : Original(p)' = Original(p) /\ Replaced(p)' = Replaced(p)
    BY DEF Original, Replaced
  <1>5. FilesInv'
    BY <1>1, <1>4 DEF FilesInv
  <1>6. how = "whole" => files[position] = Original(position) /\ backups'[position] = Original(position)
    <2> SUFFICES ASSUME how = "whole"
                 PROVE  files[position] = Original(position) /\ backups'[position] = Original(position)
      OBVIOUS
    <2>1. files[position] = Original(position)
      BY <1>2
    <2>2. files[position].doc = inv.docs[position]
      BY <2>1 DEF Original
    <2> QED  BY <1>3, <2>1, <2>2 DEF Write, Original
  <1>7. how = "torn" => backups'[position].state = "torn"
    BY <1>3 DEF Write
  <1>8. how = "refused" => backups'[position] = backups[position]
    BY <1>3 DEF Write
  <1>9. BackupInv'
    <2> SUFFICES ASSUME NEW p \in DOMAIN inv.docs
                 PROVE  \/ files[p] = Original(p) \/ backups'[p] = Original(p) \/ inv.output = "self"
                        \/ attempts > 1 /\ files[p].state = "torn" /\ backups'[p].state = "torn"
      BY <1>4 DEF BackupInv, Overwritten
    <2>1. \/ files[p] = Original(p) \/ backups[p] = Original(p) \/ inv.output = "self"
          \/ attempts > 1 /\ files[p].state = "torn" /\ backups[p].state = "torn"
      BY <1>1 DEF BackupInv, Overwritten
    <2>2. CASE backups'[p] = backups[p]
      BY <2>1, <2>2
    <2>3. CASE p = position
      BY <1>2, <1>6, <1>7, <1>8, <2>1, <2>3 DEF Hows
    <2> QED  BY <1>3, <2>2, <2>3
  <1> QED  BY <1>3, <1>5, <1>6, <1>7, <1>9

\* A write that does not end whole leaves the author's text in the scenario, and a .bak
\* cut short is not yet needed.
LEMMA WriteBackupStep ==
    ASSUME IInv, Migrating, NEW how \in Hows, WriteBackup(how)
    PROVE  MigrationInv'
  <1> USE DEF MigrationInv
  <1> DEFINE done == Copied(files[position], how)
  <1>1. /\ inv' = inv /\ files' = files /\ spec' = spec /\ position' = position /\ attempts' = attempts
        /\ stage = "backup"
        /\ backups' = [backups EXCEPT ![position] = Write(@, files[position].doc, done)]
        /\ stage' = "end" \/ (stage' = "destination" /\ how = "whole")
    BY DEF WriteBackup, Exit, Go
  <1>2. /\ done \in Hows /\ (files[position].state = "torn" => done # "whole")
        /\ how = "whole" => done = (IF files[position].state = "torn" THEN "torn" ELSE "whole")
    BY DEF Copied, Hows
  <1> HIDE DEF done
  <1>3. MigrationInv
    BY DEF IInv
  <1>4. /\ position \in DOMAIN inv.docs
        /\ \/ /\ files[position] = Original(position)
              /\ spec = Migrate(inv.docs[position]) /\ Parse(spec, inv.defined)
           \/ attempts > 1 /\ files[position].state = "torn"
        /\ inv.output = ""
    BY <1>1, <1>3 DEF WritingInv
  <1>5. /\ FilesInv' /\ BackupInv' /\ DOMAIN backups' = DOMAIN inv.docs
        /\ done = "whole" => backups'[position] = Original(position)
        /\ done = "torn" => backups'[position].state = "torn"
    BY <1>1, <1>2, BackupFiles
  <1>6. Original(position)' = Original(position)
    BY <1>1 DEF Original
  <1>7. ShapeInv' /\ StageInv'
    BY <1>1, <1>3, <1>5 DEF ShapeInv, StageInv
  <1>8. FirstInv'
    BY <1>1, FirstStays
  <1>9. WritingInv'
    <2>1. CASE stage' = "end"
      BY <2>1 DEF WritingInv
    <2>2. CASE stage' = "destination" /\ how = "whole"
      <3>1. Original(position).state = "whole"
        BY DEF Original
      <3>2. backups'[position] = Original(position)
            \/ (attempts > 1 /\ files[position].state = "torn" /\ backups'[position].state = "torn")
        BY <1>2, <1>4, <1>5, <2>2, <3>1
      <3> QED  BY <1>1, <1>4, <1>6, <2>2, <3>2 DEF WritingInv, Overwritten
    <2> QED  BY <1>1, <2>1, <2>2
  <1> QED  BY <1>5, <1>7, <1>8, <1>9

\* The scenario is only written over once the .bak is whole, unless -output names it or
\* it is one cut short.
LEMMA DestinationFiles ==
    ASSUME IInv, Migrating, stage = "destination", NEW how \in Hows, inv' = inv, backups' = backups,
           attempts' = attempts, files[position].state = "torn" => how # "whole",
           inv.output # "other", files' = [files EXCEPT ![position] = Write(@, spec, how)]
    PROVE  /\ FilesInv' /\ BackupInv'
           /\ files' \in Seq({files'[p] : p \in DOMAIN files'}) /\ DOMAIN files' = DOMAIN inv.docs
           /\ \A p \in DOMAIN inv.docs \ {position} : files'[p] = files[p]
  <1> USE DEF MigrationInv
  <1>1. inv \in Invocations /\ MigrationInv
    BY DEF IInv
  <1>2. /\ position \in DOMAIN inv.docs
        /\ \/ /\ files[position] = Original(position)
              /\ spec = Migrate(inv.docs[position]) /\ Parse(spec, inv.defined)
           \/ attempts > 1 /\ files[position].state = "torn"
        /\ inv.output # "" \/ backups[position] = Original(position) \/ Overwritten(position)
    BY <1>1 DEF WritingInv
  <1>3. inv.output \in {"", "self"}
    BY <1>1, CommandAssumption
  <1>4. DOMAIN files' = DOMAIN inv.docs /\ \A p \in DOMAIN inv.docs \ {position} : files'[p] = files[p]
    BY <1>1 DEF ShapeInv
  <1>5. files'[position] = Write(files[position], spec, how)
    BY <1>1, <1>2 DEF ShapeInv
  <1>6. /\ \/ files'[position] = Original(position)
           \/ files'[position].state = "torn"
           \/ files'[position] = Replaced(position) /\ Parse(Migrate(inv.docs[position]), inv.defined)
        /\ files[position].state = "torn" => files'[position].state = "torn"
    <2>1. CASE how = "refused"
      BY <1>2, <1>5, <2>1 DEF Write
    <2>2. CASE how = "torn"
      BY <1>5, <2>2 DEF Write
    <2>3. CASE how = "whole"
      BY <1>2, <1>5, <2>3 DEF Write, Replaced
    <2> QED  BY <2>1, <2>2, <2>3 DEF Hows
  <1>7. \A p : Original(p)' = Original(p) /\ Replaced(p)' = Replaced(p)
    BY DEF Original, Replaced
  <1>8. FilesInv'
    BY <1>1, <1>4, <1>6, <1>7 DEF FilesInv
  <1>9. BackupInv'
    <2>1. inv.output = "self" => BackupInv'
      BY DEF BackupInv
    <2>2. \A p \in DOMAIN inv.docs \ {position} : Overwritten(p) => Overwritten(p)'
      BY <1>4 DEF Overwritten
    <2>3. Overwritten(position) => \A p : p = position => Overwritten(p)'
      BY <1>6 DEF Overwritten
    <2> QED  BY <1>1, <1>2, <1>3, <1>4, <1>7, <2>1, <2>2, <2>3 DEF BackupInv
  <1>10. files' \in Seq({files'[p] : p \in DOMAIN files'})
    <2>1. DOMAIN files = 1 .. Len(files) /\ Len(files) \in Nat
      BY <1>1 DEF ShapeInv
    <2>2. files' = [p \in 1 .. Len(files) |-> files'[p]]
      BY <2>1
    <2> DEFINE n == Len(files)
               f == files'
    <2>3. n \in Nat /\ f = [p \in 1 .. n |-> f[p]]
      BY <2>1, <2>2
    <2> HIDE DEF n, f
    <2>4. f \in Seq({f[p] : p \in DOMAIN f})
      BY <2>3, AnySequence
    <2> QED  BY <2>4 DEF f
  <1> QED  BY <1>4, <1>8, <1>9, <1>10

\* Writing the destination, whole or cut short, leaves the backups as they were.
LEMMA WriteDestinationStep ==
    ASSUME IInv, Migrating, NEW how \in Hows, WriteDestination(how)
    PROVE  MigrationInv'
  <1> USE DEF MigrationInv
  <1> DEFINE done == Copied(files[position], how)
  <1>1. /\ inv' = inv /\ backups' = backups /\ stage = "destination" /\ attempts' = attempts
        /\ \/ stage' = "end" /\ position' = position
           \/ stage' = "migrate" /\ position' = position + 1
    BY DEF WriteDestination, Exit, Go
  <1>2. MigrationInv
    BY DEF IInv
  <1>3. position \in Nat \ {0} /\ position' \in Nat \ {0}
    BY <1>1, <1>2 DEF ShapeInv
  <1>4. StageInv' /\ WritingInv'
    BY <1>1 DEF StageInv, WritingInv
  <1>5. CASE inv.output = "other"
    <2>1. files' = files
      BY <1>5 DEF WriteDestination
    <2>2. FirstInv'
      BY <1>1, <2>1, FirstStays
    <2>3. FilesInv' /\ BackupInv'
      BY <1>1, <1>2, <2>1, FilesStay DEF FirstInv
    <2> QED  BY <1>1, <1>2, <1>3, <1>4, <2>1, <2>2, <2>3 DEF ShapeInv
  <1>6. CASE inv.output # "other"
    <2>1. files' = [files EXCEPT ![position] = Write(@, spec, done)]
      <3>1. files' = [files EXCEPT ![position] = Write(@, spec, Copied(@, how))]
        BY <1>6 DEF WriteDestination
      <3> QED  BY <3>1
    <2>2. done \in Hows /\ (files[position].state = "torn" => done # "whole")
      BY DEF Copied, Hows
    <2> HIDE DEF done
    <2>3. /\ FilesInv' /\ BackupInv'
          /\ files' \in Seq({files'[p] : p \in DOMAIN files'}) /\ DOMAIN files' = DOMAIN inv.docs
          /\ \A p \in DOMAIN inv.docs \ {position} : files'[p] = files[p]
      BY <1>1, <1>6, <2>1, <2>2, DestinationFiles
    <2>4. FirstInv'
      <3>1. \A p : Original(p)' = Original(p)
        BY <1>1 DEF Original
      <3>2. FirstInv /\ DOMAIN inv.docs \subseteq Nat
        BY <1>2 DEF ShapeInv
      <3>3. stage' # "end" => \A p \in DOMAIN inv.docs : p >= position' => p >= position /\ p # position
        BY <1>1, <1>3, <3>2
      <3> QED  BY <1>1, <2>3, <3>1, <3>2, <3>3 DEF FirstInv
    <2> QED  BY <1>1, <1>2, <1>3, <1>4, <2>3, <2>4 DEF ShapeInv
  <1> QED  BY <1>5, <1>6

\* A crash is a write cut short or not begun, wherever it comes.
LEMMA CrashStep ==
    ASSUME IInv, Migrating, NEW begun \in BOOLEAN, Crash(begun)
    PROVE  MigrationInv'
  <1> USE DEF MigrationInv
  <1> DEFINE how == IF begun THEN "torn" ELSE "refused"
  <1>1. /\ inv' = inv /\ position' = position /\ spec' = spec /\ stage' = "end" /\ attempts' = attempts
        /\ how \in Hows /\ how # "whole"
    BY DEF Crash, Exit, Hows
  <1>2. MigrationInv
    BY DEF IInv
  <1>3. StageInv' /\ WritingInv' /\ FirstInv'
    BY <1>1, <1>2 DEF StageInv, WritingInv, FirstInv
  <1>4. \A p : Original(p)' = Original(p) /\ Replaced(p)' = Replaced(p)
    BY <1>1 DEF Original, Replaced
  <1>5. CASE stage = "backup"
    <2>1. /\ files' = files
          /\ backups' = [backups EXCEPT ![position] = Write(@, files[position].doc, how)]
      BY <1>5 DEF Crash
    <2> HIDE DEF how
    <2>2. FilesInv' /\ BackupInv' /\ DOMAIN backups' = DOMAIN inv.docs
      BY <1>1, <1>5, <2>1, BackupFiles
    <2>3. ShapeInv'
      BY <1>1, <1>2, <2>1, <2>2 DEF ShapeInv
    <2> QED  BY <1>3, <2>2, <2>3
  <1>6. CASE stage = "destination" /\ inv.output # "other"
    <2>1. backups' = backups /\ files' = [files EXCEPT ![position] = Write(@, spec, how)]
      BY <1>6 DEF Crash
    <2> HIDE DEF how
    <2>2. /\ FilesInv' /\ BackupInv'
          /\ files' \in Seq({files'[p] : p \in DOMAIN files'}) /\ DOMAIN files' = DOMAIN inv.docs
      BY <1>1, <1>6, <2>1, DestinationFiles
    <2> QED  BY <1>1, <1>2, <1>3, <2>1, <2>2 DEF ShapeInv
  <1>7. CASE stage # "backup" /\ ~(stage = "destination" /\ inv.output # "other")
    <2>1. backups' = backups /\ files' = files
      BY <1>7 DEF Crash
    <2>2. FilesInv' /\ BackupInv'
      BY <1>1, <1>2, <2>1, FilesStay DEF FirstInv
    <2> QED  BY <1>1, <1>2, <1>3, <2>1, <2>2 DEF ShapeInv
  <1> QED  BY <1>5, <1>6, <1>7

\* Every step keeps the inductive invariant: the steps above, those of a migration
\* that touch no file, and those of the other commands.
LEMMA NextIInv == IInv /\ [Next]_vars => IInv'
  <1> SUFFICES ASSUME IInv, [Next]_vars, Migrating PROVE MigrationInv'
    BY InvocationStays DEF IInv, Migrating
  <1> USE DEF MigrationInv
  <1>1. MigrationInv /\ inv' = inv
    BY InvocationStays DEF IInv
  <1>2. ASSUME files' = files, backups' = backups, stage' \in {"start", "migrate", "end"},
               \/ attempts' = attempts /\ position' = position /\ stage # "end"
               \/ attempts' = attempts + 1 /\ position' = 1
        PROVE  MigrationInv'
    <2>1. attempts \in Nat \ {0} /\ attempts' \in Nat \ {0} /\ attempts' >= attempts
      BY <1>1, <1>2 DEF FirstInv
    <2>2. ShapeInv'
      BY <1>1, <1>2 DEF ShapeInv
    <2>3. StageInv' /\ WritingInv'
      BY <1>2 DEF StageInv, WritingInv
    <2>4. FirstInv'
      <3>1. CASE attempts' = attempts + 1
        BY <2>1, <3>1 DEF FirstInv
      <3>2. CASE attempts' = attempts /\ position' = position /\ stage # "end"
        BY <1>1, <1>2, <3>2, FirstStays
      <3> QED  BY <1>2, <3>1, <3>2
    <2>5. FilesInv' /\ BackupInv'
      BY <1>1, <1>2, <2>1, FilesStay
    <2> QED  BY <2>2, <2>3, <2>4, <2>5
  <1>3. CASE RefuseArguments \/ MigrateStart \/ MigrateDone \/ Again
    BY <1>2, <1>3 DEF RefuseArguments, MigrateStart, MigrateDone, Again, Exit, Go, Started
  <1>4. CASE \E text \in Texts : MigrateOne(text)
    BY <1>4, MigrateOneStep
  <1>5. CASE \E how \in Hows : WriteBackup(how)
    BY <1>5, WriteBackupStep
  <1>6. CASE \E how \in Hows : WriteDestination(how)
    BY <1>6, WriteDestinationStep
  <1>7. CASE \E begun \in BOOLEAN : Crash(begun)
    BY <1>7, CrashStep
  <1>8. CASE Elsewhere
    BY <1>1, <1>8, NotElsewhere
  <1>9. CASE UNCHANGED vars
    <2>1. /\ files' = files /\ backups' = backups /\ position' = position /\ stage' = stage
          /\ spec' = spec /\ attempts' = attempts
      BY <1>9 DEF vars, commandVars
    <2>2. ShapeInv' /\ StageInv' /\ WritingInv' /\ FirstInv'
      BY <1>1, <2>1 DEF ShapeInv, StageInv, WritingInv, FirstInv, Original, Overwritten
    <2>3. FilesInv' /\ BackupInv'
      BY <1>1, <2>1, FilesStay DEF FirstInv
    <2> QED  BY <2>2, <2>3
  <1> QED  BY <1>3, <1>4, <1>5, <1>6, <1>7, <1>8, <1>9 DEF Next, Elsewhere

(***************************************************************************)
(* The theorem.                                                            *)
(***************************************************************************)
\* Whatever crashes, is refused or is cut short, and however often the command is given
\* again, the author's text of every file is in the scenario or in its .bak, but for the
\* two cases MigrationIsSafe names, and a scenario that was replaced parses and its rules
\* name the steps they named (main.go:1049, migration.go:79).
THEOREM NothingLostMigrating == Spec => []MigrationIsSafe
  <1>1. IInv => MigrationIsSafe
    <2> SUFFICES ASSUME IInv, Migrating, NEW p \in DOMAIN files
                 PROVE  /\ \/ Original(p) \in {files[p], backups[p]} \/ inv.output = "self"
                           \/ Overwritten(p)
                        /\ files[p].state = "whole" /\ files[p] # Original(p) =>
                             /\ Parse(files[p].doc, inv.defined)
                             /\ RulesKeepTheirSteps(inv.docs[p], files[p].doc)
      BY DEF MigrationIsSafe, Migrating, Original, Overwritten
    <2>1. inv \in Invocations /\ MigrationInv /\ p \in DOMAIN inv.docs
      BY DEF IInv, MigrationInv, ShapeInv
    <2>2. \/ Original(p) \in {files[p], backups[p]} \/ inv.output = "self"
          \/ Overwritten(p)
      BY <2>1 DEF MigrationInv, BackupInv
    <2>3. ASSUME files[p].state = "whole", files[p] # Original(p)
          PROVE  Parse(files[p].doc, inv.defined) /\ RulesKeepTheirSteps(inv.docs[p], files[p].doc)
      <3>1. files[p] = Replaced(p) /\ Parse(Migrate(inv.docs[p]), inv.defined)
        BY <2>1, <2>3 DEF MigrationInv, FilesInv
      <3>2. files[p].doc = Migrate(inv.docs[p])
        BY <3>1 DEF Replaced
      <3>3. WellFormed(inv.docs[p])
        BY <2>1, CommandAssumption
      <3>4. inv.docs[p].form = "map"
        BY <2>3, <3>1 DEF Replaced, Original, Migrate
      <3> QED  BY <3>1, <3>2, <3>3, <3>4, MigrateKeepsRules
    <2> QED  BY <2>2, <2>3
  <1> QED  BY <1>1, InitIInv, NextIInv, PTL DEF Spec
=============================================================================
