-------------------------- MODULE IterationProofs --------------------------
(***************************************************************************)
(* Proofs about Iteration, for any number of iterations in flight, any     *)
(* scenarios, data file, runs of the process, failures and clock.          *)
(***************************************************************************)
EXTENDS Iteration, FiniteSetTheorems, SequenceTheorems, TLAPS

RunStates == [id : 0 .. MaxRuns, phase : {"idle", "prepare", "load", "stopped"},
              prepared : Nat]
Sources == [position : Nat, exhausted : BOOLEAN, handed : [1 .. Rows -> Nat]]
Readings == [run : Nat, phase : {"none", "idle", "prepare", "load", "stopped"}]
Reported == [last : Readings, problem : BOOLEAN]
Watchers == [state : {None, "watching", "done"}, by : Nat, last : Readings, problem : BOOLEAN,
             silent : BOOLEAN]
Managers == [lock : Goroutines \cup {None}, asking : BOOLEAN, values : [Names -> Nat],
             obtained : BOOLEAN, at : Nat, obtains : Nat]
Connections == [gen : Nat, up : BOOLEAN, confirms : BOOLEAN, tls : Nat, resolved : BOOLEAN]
Iterations == [pc : {"idle", "data", "auth", "asking", "copy", "step", "wait"},
               iteration : Nat, row : Nat, values : [Names -> Nat], step : Nat, gen : Nat,
               open : Calls, polls : Nat]

\* The shape of every variable; TypeOK bounds some of them.
ShapeInv ==
    /\ scen \in Scenarios
    /\ run \in RunStates
    /\ source \in Sources
    /\ auth \in Managers
    /\ it \in [Goroutines -> Iterations]
    /\ issued \in Nat /\ nextGen \in Nat \ {0} /\ tls \in Nat /\ clock \in Nat
    /\ conns \in [Kept -> Connections]
    /\ watcher \in Watchers
    /\ stopWatch \in BOOLEAN
    /\ lag \in Seq(Reported)

\* Iterations and connections exist only inside a run.
RunInv ==
    /\ run.phase # "idle" => run.id \in 1 .. MaxRuns /\ issued <= Planned
    /\ run.phase # "load" => \A g \in Goroutines : it[g].pc = "idle"
    /\ run.phase = "idle" => conns = NewProtocols
    /\ run.phase = "prepare" => ~Debugging
    /\ issued <= MaxIterations
    /\ \A g \in Goroutines :
         it[g].pc \notin {"idle", "data"} => it[g].step \in 1 .. Len(scen.steps)

\* Every iteration dispatched draws at most one row and asks for at most one token.
Drawing == {g \in Goroutines : it[g].pc = "data"}
Before  == {g \in Goroutines : it[g].pc \in {"data", "auth", "asking"}}
CountInv ==
    /\ source.position + Cardinality(Drawing) <= issued
    /\ auth.obtains + Cardinality(Before) <= issued

\* Identities are given out in order, and a closed one is neither kept by a
\* protocol nor held by an iteration.
IdentityInv ==
    /\ \A g \in Goroutines :
         it[g].gen < nextGen /\ (it[g].pc # "idle" /\ it[g].gen # 0 => it[g].gen \notin dead)
    /\ \A p \in Kept : conns[p].gen < nextGen /\ (conns[p].gen # 0 => conns[p].gen \notin dead)
    /\ \A n \in dead : n \in Nat /\ n < nextGen

\* A run opens its connections with the settings it declared.
SettingsInv ==
    run.phase # "idle" /\ scen.tls[run.id] =>
        tls = run.id /\ \A p \in Kept : conns[p].gen # 0 => conns[p].tls = run.id

\* Nothing but the token goes through the manager.
ValuesInv ==
    /\ auth.values["row"] = 0 /\ auth.values["id"] = 0
    /\ \A g \in Goroutines :
         /\ it[g].pc = "data" => it[g].values = Unset
         /\ it[g].pc \notin {"idle", "data"} =>
              /\ it[g].values["row"] = it[g].row
              /\ it[g].values["id"] \in {0, it[g].iteration + 1}

\* One iteration at a time asks, and only for a token that is missing or expired.
TokenInv ==
    /\ \A g \in Goroutines : it[g].pc = "asking" <=> auth.lock = g
    /\ auth.lock # None => ~auth.obtained \/ Expired
    /\ auth.at <= clock
    /\ ~auth.obtained => auth.obtains = 0
    /\ auth.obtains <= IF scen.refresh = 0 THEN 1 ELSE 1 + (auth.at \div scen.refresh)

\* Where each policy stands in the file.
Sequential(s) ==
    /\ \A r \in 1 .. Rows : s.handed[r] = IF r <= s.position THEN 1 ELSE 0
    /\ s.exhausted => s.position >= Rows
Circular(s) ==
    \E k \in Nat : \A r \in 1 .. Rows :
        s.handed[r] = k + (IF r <= s.position % Rows THEN 1 ELSE 0)
LineInv ==
    /\ scen.consume = "sequential" => Sequential(source)
    /\ scen.consume = "circular" => Circular(source)

\* The watch is stopped after the load of the run that started it, read once more,
\* and not touched again.
WatchInv ==
    /\ Len(lag) = IF run.phase = "idle" THEN run.id ELSE run.id - 1
    /\ watcher.state = None => watcher.by = 0
    /\ watcher.by <= run.id
    /\ watcher.by # 0 => scen.kinds[watcher.by] # "debug"
    /\ watcher.state = "watching" => watcher.by = run.id /\ ~Debugging /\ run.phase # "idle"
    /\ watcher.state = "watching" /\ ~stopWatch => run.phase = "stopped"
    /\ watcher.state = "done" =>
         \/ watcher.problem \/ watcher.silent
         \/ watcher.last = [run |-> watcher.by, phase |-> "stopped"]
    /\ \A r \in 1 .. Len(lag) : watcher.by = r /\ ~watcher.silent /\ ~lag[r].problem =>
         lag[r].last = [run |-> r, phase |-> "stopped"]

IInv == /\ ShapeInv /\ RunInv /\ CountInv /\ IdentityInv /\ SettingsInv /\ ValuesInv
        /\ TokenInv /\ LineInv /\ WatchInv

-----------------------------------------------------------------------------
(* Arithmetic, and counting iterations.                                     *)

\* Quotient and remainder of a division by a positive number.
LEMMA DivMod ==
  \A a \in Nat, d \in Nat \ {0} :
     a % d \in 0 .. (d - 1) /\ a \div d \in Nat /\ a = d * (a \div d) + (a % d)
  OBVIOUS

\* There is one remainder.
LEMMA OneRemainder ==
  ASSUME NEW d \in Nat \ {0}, NEW q \in Nat, NEW p \in Nat,
         NEW r \in 0 .. (d - 1), NEW s \in 0 .. (d - 1), d * q + r = d * p + s
  PROVE  r = s
  <1>1. CASE p > q
    <2>1. d * p >= d * (q + 1) /\ d * (q + 1) = d * q + d
      BY <1>1
    <2> QED
      BY <2>1
  <1>2. CASE q > p
    <2>1. d * q >= d * (p + 1) /\ d * (p + 1) = d * p + d
      BY <1>2
    <2> QED
      BY <2>1
  <1> QED
    BY <1>1, <1>2

\* The line after the last one of the file is the first.
LEMMA NextRemainder ==
  \A a \in Nat, d \in Nat \ {0} :
     (a + 1) % d = IF (a % d) + 1 = d THEN 0 ELSE (a % d) + 1
  <1> TAKE a \in Nat, d \in Nat \ {0}
  <1> DEFINE q == a \div d
             r == a % d
             p == (a + 1) \div d
             s == (a + 1) % d
  <1>1. r \in 0 .. (d - 1) /\ q \in Nat /\ a = d * q + r
    BY DivMod
  <1>2. s \in 0 .. (d - 1) /\ p \in Nat /\ a + 1 = d * p + s
    BY a + 1 \in Nat, DivMod
  <1> HIDE DEF q, r, p, s
  <1>3. CASE r + 1 = d
    <2>1. d * (q + 1) + 0 = d * p + s
      BY <1>1, <1>2, <1>3
    <2>2. s = 0
      BY <2>1, <1>1, <1>2, OneRemainder
    <2> QED
      BY <2>2, <1>3 DEF r, s
  <1>4. CASE r + 1 # d
    <2>1. d * q + (r + 1) = d * p + s /\ r + 1 \in 0 .. (d - 1)
      BY <1>1, <1>2, <1>4
    <2>2. s = r + 1
      BY <2>1, <1>1, <1>2, OneRemainder
    <2> QED
      BY <2>2, <1>4 DEF r, s
  <1> QED
    BY <1>3, <1>4

\* A token that expired leaves room for another one.
LEMMA RoomForAnother ==
  \A a, b \in Nat, d \in Nat \ {0} : b - a >= d => (b \div d) >= (a \div d) + 1
  OBVIOUS

\* As time passes the room does not shrink.
LEMMA RoomGrows ==
  \A a, b \in Nat, d \in Nat \ {0} : b >= a => (b \div d) >= (a \div d)
  OBVIOUS

\* Two finite sets that differ in one element at most.
LEMMA SizeMoves ==
  ASSUME NEW S, NEW T, NEW x, IsFiniteSet(S), IsFiniteSet(T), S \ {x} = T \ {x}
  PROVE  /\ Cardinality(S) \in Nat /\ Cardinality(T) \in Nat
         /\ Cardinality(T) = Cardinality(S) + (IF x \in T THEN 1 ELSE 0)
                                            - (IF x \in S THEN 1 ELSE 0)
  <1>1. /\ Cardinality(S) \in Nat /\ Cardinality(T) \in Nat
        /\ Cardinality(S \ {x}) = IF x \in S THEN Cardinality(S) - 1 ELSE Cardinality(S)
        /\ Cardinality(T \ {x}) = IF x \in T THEN Cardinality(T) - 1 ELSE Cardinality(T)
    BY FS_CardinalityType, FS_RemoveElement
  <1> QED
    BY <1>1

\* How the counts of CountInv change when one goroutine moves.
LEMMA CountsMove ==
  ASSUME NEW g \in Goroutines, \A h \in Goroutines : h # g => it'[h].pc = it[h].pc
  PROVE  /\ Cardinality(Drawing) \in Nat /\ Cardinality(Drawing') \in Nat
         /\ Cardinality(Drawing') = Cardinality(Drawing)
               + (IF it'[g].pc = "data" THEN 1 ELSE 0) - (IF it[g].pc = "data" THEN 1 ELSE 0)
         /\ Cardinality(Before) \in Nat /\ Cardinality(Before') \in Nat
         /\ Cardinality(Before') = Cardinality(Before)
               + (IF it'[g].pc \in {"data", "auth", "asking"} THEN 1 ELSE 0)
               - (IF it[g].pc \in {"data", "auth", "asking"} THEN 1 ELSE 0)
  <1>1. /\ IsFiniteSet(Drawing) /\ IsFiniteSet(Drawing')
        /\ IsFiniteSet(Before) /\ IsFiniteSet(Before')
    <2>1. \A S \in SUBSET Goroutines : IsFiniteSet(S)
      BY FS_Subset, IterationAssumption
    <2> QED
      BY <2>1 DEF Drawing, Before
  <1>2. Drawing \ {g} = Drawing' \ {g} /\ Before \ {g} = Before' \ {g}
    BY DEF Drawing, Before
  <1>3. /\ g \in Drawing <=> it[g].pc = "data"
        /\ g \in Drawing' <=> it'[g].pc = "data"
        /\ g \in Before <=> it[g].pc \in {"data", "auth", "asking"}
        /\ g \in Before' <=> it'[g].pc \in {"data", "auth", "asking"}
    BY DEF Drawing, Before
  <1>4. /\ Cardinality(Drawing) \in Nat /\ Cardinality(Drawing') \in Nat
        /\ Cardinality(Drawing') = Cardinality(Drawing) + (IF g \in Drawing' THEN 1 ELSE 0)
                                                        - (IF g \in Drawing THEN 1 ELSE 0)
    BY <1>1, <1>2, SizeMoves
  <1>5. /\ Cardinality(Before) \in Nat /\ Cardinality(Before') \in Nat
        /\ Cardinality(Before') = Cardinality(Before) + (IF g \in Before' THEN 1 ELSE 0)
                                                      - (IF g \in Before THEN 1 ELSE 0)
    BY <1>1, <1>2, SizeMoves
  <1> QED
    BY <1>3, <1>4, <1>5

-----------------------------------------------------------------------------
(* The initial state, and what each part speaks of.                         *)

\* A source that was just opened stands at the first line.
LEMMA NewSourceLines == Sequential(NewSource) /\ Circular(NewSource)
  <1>1. 0 % Rows = 0
    BY IterationAssumption
  <1>2. /\ NewSource.position = 0 /\ ~NewSource.exhausted
        /\ \A r \in 1 .. Rows : NewSource.handed[r] = 0
    BY DEF NewSource
  <1>3. \A r \in 1 .. Rows :
           NewSource.handed[r] = 0 + (IF r <= NewSource.position % Rows THEN 1 ELSE 0)
    BY <1>1, <1>2
  <1>4. Circular(NewSource)
    BY <1>3 DEF Circular
  <1> QED
    BY <1>2, <1>4 DEF Sequential

\* A process starts with the inductive invariant.
LEMMA InitIInv == Init => IInv
  <1> SUFFICES ASSUME Init PROVE IInv
    OBVIOUS
  <1> USE IterationAssumption DEF Init
  <1>1. Unset \in [Names -> Nat] /\ Unset["row"] = 0 /\ Unset["id"] = 0
    BY DEF Unset, Names
  <1>2. \A g \in Goroutines : it[g].pc = "idle" /\ it[g].gen = 0
    BY DEF Idle
  <1>3. ShapeInv
    <2>1. /\ Idle \in Iterations /\ NewManager \in Managers /\ NoConn \in Connections
      BY <1>1 DEF Idle, Iterations, Calls, NewManager, Managers, NoConn, Connections
    <2>2. source \in Sources
      BY DEF NewSource, Sources
    <2>3. conns \in [Kept -> Connections]
      BY <2>1 DEF NewProtocols
    <2>4. lag \in Seq(Reported)
      OBVIOUS
    <2>5. it \in [Goroutines -> Iterations] /\ auth \in Managers
      BY <2>1
    <2>6. watcher \in Watchers
      BY DEF NoWatcher, NoReading, Watchers, Readings
    <2>7. run \in RunStates
      BY DEF RunStates
    <2> HIDE DEF Init
    <2>8. /\ scen \in Scenarios /\ issued \in Nat /\ nextGen \in Nat \ {0} /\ tls \in Nat
          /\ clock \in Nat
      BY DEF Init
    <2>9. stopWatch \in BOOLEAN
      BY DEF Init
    <2> QED
      BY <2>2, <2>3, <2>4, <2>5, <2>6, <2>7, <2>8, <2>9 DEF ShapeInv
  <1>4. RunInv
    BY <1>2 DEF RunInv
  <1>5. CountInv
    <2>1. Drawing = {} /\ Before = {}
      BY <1>2 DEF Drawing, Before
    <2> QED
      BY <2>1, FS_EmptySet DEF CountInv, NewSource, NewManager
  <1>6. IdentityInv
    BY <1>2 DEF IdentityInv, NewProtocols, NoConn
  <1>7. SettingsInv /\ ValuesInv
    BY <1>1, <1>2 DEF SettingsInv, ValuesInv, NewManager
  <1>8. TokenInv
    <2>1. scen.refresh # 0 => 0 \div scen.refresh \in Nat
      BY DivMod
    <2> QED
      BY <1>2, <2>1 DEF TokenInv, NewManager
  <1>9. LineInv
    BY NewSourceLines DEF LineInv
  <1>10. WatchInv
    BY DEF WatchInv, NoWatcher, None
  <1> QED
    BY <1>3, <1>4, <1>5, <1>6, <1>7, <1>8, <1>9, <1>10 DEF IInv

\* The fields of the records.
LEMMA Fields ==
  ASSUME ShapeInv
  PROVE  /\ run.id \in 0 .. MaxRuns /\ run.phase \in {"idle", "prepare", "load", "stopped"}
         /\ run.prepared \in Nat
         /\ source.position \in Nat /\ source.handed \in [1 .. Rows -> Nat]
         /\ source.exhausted \in BOOLEAN
         /\ auth.lock \in Goroutines \cup {None} /\ auth.values \in [Names -> Nat]
         /\ auth.obtained \in BOOLEAN /\ auth.at \in Nat /\ auth.obtains \in Nat
         /\ \A g \in Goroutines :
               /\ it[g] \in Iterations
               /\ it[g].pc \in {"idle", "data", "auth", "asking", "copy", "step", "wait"}
               /\ it[g].iteration \in Nat /\ it[g].row \in Nat /\ it[g].step \in Nat
               /\ it[g].gen \in Nat /\ it[g].values \in [Names -> Nat] /\ it[g].open \in Calls
         /\ \A p \in Kept : /\ conns[p] \in Connections
                            /\ conns[p].gen \in Nat /\ conns[p].tls \in Nat
         /\ watcher.state \in {None, "watching", "done"} /\ watcher.by \in Nat
         /\ watcher.problem \in BOOLEAN /\ watcher.last \in Readings /\ watcher.silent \in BOOLEAN
  <1> USE DEF ShapeInv
  <1>1. /\ run.id \in 0 .. MaxRuns /\ run.phase \in {"idle", "prepare", "load", "stopped"}
        /\ run.prepared \in Nat
    BY DEF RunStates
  <1>2. /\ source.position \in Nat /\ source.handed \in [1 .. Rows -> Nat]
        /\ source.exhausted \in BOOLEAN
    BY DEF Sources
  <1>3. /\ auth.lock \in Goroutines \cup {None} /\ auth.values \in [Names -> Nat]
        /\ auth.obtained \in BOOLEAN /\ auth.at \in Nat /\ auth.obtains \in Nat
    BY DEF Managers
  <1>4. \A g \in Goroutines :
           /\ it[g] \in Iterations
           /\ it[g].pc \in {"idle", "data", "auth", "asking", "copy", "step", "wait"}
           /\ it[g].iteration \in Nat /\ it[g].row \in Nat /\ it[g].step \in Nat
           /\ it[g].gen \in Nat /\ it[g].values \in [Names -> Nat] /\ it[g].open \in Calls
    BY DEF Iterations
  <1>5. \A p \in Kept : /\ conns[p] \in Connections
                        /\ conns[p].gen \in Nat /\ conns[p].tls \in Nat
    BY DEF Connections
  <1>6. /\ watcher.state \in {None, "watching", "done"} /\ watcher.by \in Nat
        /\ watcher.problem \in BOOLEAN /\ watcher.last \in Readings /\ watcher.silent \in BOOLEAN
    BY DEF Watchers
  <1> QED
    BY <1>1, <1>2, <1>3, <1>4, <1>5, <1>6

\* Each part of the invariant speaks of some variables only.
LEMMA Frames ==
  ASSUME IInv
  PROVE  /\ UNCHANGED <<scen, run, issued, it, conns>> => RunInv'
         /\ UNCHANGED <<source, auth, issued, it>> => CountInv'
         /\ UNCHANGED <<it, conns, nextGen, dead>> => IdentityInv'
         /\ UNCHANGED <<scen, run, tls, conns>> => SettingsInv'
         /\ UNCHANGED <<auth, it>> => ValuesInv'
         /\ UNCHANGED <<scen, auth, it, clock>> => TokenInv'
         /\ UNCHANGED <<scen, source>> => LineInv'
         /\ UNCHANGED <<scen, run, watcher, stopWatch, lag>> => WatchInv'
  <1> USE DEF IInv
  <1>1. UNCHANGED <<scen, run, issued, it, conns>> => RunInv'
    BY DEF RunInv, Debugging, Planned
  <1>2. UNCHANGED <<source, auth, issued, it>> => CountInv'
    BY DEF CountInv, Drawing, Before
  <1>3. UNCHANGED <<it, conns, nextGen, dead>> => IdentityInv'
    BY DEF IdentityInv
  <1>4. UNCHANGED <<scen, run, tls, conns>> => SettingsInv'
    BY DEF SettingsInv
  <1>5. UNCHANGED <<auth, it>> => ValuesInv'
    BY DEF ValuesInv
  <1>6. UNCHANGED <<scen, auth, it, clock>> => TokenInv'
    BY DEF TokenInv, Expired
  <1>7. UNCHANGED <<scen, source>> => LineInv'
    BY DEF LineInv, Sequential, Circular
  <1>8. UNCHANGED <<scen, run, watcher, stopWatch, lag>> => WatchInv'
    BY DEF WatchInv, Debugging
  <1> QED
    BY <1>1, <1>2, <1>3, <1>4, <1>5, <1>6, <1>7, <1>8

-----------------------------------------------------------------------------
(* The steps.                                                               *)

\* engine.New starts a run from fresh sources and a fresh manager.
LEMMA StartRunKeeps ==
  ASSUME IInv, StartRun
  PROVE  IInv'
  <1> USE IterationAssumption DEF StartRun
  <1>1. ShapeInv'
    <2>1. NewSource \in Sources
      BY DEF NewSource, Sources
    <2>2. NewManager \in Managers
      BY DEF NewManager, Managers, Unset, Names
    <2>3. run' \in RunStates
      BY Fields, SMTT(30) DEF IInv, RunStates
    <2>4. tls' \in Nat
      BY Fields, SMTT(30) DEF IInv, ShapeInv, ApplyTLS
    <2> QED
      BY <2>1, <2>2, <2>3, <2>4 DEF IInv, ShapeInv
  <1>2. RunInv'
    <2>1. /\ run'.id = run.id + 1 /\ run'.id \in 1 .. MaxRuns
          /\ run'.phase \in {"load", "prepare"}
          /\ run'.phase = "prepare" => scen'.kinds[run'.id] # "debug"
      BY Fields DEF IInv
    <2>2. issued' = 0 /\ issued' <= Planned' /\ issued' <= MaxIterations
      BY DEF Planned
    <2>3. \A g \in Goroutines : it'[g].pc = "idle"
      BY DEF IInv, RunInv
    <2> HIDE DEF StartRun
    <2> QED
      BY <2>1, <2>2, <2>3 DEF RunInv, Debugging
  <1>3. CountInv'
    <2>1. Drawing' = {} /\ Before' = {}
      BY DEF IInv, RunInv, Drawing, Before
    <2> QED
      BY <2>1, FS_EmptySet DEF CountInv, NewSource, NewManager
  <1>4. SettingsInv'
    <2>1. \A p \in Kept : conns'[p].gen = 0
      BY DEF IInv, RunInv, NewProtocols, NoConn
    <2> QED
      BY <2>1 DEF SettingsInv, ApplyTLS
  <1>5. ValuesInv'
    BY DEF IInv, RunInv, ValuesInv, NewManager, Unset, Names
  <1>6. TokenInv'
    <2>1. scen.refresh # 0 => 0 \div scen.refresh \in Nat
      BY DivMod DEF IInv, ShapeInv
    <2>2. \A g \in Goroutines : it'[g].pc = "idle"
      BY DEF IInv, RunInv
    <2>3. auth'.lock = None /\ ~auth'.obtained /\ auth'.at = 0 /\ auth'.obtains = 0
      BY DEF NewManager
    <2> QED
      BY <2>1, <2>2, <2>3 DEF IInv, ShapeInv, TokenInv
  <1>7. LineInv'
    BY NewSourceLines DEF LineInv
  <1>8. WatchInv'
    <2>1. /\ run'.id = run.id + 1 /\ run'.phase # "idle" /\ run.phase = "idle"
          /\ run.id \in Nat /\ watcher.by \in Nat /\ watcher.state # "watching"
      BY Fields DEF IInv, WatchInv
    <2>2. UNCHANGED <<scen, watcher, stopWatch, lag>>
      OBVIOUS
    <2> HIDE DEF StartRun
    <2>3. Len(lag') = run'.id - 1 /\ watcher'.by <= run'.id
      BY <2>1, <2>2 DEF IInv, WatchInv
    <2> QED
      BY <2>1, <2>2, <2>3 DEF IInv, WatchInv
  <1>9. IdentityInv'
    BY Frames
  <1> QED
    BY <1>1, <1>2, <1>3, <1>4, <1>5, <1>6, <1>7, <1>8, <1>9 DEF IInv

\* The load starts once every step is prepared.
LEMMA StartLoadKeeps ==
  ASSUME IInv, StartLoad
  PROVE  IInv'
  <1> USE IterationAssumption DEF StartLoad
  <1>1. ShapeInv'
    BY DEF IInv, ShapeInv, RunStates
  <1>2. RunInv'
    BY Fields DEF IInv, ShapeInv, RunInv, Debugging, Planned
  <1>3. SettingsInv'
    BY Fields DEF IInv, ShapeInv, RunStates, SettingsInv
  <1>4. WatchInv'
    BY Fields DEF IInv, ShapeInv, RunStates, WatchInv, Debugging
  <1>5. CountInv' /\ IdentityInv' /\ ValuesInv' /\ TokenInv' /\ LineInv'
    BY Frames
  <1> QED
    BY <1>1, <1>2, <1>3, <1>4, <1>5 DEF IInv

\* The load ends and the watch is told to stop.
LEMMA EndLoadKeeps ==
  ASSUME IInv, EndLoad
  PROVE  IInv'
  <1> USE IterationAssumption DEF EndLoad, AllDone
  <1>1. ShapeInv'
    BY DEF IInv, ShapeInv, RunStates
  <1>2. RunInv'
    BY Fields DEF IInv, ShapeInv, RunInv, Debugging, Planned
  <1>3. SettingsInv'
    BY Fields DEF IInv, ShapeInv, RunStates, SettingsInv
  <1>4. WatchInv'
    BY Fields DEF IInv, ShapeInv, RunStates, WatchInv, Debugging
  <1>5. CountInv' /\ IdentityInv' /\ ValuesInv' /\ TokenInv' /\ LineInv'
    BY Frames
  <1> QED
    BY <1>1, <1>2, <1>3, <1>4, <1>5 DEF IInv

\* The clock ticks.
LEMMA TickKeeps ==
  ASSUME IInv, Tick
  PROVE  IInv'
  <1> USE IterationAssumption DEF Tick
  <1>1. ShapeInv'
    BY DEF IInv, ShapeInv
  <1>2. TokenInv'
    <2>1. clock \in Nat /\ auth.at \in Nat /\ scen.refresh \in Nat
      BY Fields DEF IInv, ShapeInv
    <2>2. (Expired => Expired') /\ auth.at <= clock'
      BY <2>1 DEF Expired, IInv, TokenInv
    <2> QED
      BY <2>2 DEF IInv, TokenInv
  <1>3. RunInv' /\ CountInv' /\ IdentityInv' /\ SettingsInv' /\ ValuesInv' /\ LineInv' /\ WatchInv'
    BY Frames
  <1> QED
    BY <1>1, <1>2, <1>3 DEF IInv

\* The broker drops a link.
LEMMA DropKeeps ==
  ASSUME IInv, NEW p \in {"amqp", "mqtt"}, Drop(p)
  PROVE  IInv'
  <1> USE IterationAssumption DEF Drop, Kept
  <1>1. ShapeInv'
    <2>1. conns' \in [Kept -> Connections]
      BY ZenonT(30) DEF IInv, ShapeInv, Connections
    <2> QED
      BY <2>1 DEF IInv, ShapeInv
  <1>2. RunInv'
    BY Fields, SMTT(30) DEF IInv, ShapeInv, RunInv, NewProtocols, NoConn, Debugging, Planned
  <1>3. IdentityInv'
    BY Fields DEF IInv, ShapeInv, Connections, IdentityInv
  <1>4. SettingsInv'
    BY Fields DEF IInv, ShapeInv, Connections, SettingsInv
  <1>5. CountInv' /\ ValuesInv' /\ TokenInv' /\ LineInv' /\ WatchInv'
    BY Frames
  <1> QED
    BY <1>1, <1>2, <1>3, <1>4, <1>5 DEF IInv

\* The lag is sampled while the watch goes on.
LEMMA SampleKeeps ==
  ASSUME IInv, NEW answer \in Answers, Sample(answer)
  PROVE  IInv'
  <1> USE IterationAssumption DEF Sample, Read, Reading
  <1>1. ShapeInv'
    <2>1. Reading \in Readings /\ watcher \in Watchers
      BY Fields DEF IInv, ShapeInv, Readings
    <2> HIDE DEF Reading
    <2>2. Read(answer) \in Watchers
      <3>1. [watcher EXCEPT !.last = Reading, !.silent = FALSE] \in Watchers
        BY <2>1 DEF Watchers
      <3>2. [watcher EXCEPT !.problem = TRUE] \in Watchers
        BY <2>1 DEF Watchers
      <3>3. [watcher EXCEPT !.silent = TRUE] \in Watchers
        BY <2>1 DEF Watchers
      <3> QED
        BY <3>1, <3>2, <3>3
    <2> HIDE DEF Read
    <2>3. watcher' \in Watchers
      BY <2>2 DEF Watchers
    <2> QED
      BY <2>3 DEF IInv, ShapeInv
  <1>2. WatchInv'
    <2>1. /\ watcher.state = "watching" /\ watcher.by = run.id /\ run.phase # "idle"
          /\ ~Debugging /\ (~stopWatch => run.phase = "stopped") /\ run.id \in Nat
          /\ Len(lag) = run.id - 1 /\ watcher \in Watchers
      BY Fields DEF IInv, ShapeInv, WatchInv
    <2>2. watcher'.state = "watching" /\ watcher'.by = run.id
      BY <2>1 DEF Watchers
    <2>3. UNCHANGED <<scen, run, stopWatch, lag>>
      OBVIOUS
    <2> HIDE DEF Sample, Read
    <2> QED
      BY <2>1, <2>2, <2>3 DEF WatchInv, Debugging, None
  <1>3. RunInv' /\ CountInv' /\ IdentityInv' /\ SettingsInv' /\ ValuesInv' /\ TokenInv' /\ LineInv'
    BY Frames
  <1> QED
    BY <1>1, <1>2, <1>3 DEF IInv

\* The watch that was stopped reads once more and ends.
LEMMA LastSampleKeeps ==
  ASSUME IInv, NEW answer \in Answers, LastSample(answer)
  PROVE  IInv'
  <1> USE IterationAssumption DEF LastSample, Read, Reading
  <1>1. ShapeInv'
    <2>1. Reading \in Readings /\ watcher \in Watchers
      BY Fields, SMTT(30) DEF IInv, ShapeInv, Readings
    <2> HIDE DEF Reading
    <2>2. Read(answer) \in Watchers
      <3>1. [watcher EXCEPT !.last = Reading, !.silent = FALSE] \in Watchers
        BY <2>1 DEF Watchers
      <3>2. [watcher EXCEPT !.problem = TRUE] \in Watchers
        BY <2>1 DEF Watchers
      <3>3. [watcher EXCEPT !.silent = TRUE] \in Watchers
        BY <2>1 DEF Watchers
      <3> QED
        BY <3>1, <3>2, <3>3
    <2> HIDE DEF Read
    <2>3. watcher' \in Watchers
      BY <2>2 DEF Watchers
    <2> QED
      BY <2>3 DEF IInv, ShapeInv
  <1>2. WatchInv'
    <2>1. /\ watcher.state = "watching" /\ watcher.by = run.id /\ run.phase = "stopped"
          /\ ~Debugging /\ run.id \in Nat /\ Len(lag) = run.id - 1 /\ watcher \in Watchers
      BY Fields DEF IInv, ShapeInv, WatchInv
    <2>2. watcher'.state = "done" /\ watcher'.by = run.id
      BY <2>1 DEF Watchers
    <2>3. \/ watcher'.problem \/ watcher'.silent
          \/ watcher'.last = [run |-> run.id, phase |-> "stopped"]
      BY <2>1 DEF Watchers
    <2>4. UNCHANGED <<scen, run, stopWatch, lag>>
      OBVIOUS
    <2> HIDE DEF LastSample, Read
    <2> QED
      BY <2>1, <2>2, <2>3, <2>4 DEF WatchInv, Debugging, None
  <1>3. RunInv' /\ CountInv' /\ IdentityInv' /\ SettingsInv' /\ ValuesInv' /\ TokenInv' /\ LineInv'
    BY Frames
  <1> QED
    BY <1>1, <1>2, <1>3 DEF IInv

\* What one goroutine's move leaves to show, when the run and its scenario stay.
LEMMA Moves ==
  ASSUME IInv, NEW g \in Goroutines, NEW new \in Iterations, it' = [it EXCEPT ![g] = new],
         UNCHANGED <<scen, run>>, run.phase = "load" \/ it[g].pc # "idle"
  PROVE  /\ it' \in [Goroutines -> Iterations]
         /\ it'[g] = new /\ \A h \in Goroutines : h # g => it'[h] = it[h]
         /\ run.phase = "load" /\ run.id \in 1 .. MaxRuns
         /\ issued' <= Planned /\ issued' <= MaxIterations
              /\ (new.pc \notin {"idle", "data"} => new.step \in 1 .. Len(scen.steps)) => RunInv'
         /\ (new.gen = 0 \/ (new.gen = it[g].gen /\ it[g].pc # "idle"))
              /\ UNCHANGED <<conns, nextGen, dead>> => IdentityInv'
         /\ /\ UNCHANGED auth
            /\ new.pc = "data" => new.values = Unset
            /\ new.pc \notin {"idle", "data"} =>
                 new.values["row"] = new.row /\ new.values["id"] \in {0, new.iteration + 1}
            => ValuesInv'
         /\ new.pc # "asking" /\ it[g].pc # "asking" /\ UNCHANGED <<auth, clock>> => TokenInv'
  <1>1. /\ it' \in [Goroutines -> Iterations]
        /\ it'[g] = new /\ \A h \in Goroutines : h # g => it'[h] = it[h]
    BY DEF IInv, ShapeInv
  <1>2. run.phase = "load" /\ run.id \in 1 .. MaxRuns
    BY DEF IInv, RunInv
  <1>3. issued' <= Planned /\ issued' <= MaxIterations
          /\ (new.pc \notin {"idle", "data"} => new.step \in 1 .. Len(scen.steps)) => RunInv'
    BY <1>1, <1>2 DEF IInv, RunInv, Planned, Debugging
  <1>4. (new.gen = 0 \/ (new.gen = it[g].gen /\ it[g].pc # "idle"))
          /\ UNCHANGED <<conns, nextGen, dead>> => IdentityInv'
    BY <1>1 DEF IInv, ShapeInv, IdentityInv
  <1>5. /\ UNCHANGED auth
        /\ new.pc = "data" => new.values = Unset
        /\ new.pc \notin {"idle", "data"} =>
             new.values["row"] = new.row /\ new.values["id"] \in {0, new.iteration + 1}
        => ValuesInv'
    BY <1>1 DEF IInv, ValuesInv
  <1>6. new.pc # "asking" /\ it[g].pc # "asking" /\ UNCHANGED <<auth, clock>> => TokenInv'
    BY <1>1 DEF IInv, TokenInv, Expired
  <1> QED
    BY <1>1, <1>2, <1>3, <1>4, <1>5, <1>6

\* Whether an iteration has yet to draw its row, and may yet ask for a token.
Draws(i) == IF i.pc = "data" THEN 1 ELSE 0
Asks(i)  == IF i.pc \in {"data", "auth", "asking"} THEN 1 ELSE 0

\* CountInv holds after a move that pays for what it draws and asks.
LEMMA CountsStep ==
  ASSUME IInv, NEW g \in Goroutines, \A h \in Goroutines : h # g => it'[h].pc = it[h].pc,
         source'.position \in Nat, auth'.obtains \in Nat, issued' \in Nat,
         source'.position - source.position + Draws(it'[g]) - Draws(it[g]) <= issued' - issued,
         auth'.obtains - auth.obtains + Asks(it'[g]) - Asks(it[g]) <= issued' - issued
  PROVE  CountInv'
  <1>1. /\ Cardinality(Drawing) \in Nat /\ Cardinality(Drawing') \in Nat
        /\ Cardinality(Drawing') = Cardinality(Drawing)
              + (IF it'[g].pc = "data" THEN 1 ELSE 0) - (IF it[g].pc = "data" THEN 1 ELSE 0)
        /\ Cardinality(Before) \in Nat /\ Cardinality(Before') \in Nat
        /\ Cardinality(Before') = Cardinality(Before)
              + (IF it'[g].pc \in {"data", "auth", "asking"} THEN 1 ELSE 0)
              - (IF it[g].pc \in {"data", "auth", "asking"} THEN 1 ELSE 0)
    BY CountsMove, Zenon
  <1>2. source.position \in Nat /\ auth.obtains \in Nat /\ issued \in Nat
    BY Fields DEF IInv, ShapeInv
  <1> QED
    BY <1>1, <1>2 DEF IInv, CountInv, Draws, Asks

\* An iteration is dispatched to a goroutine that is free.
LEMMA DispatchKeeps ==
  ASSUME IInv, NEW g \in Goroutines, Dispatch(g)
  PROVE  IInv'
  <1> USE IterationAssumption DEF Dispatch
  <1> DEFINE new == [Idle EXCEPT !.pc = "data", !.iteration = issued]
  <1>1. new \in Iterations
    BY DEF IInv, ShapeInv, Idle, Iterations, Calls, Unset
  <1>2. new.pc = "data" /\ new.gen = 0 /\ new.values = Unset
    BY DEF Idle
  <1> HIDE DEF new
  <1>3. /\ it' \in [Goroutines -> Iterations]
        /\ it'[g] = new /\ \A h \in Goroutines : h # g => it'[h] = it[h]
        /\ issued' <= Planned /\ issued' <= MaxIterations => RunInv'
        /\ IdentityInv'
        /\ ValuesInv' /\ TokenInv'
    BY <1>1, <1>2, Moves DEF new
  <1>4. ShapeInv'
    BY <1>3 DEF IInv, ShapeInv
  <1>5. RunInv'
    <2>1. issued' <= Planned /\ issued' <= MaxIterations
      BY DEF IInv, ShapeInv, Planned
    <2> QED
      BY <1>2, <1>3, <2>1
  <1>6. CountInv'
    <2>1. \A h \in Goroutines : h # g => it'[h].pc = it[h].pc
      BY <1>3
    <2>2. it'[g].pc = "data" /\ it[g].pc = "idle"
      BY <1>2, <1>3
    <2>3. issued' = issued + 1 /\ UNCHANGED <<source, auth>>
      OBVIOUS
    <2>4. source.position \in Nat /\ auth.obtains \in Nat /\ issued \in Nat
      BY Fields DEF IInv, ShapeInv
    <2>5. /\ source'.position \in Nat /\ auth'.obtains \in Nat /\ issued' \in Nat
          /\ source'.position - source.position + Draws(it'[g]) - Draws(it[g]) <= issued' - issued
          /\ auth'.obtains - auth.obtains + Asks(it'[g]) - Asks(it[g]) <= issued' - issued
      BY <2>2, <2>3, <2>4 DEF Draws, Asks
    <2> QED
      BY <2>1, <2>3, <2>4, <2>5, CountsStep
  <1>7. IdentityInv'
    BY <1>3
  <1>8. ValuesInv'
    BY <1>2, <1>3
  <1>9. TokenInv'
    BY <1>2, <1>3
  <1>10. SettingsInv' /\ LineInv' /\ WatchInv'
    BY Frames
  <1> QED
    BY <1>1, <1>2, <1>3, <1>4, <1>5, <1>6, <1>7, <1>8, <1>9, <1>10 DEF IInv

\* A poll that did not show the effect is repeated.
LEMMA PollAgainKeeps ==
  ASSUME IInv, NEW g \in Goroutines, PollAgain(g)
  PROVE  IInv'
  <1> USE IterationAssumption DEF PollAgain
  <1> DEFINE new == [it[g] EXCEPT !.polls = @ + 1]
  <1>1. new \in Iterations /\ it' = [it EXCEPT ![g] = new]
    <2>1. it[g] \in Iterations
      BY DEF IInv, ShapeInv
    <2>2. it[g].polls + 1 \in Nat
      BY <2>1 DEF Iterations
    <2>3. new \in Iterations
      BY <2>1, <2>2 DEF Iterations
    <2> QED
      BY <2>3
  <1>2. /\ it[g].pc = "wait" /\ new.pc = "wait" /\ new.gen = it[g].gen
        /\ new.step = it[g].step /\ new.values = it[g].values /\ new.row = it[g].row
        /\ new.iteration = it[g].iteration
    BY Fields DEF IInv, Iterations
  <1> HIDE DEF new
  <1>3. /\ it' \in [Goroutines -> Iterations]
        /\ it'[g] = new /\ \A h \in Goroutines : h # g => it'[h] = it[h]
        /\ run.phase = "load"
        /\ issued' <= Planned /\ issued' <= MaxIterations
             /\ (new.pc \notin {"idle", "data"} => new.step \in 1 .. Len(scen.steps)) => RunInv'
        /\ new.values["row"] = new.row /\ new.values["id"] \in {0, new.iteration + 1} => ValuesInv'
        /\ TokenInv'
    BY <1>1, <1>2, Moves, ZenonT(30)
  <1>4. ShapeInv'
    BY <1>3 DEF IInv, ShapeInv
  <1>5. RunInv'
    <2>1. issued <= Planned /\ issued <= MaxIterations
      BY <1>3 DEF IInv, RunInv
    <2> QED
      BY <1>2, <1>3, <2>1 DEF IInv, RunInv
  <1>6. CountInv'
    <2>1. \A h \in Goroutines : h # g => it'[h].pc = it[h].pc
      BY <1>3
    <2>2. it'[g].pc = "wait" /\ it[g].pc = "wait"
      BY <1>2, <1>3
    <2>3. UNCHANGED <<source, auth, issued>>
      OBVIOUS
    <2>4. source.position \in Nat /\ auth.obtains \in Nat /\ issued \in Nat
      BY Fields DEF IInv, ShapeInv
    <2>5. /\ source'.position \in Nat /\ auth'.obtains \in Nat /\ issued' \in Nat
          /\ source'.position - source.position + Draws(it'[g]) - Draws(it[g]) <= issued' - issued
          /\ auth'.obtains - auth.obtains + Asks(it'[g]) - Asks(it[g]) <= issued' - issued
      BY <2>2, <2>3, <2>4 DEF Draws, Asks
    <2> QED
      BY <2>1, <2>3, <2>4, <2>5, CountsStep
  <1>7. IdentityInv'
    BY <1>1, <1>2, Moves
  <1>8. ValuesInv'
    BY <1>2, <1>3 DEF IInv, ValuesInv
  <1>9. TokenInv'
    BY <1>2, <1>3
  <1>10. SettingsInv' /\ LineInv' /\ WatchInv'
    BY Frames
  <1> QED
    BY <1>1, <1>2, <1>3, <1>4, <1>5, <1>6, <1>7, <1>8, <1>9, <1>10 DEF IInv

\* A token that is there is copied; one that is missing or expired is asked for.
LEMMA EnsureTokenKeeps ==
  ASSUME IInv, NEW g \in Goroutines, EnsureToken(g)
  PROVE  IInv'
  <1> USE IterationAssumption DEF EnsureToken
  <1> DEFINE new == [it[g] EXCEPT !.pc = IF auth.obtained /\ ~Expired THEN "copy" ELSE "asking"]
  <1>1. new \in Iterations /\ it' = [it EXCEPT ![g] = new]
    <2>1. it[g] \in Iterations
      BY DEF IInv, ShapeInv
    <2>2. new \in Iterations
      BY <2>1 DEF Iterations
    <2> QED
      BY <2>2
  <1>2. /\ it[g].pc = "auth" /\ new.gen = it[g].gen
        /\ new.pc = IF auth.obtained /\ ~Expired THEN "copy" ELSE "asking"
        /\ new.step = it[g].step /\ new.values = it[g].values /\ new.row = it[g].row
        /\ new.iteration = it[g].iteration
    BY Fields DEF IInv, Iterations
  <1> HIDE DEF new
  <1>3. /\ it' \in [Goroutines -> Iterations]
        /\ it'[g] = new /\ \A h \in Goroutines : h # g => it'[h] = it[h]
        /\ run.phase = "load"
        /\ issued' <= Planned /\ issued' <= MaxIterations
             /\ (new.pc \notin {"idle", "data"} => new.step \in 1 .. Len(scen.steps)) => RunInv'
    BY <1>1, <1>2, Moves
  <1>4. ShapeInv'
    <2>1. auth' \in Managers
      <3>1. auth \in Managers
        BY DEF IInv, ShapeInv
      <3>2. [auth EXCEPT !.lock = g] \in Managers
        BY <3>1 DEF Managers
      <3> QED
        BY <3>1, <3>2
    <2> QED
      BY <1>3, <2>1 DEF IInv, ShapeInv
  <1>5. RunInv'
    <2>1. issued <= Planned /\ issued <= MaxIterations
      BY <1>3 DEF IInv, RunInv
    <2> QED
      BY <1>2, <1>3, <2>1 DEF IInv, RunInv
  <1>6. CountInv'
    <2>1. \A h \in Goroutines : h # g => it'[h].pc = it[h].pc
      BY <1>3
    <2>2. it'[g].pc \in {"copy", "asking"} /\ it[g].pc = "auth"
      BY <1>2, <1>3
    <2>3. UNCHANGED <<source, issued>> /\ auth'.obtains = auth.obtains
      BY DEF IInv, ShapeInv, Managers
    <2>4. source.position \in Nat /\ auth.obtains \in Nat /\ issued \in Nat
      BY Fields DEF IInv, ShapeInv
    <2>5. /\ source'.position \in Nat /\ auth'.obtains \in Nat /\ issued' \in Nat
          /\ source'.position - source.position + Draws(it'[g]) - Draws(it[g]) <= issued' - issued
          /\ auth'.obtains - auth.obtains + Asks(it'[g]) - Asks(it[g]) <= issued' - issued
      BY <2>2, <2>3, <2>4 DEF Draws, Asks
    <2> QED
      BY <2>1, <2>3, <2>4, <2>5, CountsStep
  <1>7. IdentityInv'
    BY <1>1, <1>2, Moves
  <1>8. ValuesInv'
    <2>1. auth'.values = auth.values
      BY DEF IInv, ShapeInv, Managers
    <2> QED
      BY <1>2, <1>3, <2>1 DEF IInv, ValuesInv
  <1>9. TokenInv'
    <2>1. /\ UNCHANGED <<scen, clock>>
          /\ auth'.at = auth.at /\ auth'.obtained = auth.obtained
          /\ auth'.obtains = auth.obtains
      BY DEF IInv, ShapeInv, Managers
    <2>2. /\ auth.lock = None
          /\ new.pc = "asking" => auth'.lock = g /\ (~auth.obtained \/ Expired)
          /\ new.pc # "asking" => auth'.lock = None
      BY <1>2 DEF IInv, ShapeInv, Managers
    <2> HIDE DEF EnsureToken
    <2>3. \A h \in Goroutines : it'[h].pc = "asking" <=> auth'.lock = h
      BY <1>2, <1>3, <2>2 DEF IInv, TokenInv
    <2>4. Expired' = Expired
      BY <2>1 DEF Expired
    <2>5. auth'.lock # None => ~auth'.obtained \/ Expired'
      BY <2>1, <2>2, <2>4
    <2> QED
      BY <2>1, <2>3, <2>5 DEF IInv, TokenInv
  <1>10. SettingsInv' /\ LineInv' /\ WatchInv'
    BY Frames
  <1> QED
    BY <1>1, <1>2, <1>3, <1>4, <1>5, <1>6, <1>7, <1>8, <1>9, <1>10 DEF IInv

\* The token is copied into the iteration's values, and nothing else is.
LEMMA CopyTokenKeeps ==
  ASSUME IInv, NEW g \in Goroutines, CopyToken(g)
  PROVE  IInv'
  <1> USE IterationAssumption DEF CopyToken, Set
  <1> DEFINE new == [it[g] EXCEPT !.values = Set(@, auth.values), !.pc = "step"]
  <1>1. new \in Iterations /\ it' = [it EXCEPT ![g] = new]
    <2>1. Set(it[g].values, auth.values) \in [Names -> Nat]
      BY Fields DEF IInv
    <2> HIDE DEF Set
    <2>2. it[g] \in Iterations
      BY DEF IInv, ShapeInv
    <2>3. new \in Iterations
      BY <2>1, <2>2 DEF Iterations
    <2> QED
      BY <2>3
  <1>2. /\ it[g].pc = "copy" /\ new.pc = "step" /\ new.gen = it[g].gen
        /\ new.step = it[g].step /\ new.row = it[g].row /\ new.iteration = it[g].iteration
        /\ new.values["row"] = it[g].values["row"] /\ new.values["id"] = it[g].values["id"]
    <2>1. /\ new.values = Set(it[g].values, auth.values)
          /\ it[g].pc = "copy" /\ new.pc = "step" /\ new.gen = it[g].gen
          /\ new.step = it[g].step /\ new.row = it[g].row /\ new.iteration = it[g].iteration
      BY Fields DEF IInv, Iterations
    <2> HIDE DEF new
    <2> QED
      BY <2>1, Fields DEF IInv, ValuesInv, Names
  <1> HIDE DEF new
  <1>3. /\ it' \in [Goroutines -> Iterations]
        /\ it'[g] = new /\ \A h \in Goroutines : h # g => it'[h] = it[h]
        /\ run.phase = "load"
        /\ issued' <= Planned /\ issued' <= MaxIterations
             /\ (new.pc \notin {"idle", "data"} => new.step \in 1 .. Len(scen.steps)) => RunInv'
        /\ new.values["row"] = new.row /\ new.values["id"] \in {0, new.iteration + 1} => ValuesInv'
        /\ TokenInv'
    BY <1>1, <1>2, Moves, ZenonT(30)
  <1>4. ShapeInv'
    BY <1>3 DEF IInv, ShapeInv
  <1>5. RunInv'
    <2>1. issued <= Planned /\ issued <= MaxIterations
      BY <1>3 DEF IInv, RunInv
    <2> QED
      BY <1>2, <1>3, <2>1 DEF IInv, RunInv
  <1>6. CountInv'
    <2>1. \A h \in Goroutines : h # g => it'[h].pc = it[h].pc
      BY <1>3
    <2>2. it'[g].pc = "step" /\ it[g].pc = "copy"
      BY <1>2, <1>3
    <2>3. UNCHANGED <<source, auth, issued>>
      OBVIOUS
    <2>4. source.position \in Nat /\ auth.obtains \in Nat /\ issued \in Nat
      BY Fields DEF IInv, ShapeInv
    <2>5. /\ source'.position \in Nat /\ auth'.obtains \in Nat /\ issued' \in Nat
          /\ source'.position - source.position + Draws(it'[g]) - Draws(it[g]) <= issued' - issued
          /\ auth'.obtains - auth.obtains + Asks(it'[g]) - Asks(it[g]) <= issued' - issued
      BY <2>2, <2>3, <2>4 DEF Draws, Asks
    <2> QED
      BY <2>1, <2>3, <2>4, <2>5, CountsStep
  <1>7. IdentityInv'
    BY <1>1, <1>2, Moves
  <1>8. ValuesInv'
    BY <1>2, <1>3, ZenonT(30) DEF IInv, ValuesInv
  <1>9. TokenInv'
    BY <1>2, <1>3
  <1>10. SettingsInv' /\ LineInv' /\ WatchInv'
    BY Frames
  <1> QED
    BY <1>1, <1>2, <1>3, <1>4, <1>5, <1>6, <1>7, <1>8, <1>9, <1>10 DEF IInv

\* Idle and the values of an iteration.
LEMMA IdleShape == /\ Idle \in Iterations /\ Idle.pc = "idle" /\ Idle.gen = 0
  BY DEF Idle, Iterations, Calls, Unset

\* What the login leaves in the manager: at most the token.
LEMMA ObtainedIsTheToken ==
  ASSUME NEW input \in [Names -> Nat], NEW n \in Nat,
         NEW output \in {input, [input EXCEPT !["token"] = n]}
  PROVE  /\ Obtained(input, output) \in [Names -> Nat]
         /\ Obtained(input, output)["row"] = 0 /\ Obtained(input, output)["id"] = 0
  BY DEF Obtained, Names

\* The login is refused: the iteration ends and the next one asks again.
LEMMA TokenRefusedKeeps ==
  ASSUME IInv, NEW g \in Goroutines, TokenAnswered(g, "refused")
  PROVE  IInv'
  <1> USE IterationAssumption
  <1> DEFINE new == Idle
  <1>1. /\ it' = [it EXCEPT ![g] = new] /\ auth' = [auth EXCEPT !.lock = None]
        /\ it[g].pc = "asking"
        /\ UNCHANGED <<scen, run, source, issued, conns, nextGen, dead, tls, watcher,
                       stopWatch, lag, clock, drops>>
    BY DEF TokenAnswered, Unlock
  <1>2. new \in Iterations /\ new.pc = "idle" /\ new.gen = 0
    BY IdleShape
  <1> HIDE DEF new
  <1>3. /\ it' \in [Goroutines -> Iterations]
        /\ it'[g] = new /\ \A h \in Goroutines : h # g => it'[h] = it[h]
        /\ run.phase = "load"
        /\ issued' <= Planned /\ issued' <= MaxIterations
             /\ (new.pc \notin {"idle", "data"} => new.step \in 1 .. Len(scen.steps)) => RunInv'
        /\ IdentityInv'
    BY <1>1, <1>2, Moves
  <1>4. /\ auth' \in Managers /\ auth'.lock = None /\ auth'.values = auth.values
        /\ auth'.obtained = auth.obtained /\ auth'.at = auth.at
        /\ auth'.obtains = auth.obtains
    <2>1. auth \in Managers
      BY DEF IInv, ShapeInv
    <2> QED
      BY <1>1, <2>1 DEF Managers
  <1>5. ShapeInv'
    BY <1>1, <1>3, <1>4 DEF IInv, ShapeInv
  <1>6. RunInv'
    <2>1. issued' <= Planned /\ issued' <= MaxIterations
      BY <1>1, <1>3 DEF IInv, RunInv
    <2> QED
      BY <1>2, <1>3, <2>1
  <1>7. CountInv'
    <2>1. \A h \in Goroutines : h # g => it'[h].pc = it[h].pc
      BY <1>3
    <2>2. it'[g].pc = "idle" /\ it[g].pc = "asking"
      BY <1>1, <1>2, <1>3
    <2>3. UNCHANGED <<source, issued>> /\ auth'.obtains = auth.obtains
      BY <1>1, <1>4
    <2>4. source.position \in Nat /\ auth.obtains \in Nat /\ issued \in Nat
      BY Fields DEF IInv, ShapeInv
    <2>5. /\ source'.position \in Nat /\ auth'.obtains \in Nat /\ issued' \in Nat
          /\ source'.position - source.position + Draws(it'[g]) - Draws(it[g]) <= issued' - issued
          /\ auth'.obtains - auth.obtains + Asks(it'[g]) - Asks(it[g]) <= issued' - issued
      BY <2>2, <2>3, <2>4 DEF Draws, Asks
    <2> QED
      BY <2>1, <2>3, <2>4, <2>5, CountsStep
  <1>8. IdentityInv'
    BY <1>3
  <1>9. ValuesInv'
    BY <1>2, <1>3, <1>4 DEF IInv, ValuesInv
  <1>10. TokenInv'
    <2>1. auth.lock = g
      BY <1>1 DEF IInv, TokenInv
    <2>2. \A h \in Goroutines : it'[h].pc # "asking" /\ auth'.lock # h
      BY <1>2, <1>3, <1>4, <2>1 DEF IInv, TokenInv
    <2> QED
      BY <1>1, <1>4, <2>2 DEF IInv, TokenInv
  <1>11. SettingsInv' /\ LineInv' /\ WatchInv'
    BY <1>1, Frames
  <1> QED
    BY <1>5, <1>6, <1>7, <1>8, <1>9, <1>10, <1>11 DEF IInv

\* The login answered: a token more, which the expiry of the last one pays for.
LEMMA TokenAnsweredKeeps ==
  ASSUME IInv, NEW g \in Goroutines, NEW answer \in {"ok", "unchecked"},
         TokenAnswered(g, answer)
  PROVE  IInv'
  <1> USE IterationAssumption
  <1> DEFINE new == [it[g] EXCEPT !.pc = "copy"]
             output == IF answer = "ok" THEN [it[g].values EXCEPT !["token"] = auth.obtains + 1]
                       ELSE it[g].values
             kept == Obtained(it[g].values, output)
  <1>1. /\ it' = [it EXCEPT ![g] = new]
        /\ auth' = [auth EXCEPT !.lock = None, !.values = kept, !.obtained = TRUE,
                                !.at = clock, !.obtains = auth.obtains + 1]
        /\ it[g].pc = "asking"
        /\ UNCHANGED <<scen, run, source, issued, conns, nextGen, dead, tls, watcher,
                       stopWatch, lag, clock, drops>>
    <2>1. auth \in Managers
      BY DEF IInv, ShapeInv
    <2> QED
      BY <2>1 DEF TokenAnswered, Unlock, Managers
  <1>2. /\ new \in Iterations /\ new.pc = "copy" /\ new.gen = it[g].gen
        /\ new.step = it[g].step /\ new.values = it[g].values /\ new.row = it[g].row
        /\ new.iteration = it[g].iteration
    <2>1. it[g] \in Iterations
      BY DEF IInv, ShapeInv
    <2> QED
      BY <2>1 DEF Iterations
  <1>3. kept \in [Names -> Nat] /\ kept["row"] = 0 /\ kept["id"] = 0
    <2>1. it[g].values \in [Names -> Nat] /\ auth.obtains + 1 \in Nat
      BY Fields, SMTT(30) DEF IInv
    <2> QED
      BY <2>1, ObtainedIsTheToken
  <1> HIDE DEF new, output, kept
  <1>4. /\ it' \in [Goroutines -> Iterations]
        /\ it'[g] = new /\ \A h \in Goroutines : h # g => it'[h] = it[h]
        /\ run.phase = "load"
        /\ issued' <= Planned /\ issued' <= MaxIterations
             /\ (new.pc \notin {"idle", "data"} => new.step \in 1 .. Len(scen.steps)) => RunInv'
        /\ IdentityInv'
    BY <1>1, <1>2, Moves
  <1>5. /\ auth' \in Managers /\ auth'.lock = None /\ auth'.values = kept
        /\ auth'.obtained /\ auth'.at = clock /\ auth'.obtains = auth.obtains + 1
    <2>1. auth \in Managers /\ clock \in Nat /\ auth.obtains + 1 \in Nat
      BY Fields, SMTT(30) DEF IInv, ShapeInv
    <2> QED
      BY <1>1, <1>3, <2>1 DEF Managers
  <1>6. ShapeInv'
    BY <1>1, <1>4, <1>5 DEF IInv, ShapeInv
  <1>7. RunInv'
    <2>1. issued' <= Planned /\ issued' <= MaxIterations
      BY <1>1, <1>4 DEF IInv, RunInv
    <2> QED
      BY <1>1, <1>2, <1>4, <2>1 DEF IInv, RunInv
  <1>8. CountInv'
    <2>1. \A h \in Goroutines : h # g => it'[h].pc = it[h].pc
      BY <1>4
    <2>2. it'[g].pc = "copy" /\ it[g].pc = "asking"
      BY <1>1, <1>2, <1>4
    <2>3. UNCHANGED <<source, issued>> /\ auth'.obtains = auth.obtains + 1
      BY <1>1, <1>5
    <2>4. source.position \in Nat /\ auth.obtains \in Nat /\ issued \in Nat
      BY Fields DEF IInv, ShapeInv
    <2>5. /\ source'.position \in Nat /\ auth'.obtains \in Nat /\ issued' \in Nat
          /\ source'.position - source.position + Draws(it'[g]) - Draws(it[g]) <= issued' - issued
          /\ auth'.obtains - auth.obtains + Asks(it'[g]) - Asks(it[g]) <= issued' - issued
      BY <2>2, <2>3, <2>4 DEF Draws, Asks
    <2> QED
      BY <2>1, <2>3, <2>4, <2>5, CountsStep
  <1>9. IdentityInv'
    BY <1>4
  <1>10. ValuesInv'
    BY <1>1, <1>2, <1>3, <1>4, <1>5 DEF IInv, ValuesInv
  <1>11. TokenInv'
    <2>1. auth.lock = g
      BY <1>1 DEF IInv, TokenInv
    <2>2. \A h \in Goroutines : it'[h].pc # "asking" /\ auth'.lock # h
      BY <1>2, <1>4, <1>5, <2>1 DEF IInv, TokenInv
    <2>3. /\ auth.at \in Nat /\ clock \in Nat /\ auth.obtains \in Nat /\ scen.refresh \in Nat
          /\ scen.refresh # 0 =>
               (clock \div scen.refresh) \in Nat /\ (auth.at \div scen.refresh) \in Nat
      BY Fields, DivMod DEF IInv, ShapeInv
    <2>4. ~auth.obtained \/ Expired
      BY <2>1 DEF IInv, TokenInv
    <2>5. auth.obtains + 1 <= IF scen.refresh = 0 THEN 1 ELSE 1 + (clock \div scen.refresh)
      <3>1. CASE ~auth.obtained
        BY <2>3, <3>1 DEF IInv, TokenInv
      <3>2. CASE Expired
        <4>1. scen.refresh \in Nat \ {0} /\ clock - auth.at >= scen.refresh
          BY <2>3, <3>2 DEF Expired
        <4>2. (clock \div scen.refresh) >= (auth.at \div scen.refresh) + 1
          BY <2>3, <4>1, RoomForAnother
        <4>3. auth.obtains <= 1 + (auth.at \div scen.refresh)
          BY <4>1 DEF IInv, TokenInv
        <4> QED
          BY <2>3, <4>1, <4>2, <4>3
      <3> QED
        BY <2>4, <3>1, <3>2
    <2> QED
      BY <1>1, <1>5, <2>2, <2>3, <2>5 DEF TokenInv
  <1>12. SettingsInv' /\ LineInv' /\ WatchInv'
    BY <1>1, Frames
  <1> QED
    BY <1>6, <1>7, <1>8, <1>9, <1>10, <1>11, <1>12 DEF IInv

\* A sequential source that hands out its next line, or nothing after the last one.
LEMMA SequentialAdvances ==
  ASSUME NEW s \in Sources, NEW t \in Sources, NEW row \in 0 .. Rows, Sequential(s),
         row = IF s.position >= Rows THEN 0 ELSE s.position + 1,
         t.position = s.position + 1, t.exhausted <=> s.exhausted \/ row = 0,
         \A r \in 1 .. Rows : t.handed[r] = IF r = row THEN s.handed[r] + 1 ELSE s.handed[r]
  PROVE  Sequential(t)
  <1>1. s.position \in Nat /\ Rows \in Nat
    BY IterationAssumption DEF Sources
  <1>2. \A r \in 1 .. Rows : t.handed[r] = IF r <= t.position THEN 1 ELSE 0
    BY <1>1 DEF Sequential
  <1>3. t.exhausted => t.position >= Rows
    BY <1>1 DEF Sequential
  <1> QED
    BY <1>2, <1>3 DEF Sequential

\* A circular source that hands out the line after the last one handed out.
LEMMA CircularAdvances ==
  ASSUME NEW s \in Sources, NEW t \in Sources, Circular(s), t.position = s.position + 1,
         \A r \in 1 .. Rows :
            t.handed[r] = IF r = (s.position % Rows) + 1 THEN s.handed[r] + 1 ELSE s.handed[r]
  PROVE  Circular(t)
  <1> DEFINE m == s.position % Rows
             n == t.position % Rows
  <1>1. s.position \in Nat /\ Rows \in Nat \ {0}
    BY IterationAssumption DEF Sources
  <1>2. m \in 0 .. (Rows - 1) /\ n = IF m + 1 = Rows THEN 0 ELSE m + 1
    BY <1>1, DivMod, NextRemainder, ZenonT(30)
  <1>3. PICK k \in Nat : \A r \in 1 .. Rows : s.handed[r] = k + (IF r <= m THEN 1 ELSE 0)
    BY DEF Circular
  <1>4. \A r \in 1 .. Rows : t.handed[r] = IF r = m + 1 THEN s.handed[r] + 1 ELSE s.handed[r]
    OBVIOUS
  <1> SUFFICES \E j \in Nat : \A r \in 1 .. Rows : t.handed[r] = j + (IF r <= n THEN 1 ELSE 0)
    BY DEF Circular
  <1> HIDE DEF m, n
  <1>5. CASE m + 1 = Rows
    <2>1. \A r \in 1 .. Rows : t.handed[r] = (k + 1) + (IF r <= n THEN 1 ELSE 0)
      BY <1>1, <1>2, <1>3, <1>4, <1>5
    <2> WITNESS k + 1 \in Nat
    <2> QED
      BY <2>1
  <1>6. CASE m + 1 # Rows
    <2>1. \A r \in 1 .. Rows : t.handed[r] = k + (IF r <= n THEN 1 ELSE 0)
      BY <1>1, <1>2, <1>3, <1>4, <1>6
    <2> WITNESS k \in Nat
    <2> QED
      BY <2>1
  <1> QED
    BY <1>5, <1>6

\* An iteration draws its row.
LEMMA DataKeeps ==
  ASSUME IInv, NEW g \in Goroutines, Data(g)
  PROVE  IInv'
  <1> USE IterationAssumption
  <1>0. PICK row \in NextRow(it[g].iteration) :
          /\ Next_(g, row)
          /\ it' = [it EXCEPT ![g] =
                IF row = 0 THEN Idle
                ELSE [@ EXCEPT !.row = row, !.values["row"] = row, !.step = 1,
                               !.pc = IF scen.auth = "obtain" THEN "auth" ELSE "step"]]
    BY DEF Data
  <1>1. /\ it[g].pc = "data"
        /\ UNCHANGED <<scen, run, auth, issued, conns, nextGen, dead, tls, watcher, stopWatch,
                       lag, clock, drops>>
    BY DEF Data
  <1>2. row \in 0 .. Rows
    <2>1. /\ (it[g].iteration % Rows) \in 0 .. (Rows - 1)
          /\ (source.position % Rows) \in 0 .. (Rows - 1)
      BY Fields, DivMod DEF IInv
    <2>2. source.position \in Nat
      BY Fields DEF IInv
    <2> QED
      BY <2>1, <2>2, SMTT(30) DEF NextRow
  <1> DEFINE drawn == [it[g] EXCEPT !.row = row, !.values["row"] = row, !.step = 1,
                               !.pc = IF scen.auth = "obtain" THEN "auth" ELSE "step"]
             new == IF row = 0 THEN Idle ELSE drawn
  <1>3. /\ drawn \in Iterations /\ drawn.pc \in {"auth", "step"} /\ drawn.gen = it[g].gen
        /\ drawn.step = 1 /\ drawn.row = row
        /\ drawn.values["row"] = row /\ drawn.values["id"] = it[g].values["id"]
    <2>1. it[g] \in Iterations
      BY DEF IInv, ShapeInv
    <2>2. [it[g].values EXCEPT !["row"] = row] \in [Names -> Nat]
      BY <1>2, <2>1, SMTT(30) DEF Iterations, Names
    <2>3. [it[g].values EXCEPT !["row"] = row]["row"] = row
      BY <2>1 DEF Iterations, Names
    <2>4. [it[g].values EXCEPT !["row"] = row]["id"] = it[g].values["id"]
      BY <2>1 DEF Iterations, Names
    <2>5. /\ drawn.values = [it[g].values EXCEPT !["row"] = row]
          /\ drawn.pc \in {"auth", "step"} /\ drawn.gen = it[g].gen
          /\ drawn.step = 1 /\ drawn.row = row
      BY <2>1 DEF Iterations
    <2>6. drawn = [it[g] EXCEPT !.row = row, !.values = [it[g].values EXCEPT !["row"] = row],
                     !.step = 1, !.pc = IF scen.auth = "obtain" THEN "auth" ELSE "step"]
      BY <2>1 DEF Iterations
    <2>7. drawn \in Iterations
      <3> HIDE DEF drawn
      <3>1. row \in Nat
        BY <1>2
      <3> QED
        BY <2>1, <2>2, <2>6, <3>1 DEF Iterations
    <2> HIDE DEF drawn
    <2> QED
      BY <2>3, <2>4, <2>5, <2>7
  <1>4. /\ new \in Iterations /\ new.pc \in {"idle", "auth", "step"}
        /\ new.gen = 0 \/ new.gen = it[g].gen
        /\ new.pc # "idle" => new.step = 1 /\ new.values["row"] = new.row
                              /\ new.values["id"] = 0
    <2>1. it[g].values["id"] = 0
      BY <1>1 DEF IInv, ValuesInv, Unset, Names
    <2> HIDE DEF drawn
    <2> QED
      BY <1>3, <2>1, IdleShape DEF IInv, ShapeInv
  <1>5. it' = [it EXCEPT ![g] = new]
    BY <1>0
  <1> HIDE DEF drawn, new
  <1>6. /\ it' \in [Goroutines -> Iterations]
        /\ it'[g] = new /\ \A h \in Goroutines : h # g => it'[h] = it[h]
        /\ run.phase = "load"
        /\ issued' <= Planned /\ issued' <= MaxIterations
             /\ (new.pc \notin {"idle", "data"} => new.step \in 1 .. Len(scen.steps)) => RunInv'
        /\ IdentityInv' /\ ValuesInv' /\ TokenInv'
    BY <1>1, <1>4, <1>5, Moves
  <1>7. /\ source' \in Sources
        /\ source'.position \in {source.position, source.position + 1}
        /\ scen.consume \notin {"random", "uniquePerUser"} =>
             source'.position = source.position + 1
        /\ source'.exhausted <=> source.exhausted \/ row = 0
        /\ \A r \in 1 .. Rows : source'.handed[r] =
             IF r = row THEN source.handed[r] + 1 ELSE source.handed[r]
    <2>1. source \in Sources
      BY DEF IInv, ShapeInv
    <2> DEFINE to == IF scen.consume \in {"random", "uniquePerUser"} THEN source.position
                     ELSE source.position + 1
               handed == [r \in 1 .. Rows |-> IF r = row THEN source.handed[r] + 1
                                              ELSE source.handed[r]]
    <2>2. source' = [source EXCEPT !.position = to, !.exhausted = @ \/ row = 0,
                                   !.handed = handed]
      BY <1>0 DEF Next_, Advance
    <2>3. /\ source.position \in Nat /\ source.handed \in [1 .. Rows -> Nat]
          /\ source.exhausted \in BOOLEAN
      BY Fields DEF IInv
    <2>4. handed \in [1 .. Rows -> Nat] /\ to \in Nat
      BY <2>3
    <2>5. \A r \in 1 .. Rows : handed[r] =
             IF r = row THEN source.handed[r] + 1 ELSE source.handed[r]
      OBVIOUS
    <2>6. /\ to \in {source.position, source.position + 1}
          /\ scen.consume \notin {"random", "uniquePerUser"} => to = source.position + 1
      OBVIOUS
    <2> HIDE DEF to, handed
    <2>7. /\ source'.position = to /\ source'.handed = handed
          /\ source'.exhausted = (source.exhausted \/ row = 0)
      BY <2>1, <2>2 DEF Sources
    <2>8. source' \in Sources
      BY <2>1, <2>2, <2>4 DEF Sources
    <2> QED
      BY <2>5, <2>6, <2>7, <2>8
  <1>8. ShapeInv'
    BY <1>1, <1>6, <1>7 DEF IInv, ShapeInv
  <1>9. RunInv'
    <2>1. issued' <= Planned /\ issued' <= MaxIterations
      BY <1>1, <1>6 DEF IInv, RunInv
    <2>2. 1 \in 1 .. Len(scen.steps)
      BY DEF IInv, ShapeInv
    <2> QED
      BY <1>4, <1>6, <2>1, <2>2
  <1>10. CountInv'
    <2>1. \A h \in Goroutines : h # g => it'[h].pc = it[h].pc
      BY <1>6
    <2>2. it'[g].pc \in {"idle", "auth", "step"} /\ it[g].pc = "data"
      BY <1>1, <1>4, <1>6
    <2>3. /\ UNCHANGED <<auth, issued>>
          /\ source'.position = source.position \/ source'.position = source.position + 1
      BY <1>1, <1>7
    <2>4. source.position \in Nat /\ auth.obtains \in Nat /\ issued \in Nat
      BY Fields DEF IInv, ShapeInv
    <2>5. /\ source'.position \in Nat /\ auth'.obtains \in Nat /\ issued' \in Nat
          /\ source'.position - source.position + Draws(it'[g]) - Draws(it[g]) <= issued' - issued
          /\ auth'.obtains - auth.obtains + Asks(it'[g]) - Asks(it[g]) <= issued' - issued
      BY <2>2, <2>3, <2>4 DEF Draws, Asks
    <2> QED
      BY <2>1, <2>3, <2>4, <2>5, CountsStep
  <1>11. LineInv'
    <2>1. source \in Sources
      BY DEF IInv, ShapeInv
    <2>2. ASSUME scen.consume = "sequential" PROVE Sequential(source')
      <3>1. row = IF source.position >= Rows THEN 0 ELSE source.position + 1
        BY <1>0, <2>2 DEF NextRow
      <3> QED
        BY <1>2, <1>7, <2>1, <2>2, <3>1, SequentialAdvances DEF IInv, LineInv
    <2>3. ASSUME scen.consume = "circular" PROVE Circular(source')
      <3>1. row = (source.position % Rows) + 1
        BY <1>0, <2>3 DEF NextRow
      <3> QED
        BY <1>7, <2>1, <2>3, <3>1, CircularAdvances DEF IInv, LineInv
    <2>4. LineInv' = /\ scen'.consume = "sequential" => Sequential(source')
                     /\ scen'.consume = "circular" => Circular(source')
      BY DEF LineInv, Sequential, Circular
    <2> QED
      BY <1>1, <2>2, <2>3, <2>4
  <1>12. SettingsInv' /\ WatchInv'
    BY <1>1, Frames
  <1> QED
    BY <1>6, <1>8, <1>9, <1>10, <1>11, <1>12 DEF IInv

-----------------------------------------------------------------------------
(* Connections.                                                             *)

\* A connection that is opened has a new identity and the settings of the run.
LEMMA OpenKeeps ==
  ASSUME IInv, NEW p \in Kept, NEW i \in 1 .. Len(scen.steps),
         conns' = [conns EXCEPT ![p] = Opened(p, scen.steps[i])], nextGen' = nextGen + 1,
         UNCHANGED dead
  PROVE  /\ conns' \in [Kept -> Connections] /\ nextGen' \in Nat \ {0}
         /\ \A q \in Kept : conns'[q].gen < nextGen'
              /\ (conns'[q].gen # 0 => conns'[q].gen \notin dead')
         /\ \A n \in dead' : n \in Nat /\ n < nextGen'
         /\ run.phase # "idle" /\ scen.tls[run.id] =>
              tls = run.id /\ \A q \in Kept : conns'[q].gen # 0 => conns'[q].tls = run.id
  <1> USE IterationAssumption
  <1> DEFINE o == Opened(p, scen.steps[i])
  <1>1. o \in Connections /\ o.gen = nextGen /\ o.tls = tls
    BY DEF IInv, ShapeInv, Opened, Connections
  <1> HIDE DEF o
  <1>2. conns' \in [Kept -> Connections] /\ \A q \in Kept : conns'[q] = IF q = p THEN o ELSE conns[q]
    BY <1>1 DEF IInv, ShapeInv, o
  <1>3. nextGen \in Nat \ {0} /\ nextGen' \in Nat \ {0}
    BY DEF IInv, ShapeInv
  <1>4. \A q \in Kept : conns[q].gen \in Nat
    BY Fields DEF IInv
  <1>5. \A q \in Kept : conns'[q].gen < nextGen'
          /\ (conns'[q].gen # 0 => conns'[q].gen \notin dead')
    BY <1>1, <1>2, <1>3, <1>4 DEF IInv, IdentityInv
  <1>6. \A n \in dead' : n \in Nat /\ n < nextGen'
    BY <1>3 DEF IInv, IdentityInv
  <1>7. run.phase # "idle" /\ scen.tls[run.id] =>
          tls = run.id /\ \A q \in Kept : conns'[q].gen # 0 => conns'[q].tls = run.id
    BY <1>1, <1>2 DEF IInv, SettingsInv
  <1> QED
    BY <1>2, <1>3, <1>5, <1>6, <1>7

\* A step takes the connection its protocol keeps, or opens one.
LEMMA BeginStepKeeps ==
  ASSUME IInv, NEW g \in Goroutines, BeginStep(g)
  PROVE  IInv'
  <1> USE IterationAssumption
  <1> DEFINE c == Step(g)
             new(open, gen) == [it[g] EXCEPT !.pc = "wait", !.open = open, !.gen = gen]
  <1>1. /\ it[g].pc = "step"
        /\ UNCHANGED <<scen, run, source, auth, issued, dead, tls, watcher, stopWatch, lag,
                       clock, drops>>
    BY DEF BeginStep
  <1>2. it[g].step \in 1 .. Len(scen.steps) /\ c = scen.steps[it[g].step]
    BY <1>1 DEF IInv, RunInv, Step
  <1>3. \E open \in Calls, gen \in Nat :
          /\ it' = [it EXCEPT ![g] = new(open, gen)]
          /\ gen < nextGen' /\ (gen # 0 => gen \notin dead)
          /\ \/ UNCHANGED <<conns, nextGen>>
             \/ /\ c.protocol \in Kept
                /\ conns' = [conns EXCEPT ![c.protocol] = Opened(c.protocol, c)]
                /\ nextGen' = nextGen + 1
    <2>1. /\ nextGen \in Nat \ {0} /\ nextGen \notin dead
          /\ \A p \in Kept : conns[p].gen \in Nat /\ conns[p].gen < nextGen
                             /\ (conns[p].gen # 0 => conns[p].gen \notin dead)
      BY Fields, SMTT(30) DEF IInv, ShapeInv, IdentityInv
    <2>2. CASE Opens(c)
      <3>1. PICK open \in Opening(c.protocol) :
              /\ it' = [it EXCEPT ![g].pc = "wait", ![g].open = open,
                                  ![g].gen = IF open = "ok" THEN nextGen ELSE 0]
              /\ IF open = "ok"
                 THEN /\ conns' = [conns EXCEPT ![c.protocol] = Opened(c.protocol, c)]
                      /\ nextGen' = nextGen + 1
                 ELSE UNCHANGED <<conns, nextGen>>
        BY <2>2 DEF BeginStep
      <3>2. open \in Calls
        BY DEF Opening, Calls
      <3> DEFINE gen == IF open = "ok" THEN nextGen ELSE 0
      <3>3. gen \in Nat /\ gen < nextGen' /\ (gen # 0 => gen \notin dead)
        BY <2>1, <3>1
      <3>4. it' = [it EXCEPT ![g] = new(open, gen)]
        BY <3>1
      <3> HIDE DEF gen, new, c
      <3> QED
        BY <2>2, <3>1, <3>2, <3>3, <3>4 DEF Opens
    <2>3. CASE ~Opens(c)
      <3> DEFINE gen == IF c.protocol \in Kept THEN conns[c.protocol].gen ELSE 0
      <3>1. it' = [it EXCEPT ![g] = new("ok", gen)] /\ UNCHANGED <<conns, nextGen>>
        BY <2>3 DEF BeginStep
      <3>2. gen \in Nat /\ gen < nextGen' /\ "ok" \in Calls /\ (gen # 0 => gen \notin dead)
        BY <2>1, <3>1 DEF Calls
      <3> HIDE DEF gen, new, c
      <3> QED
        BY <3>1, <3>2
    <2> QED
      BY <2>2, <2>3
  <1>4. PICK open \in Calls, gen \in Nat :
          /\ it' = [it EXCEPT ![g] = new(open, gen)]
          /\ gen < nextGen' /\ (gen # 0 => gen \notin dead)
          /\ \/ UNCHANGED <<conns, nextGen>>
             \/ /\ c.protocol \in Kept
                /\ conns' = [conns EXCEPT ![c.protocol] = Opened(c.protocol, c)]
                /\ nextGen' = nextGen + 1
    BY <1>3
  <1> DEFINE one == new(open, gen)
  <1>5. /\ one \in Iterations /\ one.pc = "wait" /\ one.gen = gen
        /\ one.step = it[g].step /\ one.values = it[g].values /\ one.row = it[g].row
        /\ one.iteration = it[g].iteration
    <2>1. it[g] \in Iterations
      BY DEF IInv, ShapeInv
    <2> QED
      BY <2>1 DEF Iterations
  <1>6. it' = [it EXCEPT ![g] = one]
    BY <1>4
  <1> HIDE DEF one, new
  <1>7. /\ it' \in [Goroutines -> Iterations]
        /\ it'[g] = one /\ \A h \in Goroutines : h # g => it'[h] = it[h]
        /\ run.phase = "load"
        /\ issued' <= Planned /\ issued' <= MaxIterations
             /\ (one.pc \notin {"idle", "data"} => one.step \in 1 .. Len(scen.steps)) => RunInv'
        /\ one.values["row"] = one.row /\ one.values["id"] \in {0, one.iteration + 1} => ValuesInv'
        /\ TokenInv'
    BY <1>1, <1>5, <1>6, Moves
  <1>8. /\ conns' \in [Kept -> Connections] /\ nextGen' \in Nat \ {0}
        /\ \A q \in Kept : conns'[q].gen < nextGen'
             /\ (conns'[q].gen # 0 => conns'[q].gen \notin dead')
        /\ \A n \in dead' : n \in Nat /\ n < nextGen'
        /\ SettingsInv' /\ nextGen' >= nextGen
    <2>1. CASE UNCHANGED <<conns, nextGen>>
      <3>1. SettingsInv'
        BY <1>1, <2>1, Frames
      <3> QED
        BY <1>1, <2>1, <3>1 DEF IInv, ShapeInv, IdentityInv
    <2>2. CASE /\ c.protocol \in Kept
               /\ conns' = [conns EXCEPT ![c.protocol] = Opened(c.protocol, c)]
               /\ nextGen' = nextGen + 1
      <3>1. nextGen' >= nextGen
        BY <2>2 DEF IInv, ShapeInv
      <3>2. conns' = [conns EXCEPT ![c.protocol] = Opened(c.protocol, scen.steps[it[g].step])]
        BY <1>2, <2>2
      <3> HIDE DEF c
      <3> QED
        BY <1>1, <1>2, <2>2, <3>1, <3>2, OpenKeeps DEF SettingsInv
    <2> QED
      BY <1>4, <2>1, <2>2
  <1>9. ShapeInv'
    BY <1>1, <1>7, <1>8 DEF IInv, ShapeInv
  <1>10. RunInv'
    <2>1. issued' <= Planned /\ issued' <= MaxIterations
      BY <1>1, <1>7 DEF IInv, RunInv
    <2> QED
      BY <1>2, <1>5, <1>7, <2>1
  <1>11. CountInv'
    <2>1. \A h \in Goroutines : h # g => it'[h].pc = it[h].pc
      BY <1>7
    <2>2. it'[g].pc = "wait" /\ it[g].pc = "step"
      BY <1>1, <1>5, <1>7
    <2>3. UNCHANGED <<source, auth, issued>>
      BY <1>1
    <2>4. source.position \in Nat /\ auth.obtains \in Nat /\ issued \in Nat
      BY Fields DEF IInv, ShapeInv
    <2>5. /\ source'.position \in Nat /\ auth'.obtains \in Nat /\ issued' \in Nat
          /\ source'.position - source.position + Draws(it'[g]) - Draws(it[g]) <= issued' - issued
          /\ auth'.obtains - auth.obtains + Asks(it'[g]) - Asks(it[g]) <= issued' - issued
      BY <2>2, <2>3, <2>4 DEF Draws, Asks
    <2> QED
      BY <2>1, <2>3, <2>4, <2>5, CountsStep
  <1>12. IdentityInv'
    <2>1. \A h \in Goroutines : it[h].gen \in Nat /\ it[h].gen < nextGen
      BY Fields DEF IInv, IdentityInv
    <2>2. \A h \in Goroutines : it'[h].gen < nextGen'
      BY <1>4, <1>5, <1>7, <1>8, <2>1 DEF IInv, ShapeInv
    <2>3. \A h \in Goroutines :
             it'[h].pc # "idle" /\ it'[h].gen # 0 => it'[h].gen \notin dead'
      BY <1>1, <1>4, <1>5, <1>7 DEF IInv, IdentityInv
    <2> QED
      BY <1>8, <2>2, <2>3 DEF IdentityInv
  <1>13. ValuesInv'
    BY <1>1, <1>5, <1>7 DEF IInv, ValuesInv
  <1>14. LineInv' /\ WatchInv'
    BY <1>1, Frames
  <1> QED
    BY <1>7, <1>8, <1>9, <1>10, <1>11, <1>12, <1>13, <1>14 DEF IInv

\* After a step a connection is what it was, resolved perhaps, or dropped.
LEMMA AfterKeeps ==
  ASSUME IInv, NEW g \in Goroutines, NEW end, conns' = After(g, end)
  PROVE  /\ conns' \in [Kept -> Connections]
         /\ \A p \in Kept : \/ conns'[p].gen = 0
                            \/ conns'[p].gen = conns[p].gen /\ conns'[p].tls = conns[p].tls
  <1>1. conns \in [Kept -> Connections] /\ NoConn \in Connections /\ NoConn.gen = 0
    BY DEF IInv, ShapeInv, Connections, NoConn
  <1>2. \A p \in Kept : conns[p] \in Connections
    BY <1>1
  <1>3. \/ conns' = [conns EXCEPT !["mqtt"] = NoConn]
        \/ conns' = [conns EXCEPT !["grpc"].resolved = TRUE]
        \/ conns' = conns
    BY DEF After
  <1> DEFINE resolved == [conns["grpc"] EXCEPT !.resolved = TRUE]
  <1>4. /\ resolved \in Connections /\ resolved.gen = conns["grpc"].gen
        /\ resolved.tls = conns["grpc"].tls
    BY <1>2 DEF Connections, Kept
  <1>5. CASE conns' = [conns EXCEPT !["mqtt"] = NoConn]
    BY <1>1, <1>5
  <1>6. CASE conns' = [conns EXCEPT !["grpc"].resolved = TRUE]
    <2>1. conns' = [conns EXCEPT !["grpc"] = resolved]
      BY <1>6
    <2> HIDE DEF resolved
    <2> QED
      BY <1>1, <1>4, <2>1
  <1>7. CASE conns' = conns
    BY <1>1, <1>7
  <1> QED
    BY <1>3, <1>5, <1>6, <1>7

\* A step ends: the iteration goes on with its captures, or ends.
LEMMA FinishStepKeeps ==
  ASSUME IInv, NEW g \in Goroutines, FinishStep(g)
  PROVE  IInv'
  <1> USE IterationAssumption
  <1> DEFINE next(values) == [it[g] EXCEPT !.pc = "step", !.step = it[g].step + 1, !.gen = 0,
                                           !.polls = 0, !.values = values]
  <1>0. PICK end \in Endings(g),
             holds \in (IF Step(g).checks THEN BOOLEAN ELSE {TRUE}),
             found \in (IF Step(g).capture = "none" THEN {TRUE} ELSE BOOLEAN) :
          LET checked == Check(Step(g), end.class, holds)
              class == Capture(Step(g), checked, found)
          IN /\ conns' = After(g, end)
             /\ it' = [it EXCEPT ![g] =
                    IF class = "success" /\ it[g].step < Len(scen.steps)
                    THEN next(Captures(g, checked, found))
                    ELSE Idle]
    BY DEF FinishStep
  <1>1. /\ it[g].pc = "wait"
        /\ UNCHANGED <<scen, run, source, auth, issued, nextGen, dead, tls, watcher, stopWatch,
                       lag, clock, drops>>
    BY DEF FinishStep
  <1> DEFINE checked == Check(Step(g), end.class, holds)
             class == Capture(Step(g), checked, found)
             new == IF class = "success" /\ it[g].step < Len(scen.steps)
                    THEN next(Captures(g, checked, found)) ELSE Idle
  <1>2. /\ found \in BOOLEAN
        /\ conns' = After(g, end)
        /\ it' = [it EXCEPT ![g] = new]
        /\ \/ new = Idle
           \/ it[g].step < Len(scen.steps) /\ new = next(Captures(g, checked, found))
    <2>1. found \in BOOLEAN
      OBVIOUS
    <2>2. conns' = After(g, end) /\ it' = [it EXCEPT ![g] = new]
      BY <1>0
    <2>3. \/ new = Idle
          \/ it[g].step < Len(scen.steps) /\ new = next(Captures(g, checked, found))
      OBVIOUS
    <2> QED
      BY <2>1, <2>2, <2>3
  <1> HIDE DEF checked, class, new
  <1>3. /\ conns' \in [Kept -> Connections]
        /\ \A p \in Kept : \/ conns'[p].gen = 0
                           \/ conns'[p].gen = conns[p].gen /\ conns'[p].tls = conns[p].tls
    BY <1>2, AfterKeeps
  <1>4. /\ Captures(g, checked, found) \in [Names -> Nat]
        /\ Captures(g, checked, found)["row"] = it[g].values["row"]
        /\ Captures(g, checked, found)["id"] \in {0, it[g].iteration + 1, it[g].values["id"]}
    <2>1. it[g].values \in [Names -> Nat] /\ it[g].iteration \in Nat
      BY Fields DEF IInv
    <2>2. it[g].iteration + 1 \in Nat
      BY <2>1
    <2> QED
      BY <2>1, <2>2 DEF Captures, Names
  <1>5. /\ next(Captures(g, checked, found)) \in Iterations
        /\ next(Captures(g, checked, found)).values = Captures(g, checked, found)
        /\ next(Captures(g, checked, found)).pc = "step"
        /\ next(Captures(g, checked, found)).step = it[g].step + 1
        /\ next(Captures(g, checked, found)).gen = 0
        /\ next(Captures(g, checked, found)).row = it[g].row
        /\ next(Captures(g, checked, found)).iteration = it[g].iteration
    <2>1. it[g] \in Iterations /\ it[g].step + 1 \in Nat
      BY Fields, SMTT(30) DEF IInv, ShapeInv
    <2> QED
      BY <1>4, <2>1 DEF Iterations
  <1> HIDE DEF next
  <1>6. /\ new \in Iterations /\ new.pc \in {"idle", "step"} /\ new.gen = 0
        /\ new.pc # "idle" =>
             /\ new.step \in 1 .. Len(scen.steps)
             /\ new.values["row"] = new.row /\ new.values["id"] \in {0, new.iteration + 1}
    <2>1. CASE new = Idle
      BY <2>1, IdleShape
    <2>2. CASE it[g].step < Len(scen.steps) /\ new = next(Captures(g, checked, found))
      <3>1. new.step \in 1 .. Len(scen.steps)
        <4>1. it[g].step \in 1 .. Len(scen.steps) /\ Len(scen.steps) \in Nat
          BY <1>1 DEF IInv, ShapeInv, RunInv
        <4> QED
          BY <1>5, <2>2, <4>1
      <3>2. new.values["row"] = new.row /\ new.values["id"] \in {0, new.iteration + 1}
        BY <1>1, <1>4, <1>5, <2>2 DEF IInv, ValuesInv
      <3> QED
        BY <1>5, <2>2, <3>1, <3>2
    <2> QED
      BY <1>2, <2>1, <2>2
  <1>7. /\ it' \in [Goroutines -> Iterations]
        /\ it'[g] = new /\ \A h \in Goroutines : h # g => it'[h] = it[h]
        /\ run.phase = "load"
        /\ issued' <= Planned /\ issued' <= MaxIterations
             /\ (new.pc \notin {"idle", "data"} => new.step \in 1 .. Len(scen.steps)) => RunInv'
        /\ ValuesInv' /\ TokenInv'
    BY <1>1, <1>2, <1>6, Moves
  <1>8. ShapeInv'
    BY <1>1, <1>3, <1>7 DEF IInv, ShapeInv
  <1>9. RunInv'
    <2>1. issued' <= Planned /\ issued' <= MaxIterations
      BY <1>1, <1>7 DEF IInv, RunInv
    <2> QED
      BY <1>6, <1>7, <2>1
  <1>10. CountInv'
    <2>1. \A h \in Goroutines : h # g => it'[h].pc = it[h].pc
      BY <1>7
    <2>2. it'[g].pc \in {"idle", "step"} /\ it[g].pc = "wait"
      BY <1>1, <1>6, <1>7
    <2>3. UNCHANGED <<source, auth, issued>>
      BY <1>1
    <2>4. source.position \in Nat /\ auth.obtains \in Nat /\ issued \in Nat
      BY Fields DEF IInv, ShapeInv
    <2>5. /\ source'.position \in Nat /\ auth'.obtains \in Nat /\ issued' \in Nat
          /\ source'.position - source.position + Draws(it'[g]) - Draws(it[g]) <= issued' - issued
          /\ auth'.obtains - auth.obtains + Asks(it'[g]) - Asks(it[g]) <= issued' - issued
      BY <2>2, <2>3, <2>4 DEF Draws, Asks
    <2> QED
      BY <2>1, <2>3, <2>4, <2>5, CountsStep
  <1>11. IdentityInv'
    <2>1. nextGen \in Nat \ {0}
      BY DEF IInv, ShapeInv
    <2> QED
      BY <1>1, <1>3, <1>6, <1>7, <2>1 DEF IInv, IdentityInv
  <1>12. SettingsInv'
    BY <1>1, <1>3 DEF IInv, SettingsInv
  <1>13. LineInv' /\ WatchInv'
    BY <1>1, Frames
  <1> QED
    BY <1>7, <1>8, <1>9, <1>10, <1>11, <1>12, <1>13 DEF IInv

\* A step is prepared, or its failure ends the preparation.
LEMMA PrepareKeeps ==
  ASSUME IInv, NEW fails \in BOOLEAN, Prepare(fails)
  PROVE  IInv'
  <1> USE IterationAssumption
  <1> DEFINE i == run.prepared + 1
             c == scen.steps[i]
  <1>1. /\ run.phase = "prepare" /\ run.prepared < Len(scen.steps)
        /\ run' = IF fails THEN [run EXCEPT !.phase = "load"] ELSE [run EXCEPT !.prepared = @ + 1]
        /\ UNCHANGED <<scen, source, auth, it, issued, dead, tls, lag, clock, drops>>
    BY DEF Prepare
  <1>2. /\ WatchLag(c)
        /\ \/ UNCHANGED <<conns, nextGen>>
           \/ /\ c.protocol \in Kept
              /\ conns' = [conns EXCEPT ![c.protocol] = Opened(c.protocol, c)]
              /\ nextGen' = nextGen + 1
    BY DEF Prepare, Prepares, Kept
  <1>3. i \in 1 .. Len(scen.steps)
    <2>1. run.prepared \in Nat /\ Len(scen.steps) \in Nat
      BY Fields DEF IInv, ShapeInv
    <2> QED
      BY <1>1, <2>1
  <1>4. /\ run' \in RunStates /\ run'.id = run.id /\ run'.phase \in {"prepare", "load"}
    <2>1. run \in RunStates
      BY DEF IInv, ShapeInv
    <2>2. run.prepared + 1 \in Nat
      BY <2>1 DEF RunStates
    <2> QED
      BY <1>1, <2>1, <2>2 DEF RunStates
  <1>5. /\ conns' \in [Kept -> Connections] /\ nextGen' \in Nat \ {0}
        /\ \A q \in Kept : conns'[q].gen < nextGen'
             /\ (conns'[q].gen # 0 => conns'[q].gen \notin dead')
        /\ \A n \in dead' : n \in Nat /\ n < nextGen'
        /\ nextGen' >= nextGen
        /\ run.phase # "idle" /\ scen.tls[run.id] =>
             tls = run.id /\ \A q \in Kept : conns'[q].gen # 0 => conns'[q].tls = run.id
    <2>1. CASE UNCHANGED <<conns, nextGen>>
      BY <1>1, <2>1 DEF IInv, ShapeInv, IdentityInv, SettingsInv
    <2>2. CASE /\ c.protocol \in Kept
               /\ conns' = [conns EXCEPT ![c.protocol] = Opened(c.protocol, c)]
               /\ nextGen' = nextGen + 1
      <3>1. nextGen' >= nextGen
        BY <2>2 DEF IInv, ShapeInv
      <3> DEFINE p == c.protocol
      <3>2. conns' = [conns EXCEPT ![p] = Opened(p, scen.steps[i])] /\ p \in Kept
        BY <2>2
      <3> HIDE DEF c, p, i
      <3> QED
        BY <1>1, <1>3, <2>2, <3>1, <3>2, OpenKeeps
    <2> QED
      BY <1>2, <2>1, <2>2
  <1>6. /\ watcher' \in Watchers /\ stopWatch' \in BOOLEAN
        /\ \/ UNCHANGED <<watcher, stopWatch>>
           \/ watcher' = [NoWatcher EXCEPT !.state = "watching", !.by = run.id] /\ stopWatch'
    <2>1. [NoWatcher EXCEPT !.state = "watching", !.by = run.id] \in Watchers
      <3>1. run.id \in Nat
        BY Fields DEF IInv
      <3> QED
        BY <3>1 DEF NoWatcher, NoReading, Watchers, Readings
    <2>2. \/ UNCHANGED <<watcher, stopWatch>>
          \/ /\ watcher' = [NoWatcher EXCEPT !.state = "watching", !.by = run.id]
             /\ stopWatch' = TRUE
      BY <1>2 DEF WatchLag
    <2> QED
      BY <2>1, <2>2 DEF IInv, ShapeInv
  <1> HIDE DEF i, c
  <1>7. ShapeInv'
    BY <1>1, <1>4, <1>5, <1>6 DEF IInv, ShapeInv
  <1>8. RunInv'
    BY <1>1, <1>4 DEF IInv, RunInv, Planned, Debugging
  <1>9. IdentityInv'
    <2>1. \A h \in Goroutines : it[h].gen \in Nat /\ it[h].gen < nextGen
      BY Fields DEF IInv, IdentityInv
    <2>2. \A h \in Goroutines : it'[h].gen < nextGen'
      BY <1>1, <1>5, <2>1 DEF IInv, ShapeInv
    <2> QED
      BY <1>1, <1>5, <2>2 DEF IInv, IdentityInv
  <1>10. SettingsInv'
    BY <1>1, <1>4, <1>5 DEF SettingsInv
  <1>11. WatchInv'
    <2>1. CASE UNCHANGED <<watcher, stopWatch>>
      BY <1>1, <1>4, <2>1 DEF IInv, WatchInv, Debugging
    <2>2. CASE watcher' = [NoWatcher EXCEPT !.state = "watching", !.by = run.id] /\ stopWatch'
      <3>1. watcher'.state = "watching" /\ watcher'.by = run.id
        BY <2>2 DEF NoWatcher
      <3>2. run.id \in 1 .. MaxRuns /\ ~Debugging /\ Len(lag) = run.id - 1
        BY <1>1 DEF IInv, RunInv, WatchInv
      <3>3. ~Debugging'
        BY <1>1, <1>4, <3>2 DEF Debugging
      <3>4. scen'.kinds[watcher'.by] # "debug"
        BY <1>1, <3>1, <3>2 DEF Debugging
      <3> QED
        BY <1>1, <1>4, <2>2, <3>1, <3>2, <3>3, <3>4 DEF WatchInv, None
    <2> QED
      BY <1>6, <2>1, <2>2
  <1>12. CountInv' /\ ValuesInv' /\ TokenInv' /\ LineInv'
    BY <1>1, Frames
  <1> QED
    BY <1>7, <1>8, <1>9, <1>10, <1>11, <1>12 DEF IInv

\* The run reports its lag and closes the connections, which no step holds.
LEMMA EndRunKeeps ==
  ASSUME IInv, EndRun
  PROVE  IInv'
  <1> USE IterationAssumption
  <1> DEFINE said == IF Debugging THEN NoLag
                     ELSE [last |-> watcher.last, problem |-> watcher.problem]
  <1>1. /\ run.phase = "stopped" /\ (Debugging \/ watcher.state # "watching")
        /\ lag' = Append(lag, said)
        /\ dead' = dead \cup {conns[p].gen : p \in Kept}
        /\ conns' = NewProtocols
        /\ stopWatch' = FALSE
        /\ run' = [run EXCEPT !.phase = "idle"]
        /\ UNCHANGED <<scen, source, auth, it, issued, nextGen, tls, watcher, clock, drops>>
    BY DEF EndRun, WatchersDone, Close, NewProtocols
  <1>2. run' \in RunStates /\ run'.id = run.id /\ run'.phase = "idle" /\ run.id \in 1 .. MaxRuns
    <2>1. run \in RunStates /\ run.id \in 1 .. MaxRuns
      BY <1>1 DEF IInv, ShapeInv, RunInv
    <2> QED
      BY <1>1, <2>1 DEF RunStates
  <1>3. said \in Reported
    BY Fields DEF IInv, NoLag, NoReading, Reported, Readings
  <1>4. Len(lag) = run.id - 1
    BY <1>1 DEF IInv, WatchInv
  <1>5. watcher.state # "watching"
    BY <1>1 DEF IInv, WatchInv
  <1>6. watcher.by = run.id /\ ~watcher.silent /\ ~said.problem =>
          said.last = [run |-> run.id, phase |-> "stopped"]
    <2> SUFFICES ASSUME watcher.by = run.id, ~watcher.silent, ~said.problem
                 PROVE  said.last = [run |-> run.id, phase |-> "stopped"]
      OBVIOUS
    <2>1. watcher.state = "done"
      BY <1>2, <1>5, Fields DEF IInv, WatchInv
    <2>2. ~Debugging
      BY <1>2 DEF IInv, WatchInv, Debugging
    <2>3. said.last = watcher.last /\ said.problem = watcher.problem
      BY <2>2
    <2> QED
      BY <2>1, <2>3 DEF IInv, WatchInv
  <1> HIDE DEF said
  <1>7. /\ lag' \in Seq(Reported) /\ Len(lag') = run.id
        /\ \A r \in 1 .. Len(lag') : lag'[r] = IF r = run.id THEN said ELSE lag[r]
    <2>1. lag \in Seq(Reported)
      BY DEF IInv, ShapeInv
    <2> QED
      BY <1>1, <1>2, <1>3, <1>4, <2>1
  <1>8. /\ conns' \in [Kept -> Connections] /\ \A p \in Kept : conns'[p].gen = 0
    BY <1>1 DEF NewProtocols, NoConn, Connections
  <1>9. ShapeInv'
    BY <1>1, <1>2, <1>7, <1>8 DEF IInv, ShapeInv
  <1>10. RunInv'
    BY <1>1, <1>2 DEF IInv, RunInv
  <1>11. IdentityInv'
    <2>1. nextGen \in Nat \ {0} /\ \A p \in Kept : conns[p].gen \in Nat
      BY Fields DEF IInv, ShapeInv
    <2>2. \A n \in dead' : n \in Nat /\ n < nextGen'
      BY <1>1, <2>1 DEF IInv, IdentityInv
    <2> QED
      BY <1>1, <1>8, <2>1, <2>2 DEF IInv, IdentityInv, RunInv
  <1>12. SettingsInv'
    BY <1>2 DEF SettingsInv
  <1>13. WatchInv'
    <2>1. \A r \in 1 .. Len(lag') : watcher'.by = r /\ ~watcher'.silent /\ ~lag'[r].problem =>
            lag'[r].last = [run |-> r, phase |-> "stopped"]
      <3> SUFFICES ASSUME NEW r \in 1 .. Len(lag'), watcher'.by = r, ~watcher'.silent,
                          ~lag'[r].problem
                   PROVE  lag'[r].last = [run |-> r, phase |-> "stopped"]
        OBVIOUS
      <3>1. CASE r = run.id
        BY <1>1, <1>6, <1>7, <3>1
      <3>2. CASE r # run.id
        <4>1. r \in 1 .. Len(lag) /\ lag'[r] = lag[r]
          BY <1>2, <1>4, <1>7, <3>2
        <4> QED
          BY <1>1, <4>1 DEF IInv, WatchInv
      <3> QED
        BY <3>1, <3>2
    <2> QED
      BY <1>1, <1>2, <1>5, <1>7, <2>1 DEF IInv, WatchInv
  <1>14. CountInv' /\ ValuesInv' /\ TokenInv' /\ LineInv'
    BY <1>1, Frames
  <1> QED
    BY <1>9, <1>10, <1>11, <1>12, <1>13, <1>14 DEF IInv

-----------------------------------------------------------------------------
(* The theorems.                                                            *)

\* Every step keeps the inductive invariant.
LEMMA NextIInv == IInv /\ [Next]_vars => IInv'
  <1> SUFFICES ASSUME IInv, [Next]_vars PROVE IInv'
    OBVIOUS
  <1>1. CASE RunStep
    BY <1>1, StartRunKeeps, PrepareKeeps, StartLoadKeeps, EndLoadKeeps, EndRunKeeps
       DEF RunStep
  <1>2. CASE Tick
    BY <1>2, TickKeeps
  <1>3. CASE \E answer \in Answers : Sample(answer) \/ LastSample(answer)
    BY <1>3, SampleKeeps, LastSampleKeeps
  <1>4. ASSUME NEW g \in Goroutines, IterationStep(g) PROVE IInv'
    BY <1>4, DispatchKeeps, DataKeeps, BeginStepKeeps, FinishStepKeeps,
       TokenRefusedKeeps, TokenAnsweredKeeps DEF IterationStep
  <1>5. CASE \E g \in Goroutines : EnsureToken(g) \/ CopyToken(g) \/ PollAgain(g)
    BY <1>5, EnsureTokenKeeps, CopyTokenKeeps, PollAgainKeeps
  <1>6. CASE \E p \in {"amqp", "mqtt"} : Drop(p)
    BY <1>6, DropKeeps
  <1>7. CASE UNCHANGED vars
    <2>1. ShapeInv'
      BY <1>7 DEF IInv, ShapeInv, vars
    <2> QED
      BY <1>7, <2>1, Frames DEF IInv, vars
  <1> QED
    BY <1>1, <1>2, <1>3, <1>4, <1>5, <1>6, <1>7 DEF Next, Finished

\* The inductive invariant holds in every reachable state.
LEMMA SpecIInv == Spec => []IInv
  BY InitIInv, NextIInv, PTL DEF Spec

\* The types of TypeOK: the source is asked once per iteration and the token at most
\* once, so neither count passes the iterations of a run.
THEOREM IterationTyped == Spec => []TypeOK
  <1>1. IInv => TypeOK
    <2> SUFFICES ASSUME IInv PROVE TypeOK
      OBVIOUS
    <2>1. /\ issued \in Nat /\ nextGen \in Nat /\ run \in RunStates
          /\ source.position \in Nat /\ auth.obtains \in Nat
          /\ auth.lock \in Goroutines \cup {None}
      BY Fields DEF IInv, ShapeInv
    <2>2. Cardinality(Drawing) \in Nat /\ Cardinality(Before) \in Nat
      <3>1. IsFiniteSet(Drawing) /\ IsFiniteSet(Before)
        BY FS_Subset, IterationAssumption DEF Drawing, Before
      <3> QED
        BY <3>1, FS_CardinalityType
    <2>3. source.position <= MaxIterations /\ auth.obtains <= MaxIterations
      BY <2>1, <2>2, IterationAssumption, SMTT(30) DEF IInv, RunInv, CountInv
    <2>4. MaxIterations <= MaxRuns * MaxIterations /\ MaxRuns * MaxIterations \in Nat
      BY IterationAssumption
    <2>5. auth.obtains \in 0 .. MaxRuns * MaxIterations
      <3> DEFINE most == MaxRuns * MaxIterations
      <3>1. /\ most \in Nat /\ MaxIterations \in Nat /\ MaxIterations <= most
            /\ auth.obtains \in Nat /\ auth.obtains <= MaxIterations
        BY <2>1, <2>3, <2>4, IterationAssumption, ZenonT(30)
      <3> HIDE DEF most
      <3>2. auth.obtains \in 0 .. most
        BY <3>1
      <3> QED  BY <3>2 DEF most
    <2>6. \A g \in Goroutines :
             /\ it[g].pc \in {"idle", "data", "auth", "asking", "copy", "step", "wait"}
             /\ it[g].values \in [Names -> Nat] /\ it[g].gen \in 0 .. nextGen - 1
      BY <2>1, Fields DEF IInv, IdentityInv
    <2>7. \A p \in Kept : conns[p].gen \in 0 .. nextGen - 1
      BY <2>1, Fields DEF IInv, IdentityInv
    <2>8. source.position \in 0 .. MaxIterations
      BY <2>1, <2>3, IterationAssumption
    <2> QED
      BY <2>1, <2>5, <2>6, <2>7, <2>8 DEF TypeOK, RunStates
  <1> QED
    BY <1>1, SpecIInv, PTL

\* An iteration sends its own row and its own captured id, although every iteration
\* copies what one of them left in the manager (auth.go ensureToken, obtain).
THEOREM ValuesAreOwn == Spec => []OwnValues
  <1>1. IInv => OwnValues
    BY DEF IInv, ValuesInv, OwnValues
  <1> QED
    BY <1>1, SpecIInv, PTL

\* However many iterations find the token missing together, it is obtained once, and once
\* more for each refresh interval that passed; failed logins do not count (auth.go ensureToken).
THEOREM TokenObtainedOnce == Spec => []TokenNotPerRequest
  <1>1. IInv => TokenNotPerRequest
    <2> SUFFICES ASSUME IInv PROVE TokenNotPerRequest
      OBVIOUS
    <2>1. /\ auth.at \in Nat /\ clock \in Nat /\ auth.obtains \in Nat /\ auth.at <= clock
          /\ scen.refresh \in Nat
      BY Fields, IterationAssumption DEF IInv, ShapeInv, TokenInv
    <2>2. CASE scen.refresh = 0
      BY <2>2 DEF IInv, TokenInv, TokenNotPerRequest
    <2>3. CASE scen.refresh # 0
      <3>1. /\ (clock \div scen.refresh) >= (auth.at \div scen.refresh)
            /\ (clock \div scen.refresh) \in Nat /\ (auth.at \div scen.refresh) \in Nat
        BY <2>1, <2>3, RoomGrows, DivMod
      <3>2. auth.obtains <= 1 + (auth.at \div scen.refresh)
        BY <2>3 DEF IInv, TokenInv
      <3> QED
        BY <2>1, <2>3, <3>1, <3>2 DEF TokenNotPerRequest
    <2> QED
      BY <2>2, <2>3
  <1> QED
    BY <1>1, SpecIInv, PTL

\* No line of a sequential file is handed out twice or skipped, and no line of a
\* circular one comes round before the others (data.go Next).
THEOREM LinesInTurn == Spec => []EachLineInTurn
  <1>1. IInv => EachLineInTurn
    <2> SUFFICES ASSUME IInv PROVE EachLineInTurn
      OBVIOUS
    <2>1. Rows \in Nat /\ source.position \in Nat
      BY Fields, IterationAssumption DEF IInv
    <2>2. ASSUME scen.consume = "sequential"
          PROVE  /\ \A r \in 1 .. Rows : source.handed[r] <= 1
                 /\ source.exhausted => \A r \in 1 .. Rows : source.handed[r] = 1
      BY <2>1, <2>2 DEF IInv, LineInv, Sequential
    <2>3. ASSUME scen.consume = "circular"
          PROVE  \A r, q \in 1 .. Rows : source.handed[r] <= source.handed[q] + 1
      <3> DEFINE m == source.position % Rows
      <3>1. PICK k \in Nat : \A r \in 1 .. Rows :
              source.handed[r] = k + (IF r <= m THEN 1 ELSE 0)
        BY <2>3 DEF IInv, LineInv, Circular
      <3> HIDE DEF m
      <3> QED
        BY <3>1
    <2> QED
      BY <2>2, <2>3 DEF EachLineInTurn
  <1> QED
    BY <1>1, SpecIInv, PTL

\* CloseAll closes no connection under a step that holds it, one a protocol has
\* replaced in its cache meanwhile included.
THEOREM NoneUsedAfterClose == Spec => []NoUseAfterClose
  <1>1. IInv => NoUseAfterClose
    BY DEF IInv, IdentityInv, NoUseAfterClose
  <1> QED
    BY <1>1, SpecIInv, PTL

\* A run that declares TLS finds no connection made with another run's settings.
THEOREM TLSIsOwn == Spec => []OwnTLS
  <1>1. IInv => OwnTLS
    <2> SUFFICES ASSUME IInv PROVE OwnTLS
      OBVIOUS
    <2>1. {"mqtt", "grpc"} \subseteq Kept
      BY DEF Kept
    <2>2. CASE run.phase = "idle"
      <3>1. \A p \in Kept : conns[p].gen = 0
        BY <2>2 DEF IInv, RunInv, NewProtocols, NoConn
      <3> QED
        BY <2>1, <3>1 DEF OwnTLS
    <2>3. CASE run.phase # "idle"
      BY <2>1, <2>3 DEF IInv, SettingsInv, OwnTLS
    <2> QED
      BY <2>2, <2>3
  <1> QED
    BY <1>1, SpecIInv, PTL

\* The lag a run reports for its own watch was read after its load stopped, unless the
\* report says the reading failed or the last read brought nothing (kafka.go ConsumerLag).
THEOREM LagIsFinal == Spec => []OwnLagIsFinal
  <1>1. IInv => OwnLagIsFinal
    <2> SUFFICES ASSUME IInv PROVE OwnLagIsFinal
      OBVIOUS
    <2>1. DOMAIN lag = 1 .. Len(lag)
      BY DEF IInv, ShapeInv
    <2> QED
      BY <2>1 DEF IInv, WatchInv, OwnLagIsFinal
  <1> QED
    BY <1>1, SpecIInv, PTL
=============================================================================
