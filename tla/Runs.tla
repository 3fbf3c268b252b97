-------------------------------- MODULE Runs --------------------------------
(***************************************************************************)
(* The runs of the HTTP server: one handler and one goroutine per run, the *)
(* engine's progress goroutine that keeps appending lines, clients that    *)
(* cancel and clients that follow the stream of lines.                     *)
(*                                                                         *)
(* One action per critical section (busyMu, runStore.mutex, run.mutex) or  *)
(* call between two of them.  What a line says is its kind; the load       *)
(* itself (module Engine) is one step that ends.                           *)
(***************************************************************************)
EXTENDS Integers, Sequences, FiniteSets

CONSTANTS
    Concurrent,  \* Options.Concurrent: several runs at once were asked for
    RunIDs,      \* requests to start a run, each with the run it creates
    Cancelers,   \* clients that cancel runs
    Followers,   \* clients that follow one stream
    Named,       \* runs those clients ask for
    Buffer,      \* capacity of a follower's live channel
    MaxTicks     \* bound on the progress ticks of a run

NoRun == "no run"

\* NoRun is no id: runStore.start numbers its runs r001, r002, ...
ASSUME RunsAssumption ==
    /\ Concurrent \in BOOLEAN
    /\ Buffer \in Nat \ {0}
    /\ MaxTicks \in Nat
    /\ NoRun \notin RunIDs

ASSUME NamedAssumption == Named \subseteq RunIDs

VARIABLES
    busy,        \* Server.busy
    debugging,   \* a debug request holds the server
    pc,          \* where the handler, and then the goroutine, of each run is
    status,      \* run.outcome.Status
    ending,      \* the outcome finish is about to settle
    canceled,    \* run.canceled
    armed,       \* run.stop is set
    stopped,     \* the context of the run is canceled
    lines,       \* run.lines
    closed,      \* run.closed
    watchers,    \* run.watchers
    ticker,      \* where the progress goroutine of each run is
    ticks,       \* ticks it took
    stopping,    \* the run whose stop() each canceler is about to call
    accepted,    \* history: runs whose cancel was answered 202
    follows,     \* the run each follower follows
    stage,       \* where the goroutine of follow is
    replay,      \* lines left to replay
    live,        \* the follower's channel
    liveClosed,  \* close(live) happened
    seen,        \* lines sent to the client
    missed       \* history: lines append could not send to the follower

server    == <<busy, debugging>>
outcomes  == <<status, ending>>
cancels   == <<canceled, armed, stopped, stopping, accepted>>
progress  == <<ticker, ticks>>
store     == <<lines, closed, watchers>>
channels  == <<live, liveClosed, missed>>
streams   == <<follows, stage, replay, seen>>

vars == <<server, pc, outcomes, cancels, progress, store, channels, streams>>

Settled   == {"done", "failed", "interrupted"}
FinalLine == Settled  \* the last line says how the run ended
Line      == {"headline", "progress"} \cup FinalLine

\* Every run past take and before the deferred release.
Holding == {r \in RunIDs : pc[r] \notin {"none", "gone"}}

Published == {r \in RunIDs : status[r] # "none"}

\* The type of the state.
TypeOK ==
    /\ busy \in BOOLEAN /\ debugging \in BOOLEAN
    /\ pc \in [RunIDs -> {"none", "taken", "published", "armstop", "execute", "drive",
                          "look", "settle", "say", "close", "release", "gone"}]
    /\ status \in [RunIDs -> {"none", "running"} \cup Settled]
    /\ ending \in [RunIDs -> {"none"} \cup Settled]
    /\ canceled \in [RunIDs -> BOOLEAN]
    /\ armed \in [RunIDs -> BOOLEAN]
    /\ stopped \in [RunIDs -> BOOLEAN]
    /\ lines \in [RunIDs -> Seq(Line)]
    /\ closed \in [RunIDs -> BOOLEAN]
    /\ watchers \in [RunIDs -> SUBSET Followers]
    /\ ticker \in [RunIDs -> {"off", "waiting", "ticked"}]
    /\ ticks \in [RunIDs -> 0 .. MaxTicks]
    /\ stopping \in [Cancelers -> RunIDs \cup {NoRun}]
    /\ accepted \subseteq RunIDs
    /\ follows \in [Followers -> RunIDs \cup {NoRun}]
    /\ stage \in [Followers -> {"idle", "replay", "live", "ended", "left"}]
    /\ replay \in [Followers -> Seq(Line)]
    /\ live \in [Followers -> Seq(Line)]
    /\ liveClosed \in [Followers -> BOOLEAN]
    /\ seen \in [Followers -> Seq(Line)]
    /\ missed \in [Followers -> Nat]

Init ==
    /\ busy = FALSE /\ debugging = FALSE
    /\ pc = [r \in RunIDs |-> "none"]
    /\ status = [r \in RunIDs |-> "none"]
    /\ ending = [r \in RunIDs |-> "none"]
    /\ canceled = [r \in RunIDs |-> FALSE]
    /\ armed = [r \in RunIDs |-> FALSE]
    /\ stopped = [r \in RunIDs |-> FALSE]
    /\ lines = [r \in RunIDs |-> <<>>]
    /\ closed = [r \in RunIDs |-> FALSE]
    /\ watchers = [r \in RunIDs |-> {}]
    /\ ticker = [r \in RunIDs |-> "off"]
    /\ ticks = [r \in RunIDs |-> 0]
    /\ stopping = [k \in Cancelers |-> NoRun]
    /\ accepted = {}
    /\ follows = [f \in Followers |-> NoRun]
    /\ stage = [f \in Followers |-> "idle"]
    /\ replay = [f \in Followers |-> <<>>]
    /\ live = [f \in Followers |-> <<>>]
    /\ liveClosed = [f \in Followers |-> FALSE]
    /\ seen = [f \in Followers |-> <<>>]
    /\ missed = [f \in Followers |-> 0]

-----------------------------------------------------------------------------
(* take and release                                                         *)

CanTake_Unchecked == TRUE

CanTake == Concurrent \/ ~busy

\* A concurrent server never sets the flag.
BusyOnceTaken == ~Concurrent

\* startRun: take succeeded.  A refused request changes nothing.
Take(r) ==
    /\ pc[r] = "none"
    /\ CanTake
    /\ busy' = BusyOnceTaken
    /\ pc' = [pc EXCEPT ![r] = "taken"]
    /\ UNCHANGED <<debugging, outcomes, cancels, progress, store, channels,
                   streams>>

\* POST /scenarios/{name}/debug holds the server for one iteration.
Debug ==
    /\ ~debugging
    /\ CanTake
    /\ busy' = BusyOnceTaken
    /\ debugging' = TRUE
    /\ UNCHANGED <<pc, outcomes, cancels, progress, store, channels, streams>>

DebugEnds ==
    /\ debugging
    /\ debugging' = FALSE
    /\ busy' = FALSE
    /\ UNCHANGED <<pc, outcomes, cancels, progress, store, channels, streams>>

-----------------------------------------------------------------------------
(* run.append and run.close                                                 *)

Full(f) == Len(live[f]) >= Buffer

\* The line is kept, and offered to every watcher; a full channel misses it.
AppendLine(r, line) ==
    /\ lines' = [lines EXCEPT ![r] = Append(@, line)]
    /\ live' = [f \in Followers |-> IF f \in watchers[r] /\ ~Full(f)
                                    THEN Append(live[f], line) ELSE live[f]]
    /\ missed' = [f \in Followers |-> IF f \in watchers[r] /\ Full(f)
                                      THEN missed[f] + 1 ELSE missed[f]]
    /\ UNCHANGED <<closed, watchers, liveClosed>>

-----------------------------------------------------------------------------
(* startRun                                                                 *)

\* runStore.start: from here on the run is found by its id.
Publish(r) ==
    /\ pc[r] = "taken"
    /\ status' = [status EXCEPT ![r] = "running"]
    /\ AppendLine(r, "headline")
    /\ pc' = [pc EXCEPT ![r] = "published"]
    /\ UNCHANGED <<server, ending, cancels, progress, streams>>

\* A cancel may have come before there was a context to cancel.
AfterArming_Unchecked(r) == "execute"

AfterArming(r) == IF canceled[r] THEN "armstop" ELSE "execute"

Arm(r) ==
    /\ pc[r] = "published"
    /\ armed' = [armed EXCEPT ![r] = TRUE]
    /\ pc' = [pc EXCEPT ![r] = AfterArming(r)]
    /\ UNCHANGED <<server, outcomes, canceled, stopped, stopping, accepted, progress,
                   store, channels, streams>>

ArmStop(r) ==
    /\ pc[r] = "armstop"
    /\ stopped' = [stopped EXCEPT ![r] = TRUE]
    /\ pc' = [pc EXCEPT ![r] = "execute"]
    /\ UNCHANGED <<server, outcomes, canceled, armed, stopping, accepted, progress, store,
                   channels, streams>>

-----------------------------------------------------------------------------
(* The goroutine of the run: runner.Execute, then runStore.finish.          *)

\* The file changed since startRun read it, or the environment lacks a value.
ExecuteFails(r) ==
    /\ pc[r] = "execute"
    /\ ending' = [ending EXCEPT ![r] = "failed"]
    /\ pc' = [pc EXCEPT ![r] = "settle"]
    /\ UNCHANGED <<server, status, cancels, progress, store, channels, streams>>

\* Executor.Execute starts the progress goroutine and then the load.
Drive(r) ==
    /\ pc[r] = "execute"
    /\ ticker' = [ticker EXCEPT ![r] = "waiting"]
    /\ pc' = [pc EXCEPT ![r] = "drive"]
    /\ UNCHANGED <<server, outcomes, cancels, ticks, store, channels, streams>>

\* The load ended.  close(stopProgress) does not wait for the progress goroutine.
DriveEnds(r) ==
    /\ pc[r] = "drive"
    /\ pc' = [pc EXCEPT ![r] = "look"]
    /\ UNCHANGED <<server, outcomes, cancels, progress, store, channels, streams>>

OutcomeOf_NoStatus(r) == IF canceled[r] THEN "interrupted" ELSE ""

OutcomeOf(r) == IF canceled[r] THEN "interrupted" ELSE "done"

\* run.wasCanceled decides between the two outcomes of a run without error.
Look(r) ==
    /\ pc[r] = "look"
    /\ ending' = [ending EXCEPT ![r] = OutcomeOf(r)]
    /\ pc' = [pc EXCEPT ![r] = "settle"]
    /\ UNCHANGED <<server, status, cancels, progress, store, channels, streams>>

\* run.settle
Settle(r) ==
    /\ pc[r] = "settle"
    /\ status' = [status EXCEPT ![r] = ending[r]]
    /\ pc' = [pc EXCEPT ![r] = "say"]
    /\ UNCHANGED <<server, ending, cancels, progress, store, channels, streams>>

\* The last append of finish: the failure, the interruption or the verdict.
MaySay_BeforeSettle(r) == pc[r] \in {"settle", "say"}

MaySay(r) == pc[r] = "say"

Say(r) ==
    /\ MaySay(r)
    /\ AppendLine(r, ending[r])
    /\ pc' = [pc EXCEPT ![r] = "close"]
    /\ UNCHANGED <<server, outcomes, cancels, progress, streams>>

WatchersAfterClose_Kept(r) == watchers

WatchersAfterClose(r) == [watchers EXCEPT ![r] = {}]

ClosedChannels_None(r) == liveClosed

ClosedChannels(r) == [f \in Followers |-> liveClosed[f] \/ f \in watchers[r]]

\* run.close
Close(r) ==
    /\ pc[r] = "close"
    /\ closed' = [closed EXCEPT ![r] = TRUE]
    /\ liveClosed' = ClosedChannels(r)
    /\ watchers' = WatchersAfterClose(r)
    /\ pc' = [pc EXCEPT ![r] = "release"]
    /\ UNCHANGED <<server, outcomes, cancels, progress, lines, live, missed, streams>>

BusyAfterRelease_NotOnFailure(r) == status[r] = "failed" /\ busy

BusyAfterRelease(r) == FALSE

\* The deferred stop() and release().
Release(r) ==
    /\ pc[r] = "release"
    /\ stopped' = [stopped EXCEPT ![r] = TRUE]
    /\ busy' = BusyAfterRelease(r)
    /\ pc' = [pc EXCEPT ![r] = "gone"]
    /\ UNCHANGED <<debugging, outcomes, canceled, armed, stopping, accepted,
                   progress, store, channels, streams>>

-----------------------------------------------------------------------------
(* Executor.follow: the progress goroutine.                                 *)

\* select chose the tick, which it may even when the stop channel is closed.
Tick(r) ==
    /\ ticker[r] = "waiting"
    /\ ticks[r] < MaxTicks
    /\ ticker' = [ticker EXCEPT ![r] = "ticked"]
    /\ ticks' = [ticks EXCEPT ![r] = @ + 1]
    /\ UNCHANGED <<server, pc, outcomes, cancels, store, channels, streams>>

\* OnProgress is run.progress.
Progress(r) ==
    /\ ticker[r] = "ticked"
    /\ AppendLine(r, "progress")
    /\ ticker' = [ticker EXCEPT ![r] = "waiting"]
    /\ UNCHANGED <<server, pc, outcomes, cancels, ticks, streams>>

TickerEnds(r) ==
    /\ ticker[r] = "waiting"
    /\ pc[r] \notin {"execute", "drive"}
    /\ ticker' = [ticker EXCEPT ![r] = "off"]
    /\ UNCHANGED <<server, pc, outcomes, cancels, ticks, store, channels, streams>>

-----------------------------------------------------------------------------
(* run.cancel: the flag under the mutex, stop() after it.                   *)

Cancel(k, r) ==
    /\ stopping[k] = NoRun
    /\ r \in Published
    /\ accepted' = IF canceled[r] \/ status[r] # "running" THEN accepted
                                                          ELSE accepted \cup {r}
    /\ canceled' = [canceled EXCEPT ![r] = TRUE]
    /\ stopping' = [stopping EXCEPT ![k] = IF armed[r] THEN r ELSE NoRun]
    /\ UNCHANGED <<server, pc, outcomes, armed, stopped, progress, store, channels, streams>>

CancelStop(k) ==
    /\ stopping[k] # NoRun
    /\ stopped' = [stopped EXCEPT ![stopping[k]] = TRUE]
    /\ stopping' = [stopping EXCEPT ![k] = NoRun]
    /\ UNCHANGED <<server, pc, outcomes, canceled, armed, accepted, progress, store,
                   channels, streams>>

-----------------------------------------------------------------------------
(* runStore.follow and streamRun                                            *)

Snapshot_BeforeLock(r) == SubSeq(lines[r], 1, Len(lines[r]) - 1)

\* Taken in the critical section that registers the watcher.
Snapshot(r) == lines[r]

Follow(f, r) ==
    /\ stage[f] = "idle"
    /\ r \in Published
    /\ follows' = [follows EXCEPT ![f] = r]
    /\ stage' = [stage EXCEPT ![f] = "replay"]
    /\ replay' = [replay EXCEPT ![f] = Snapshot(r)]
    /\ watchers' = IF closed[r] THEN watchers ELSE [watchers EXCEPT ![r] = @ \cup {f}]
    /\ liveClosed' = [liveClosed EXCEPT ![f] = closed[r]]
    /\ UNCHANGED <<server, pc, outcomes, cancels, progress, lines, closed, live, missed,
                   seen>>

\* A run that was closed has no live part: its channel counts as closed.
Replay(f) ==
    /\ stage[f] = "replay"
    /\ IF replay[f] = <<>>
       THEN /\ stage' = [stage EXCEPT ![f] = "live"]
            /\ UNCHANGED <<seen, replay>>
       ELSE /\ seen' = [seen EXCEPT ![f] = Append(@, Head(replay[f]))]
            /\ replay' = [replay EXCEPT ![f] = Tail(@)]
            /\ UNCHANGED stage
    /\ UNCHANGED <<server, pc, outcomes, cancels, progress, store, channels, follows>>

Forward(f) ==
    /\ stage[f] = "live"
    /\ live[f] # <<>>
    /\ seen' = [seen EXCEPT ![f] = Append(@, Head(live[f]))]
    /\ live' = [live EXCEPT ![f] = Tail(@)]
    /\ UNCHANGED <<server, pc, outcomes, cancels, progress, store, liveClosed, missed,
                   follows, stage, replay>>

\* The channel is drained and closed: the stream ends.
StreamEnds(f) ==
    /\ stage[f] = "live"
    /\ live[f] = <<>> /\ liveClosed[f]
    /\ stage' = [stage EXCEPT ![f] = "ended"]
    /\ UNCHANGED <<server, pc, outcomes, cancels, progress, store, channels, follows,
                   replay, seen>>

\* The client hung up.  It stays among the watchers until the run closes.
Leave(f) ==
    /\ stage[f] \in {"replay", "live"}
    /\ stage' = [stage EXCEPT ![f] = "left"]
    /\ UNCHANGED <<server, pc, outcomes, cancels, progress, store, channels, follows,
                   replay, seen>>

-----------------------------------------------------------------------------
RunStep(r) ==
    \/ Publish(r) \/ Arm(r) \/ ArmStop(r) \/ ExecuteFails(r) \/ Drive(r) \/ DriveEnds(r)
    \/ Look(r) \/ Settle(r) \/ Say(r) \/ Close(r) \/ Release(r)

TickerStep(r) == Tick(r) \/ Progress(r) \/ TickerEnds(r)

FollowerStep(f) == Replay(f) \/ Forward(f) \/ StreamEnds(f)

Next ==
    \/ \E r \in RunIDs : Take(r) \/ RunStep(r) \/ TickerStep(r)
    \/ Debug \/ DebugEnds
    \/ \E k \in Cancelers, r \in Named : Cancel(k, r)
    \/ \E k \in Cancelers : CancelStop(k)
    \/ \E f \in Followers, r \in Named : Follow(f, r)
    \/ \E f \in Followers : FollowerStep(f) \/ Leave(f)

\* Goroutines are scheduled, a load and a debug iteration end (RunEnds of Engine and of
\* Iteration, except for the calls named there), and a client that stays reads.  Nobody
\* has to start, cancel, follow or leave.
Fairness ==
    /\ \A r \in RunIDs : WF_vars(RunStep(r))
    /\ \A r \in RunIDs : WF_vars(TickerStep(r))
    /\ \A k \in Cancelers : WF_vars(CancelStop(k))
    /\ \A f \in Followers : WF_vars(FollowerStep(f))
    /\ WF_vars(DebugEnds)

Spec     == Init /\ [][Next]_vars
FairSpec == Spec /\ Fairness

-----------------------------------------------------------------------------
\* Two loads on one machine fight for the CPU, so a server without -concurrent
\* lets one run or debug iteration in at a time, and is busy exactly while one is:
\* a 409 always has a cause.
OneAtATime ==
    ~Concurrent =>
        /\ Cardinality(Holding) + (IF debugging THEN 1 ELSE 0) <= 1
        /\ busy <=> (Holding # {} \/ debugging)

\* A cancel is never lost, even one that found the run before startRun gave it a
\* context: once flag and context are both there, the context is canceled or
\* somebody is about to do it.
CancelReachesContext ==
    \A r \in RunIDs : canceled[r] /\ armed[r] =>
        \/ stopped[r]
        \/ pc[r] = "armstop"
        \/ \E k \in Cancelers : stopping[k] = r

\* append sends to a channel only while it is open, although the progress
\* goroutine may still append after the run closed its watchers: a send on a
\* closed channel panics.
NoSendToClosedWatcher == \A r \in RunIDs : \A f \in watchers[r] : ~liveClosed[f]

\* What a follower saw, is replaying and has in its channel.
Delivered(f) == seen[f] \o replay[f] \o live[f]

\* No line is lost or doubled where the replay ends and the live part begins: as
\* long as the follower's channel did not overflow, it gets exactly the lines of
\* the run while it is registered, and everything up to the end of the run at
\* least once it no longer is.  A line the progress goroutine appends to a closed
\* run reaches only the followers that come after it.
NoGapAtHandover ==
    \A f \in Followers, r \in RunIDs : follows[f] = r /\ missed[f] = 0 =>
        LET got == Delivered(f)
        IN  IF f \in watchers[r]
            THEN got = lines[r]
            ELSE /\ got = SubSeq(lines[r], 1, Len(got))
                 /\ \E i \in DOMAIN got : got[i] \in FinalLine

\* Whoever reads in the stream how the run ended, or sees the stream end, finds
\* the run settled when it asks for the result next.
EndSeenMeansSettled ==
    \A f \in Followers, r \in RunIDs : follows[f] = r =>
        /\ \A i \in DOMAIN seen[f] : seen[f][i] \in FinalLine => status[r] = seen[f][i]
        /\ stage[f] = "ended" => status[r] \in Settled

\* Every run gives the server back, whichever way it ends.
ServerComesFree == busy ~> ~busy

\* The stream of every run that was taken up ends for a client that stays.
EveryStreamEnds == \A f \in Followers : stage[f] = "replay" ~> stage[f] \in {"ended", "left"}

\* The comment in runStore.finish: "a canceled run never becomes done".  A cancel
\* answered 202 that arrives after finish looked at the flag does.
CanceledNeverDone == \A r \in accepted : status[r] # "done"

\* docs/api-servidor.md on the stream: "the last line is always the verdict".
\* Stated of runs that end with a verdict, for clients that stay to the end.
LastLineIsVerdict ==
    \A f \in Followers : stage[f] = "ended" /\ status[follows[f]] = "done" =>
        seen[f][Len(seen[f])] = "done"
=============================================================================
