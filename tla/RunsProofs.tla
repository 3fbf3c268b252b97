----------------------------- MODULE RunsProofs -----------------------------
(***************************************************************************)
(* Proofs about Runs, for any number of runs, cancelers and followers, any *)
(* buffer and any number of progress ticks.                                *)
(***************************************************************************)
EXTENDS Runs, SequenceTheorems, FiniteSetTheorems, TLAPS

Early == {"none", "taken"}
Over  == {"close", "release", "gone"}

\* Without -concurrent the flag says whether somebody is in, and only one is.
AdmissionInv ==
    ~Concurrent =>
        /\ \A r, s \in Holding : r = s
        /\ debugging => Holding = {}
        /\ busy <=> (Holding # {} \/ debugging)

\* What each stage of a run has established about its outcome.
OutcomeInv ==
    \A r \in RunIDs :
        /\ pc[r] \in Early <=> status[r] = "none"
        /\ status[r] \in Settled <=> pc[r] \in {"say"} \cup Over
        /\ pc[r] = "settle" => ending[r] \in Settled
        /\ pc[r] \in {"say"} \cup Over => ending[r] = status[r]
        /\ closed[r] <=> pc[r] \in {"release", "gone"}

\* The last line is written after the outcome, and once: before the run closes.
LinesInv ==
    \A r \in RunIDs :
        /\ \A i \in DOMAIN lines[r] : lines[r][i] \in FinalLine =>
              pc[r] \in Over /\ lines[r][i] = status[r]
        /\ pc[r] \in Over => \E i \in DOMAIN lines[r] : lines[r][i] \in FinalLine

\* A follower is registered with the run it follows until that run closes, and
\* then its channel is closed.
WatcherInv ==
    \A f \in Followers :
        /\ stage[f] = "idle" <=> follows[f] = NoRun
        /\ stage[f] = "idle" => /\ seen[f] = <<>> /\ replay[f] = <<>> /\ live[f] = <<>>
                                /\ missed[f] = 0 /\ ~liveClosed[f]
        /\ stage[f] = "live" => replay[f] = <<>>
        /\ stage[f] = "ended" => liveClosed[f]
        /\ \A r \in RunIDs : f \in watchers[r] => follows[f] = r /\ ~closed[r] /\ ~liveClosed[f]
        /\ \A r \in RunIDs : follows[f] = r =>
              /\ status[r] # "none"
              /\ f \notin watchers[r] => closed[r]
              /\ liveClosed[f] => closed[r]

\* s holds a final line only if it is the outcome of run r.
Truthful(s, r) == \A i \in DOMAIN s : s[i] \in FinalLine => s[i] = status[r]

\* What is on its way to a follower tells the outcome of its run, or none.
TruthInv ==
    \A f \in Followers, r \in RunIDs : follows[f] = r =>
        Truthful(seen[f], r) /\ Truthful(replay[f], r) /\ Truthful(live[f], r)

\* What a follower got is never longer than what was written.
HandoverInv ==
    \A f \in Followers, r \in RunIDs : follows[f] = r /\ missed[f] = 0 =>
        /\ f \in watchers[r] => Delivered(f) = lines[r]
        /\ f \notin watchers[r] =>
              /\ Len(Delivered(f)) <= Len(lines[r])
              /\ Delivered(f) = SubSeq(lines[r], 1, Len(Delivered(f)))
              /\ \E i \in DOMAIN Delivered(f) : Delivered(f)[i] \in FinalLine

IInv == /\ TypeOK /\ AdmissionInv /\ OutcomeInv /\ CancelReachesContext
        /\ LinesInv /\ WatcherInv /\ TruthInv /\ HandoverInv

-----------------------------------------------------------------------------
(* Sequences of lines.                                                      *)

\* Replaying the first line of what is left moves it, and changes nothing else.
LEMMA MoveHead ==
  \A s, t, u \in Seq(Line) : t # <<>> => Append(s, Head(t)) \o Tail(t) \o u = s \o t \o u
  <1> SUFFICES ASSUME NEW s \in Seq(Line), NEW t \in Seq(Line), NEW u \in Seq(Line), t # <<>>
               PROVE  Append(s, Head(t)) \o Tail(t) \o u = s \o t \o u
    OBVIOUS
  <1>1. /\ Head(t) \in Line /\ Head(t) = t[1] /\ Tail(t) \in Seq(Line)
        /\ Len(Tail(t)) = Len(t) - 1
        /\ \A i \in 1 .. Len(Tail(t)) : Tail(t)[i] = t[i + 1]
    BY HeadTailProperties
  <1>2. /\ Append(s, Head(t)) \in Seq(Line) /\ Len(Append(s, Head(t))) = Len(s) + 1
        /\ \A i \in 1 .. Len(s) : Append(s, Head(t))[i] = s[i]
        /\ Append(s, Head(t))[Len(s) + 1] = Head(t)
    BY <1>1, AppendProperties
  <1>3. Len(s) \in Nat /\ Len(t) \in Nat
    BY LenProperties
  <1> DEFINE a == Append(s, Head(t))
             b == Tail(t)
  <1>4. /\ s \o t \in Seq(Line) /\ Len(s \o t) = Len(s) + Len(t)
        /\ \A i \in 1 .. Len(s) + Len(t) :
              (s \o t)[i] = IF i <= Len(s) THEN s[i] ELSE t[i - Len(s)]
    BY ConcatProperties
  <1>5. /\ a \o b \in Seq(Line) /\ Len(a \o b) = Len(a) + Len(b)
        /\ \A i \in 1 .. Len(a) + Len(b) :
              (a \o b)[i] = IF i <= Len(a) THEN a[i] ELSE b[i - Len(a)]
    BY <1>1, <1>2, ConcatProperties
  <1> HIDE DEF a, b
  <1>6. Len(a \o b) = Len(s \o t)
    BY <1>1, <1>2, <1>3, <1>4, <1>5 DEF a, b
  <1>7. ASSUME NEW i \in 1 .. Len(a \o b) PROVE (a \o b)[i] = (s \o t)[i]
    <2>1. CASE i <= Len(s)
      BY <2>1, <1>1, <1>2, <1>3, <1>4, <1>5 DEF a, b
    <2>2. CASE i = Len(s) + 1
      BY <2>2, <1>1, <1>2, <1>3, <1>4, <1>5 DEF a, b
    <2>3. CASE i > Len(s) + 1
      <3>1. i - Len(a) \in 1 .. Len(b) /\ (a \o b)[i] = b[i - Len(a)]
        BY <2>3, <1>1, <1>2, <1>3, <1>5 DEF a, b
      <3>2. b[i - Len(a)] = t[i - Len(a) + 1]
        BY <3>1, <1>1 DEF b
      <3> QED
        BY <3>1, <3>2, <2>3, <1>1, <1>2, <1>3, <1>4, <1>6 DEF a
    <2> QED
      BY <2>1, <2>2, <2>3, <1>3, <1>4, <1>6
  <1>8. a \o b = s \o t
    BY <1>4, <1>5, <1>6, <1>7, SeqEqual
  <1> QED
    BY <1>8 DEF a, b

\* A line appended to the channel comes last in what the follower gets.
LEMMA AppendLast ==
  \A s, t, u \in Seq(Line), e \in Line : s \o t \o Append(u, e) = Append(s \o t \o u, e)
  <1> SUFFICES ASSUME NEW s \in Seq(Line), NEW t \in Seq(Line), NEW u \in Seq(Line),
                      NEW e \in Line
               PROVE  s \o t \o Append(u, e) = Append(s \o t \o u, e)
    OBVIOUS
  <1>1. s \o t \in Seq(Line) /\ s \o t \o u \in Seq(Line) /\ <<e>> \in Seq(Line)
    BY ConcatProperties
  <1>2. Append(u, e) = u \o <<e>> /\ Append(s \o t \o u, e) = (s \o t \o u) \o <<e>>
    BY <1>1, AppendIsConcat
  <1> QED
    BY <1>1, <1>2, ConcatAssociative

\* A line appended to a run leaves every prefix of its lines alone.
LEMMA PrefixKept ==
  ASSUME NEW s \in Seq(Line), NEW e \in Line, NEW n \in 0 .. Len(s)
  PROVE  SubSeq(Append(s, e), 1, n) = SubSeq(s, 1, n)
  <1>1. \A i \in 1 .. n : s[i] \in Line /\ Append(s, e)[i] = s[i]
    BY AppendProperties, ElementOfSeq, LenProperties
  <1>2. /\ SubSeq(s, 1, n) \in Seq(Line) /\ Len(SubSeq(s, 1, n)) = n
        /\ \A i \in 1 .. n : SubSeq(s, 1, n)[i] = s[i]
    BY <1>1, SubSeqProperties, LenProperties
  <1>3. /\ SubSeq(Append(s, e), 1, n) \in Seq(Line) /\ Len(SubSeq(Append(s, e), 1, n)) = n
        /\ \A i \in 1 .. n : SubSeq(Append(s, e), 1, n)[i] = Append(s, e)[i]
    BY <1>1, SubSeqProperties, LenProperties
  <1> QED
    BY <1>1, <1>2, <1>3, SeqEqual

\* What an append puts into a sequence, and what taking the head leaves in it.
LEMMA ElementsOf ==
  \A s \in Seq(Line) :
     /\ \A e \in Line :
           /\ \A i \in DOMAIN Append(s, e) :
                 Append(s, e)[i] = e \/ \E j \in DOMAIN s : Append(s, e)[i] = s[j]
           /\ \A j \in DOMAIN s : \E i \in DOMAIN Append(s, e) : Append(s, e)[i] = s[j]
           /\ \E i \in DOMAIN Append(s, e) : Append(s, e)[i] = e
     /\ s # <<>> => /\ \E j \in DOMAIN s : Head(s) = s[j]
                    /\ \A i \in DOMAIN Tail(s) : \E j \in DOMAIN s : Tail(s)[i] = s[j]
  <1> TAKE s \in Seq(Line)
  <1>1. Len(s) \in Nat /\ DOMAIN s = 1 .. Len(s)
    BY LenProperties
  <1>2. ASSUME NEW e \in Line
        PROVE  /\ \A i \in DOMAIN Append(s, e) :
                     Append(s, e)[i] = e \/ \E j \in DOMAIN s : Append(s, e)[i] = s[j]
               /\ \A j \in DOMAIN s : \E i \in DOMAIN Append(s, e) : Append(s, e)[i] = s[j]
               /\ \E i \in DOMAIN Append(s, e) : Append(s, e)[i] = e
    <2>1. /\ DOMAIN Append(s, e) = 1 .. (Len(s) + 1)
          /\ \A i \in 1 .. Len(s) : Append(s, e)[i] = s[i]
          /\ Append(s, e)[Len(s) + 1] = e
      BY AppendProperties, LenProperties
    <2> QED
      BY <1>1, <2>1
  <1>3. ASSUME s # <<>>
        PROVE  /\ \E j \in DOMAIN s : Head(s) = s[j]
               /\ \A i \in DOMAIN Tail(s) : \E j \in DOMAIN s : Tail(s)[i] = s[j]
    <2>1. /\ Len(s) >= 1 /\ Head(s) = s[1]
          /\ DOMAIN Tail(s) = 1 .. (Len(s) - 1)
          /\ \A i \in 1 .. (Len(s) - 1) : Tail(s)[i] = s[i + 1]
      BY <1>1, <1>3, HeadTailProperties, LenProperties, EmptySeq
    <2>2. ASSUME NEW i \in DOMAIN Tail(s) PROVE i + 1 \in DOMAIN s /\ Tail(s)[i] = s[i + 1]
      BY <1>1, <2>1
    <2> QED
      BY <1>1, <2>1, <2>2
  <1> QED
    BY <1>2, <1>3

-----------------------------------------------------------------------------
(* The initial state, and append.                                           *)

\* The server starts with the inductive invariant: nobody in, nobody following.
LEMMA InitIInv == Init => IInv
  <1> SUFFICES ASSUME Init PROVE IInv
    OBVIOUS
  <1> USE RunsAssumption DEF Init, Early, Over, Settled, FinalLine
  <1>1. TypeOK
    <2>1. /\ <<>> \in Seq(Line) /\ 0 \in 0 .. MaxTicks
      BY DEF Line
    <2>2. /\ lines \in [RunIDs -> Seq(Line)] /\ replay \in [Followers -> Seq(Line)]
          /\ live \in [Followers -> Seq(Line)] /\ seen \in [Followers -> Seq(Line)]
      BY <2>1
    <2>3. /\ ticks \in [RunIDs -> 0 .. MaxTicks] /\ missed \in [Followers -> Nat]
          /\ watchers \in [RunIDs -> SUBSET Followers]
          /\ stopping \in [Cancelers -> RunIDs \cup {NoRun}]
          /\ follows \in [Followers -> RunIDs \cup {NoRun}]
      BY <2>1
    <2> QED
      BY <2>2, <2>3 DEF TypeOK
  <1>2. AdmissionInv /\ OutcomeInv /\ CancelReachesContext
    BY DEF AdmissionInv, Holding, OutcomeInv, CancelReachesContext
  <1>3. LinesInv /\ WatcherInv
    BY DEF LinesInv, WatcherInv
  <1>4. TruthInv /\ HandoverInv
    BY DEF TruthInv, HandoverInv
  <1> QED
    BY <1>1, <1>2, <1>3, <1>4 DEF IInv

\* What append does to a line of every run and to the channel of every follower.
LEMMA AppendEffect ==
  ASSUME TypeOK, NEW r \in RunIDs, NEW line \in Line, AppendLine(r, line)
  PROVE  /\ lines' \in [RunIDs -> Seq(Line)]
         /\ \A q \in RunIDs : lines'[q] = IF q = r THEN Append(lines[r], line) ELSE lines[q]
         /\ live' \in [Followers -> Seq(Line)]
         /\ \A f \in Followers :
               live'[f] = IF f \in watchers[r] /\ ~Full(f) THEN Append(live[f], line)
                                                           ELSE live[f]
         /\ missed' \in [Followers -> Nat]
         /\ \A f \in Followers :
               missed'[f] = IF f \in watchers[r] /\ Full(f) THEN missed[f] + 1 ELSE missed[f]
  <1>1. Append(lines[r], line) \in Seq(Line)
    BY AppendProperties DEF TypeOK
  <1>2. \A f \in Followers : Append(live[f], line) \in Seq(Line)
    BY AppendProperties DEF TypeOK
  <1> QED
    BY <1>1, <1>2 DEF TypeOK, AppendLine

\* A line of run r that does not lie about its outcome keeps what the followers
\* were promised, whether they watch the run, only follow it or follow another.
LEMMA AppendKeeps ==
  ASSUME IInv, NEW r \in RunIDs, NEW line \in Line, AppendLine(r, line),
         UNCHANGED <<follows, stage, replay, seen>>,
         line \in FinalLine => line = status'[r],
         \A f \in Followers, q \in RunIDs : follows[f] = q => status'[q] = status[q]
  PROVE  WatcherInv' /\ TruthInv' /\ HandoverInv'
  <1> USE DEF IInv
  <1>1. /\ UNCHANGED <<closed, watchers, liveClosed>>
        /\ \A q \in RunIDs : watchers[q] \subseteq Followers
        /\ \A f \in Followers : /\ live[f] \in Seq(Line) /\ seen[f] \in Seq(Line)
                                /\ replay[f] \in Seq(Line) /\ missed[f] \in Nat
        /\ \A q \in RunIDs : lines[q] \in Seq(Line)
    BY DEF TypeOK, AppendLine
  <1>2. \A f \in Followers : f \in watchers[r] => follows[f] = r /\ stage[f] # "idle"
    BY RunsAssumption DEF WatcherInv
  <1>e. /\ \A q \in RunIDs : lines'[q] = IF q = r THEN Append(lines[r], line) ELSE lines[q]
        /\ \A f \in Followers :
              live'[f] = IF f \in watchers[r] /\ ~Full(f) THEN Append(live[f], line)
                                                          ELSE live[f]
        /\ \A f \in Followers :
              missed'[f] = IF f \in watchers[r] /\ Full(f) THEN missed[f] + 1 ELSE missed[f]
    BY AppendEffect
  <1>3. WatcherInv'
    <2>1. \A f \in Followers : stage[f] = "idle" => live'[f] = live[f] /\ missed'[f] = missed[f]
      BY <1>2, <1>e
    <2> QED
      BY <2>1, <1>1 DEF WatcherInv
  <1>4. TruthInv'
    <2> SUFFICES ASSUME NEW f \in Followers, NEW q \in RunIDs, follows[f] = q
                 PROVE  /\ Truthful(seen[f], q)' /\ Truthful(replay[f], q)'
                        /\ Truthful(live[f], q)'
      BY DEF TruthInv
    <2>1. status'[q] = status[q]
      OBVIOUS
    <2>2. Truthful(seen[f], q)' /\ Truthful(replay[f], q)'
      BY <2>1 DEF TruthInv, Truthful
    <2>3. CASE f \in watchers[r] /\ ~Full(f)
      <3>1. live'[f] = Append(live[f], line) /\ q = r
        BY <2>3, <1>2, <1>e
      <3>2. \A i \in DOMAIN live'[f] :
               live'[f][i] = line \/ \E j \in DOMAIN live[f] : live'[f][i] = live[f][j]
        BY <3>1, <1>1, ElementsOf, SMTT(30)
      <3> QED
        BY <2>1, <2>2, <3>1, <3>2 DEF TruthInv, Truthful
    <2>4. CASE ~(f \in watchers[r] /\ ~Full(f))
      <3>1. live'[f] = live[f]
        BY <2>4, <1>e
      <3> QED
        BY <2>1, <2>2, <3>1 DEF TruthInv, Truthful
    <2> QED
      BY <2>3, <2>4
  <1>5. HandoverInv'
    <2> SUFFICES ASSUME NEW f \in Followers, NEW q \in RunIDs, follows[f] = q, missed'[f] = 0
                 PROVE  /\ f \in watchers[q] => Delivered(f)' = lines'[q]
                        /\ f \notin watchers[q] =>
                              /\ Len(Delivered(f)') <= Len(lines'[q])
                              /\ Delivered(f)' = SubSeq(lines'[q], 1, Len(Delivered(f)'))
                              /\ \E i \in DOMAIN Delivered(f)' : Delivered(f)'[i] \in FinalLine
      BY <1>1 DEF HandoverInv
    <2>1. missed[f] = 0 /\ ~(f \in watchers[r] /\ Full(f))
      BY <1>1, <1>e
    <2>2. CASE f \in watchers[r]
      <3>1. q = r /\ live'[f] = Append(live[f], line) /\ lines'[q] = Append(lines[q], line)
        BY <1>2, <2>1, <2>2, <1>e
      <3>2. Delivered(f) = lines[q]
        BY <2>1, <2>2, <3>1 DEF HandoverInv
      <3>3. Delivered(f)' = Append(Delivered(f), line)
        <4> HIDE DEF IInv
        <4>1. seen[f] \in Seq(Line) /\ replay[f] \in Seq(Line) /\ live[f] \in Seq(Line)
          BY <1>1
        <4>2. seen[f] \o replay[f] \o Append(live[f], line)
                 = Append(seen[f] \o replay[f] \o live[f], line)
          BY <4>1, AppendLast, ZenonT(30)
        <4> QED
          BY <4>2, <3>1 DEF Delivered
      <3> QED
        BY <2>2, <3>1, <3>2, <3>3
    <2>3. CASE f \notin watchers[r] /\ q # r
      <3>1. Delivered(f)' = Delivered(f) /\ lines'[q] = lines[q]
        BY <2>3, <1>e DEF Delivered
      <3> QED
        BY <2>1, <3>1 DEF HandoverInv
    <2>4. CASE f \notin watchers[r] /\ q = r
      <3>1. Delivered(f)' = Delivered(f) /\ lines'[q] = Append(lines[q], line)
        BY <2>4, <1>e DEF Delivered
      <3>2. /\ Len(Delivered(f)) <= Len(lines[q])
            /\ Delivered(f) = SubSeq(lines[q], 1, Len(Delivered(f)))
            /\ \E i \in DOMAIN Delivered(f) : Delivered(f)[i] \in FinalLine
        BY <2>1, <2>4 DEF HandoverInv
      <3>3. Delivered(f) \in Seq(Line)
        BY <1>1, ConcatProperties DEF Delivered
      <3>4. Len(Delivered(f)) \in 0 .. Len(lines[q])
        BY <1>1, <3>2, <3>3, LenProperties
      <3>5. SubSeq(lines'[q], 1, Len(Delivered(f))) = SubSeq(lines[q], 1, Len(Delivered(f)))
        BY <1>1, <3>1, <3>4, PrefixKept
      <3>6. Len(lines'[q]) = Len(lines[q]) + 1 /\ Len(lines[q]) \in Nat
        BY <1>1, <3>1, AppendProperties, LenProperties
      <3>7. Len(Delivered(f)) <= Len(lines'[q])
        BY <3>4, <3>6
      <3> QED
        BY <2>4, <3>1, <3>2, <3>5, <3>7, Zenon
    <2> QED
      BY <2>2, <2>3, <2>4
  <1> QED
    BY <1>3, <1>4, <1>5

-----------------------------------------------------------------------------
(* The steps.                                                               *)

\* Each part of the invariant speaks of some variables only.
LEMMA Frames ==
  ASSUME IInv
  PROVE  /\ UNCHANGED <<pc, busy, debugging>> => AdmissionInv'
         /\ UNCHANGED <<pc, status, ending, closed>> => OutcomeInv'
         /\ UNCHANGED <<pc, canceled, armed, stopped, stopping>> => CancelReachesContext'
         /\ UNCHANGED <<pc, status, lines>> => LinesInv'
         /\ UNCHANGED <<follows, stage, seen, replay, live, liveClosed, missed, watchers,
                        closed, status>> => WatcherInv'
         /\ UNCHANGED <<follows, seen, replay, live, status>> => TruthInv'
         /\ UNCHANGED <<follows, missed, watchers, seen, replay, live, lines>> => HandoverInv'
  <1> USE DEF IInv
  <1>1. UNCHANGED <<pc, busy, debugging>> => AdmissionInv'
    BY DEF AdmissionInv, Holding
  <1>2. UNCHANGED <<pc, status, ending, closed>> => OutcomeInv'
    BY DEF OutcomeInv
  <1>3. UNCHANGED <<pc, canceled, armed, stopped, stopping>> => CancelReachesContext'
    BY DEF CancelReachesContext
  <1>4. UNCHANGED <<pc, status, lines>> => LinesInv'
    BY DEF LinesInv
  <1>5. UNCHANGED <<follows, stage, seen, replay, live, liveClosed, missed, watchers, closed,
                    status>> => WatcherInv'
    BY DEF WatcherInv
  <1>6. UNCHANGED <<follows, seen, replay, live, status>> => TruthInv'
    BY DEF TruthInv, Truthful
  <1>7. UNCHANGED <<follows, missed, watchers, seen, replay, live, lines>> => HandoverInv'
    BY DEF HandoverInv, Delivered
  <1> QED
    BY <1>1, <1>2, <1>3, <1>4, <1>5, <1>6, <1>7

\* A run that goes on holding the server changes nothing about who holds it.
LEMMA MoveKeepsAdmission ==
  ASSUME IInv, NEW r \in RunIDs, NEW p, pc' = [pc EXCEPT ![r] = p],
         pc[r] \notin {"none", "gone"}, p \notin {"none", "gone"}, UNCHANGED server
  PROVE  AdmissionInv'
  <1>1. Holding' = Holding
    BY DEF Holding, IInv, TypeOK
  <1> QED
    BY <1>1 DEF IInv, AdmissionInv, server

\* Moving on to a place where the last line is neither due nor written.
LEMMA MoveKeepsLines ==
  ASSUME IInv, NEW r \in RunIDs, NEW p, pc' = [pc EXCEPT ![r] = p],
         (pc[r] \notin Over /\ p \notin Over) \/ (pc[r] \in Over /\ p \in Over),
         UNCHANGED lines,
         pc[r] \in Over => status'[r] = status[r],
         \A q \in RunIDs \ {r} : status'[q] = status[q]
  PROVE  LinesInv'
  <1>1. \A q \in RunIDs : pc'[q] = IF q = r THEN p ELSE pc[q]
    BY DEF IInv, TypeOK
  <1> QED
    BY <1>1 DEF IInv, LinesInv

\* take lets a run in.
LEMMA TakeKeeps ==
  ASSUME IInv, NEW r \in RunIDs, Take(r)
  PROVE  IInv'
  <1> USE RunsAssumption DEF Take, CanTake, BusyOnceTaken, server, outcomes, cancels, progress, store, channels,
             streams
  <1>1. TypeOK'
    BY DEF IInv, TypeOK, Settled
  <1>2. AdmissionInv'
    <2>1. r \notin Holding /\ Holding' = Holding \cup {r}
      BY DEF IInv, TypeOK, Holding
    <2>2. ~Concurrent => Holding = {} /\ ~debugging /\ busy'
      BY DEF IInv, AdmissionInv
    <2> QED
      BY <2>1, <2>2 DEF AdmissionInv
  <1>3. OutcomeInv'
    BY DEF IInv, TypeOK, OutcomeInv, Early, Over, Settled
  <1>4. CancelReachesContext'
    BY DEF IInv, TypeOK, CancelReachesContext
  <1>5. LinesInv'
    BY MoveKeepsLines DEF Over
  <1>6. WatcherInv' /\ TruthInv' /\ HandoverInv'
    BY Frames
  <1> QED
    BY <1>1, <1>2, <1>3, <1>4, <1>5, <1>6 DEF IInv

\* take lets a debug iteration in.
LEMMA DebugKeeps ==
  ASSUME IInv, Debug
  PROVE  IInv'
  <1> USE RunsAssumption DEF Debug, CanTake, BusyOnceTaken, server, outcomes, cancels, progress, store, channels,
             streams
  <1>1. TypeOK'
    BY DEF IInv, TypeOK, Settled
  <1>2. AdmissionInv'
    <2>1. Holding' = Holding
      BY DEF Holding
    <2> QED
      BY <2>1 DEF IInv, AdmissionInv
  <1>3. OutcomeInv' /\ CancelReachesContext' /\ LinesInv' /\ WatcherInv' /\ TruthInv' /\ HandoverInv'
    BY Frames
  <1> QED
    BY <1>1, <1>2, <1>3 DEF IInv

\* The debug iteration gives the server back.
LEMMA DebugEndsKeeps ==
  ASSUME IInv, DebugEnds
  PROVE  IInv'
  <1> USE RunsAssumption DEF DebugEnds, server, outcomes, cancels, progress, store, channels,
             streams
  <1>1. TypeOK'
    BY DEF IInv, TypeOK, Settled
  <1>2. AdmissionInv'
    BY DEF IInv, TypeOK, AdmissionInv, Holding
  <1>3. OutcomeInv' /\ CancelReachesContext' /\ LinesInv' /\ WatcherInv' /\ TruthInv' /\ HandoverInv'
    BY Frames
  <1> QED
    BY <1>1, <1>2, <1>3 DEF IInv

\* startRun gives the run its context, and notices an earlier cancel.
LEMMA ArmKeeps ==
  ASSUME IInv, NEW r \in RunIDs, Arm(r)
  PROVE  IInv'
  <1> USE RunsAssumption DEF Arm, AfterArming, server, outcomes, cancels, progress, store, channels,
             streams
  <1>1. TypeOK'
    BY DEF IInv, TypeOK, Settled
  <1>2. AdmissionInv'
    BY MoveKeepsAdmission, ZenonT(30)
  <1>3. OutcomeInv'
    BY DEF IInv, TypeOK, OutcomeInv, Early, Over, Settled
  <1>4. CancelReachesContext'
    BY DEF IInv, TypeOK, CancelReachesContext
  <1>5. LinesInv'
    BY MoveKeepsLines DEF Over
  <1>6. WatcherInv' /\ TruthInv' /\ HandoverInv'
    BY Frames
  <1> QED
    BY <1>1, <1>2, <1>3, <1>4, <1>5, <1>6 DEF IInv

\* startRun cancels the context it just made.
LEMMA ArmStopKeeps ==
  ASSUME IInv, NEW r \in RunIDs, ArmStop(r)
  PROVE  IInv'
  <1> USE RunsAssumption DEF ArmStop, server, outcomes, cancels, progress, store, channels,
             streams
  <1>1. TypeOK'
    BY DEF IInv, TypeOK, Settled
  <1>2. AdmissionInv'
    BY MoveKeepsAdmission
  <1>3. OutcomeInv'
    BY DEF IInv, TypeOK, OutcomeInv, Early, Over, Settled
  <1>4. CancelReachesContext'
    BY DEF IInv, TypeOK, CancelReachesContext
  <1>5. LinesInv'
    BY MoveKeepsLines DEF Over
  <1>6. WatcherInv' /\ TruthInv' /\ HandoverInv'
    BY Frames
  <1> QED
    BY <1>1, <1>2, <1>3, <1>4, <1>5, <1>6 DEF IInv

\* Execute fails before any load.
LEMMA ExecuteFailsKeeps ==
  ASSUME IInv, NEW r \in RunIDs, ExecuteFails(r)
  PROVE  IInv'
  <1> USE RunsAssumption DEF ExecuteFails, server, outcomes, cancels, progress, store, channels,
             streams
  <1>1. TypeOK'
    BY DEF IInv, TypeOK, Settled
  <1>2. AdmissionInv'
    BY MoveKeepsAdmission
  <1>3. OutcomeInv'
    BY DEF IInv, TypeOK, OutcomeInv, Early, Over, Settled
  <1>4. CancelReachesContext'
    BY DEF IInv, TypeOK, CancelReachesContext
  <1>5. LinesInv'
    BY MoveKeepsLines DEF Over
  <1>6. WatcherInv' /\ TruthInv' /\ HandoverInv'
    BY Frames
  <1> QED
    BY <1>1, <1>2, <1>3, <1>4, <1>5, <1>6 DEF IInv

\* Execute starts the progress goroutine and the load.
LEMMA DriveKeeps ==
  ASSUME IInv, NEW r \in RunIDs, Drive(r)
  PROVE  IInv'
  <1> USE RunsAssumption DEF Drive, server, outcomes, cancels, progress, store, channels,
             streams
  <1>1. TypeOK'
    BY DEF IInv, TypeOK, Settled
  <1>2. AdmissionInv'
    BY MoveKeepsAdmission
  <1>3. OutcomeInv'
    BY DEF IInv, TypeOK, OutcomeInv, Early, Over, Settled
  <1>4. CancelReachesContext'
    BY DEF IInv, TypeOK, CancelReachesContext
  <1>5. LinesInv'
    BY MoveKeepsLines DEF Over
  <1>6. WatcherInv' /\ TruthInv' /\ HandoverInv'
    BY Frames
  <1> QED
    BY <1>1, <1>2, <1>3, <1>4, <1>5, <1>6 DEF IInv

\* The load ends.
LEMMA DriveEndsKeeps ==
  ASSUME IInv, NEW r \in RunIDs, DriveEnds(r)
  PROVE  IInv'
  <1> USE RunsAssumption DEF DriveEnds, server, outcomes, cancels, progress, store, channels,
             streams
  <1>1. TypeOK'
    BY DEF IInv, TypeOK, Settled
  <1>2. AdmissionInv'
    BY MoveKeepsAdmission
  <1>3. OutcomeInv'
    BY DEF IInv, TypeOK, OutcomeInv, Early, Over, Settled
  <1>4. CancelReachesContext'
    BY DEF IInv, TypeOK, CancelReachesContext
  <1>5. LinesInv'
    BY MoveKeepsLines DEF Over
  <1>6. WatcherInv' /\ TruthInv' /\ HandoverInv'
    BY Frames
  <1> QED
    BY <1>1, <1>2, <1>3, <1>4, <1>5, <1>6 DEF IInv

\* finish decides the outcome.
LEMMA LookKeeps ==
  ASSUME IInv, NEW r \in RunIDs, Look(r)
  PROVE  IInv'
  <1> USE RunsAssumption DEF Look, OutcomeOf, server, outcomes, cancels, progress, store, channels,
             streams
  <1>1. TypeOK'
    BY DEF IInv, TypeOK, Settled
  <1>2. AdmissionInv'
    BY MoveKeepsAdmission
  <1>3. OutcomeInv'
    BY DEF IInv, TypeOK, OutcomeInv, Early, Over, Settled
  <1>4. CancelReachesContext'
    BY DEF IInv, TypeOK, CancelReachesContext
  <1>5. LinesInv'
    BY MoveKeepsLines DEF Over
  <1>6. WatcherInv' /\ TruthInv' /\ HandoverInv'
    BY Frames
  <1> QED
    BY <1>1, <1>2, <1>3, <1>4, <1>5, <1>6 DEF IInv

\* finish settles the outcome: no final line is on its way yet.
LEMMA SettleKeeps ==
  ASSUME IInv, NEW r \in RunIDs, Settle(r)
  PROVE  IInv'
  <1> USE RunsAssumption DEF Settle, server, outcomes, cancels, progress, store, channels,
             streams
  <1>1. TypeOK'
    BY DEF IInv, TypeOK, OutcomeInv, Settled
  <1>2. AdmissionInv'
    BY MoveKeepsAdmission
  <1>3. OutcomeInv'
    BY DEF IInv, TypeOK, OutcomeInv, Early, Over, Settled
  <1>4. CancelReachesContext'
    BY DEF IInv, TypeOK, CancelReachesContext
  <1>5. LinesInv'
    <2>1. \A q \in RunIDs \ {r} : status'[q] = status[q]
      BY DEF IInv, TypeOK
    <2> QED
      BY <2>1, MoveKeepsLines DEF Over
  <1>6. WatcherInv'
    <2>1. \A q \in RunIDs : status[q] # "none" => status'[q] # "none"
      BY ZenonT(30) DEF IInv, TypeOK, OutcomeInv, Settled
    <2> QED
      BY <2>1 DEF IInv, WatcherInv
  <1>7. TruthInv'
    BY DEF IInv, TypeOK, OutcomeInv, TruthInv, Truthful, FinalLine, Settled, Over
  <1>8. HandoverInv'
    BY Frames
  <1> QED
    BY <1>1, <1>2, <1>3, <1>4, <1>5, <1>6, <1>7, <1>8 DEF IInv

\* The goroutine of the run cancels its context and gives the server back.
LEMMA ReleaseKeeps ==
  ASSUME IInv, NEW r \in RunIDs, Release(r)
  PROVE  IInv'
  <1> USE RunsAssumption DEF Release, BusyAfterRelease, server, outcomes, cancels, progress, store, channels,
             streams
  <1>1. TypeOK'
    BY DEF IInv, TypeOK, Settled
  <1>2. AdmissionInv'
    <2>1. r \in Holding /\ Holding' = Holding \ {r}
      BY DEF IInv, TypeOK, Holding
    <2>2. ~Concurrent => Holding' = {} /\ ~debugging /\ ~busy'
      BY <2>1 DEF IInv, AdmissionInv
    <2> QED
      BY <2>2 DEF AdmissionInv
  <1>3. OutcomeInv'
    BY DEF IInv, TypeOK, OutcomeInv, Early, Over, Settled
  <1>4. CancelReachesContext'
    BY DEF IInv, TypeOK, CancelReachesContext
  <1>5. LinesInv'
    BY MoveKeepsLines DEF Over
  <1>6. WatcherInv' /\ TruthInv' /\ HandoverInv'
    BY Frames
  <1> QED
    BY <1>1, <1>2, <1>3, <1>4, <1>5, <1>6 DEF IInv

\* The progress goroutine ticks.
LEMMA TickKeeps ==
  ASSUME IInv, NEW r \in RunIDs, Tick(r)
  PROVE  IInv'
  <1> USE RunsAssumption DEF Tick, server, outcomes, cancels, progress, store, channels,
             streams
  <1>1. TypeOK'
    BY DEF IInv, TypeOK, Settled
  <1>2. AdmissionInv' /\ OutcomeInv' /\ CancelReachesContext' /\ LinesInv' /\ WatcherInv' /\ TruthInv' /\ HandoverInv'
    BY Frames
  <1> QED
    BY <1>1, <1>2 DEF IInv

\* The progress goroutine ends.
LEMMA TickerEndsKeeps ==
  ASSUME IInv, NEW r \in RunIDs, TickerEnds(r)
  PROVE  IInv'
  <1> USE RunsAssumption DEF TickerEnds, server, outcomes, cancels, progress, store, channels,
             streams
  <1>1. TypeOK'
    BY DEF IInv, TypeOK, Settled
  <1>2. AdmissionInv' /\ OutcomeInv' /\ CancelReachesContext' /\ LinesInv' /\ WatcherInv' /\ TruthInv' /\ HandoverInv'
    BY Frames
  <1> QED
    BY <1>1, <1>2 DEF IInv

\* A client cancels a run that can be found.
LEMMA CancelKeeps ==
  ASSUME IInv, NEW k \in Cancelers, NEW r \in RunIDs, Cancel(k, r)
  PROVE  IInv'
  <1> USE RunsAssumption DEF Cancel, server, outcomes, cancels, progress, store, channels,
             streams
  <1>1. TypeOK'
    BY DEF IInv, TypeOK, Settled
  <1>2. CancelReachesContext'
    BY DEF IInv, TypeOK, CancelReachesContext
  <1>3. AdmissionInv' /\ OutcomeInv' /\ LinesInv' /\ WatcherInv' /\ TruthInv' /\ HandoverInv'
    BY Frames
  <1> QED
    BY <1>1, <1>2, <1>3 DEF IInv

\* cancel stops the context it found.
LEMMA CancelStopKeeps ==
  ASSUME IInv, NEW k \in Cancelers, CancelStop(k)
  PROVE  IInv'
  <1> USE RunsAssumption DEF CancelStop, server, outcomes, cancels, progress, store, channels,
             streams
  <1>1. TypeOK'
    BY DEF IInv, TypeOK, Settled
  <1>2. CancelReachesContext'
    BY DEF IInv, TypeOK, CancelReachesContext
  <1>3. AdmissionInv' /\ OutcomeInv' /\ LinesInv' /\ WatcherInv' /\ TruthInv' /\ HandoverInv'
    BY Frames
  <1> QED
    BY <1>1, <1>2, <1>3 DEF IInv

\* The stream of a follower ends.
LEMMA StreamEndsKeeps ==
  ASSUME IInv, NEW f \in Followers, StreamEnds(f)
  PROVE  IInv'
  <1> USE RunsAssumption DEF StreamEnds, server, outcomes, cancels, progress, store, channels,
             streams
  <1>1. TypeOK'
    BY DEF IInv, TypeOK, Settled
  <1>2. WatcherInv'
    BY DEF IInv, TypeOK, WatcherInv
  <1>3. AdmissionInv' /\ OutcomeInv' /\ CancelReachesContext' /\ LinesInv' /\ TruthInv' /\ HandoverInv'
    BY Frames
  <1> QED
    BY <1>1, <1>2, <1>3 DEF IInv

\* A client hangs up.
LEMMA LeaveKeeps ==
  ASSUME IInv, NEW f \in Followers, Leave(f)
  PROVE  IInv'
  <1> USE RunsAssumption DEF Leave, server, outcomes, cancels, progress, store, channels,
             streams
  <1>1. TypeOK'
    BY DEF IInv, TypeOK, Settled
  <1>2. WatcherInv'
    BY DEF IInv, TypeOK, WatcherInv
  <1>3. AdmissionInv' /\ OutcomeInv' /\ CancelReachesContext' /\ LinesInv' /\ TruthInv' /\ HandoverInv'
    BY Frames
  <1> QED
    BY <1>1, <1>2, <1>3 DEF IInv

\* runStore.start writes the headline of a run nobody can follow yet.
LEMMA PublishKeeps ==
  ASSUME IInv, NEW r \in RunIDs, Publish(r)
  PROVE  IInv'
  <1> USE RunsAssumption DEF Publish, server, outcomes, cancels, progress, store, channels,
             streams
  <1>a. WatcherInv' /\ TruthInv' /\ HandoverInv'
    <2>1. \A f \in Followers, q \in RunIDs : follows[f] = q => status'[q] = status[q]
      BY DEF IInv, TypeOK, OutcomeInv, Early, WatcherInv
    <2>2. "headline" \in Line /\ "headline" \notin FinalLine
      BY DEF Line, FinalLine, Settled
    <2> QED
      BY <2>1, <2>2, AppendKeeps
  <1>b. /\ lines' \in [RunIDs -> Seq(Line)] /\ live' \in [Followers -> Seq(Line)]
        /\ missed' \in [Followers -> Nat]
        /\ \A q \in RunIDs : lines'[q] = IF q = r THEN Append(lines[r], "headline") ELSE lines[q]
        /\ UNCHANGED <<closed, watchers, liveClosed>>
    BY AppendEffect DEF IInv, Line, AppendLine
  <1>1. TypeOK'
    BY <1>b DEF IInv, TypeOK, Settled
  <1>2. AdmissionInv'
    BY MoveKeepsAdmission
  <1>3. OutcomeInv'
    BY <1>b DEF IInv, TypeOK, OutcomeInv, Early, Over, Settled
  <1>4. CancelReachesContext'
    BY DEF IInv, TypeOK, CancelReachesContext
  <1>5. LinesInv'
    <2>1. lines[r] \in Seq(Line) /\ "headline" \in Line /\ lines'[r] = Append(lines[r], "headline")
      BY <1>b DEF IInv, TypeOK, Line, OutcomeInv, FinalLine
    <2>2. /\ \A i \in DOMAIN Append(lines[r], "headline") :
                \/ Append(lines[r], "headline")[i] = "headline"
                \/ \E j \in DOMAIN lines[r] : Append(lines[r], "headline")[i] = lines[r][j]
          /\ \A j \in DOMAIN lines[r] :
                \E i \in DOMAIN Append(lines[r], "headline") : Append(lines[r], "headline")[i] = lines[r][j]
          /\ \E i \in DOMAIN Append(lines[r], "headline") : Append(lines[r], "headline")[i] = "headline"
      BY <2>1, ElementsOf
    <2>3. ASSUME NEW q \in RunIDs, q # r
          PROVE  lines'[q] = lines[q] /\ pc'[q] = pc[q] /\ status'[q] = status[q]
      BY <2>3, <1>b DEF IInv, TypeOK
    <2>4. /\ \A i \in DOMAIN lines'[r] : lines'[r][i] \in FinalLine =>
                pc'[r] \in Over /\ lines'[r][i] = status'[r]
          /\ pc'[r] \in Over => \E i \in DOMAIN lines'[r] : lines'[r][i] \in FinalLine
      <3>1. pc[r] \notin Over /\ pc'[r] \notin Over /\ "headline" \notin FinalLine
        BY DEF IInv, TypeOK, Over, FinalLine, Settled
      <3>2. \A j \in DOMAIN lines[r] : lines[r][j] \notin FinalLine
        BY <3>1 DEF IInv, LinesInv
      <3> QED
        BY <2>1, <2>2, <3>1, <3>2
    <2> QED
      BY <2>3, <2>4 DEF IInv, LinesInv
  <1>6. WatcherInv'
    BY <1>a
  <1>7. TruthInv'
    BY <1>a
  <1>8. HandoverInv'
    BY <1>a
  <1> QED
    BY <1>1, <1>2, <1>3, <1>4, <1>5, <1>6, <1>7, <1>8 DEF IInv

\* finish writes how the run ended, after it settled.
LEMMA SayKeeps ==
  ASSUME IInv, NEW r \in RunIDs, Say(r)
  PROVE  IInv'
  <1> USE RunsAssumption DEF Say, MaySay, server, outcomes, cancels, progress, store, channels,
             streams
  <1>a. WatcherInv' /\ TruthInv' /\ HandoverInv'
    <2>1. \A f \in Followers, q \in RunIDs : follows[f] = q => status'[q] = status[q]
      OBVIOUS
    <2>2. ending[r] \in Line /\ ending[r] = status'[r]
      BY DEF IInv, OutcomeInv, Line, FinalLine
    <2> QED
      BY <2>1, <2>2, AppendKeeps
  <1>b. /\ lines' \in [RunIDs -> Seq(Line)] /\ live' \in [Followers -> Seq(Line)]
        /\ missed' \in [Followers -> Nat]
        /\ \A q \in RunIDs : lines'[q] = IF q = r THEN Append(lines[r], ending[r]) ELSE lines[q]
        /\ UNCHANGED <<closed, watchers, liveClosed>>
    <2>1. ending[r] \in Line
      BY DEF IInv, OutcomeInv, Line, FinalLine
    <2> QED
      BY <2>1, AppendEffect DEF IInv, AppendLine
  <1>1. TypeOK'
    BY <1>b DEF IInv, TypeOK, Settled
  <1>2. AdmissionInv'
    BY MoveKeepsAdmission
  <1>3. OutcomeInv'
    BY <1>b DEF IInv, TypeOK, OutcomeInv, Early, Over, Settled
  <1>4. CancelReachesContext'
    BY DEF IInv, TypeOK, CancelReachesContext
  <1>5. LinesInv'
    <2>1. lines[r] \in Seq(Line) /\ ending[r] \in Line /\ lines'[r] = Append(lines[r], ending[r])
      BY <1>b DEF IInv, TypeOK, Line, OutcomeInv, FinalLine
    <2>2. /\ \A i \in DOMAIN Append(lines[r], ending[r]) :
                \/ Append(lines[r], ending[r])[i] = ending[r]
                \/ \E j \in DOMAIN lines[r] : Append(lines[r], ending[r])[i] = lines[r][j]
          /\ \A j \in DOMAIN lines[r] :
                \E i \in DOMAIN Append(lines[r], ending[r]) : Append(lines[r], ending[r])[i] = lines[r][j]
          /\ \E i \in DOMAIN Append(lines[r], ending[r]) : Append(lines[r], ending[r])[i] = ending[r]
      BY <2>1, ElementsOf
    <2>3. ASSUME NEW q \in RunIDs, q # r
          PROVE  lines'[q] = lines[q] /\ pc'[q] = pc[q] /\ status'[q] = status[q]
      BY <2>3, <1>b DEF IInv, TypeOK
    <2>4. /\ \A i \in DOMAIN lines'[r] : lines'[r][i] \in FinalLine =>
                pc'[r] \in Over /\ lines'[r][i] = status'[r]
          /\ pc'[r] \in Over => \E i \in DOMAIN lines'[r] : lines'[r][i] \in FinalLine
      BY <2>1, <2>2 DEF IInv, TypeOK, LinesInv, OutcomeInv, Over, FinalLine, Settled
    <2> QED
      BY <2>3, <2>4 DEF IInv, LinesInv
  <1>6. WatcherInv'
    BY <1>a
  <1>7. TruthInv'
    BY <1>a
  <1>8. HandoverInv'
    BY <1>a
  <1> QED
    BY <1>1, <1>2, <1>3, <1>4, <1>5, <1>6, <1>7, <1>8 DEF IInv

\* The progress goroutine writes a line, even after the run closed.
LEMMA ProgressKeeps ==
  ASSUME IInv, NEW r \in RunIDs, Progress(r)
  PROVE  IInv'
  <1> USE RunsAssumption DEF Progress, server, outcomes, cancels, progress, store, channels,
             streams
  <1>a. WatcherInv' /\ TruthInv' /\ HandoverInv'
    <2>1. \A f \in Followers, q \in RunIDs : follows[f] = q => status'[q] = status[q]
      OBVIOUS
    <2>2. "progress" \in Line /\ "progress" \notin FinalLine
      BY DEF Line, FinalLine, Settled
    <2> QED
      BY <2>1, <2>2, AppendKeeps
  <1>b. /\ lines' \in [RunIDs -> Seq(Line)] /\ live' \in [Followers -> Seq(Line)]
        /\ missed' \in [Followers -> Nat]
        /\ \A q \in RunIDs : lines'[q] = IF q = r THEN Append(lines[r], "progress") ELSE lines[q]
        /\ UNCHANGED <<closed, watchers, liveClosed>>
    BY AppendEffect DEF IInv, Line, AppendLine
  <1>1. TypeOK'
    BY <1>b DEF IInv, TypeOK, Settled
  <1>2. OutcomeInv'
    BY <1>b, Frames
  <1>3. LinesInv'
    <2>1. lines[r] \in Seq(Line) /\ "progress" \in Line /\ lines'[r] = Append(lines[r], "progress")
      BY <1>b DEF IInv, TypeOK, Line, OutcomeInv, FinalLine
    <2>2. /\ \A i \in DOMAIN Append(lines[r], "progress") :
                \/ Append(lines[r], "progress")[i] = "progress"
                \/ \E j \in DOMAIN lines[r] : Append(lines[r], "progress")[i] = lines[r][j]
          /\ \A j \in DOMAIN lines[r] :
                \E i \in DOMAIN Append(lines[r], "progress") : Append(lines[r], "progress")[i] = lines[r][j]
          /\ \E i \in DOMAIN Append(lines[r], "progress") : Append(lines[r], "progress")[i] = "progress"
      BY <2>1, ElementsOf
    <2>3. ASSUME NEW q \in RunIDs, q # r
          PROVE  lines'[q] = lines[q] /\ pc'[q] = pc[q] /\ status'[q] = status[q]
      BY <2>3, <1>b DEF IInv, TypeOK
    <2>4. /\ \A i \in DOMAIN lines'[r] : lines'[r][i] \in FinalLine =>
                pc'[r] \in Over /\ lines'[r][i] = status'[r]
          /\ pc'[r] \in Over => \E i \in DOMAIN lines'[r] : lines'[r][i] \in FinalLine
      BY <2>1, <2>2 DEF IInv, TypeOK, LinesInv, OutcomeInv, Over, FinalLine, Settled
    <2> QED
      BY <2>3, <2>4 DEF IInv, LinesInv
  <1>4. WatcherInv'
    BY <1>a
  <1>5. TruthInv'
    BY <1>a
  <1>6. HandoverInv'
    BY <1>a
  <1>7. AdmissionInv' /\ CancelReachesContext'
    BY Frames
  <1> QED
    BY <1>1, <1>2, <1>3, <1>4, <1>5, <1>6, <1>7 DEF IInv

\* run.close closes the channels of the watchers and forgets them.
LEMMA CloseKeeps ==
  ASSUME IInv, NEW r \in RunIDs, Close(r)
  PROVE  IInv'
  <1> USE RunsAssumption DEF Close, ClosedChannels, WatchersAfterClose, server, outcomes, cancels, progress, store, channels,
             streams
  <1>1. TypeOK'
    BY DEF IInv, TypeOK, Settled
  <1>2. AdmissionInv'
    BY MoveKeepsAdmission
  <1>3. OutcomeInv'
    BY DEF IInv, TypeOK, OutcomeInv, Early, Over, Settled
  <1>4. CancelReachesContext'
    BY DEF IInv, TypeOK, CancelReachesContext
  <1>5. LinesInv'
    BY MoveKeepsLines DEF Over
  <1>6. WatcherInv'
    BY DEF IInv, TypeOK, OutcomeInv, WatcherInv
  <1>7. HandoverInv'
    <2> SUFFICES ASSUME NEW f \in Followers, NEW q \in RunIDs, follows[f] = q, missed[f] = 0
                 PROVE  /\ f \in watchers'[q] => Delivered(f) = lines[q]
                        /\ f \notin watchers'[q] =>
                              /\ Len(Delivered(f)) <= Len(lines[q])
                              /\ Delivered(f) = SubSeq(lines[q], 1, Len(Delivered(f)))
                              /\ \E i \in DOMAIN Delivered(f) : Delivered(f)[i] \in FinalLine
      BY DEF HandoverInv, Delivered
    <2>1. CASE q = r /\ f \in watchers[r]
      <3>1. Delivered(f) = lines[r] /\ lines[r] \in Seq(Line) /\ f \notin watchers'[q]
        BY <2>1 DEF IInv, TypeOK, HandoverInv
      <3>2. lines[r] = SubSeq(lines[r], 1, Len(lines[r])) /\ Len(lines[r]) \in Nat
        BY <3>1, SubSeqFull, LenProperties
      <3>3. \E i \in DOMAIN lines[r] : lines[r][i] \in FinalLine
        BY DEF IInv, LinesInv, Over
      <3> QED
        BY <2>1, <3>1, <3>2, <3>3
    <2>2. CASE ~(q = r /\ f \in watchers[r])
      <3>1. f \in watchers'[q] <=> f \in watchers[q]
        BY <2>2 DEF IInv, TypeOK
      <3> QED
        BY <3>1 DEF IInv, HandoverInv
    <2> QED
      BY <2>1, <2>2
  <1>8. TruthInv'
    BY Frames
  <1> QED
    BY <1>1, <1>2, <1>3, <1>4, <1>5, <1>6, <1>7, <1>8 DEF IInv

\* A client starts to follow a run that can be found, closed or not.
LEMMA FollowKeeps ==
  ASSUME IInv, NEW f \in Followers, NEW r \in RunIDs, Follow(f, r)
  PROVE  IInv'
  <1> USE RunsAssumption DEF Follow, Snapshot, server, outcomes, cancels, progress, store, channels,
             streams
  <1>a. /\ lines[r] \in Seq(Line) /\ follows[f] = NoRun /\ \A q \in RunIDs : f \notin watchers[q]
        /\ seen[f] = <<>> /\ live[f] = <<>> /\ missed[f] = 0
        /\ closed[r] => \E i \in DOMAIN lines[r] : lines[r][i] \in FinalLine
    <2>1. lines[r] \in Seq(Line)
      BY DEF IInv, TypeOK
    <2>2. /\ follows[f] = NoRun /\ \A q \in RunIDs : f \notin watchers[q]
          /\ seen[f] = <<>> /\ live[f] = <<>> /\ missed[f] = 0
      BY DEF IInv, WatcherInv
    <2>3. closed[r] => \E i \in DOMAIN lines[r] : lines[r][i] \in FinalLine
      BY DEF IInv, OutcomeInv, LinesInv, Over
    <2> QED
      BY <2>1, <2>2, <2>3
  <1>1. TypeOK'
    BY DEF IInv, TypeOK
  <1>2. WatcherInv'
    BY <1>a DEF IInv, TypeOK, WatcherInv, Published
  <1>3. TruthInv'
    <2>1. Truthful(lines[r], r)
      BY DEF IInv, LinesInv, Truthful
    <2> QED
      BY <1>a, <2>1 DEF IInv, TypeOK, TruthInv, Truthful
  <1>4. HandoverInv'
    <2> SUFFICES ASSUME NEW g \in Followers, NEW q \in RunIDs, follows'[g] = q, missed[g] = 0
                 PROVE  /\ g \in watchers'[q] => Delivered(g)' = lines[q]
                        /\ g \notin watchers'[q] =>
                              /\ Len(Delivered(g)') <= Len(lines[q])
                              /\ Delivered(g)' = SubSeq(lines[q], 1, Len(Delivered(g)'))
                              /\ \E i \in DOMAIN Delivered(g)' : Delivered(g)'[i] \in FinalLine
      BY DEF HandoverInv
    <2>1. CASE g = f
      <3>1. q = r /\ replay'[f] = lines[r]
        BY <2>1 DEF IInv, TypeOK
      <3>2. Delivered(f)' = lines[r]
        <4>1. <<>> \o lines[r] \o <<>> = lines[r]
          BY <1>a, ConcatEmptySeq
        <4> QED
          BY <3>1, <4>1, <1>a DEF Delivered
      <3>3. lines[r] = SubSeq(lines[r], 1, Len(lines[r])) /\ Len(lines[r]) \in Nat
        BY <1>a, SubSeqFull, LenProperties
      <3>4. f \notin watchers'[r] => closed[r]
        BY DEF IInv, TypeOK
      <3> QED
        BY <2>1, <3>1, <3>2, <3>3, <3>4, <1>a
    <2>2. CASE g # f
      <3>1. follows[g] = q /\ Delivered(g)' = Delivered(g)
        BY <2>2 DEF IInv, TypeOK, Delivered
      <3>2. g \in watchers'[q] <=> g \in watchers[q]
        BY <2>2 DEF IInv, TypeOK
      <3> QED
        BY <3>1, <3>2 DEF IInv, HandoverInv
    <2> QED
      BY <2>1, <2>2
  <1>5. AdmissionInv' /\ OutcomeInv' /\ CancelReachesContext' /\ LinesInv'
    BY Frames
  <1> QED
    BY <1>1, <1>2, <1>3, <1>4, <1>5 DEF IInv

\* The replay sends the next line, or turns to the channel.
LEMMA ReplayKeeps ==
  ASSUME IInv, NEW f \in Followers, Replay(f)
  PROVE  IInv'
  <1> USE RunsAssumption DEF Replay, server, outcomes, cancels, progress, store, channels,
             streams
  <1>1. CASE replay[f] = <<>>
    <2>1. TypeOK'
      BY <1>1 DEF IInv, TypeOK
    <2>2. WatcherInv'
      BY <1>1 DEF IInv, TypeOK, WatcherInv
    <2> QED
      BY <1>1, <2>1, <2>2, Frames DEF IInv
  <1>2. CASE replay[f] # <<>>
    <2> DEFINE line == Head(replay[f])
    <2>1. /\ seen[f] \in Seq(Line) /\ replay[f] \in Seq(Line) /\ live[f] \in Seq(Line)
          /\ UNCHANGED <<follows, stage, live, missed, watchers, lines, status>>
      BY <1>2 DEF IInv, TypeOK
    <2>2. /\ line \in Line /\ Tail(replay[f]) \in Seq(Line) /\ Append(seen[f], line) \in Seq(Line)
      BY <1>2, <2>1, HeadTailProperties, AppendProperties
    <2>3. /\ \A g \in Followers : seen'[g] = IF g = f THEN Append(seen[f], line) ELSE seen[g]
          /\ \A g \in Followers : replay'[g] = IF g = f THEN Tail(replay[f]) ELSE replay[g]
      BY <1>2 DEF IInv, TypeOK
    <2>4. TypeOK'
      BY <1>2, <2>2, ZenonT(30) DEF IInv, TypeOK
    <2>5. WatcherInv'
      BY <1>2, <2>3, SMTT(30) DEF IInv, TypeOK, WatcherInv
    <2>6. TruthInv'
      <3>1. /\ \A i \in DOMAIN Append(seen[f], line) :
                  \/ Append(seen[f], line)[i] = line
                  \/ \E j \in DOMAIN seen[f] : Append(seen[f], line)[i] = seen[f][j]
            /\ \E j \in DOMAIN replay[f] : line = replay[f][j]
            /\ \A i \in DOMAIN Tail(replay[f]) :
                  \E j \in DOMAIN replay[f] : Tail(replay[f])[i] = replay[f][j]
        BY <1>2, <2>1, <2>2, ElementsOf
      <3> HIDE DEF line
      <3>2. ASSUME NEW q \in RunIDs, follows[f] = q
            PROVE  Truthful(Append(seen[f], line), q) /\ Truthful(Tail(replay[f]), q)
        BY <3>1, <3>2 DEF IInv, TruthInv, Truthful
      <3>3. ASSUME NEW g \in Followers, NEW q \in RunIDs, follows[g] = q
            PROVE  Truthful(seen'[g], q) /\ Truthful(replay'[g], q) /\ Truthful(live[g], q)
        BY <2>3, <3>2, <3>3 DEF IInv, TruthInv
      <3> QED
        BY <2>1, <3>3 DEF TruthInv, Truthful
    <2>7. HandoverInv'
      <3>2. Append(seen[f], line) \o Tail(replay[f]) \o live[f] = seen[f] \o replay[f] \o live[f]
        BY <1>2, <2>1, MoveHead
      <3>3. \A g \in Followers : Delivered(g)' = Delivered(g)
        BY <2>1, <2>3, <3>2 DEF Delivered
      <3> QED
        BY <2>1, <3>3 DEF IInv, HandoverInv
    <2> QED
      BY <1>2, <2>4, <2>5, <2>6, <2>7, Frames DEF IInv
  <1> QED
    BY <1>1, <1>2

\* The live part sends the next line of the channel: the replay is over.
LEMMA ForwardKeeps ==
  ASSUME IInv, NEW f \in Followers, Forward(f)
  PROVE  IInv'
  <1> USE RunsAssumption DEF Forward, server, outcomes, cancels, progress, store, channels,
             streams
  <1> DEFINE line == Head(live[f])
  <1>1. /\ seen[f] \in Seq(Line) /\ replay[f] = <<>> /\ live[f] \in Seq(Line) /\ live[f] # <<>>
        /\ UNCHANGED <<follows, stage, replay, missed, watchers, lines, status>>
    BY DEF IInv, TypeOK, WatcherInv
  <1>2. /\ line \in Line /\ Tail(live[f]) \in Seq(Line) /\ Append(seen[f], line) \in Seq(Line)
    BY <1>1, HeadTailProperties, AppendProperties
  <1>3. /\ \A g \in Followers : seen'[g] = IF g = f THEN Append(seen[f], line) ELSE seen[g]
        /\ \A g \in Followers : live'[g] = IF g = f THEN Tail(live[f]) ELSE live[g]
    BY DEF IInv, TypeOK
  <1>4. TypeOK'
    BY <1>2 DEF IInv, TypeOK
  <1>5. WatcherInv'
    BY <1>3, SMTT(30) DEF IInv, TypeOK, WatcherInv
  <1>6. TruthInv'
    <2>1. /\ \A i \in DOMAIN Append(seen[f], line) :
                \/ Append(seen[f], line)[i] = line
                \/ \E j \in DOMAIN seen[f] : Append(seen[f], line)[i] = seen[f][j]
          /\ \E j \in DOMAIN live[f] : line = live[f][j]
          /\ \A i \in DOMAIN Tail(live[f]) :
                \E j \in DOMAIN live[f] : Tail(live[f])[i] = live[f][j]
      BY <1>1, <1>2, ElementsOf
    <2> HIDE DEF line
    <2> QED
      BY <1>1, <1>3, <2>1, SMTT(30) DEF IInv, TruthInv, Truthful
  <1>7. HandoverInv'
    <2>1. <<>> \in Seq(Line)
      OBVIOUS
    <2>2. Append(seen[f], line) \o Tail(live[f]) \o <<>> = seen[f] \o live[f] \o <<>>
      BY <1>1, <2>1, MoveHead
    <2>3. /\ Append(seen[f], line) \o <<>> = Append(seen[f], line)
          /\ seen[f] \o <<>> = seen[f]
          /\ seen[f] \o live[f] \in Seq(Line)
          /\ Append(seen[f], line) \o Tail(live[f]) \in Seq(Line)
      BY <1>1, <1>2, ConcatEmptySeq, ConcatProperties
    <2>4. Append(seen[f], line) \o Tail(live[f]) = seen[f] \o live[f]
      BY <2>2, <2>3, ConcatEmptySeq
    <2>5. \A g \in Followers : Delivered(g)' = Delivered(g)
      BY <1>1, <1>3, <2>3, <2>4 DEF Delivered
    <2> QED
      BY <1>1, <2>5 DEF IInv, HandoverInv
  <1> QED
    BY <1>4, <1>5, <1>6, <1>7, Frames DEF IInv

-----------------------------------------------------------------------------
\* Every step of a handler, a run, its progress goroutine, a client that cancels or
\* one that follows keeps the inductive invariant.
LEMMA NextIInv == IInv /\ [Next]_vars => IInv'
  <1> SUFFICES ASSUME IInv, [Next]_vars PROVE IInv'
    OBVIOUS
  <1>1. ASSUME NEW r \in RunIDs, RunStep(r) PROVE IInv'
    BY <1>1, PublishKeeps, ArmKeeps, ArmStopKeeps, ExecuteFailsKeeps, DriveKeeps,
       DriveEndsKeeps, LookKeeps, SettleKeeps, SayKeeps, CloseKeeps, ReleaseKeeps DEF RunStep
  <1>2. ASSUME NEW r \in RunIDs, TickerStep(r) PROVE IInv'
    BY <1>2, TickKeeps, ProgressKeeps, TickerEndsKeeps DEF TickerStep
  <1>3. ASSUME NEW f \in Followers, FollowerStep(f) PROVE IInv'
    BY <1>3, ReplayKeeps, ForwardKeeps, StreamEndsKeeps DEF FollowerStep
  <1>4. CASE UNCHANGED vars
    BY <1>4, Frames DEF IInv, TypeOK, vars, server, outcomes, cancels, progress, store,
       channels, streams
  <1> QED
    BY <1>1, <1>2, <1>3, <1>4, TakeKeeps, DebugKeeps, DebugEndsKeeps, CancelKeeps,
       CancelStopKeeps, FollowKeeps, LeaveKeeps, NamedAssumption DEF Next

\* The inductive invariant holds in every reachable state.
LEMMA SpecIInv == Spec => []IInv
  BY InitIInv, NextIInv, PTL DEF Spec

\* Handlers, runs and streams keep the state of the server well-typed.
THEOREM RunsTyped == Spec => []TypeOK
  <1>1. IInv => TypeOK
    BY DEF IInv
  <1> QED
    BY <1>1, SpecIInv, PTL

\* Without -concurrent, take and release let one run or debug iteration in at a time,
\* and the server is busy exactly while one is in, however many clients ask.
THEOREM OnlyOneIn == Spec => []OneAtATime
  <1>1. ASSUME IInv, ~Concurrent
        PROVE  /\ Cardinality(Holding) + (IF debugging THEN 1 ELSE 0) <= 1
               /\ busy <=> (Holding # {} \/ debugging)
    <2>1. CASE Holding = {}
      BY <1>1, <2>1, FS_EmptySet DEF IInv, AdmissionInv
    <2>2. CASE Holding # {}
      <3>1. PICK r \in Holding : TRUE
        BY <2>2
      <3>2. Holding = {r} /\ ~debugging
        BY <1>1, <3>1 DEF IInv, AdmissionInv
      <3>3. Cardinality(Holding) = 1
        BY <3>2, FS_Singleton, Zenon
      <3> QED
        BY <1>1, <3>2, <3>3 DEF IInv, AdmissionInv
    <2> QED
      BY <2>1, <2>2
  <1>2. IInv => OneAtATime
    BY <1>1 DEF OneAtATime
  <1> QED
    BY <1>2, SpecIInv, PTL

\* Whatever the order of run.cancel and startRun, a cancel reaches the context of the
\* run as soon as there is one.
THEOREM CancelNeverLost == Spec => []CancelReachesContext
  <1>1. IInv => CancelReachesContext
    BY DEF IInv
  <1> QED
    BY <1>1, SpecIInv, PTL

\* append never sends on the channel of a watcher that close has closed, although
\* progress lines still come after close.
THEOREM AppendNeverPanics == Spec => []NoSendToClosedWatcher
  <1>1. IInv => NoSendToClosedWatcher
    BY DEF IInv, TypeOK, WatcherInv, NoSendToClosedWatcher
  <1> QED
    BY <1>1, SpecIInv, PTL

\* A follower whose channel did not overflow gets the lines of its run, each once and
\* in order, whenever it came and wherever the replay met the live part.
THEOREM HandoverWithoutGap == Spec => []NoGapAtHandover
  <1>1. IInv => NoGapAtHandover
    BY DEF IInv, HandoverInv, NoGapAtHandover
  <1> QED
    BY <1>1, SpecIInv, PTL

\* The line that says how the run ended, and the end of the stream, reach a client
\* only after runStore.finish settled the outcome.
THEOREM EndMeansSettled == Spec => []EndSeenMeansSettled
  <1>1. ASSUME IInv, NEW f \in Followers, NEW r \in RunIDs, follows[f] = r
        PROVE  /\ \A i \in DOMAIN seen[f] : seen[f][i] \in FinalLine => status[r] = seen[f][i]
               /\ stage[f] = "ended" => status[r] \in Settled
    <2>1. \A i \in DOMAIN seen[f] : seen[f][i] \in FinalLine => status[r] = seen[f][i]
      BY <1>1 DEF IInv, TruthInv, Truthful
    <2>2. stage[f] = "ended" => closed[r]
      BY <1>1 DEF IInv, WatcherInv
    <2>3. closed[r] => status[r] \in Settled
      BY <1>1 DEF IInv, OutcomeInv, Over
    <2> QED
      BY <2>1, <2>2, <2>3
  <1>2. IInv => EndSeenMeansSettled
    BY <1>1 DEF EndSeenMeansSettled
  <1> QED
    BY <1>2, SpecIInv, PTL
=============================================================================
