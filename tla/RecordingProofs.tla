-------------------------- MODULE RecordingProofs --------------------------
(***************************************************************************)
(* The recorder loses no request it handled, and what it generates replays *)
(* the values the client was handed: proved for every session and every    *)
(* interleaving of its handlers with Ctrl+C and the two seconds of the     *)
(* shutdown.                                                               *)
(*                                                                         *)
(* A recording replays because of the order its parts keep.  A handler     *)
(* records before it answers, so an entry that sends a value stands after  *)
(* the one whose answer carried it (OrderInv); what was kept when Serve    *)
(* returned is in that order too (KeptOrderInv); the groups are in the     *)
(* order of their first requests (GroupsInOrder), and Correlate, which     *)
(* looks at the answers in the order of the groups, has captured the value *)
(* by then, under a name no other capture has (CapturedBefore).            *)
(***************************************************************************)
EXTENDS CommandProofs, RunningProofs

HandlerStates == {"unsent", "tunneled", "refused", "asking", "failed", "recorded", "answered"}
Handled == {q \in DOMAIN traffic : handlers[q] \in {"tunneled", "failed", "recorded", "answered"}}

RecorderTypeOK ==
    /\ inv \in Invocations /\ traffic = inv.traffic
    /\ handlers \in [DOMAIN traffic -> HandlerStates]
    /\ entries \in Seq(DOMAIN traffic)
    /\ dropped \in [Reasons -> Nat] /\ tunneled \in Nat

\* The proxy listens for record only, and once it has started.
ServingInv == serving # "down" => inv.command = "record" /\ stage # "start"

\* What went on to the target is neither a tunnel nor a request that was not for a proxy,
\* so record has a reason for everything it leaves out.
KindInv ==
    \A q \in DOMAIN traffic :
        handlers[q] \in {"asking", "failed", "recorded", "answered"} =>
            traffic[q].kind \notin {"connect", "direct"}

\* A request is recorded once, by the handler that has asked for it.
EntriesInv ==
    /\ \A q \in ToSet(entries) : handlers[q] \in {"recorded", "answered"}
    /\ Cardinality(ToSet(entries)) = Len(entries)

\* The books of the proxy, under its mutex: each handled request in one of them.
LedgerInv == Cardinality(Handled) = Len(entries) + Omitted(dropped) + tunneled

\* Without -host the first request recorded decides.
HostInv ==
    onlyHosts = {} =>
        \/ allowed = {} /\ entries = <<>>
        \/ \E h : allowed = {h} /\ \A q \in ToSet(entries) : traffic[q].host = h

\* What was kept when Serve returned stays in balance with the handlers still alive:
\* those that were asking then are the ones cut off.
KeptInv ==
    stage \notin {"start", "recording"} /\ serving = "closed" =>
        /\ Cardinality(ToSet(kept.entries)) = Len(kept.entries)
        /\ Cardinality(Handled \ kept.cut) = Len(kept.entries) + Omitted(kept.dropped) + kept.tunneled
        /\ onlyHosts = {} => \E h : \A q \in ToSet(kept.entries) : traffic[q].host = h
        /\ \A q \in DOMAIN traffic : handlers[q] = "asking" => q \in kept.cut

ProxyInv == KindInv /\ EntriesInv /\ LedgerInv /\ HostInv

RInv == RecorderTypeOK /\ ServingInv /\ ProxyInv /\ KeptInv

(***************************************************************************)
(* Counting.                                                               *)
(***************************************************************************)
LEMMA HandledFinite ==
    ASSUME RecorderTypeOK
    PROVE  IsFiniteSet(DOMAIN traffic) /\ IsFiniteSet(Handled) /\ Cardinality(Handled) \in Nat
  <1>1. IsFiniteSet(DOMAIN traffic)
    BY CommandAssumption DEF RecorderTypeOK
  <1>2. Handled \subseteq DOMAIN traffic
    BY DEF Handled
  <1> QED  BY <1>1, <1>2, FS_Subset, FS_CardinalityType

\* A request more under one reason is one more line of DroppedLines in all.
LEMMA OmittedGrows ==
    ASSUME NEW count \in [Reasons -> Nat], NEW reason \in Reasons
    PROVE  /\ Omitted([count EXCEPT ![reason] = @ + 1]) = Omitted(count) + 1
           /\ [count EXCEPT ![reason] = @ + 1] \in [Reasons -> Nat]
           /\ Omitted(count) \in Nat
  <1>1. /\ count["noAnswer"] \in Nat /\ count["outside"] \in Nat /\ count["options"] \in Nat
        /\ count["telemetry"] \in Nat /\ count["static"] \in Nat /\ count["ignored"] \in Nat
    BY DEF Reasons
  <1> DEFINE more == [count EXCEPT ![reason] = @ + 1]
  <1>2. \A r \in Reasons : more[r] = IF r = reason THEN count[r] + 1 ELSE count[r]
    OBVIOUS
  <1>3. more \in [Reasons -> Nat]
    OBVIOUS
  <1> HIDE DEF more
  <1>4. Omitted(more) = Omitted(count) + 1
    BY <1>1, <1>2 DEF Omitted, Reasons
  <1>5. Omitted(count) \in Nat
    BY <1>1 DEF Omitted
  <1> QED  BY <1>3, <1>4, <1>5 DEF more

\* The requests left out, over all reasons, are a number.
LEMMA OmittedType == RecorderTypeOK => Omitted(dropped) \in Nat
  BY OmittedGrows DEF RecorderTypeOK, Reasons

\* Every entry the proxy recorded is a request that was made.
LEMMA EntriesAreRequests == RecorderTypeOK => ToSet(entries) \subseteq DOMAIN traffic
  <1> SUFFICES ASSUME RecorderTypeOK, NEW i \in DOMAIN entries PROVE entries[i] \in DOMAIN traffic
    BY DEF ToSet
  <1> QED  BY DEF RecorderTypeOK

\* A request that becomes handled is one more.
LEMMA HandledGrows ==
    ASSUME RecorderTypeOK, NEW q \in DOMAIN traffic, q \notin Handled, traffic' = traffic,
           NEW now \in {"tunneled", "failed", "recorded"}, handlers' = [handlers EXCEPT ![q] = now]
    PROVE  Handled' = Handled \cup {q} /\ Cardinality(Handled') = Cardinality(Handled) + 1
  <1>1. Handled' = Handled \cup {q}
    BY DEF Handled, RecorderTypeOK
  <1>2. IsFiniteSet(Handled)
    BY HandledFinite
  <1> QED  BY <1>1, <1>2, FS_AddElement

\* An entry more is one request more among the entries.
LEMMA EntriesGrow ==
    ASSUME RecorderTypeOK, NEW q \in DOMAIN traffic, q \notin ToSet(entries),
           Cardinality(ToSet(entries)) = Len(entries)
    PROVE  /\ ToSet(Append(entries, q)) = ToSet(entries) \cup {q}
           /\ Cardinality(ToSet(Append(entries, q))) = Len(Append(entries, q))
  <1>1. /\ entries \in Seq(DOMAIN traffic) /\ Append(entries, q) \in Seq(DOMAIN traffic)
        /\ Len(Append(entries, q)) = Len(entries) + 1
        /\ \A i \in 1 .. Len(entries) : Append(entries, q)[i] = entries[i]
        /\ Append(entries, q)[Len(entries) + 1] = q
        /\ Len(entries) \in Nat /\ DOMAIN entries = 1 .. Len(entries)
        /\ DOMAIN Append(entries, q) = 1 .. Len(entries) + 1
    BY DEF RecorderTypeOK
  <1>2. ToSet(Append(entries, q)) = ToSet(entries) \cup {q}
    <2> DEFINE more == Append(entries, q)
    <2>1. ASSUME NEW x \in ToSet(more) PROVE x \in ToSet(entries) \cup {q}
      <3>1. PICK i \in 1 .. Len(entries) + 1 : x = more[i]
        BY <1>1, <2>1 DEF ToSet
      <3>2. CASE i = Len(entries) + 1
        BY <1>1, <3>1, <3>2
      <3>3. CASE i \in 1 .. Len(entries)
        BY <1>1, <3>1, <3>3 DEF ToSet
      <3> QED  BY <1>1, <3>2, <3>3
    <2>2. q \in ToSet(more)
      <3>1. Len(entries) + 1 \in DOMAIN more
        BY <1>1
      <3> QED  BY <1>1, <3>1 DEF ToSet
    <2>3. ASSUME NEW i \in DOMAIN entries PROVE entries[i] \in ToSet(more)
      <3>1. i \in DOMAIN more /\ more[i] = entries[i]
        BY <1>1, <2>3
      <3> HIDE DEF more
      <3> QED  BY <3>1 DEF ToSet
    <2>4. ToSet(entries) = {entries[i] : i \in DOMAIN entries}
      BY DEF ToSet
    <2> QED  BY <2>1, <2>2, <2>3, <2>4
  <1>3. IsFiniteSet(ToSet(entries))
    BY EntriesAreRequests, HandledFinite, FS_Subset
  <1> QED  BY <1>1, <1>2, <1>3, FS_AddElement, ZenonT(30)

(***************************************************************************)
(* The handlers.                                                           *)
(***************************************************************************)
\* Each step of a handler keeps the books; one lemma per action.
LEMMA TunnelStep ==
    ASSUME RecorderTypeOK, ProxyInv, inv' = inv, NEW q \in DOMAIN traffic, Tunnel(q)
    PROVE  RecorderTypeOK' /\ ProxyInv'
  <1>1. /\ traffic' = traffic /\ onlyHosts' = onlyHosts /\ allowed' = allowed /\ entries' = entries
        /\ dropped' = dropped /\ tunneled' = tunneled + 1 /\ handlers[q] = "unsent"
        /\ handlers' = [handlers EXCEPT ![q] = "tunneled"]
    BY DEF Tunnel, ToProxy
  <1>2. RecorderTypeOK'
    BY <1>1 DEF RecorderTypeOK, HandlerStates
  <1>3. \A p \in DOMAIN traffic : handlers'[p] = IF p = q THEN "tunneled" ELSE handlers[p]
    BY <1>1 DEF RecorderTypeOK
  <1>4. KindInv'
    BY <1>1, <1>3 DEF KindInv, ProxyInv
  <1>5. EntriesInv'
    BY <1>1, <1>3, EntriesAreRequests DEF EntriesInv, ProxyInv
  <1>6. LedgerInv'
    <2>1. Cardinality(Handled') = Cardinality(Handled) + 1
      BY <1>1, HandledGrows DEF Handled
    <2>2. Len(entries) \in Nat /\ Omitted(dropped) \in Nat /\ tunneled \in Nat
      BY OmittedType DEF RecorderTypeOK
    <2> QED  BY <1>1, <2>1, <2>2 DEF LedgerInv, ProxyInv
  <1>7. HostInv'
    BY <1>1 DEF HostInv, ProxyInv
  <1> QED  BY <1>2, <1>4, <1>5, <1>6, <1>7 DEF ProxyInv

\* Taking up a request records nothing yet and leaves the books alone.
LEMMA HandleStep ==
    ASSUME RecorderTypeOK, ProxyInv, inv' = inv, NEW q \in DOMAIN traffic, Handle(q)
    PROVE  RecorderTypeOK' /\ ProxyInv'
  <1> DEFINE now == IF traffic[q].kind = "direct" THEN "refused" ELSE "asking"
  <1>1. /\ traffic' = traffic /\ onlyHosts' = onlyHosts /\ allowed' = allowed /\ entries' = entries
        /\ dropped' = dropped /\ tunneled' = tunneled /\ handlers[q] = "unsent"
        /\ handlers' = [handlers EXCEPT ![q] = now] /\ traffic[q].kind # "connect"
    BY DEF Handle, ToProxy
  <1>2. now \in {"refused", "asking"} /\ (now = "asking" => traffic[q].kind # "direct")
    OBVIOUS
  <1> HIDE DEF now
  <1>3. RecorderTypeOK'
    BY <1>1, <1>2 DEF RecorderTypeOK, HandlerStates
  <1>4. \A p \in DOMAIN traffic : handlers'[p] = IF p = q THEN now ELSE handlers[p]
    BY <1>1 DEF RecorderTypeOK
  <1>5. KindInv'
    BY <1>1, <1>2, <1>4 DEF KindInv, ProxyInv
  <1>6. EntriesInv'
    BY <1>1, <1>4, EntriesAreRequests DEF EntriesInv, ProxyInv
  <1>7. Handled' = Handled
    BY <1>1, <1>2, <1>4 DEF Handled
  <1>8. LedgerInv' /\ HostInv'
    BY <1>1, <1>7 DEF LedgerInv, HostInv, ProxyInv
  <1> QED  BY <1>3, <1>5, <1>6, <1>8 DEF ProxyInv

\* A request without an answer is counted once, under its reason.
LEMMA RoundTripFailsStep ==
    ASSUME RecorderTypeOK, ProxyInv, inv' = inv, NEW q \in DOMAIN traffic, RoundTripFails(q)
    PROVE  RecorderTypeOK' /\ ProxyInv'
  <1>1. /\ traffic' = traffic /\ onlyHosts' = onlyHosts /\ allowed' = allowed /\ entries' = entries
        /\ dropped' = [dropped EXCEPT !["noAnswer"] = @ + 1] /\ tunneled' = tunneled
        /\ handlers[q] = "asking" /\ handlers' = [handlers EXCEPT ![q] = "failed"]
    BY DEF RoundTripFails
  <1>2. /\ dropped' \in [Reasons -> Nat] /\ Omitted(dropped') = Omitted(dropped) + 1
        /\ Omitted(dropped) \in Nat
    BY <1>1, OmittedGrows DEF RecorderTypeOK, Reasons
  <1>3. RecorderTypeOK'
    BY <1>1, <1>2 DEF RecorderTypeOK, HandlerStates
  <1>4. \A p \in DOMAIN traffic : handlers'[p] = IF p = q THEN "failed" ELSE handlers[p]
    BY <1>1 DEF RecorderTypeOK
  <1>5. KindInv'
    BY <1>1, <1>4 DEF KindInv, ProxyInv
  <1>6. EntriesInv'
    BY <1>1, <1>4, EntriesAreRequests DEF EntriesInv, ProxyInv
  <1>7. LedgerInv'
    <2>1. Cardinality(Handled') = Cardinality(Handled) + 1
      BY <1>1, HandledGrows DEF Handled
    <2>2. Len(entries) \in Nat /\ tunneled \in Nat
      BY DEF RecorderTypeOK
    <2> QED  BY <1>1, <1>2, <2>1, <2>2 DEF LedgerInv, ProxyInv
  <1>8. HostInv'
    BY <1>1 DEF HostInv, ProxyInv
  <1> QED  BY <1>3, <1>5, <1>6, <1>7, <1>8 DEF ProxyInv

\* record, under the mutex: the request joins the entries or the count of a reason, and
\* the first one fixes the host.
LEMMA RecordStep ==
    ASSUME RecorderTypeOK, ProxyInv, inv' = inv, NEW q \in DOMAIN traffic, Record(q)
    PROVE  RecorderTypeOK' /\ ProxyInv'
  <1> DEFINE hosts == IF allowed = {} THEN {traffic[q].host} ELSE allowed
             reason == ClassifyRequest(traffic[q], hosts)
  <1>1. /\ traffic' = traffic /\ onlyHosts' = onlyHosts /\ allowed' = hosts /\ tunneled' = tunneled
        /\ entries' = IF reason = "" THEN Append(entries, q) ELSE entries
        /\ dropped' = IF reason = "" THEN dropped ELSE [dropped EXCEPT ![reason] = @ + 1]
        /\ handlers[q] = "asking" /\ handlers' = [handlers EXCEPT ![q] = "recorded"]
    BY DEF Record
  <1>2. reason = "" => traffic[q].host \in hosts
    BY DEF ClassifyRequest
  <1>3. reason # "" => reason \in Reasons
    <2>1. traffic[q].kind \in {"page"} \cup (Reasons \ {"noAnswer", "outside"})
      BY <1>1, CommandAssumption DEF RecorderTypeOK, ProxyInv, KindInv
    <2> HIDE DEF hosts
    <2> QED  BY <2>1 DEF ClassifyRequest, Reasons
  <1>4. \A p \in DOMAIN traffic : handlers'[p] = IF p = q THEN "recorded" ELSE handlers[p]
    BY <1>1 DEF RecorderTypeOK
  <1>5. q \notin ToSet(entries)
    BY <1>1 DEF ProxyInv, EntriesInv
  <1>6. Len(entries) \in Nat /\ Omitted(dropped) \in Nat /\ tunneled \in Nat
    BY OmittedType DEF RecorderTypeOK
  <1>7. Cardinality(Handled') = Cardinality(Handled) + 1
    BY <1>1, HandledGrows DEF Handled
  <1>8. KindInv'
    BY <1>1, <1>4 DEF KindInv, ProxyInv
  <1>11. /\ traffic' = traffic /\ tunneled' = tunneled /\ tunneled \in Nat
         /\ handlers' \in [DOMAIN traffic -> HandlerStates]
    BY <1>1 DEF RecorderTypeOK, HandlerStates
  <1>12. Cardinality(Handled) = Len(entries) + Omitted(dropped) + tunneled
    BY DEF LedgerInv, ProxyInv
  <1> HIDE DEF reason, hosts
  <1>9. CASE reason = ""
    <2>1. entries' = Append(entries, q) /\ dropped' = dropped
      BY <1>1, <1>9
    <2>2. /\ ToSet(entries') = ToSet(entries) \cup {q} /\ Cardinality(ToSet(entries')) = Len(entries')
          /\ Len(entries') = Len(entries) + 1
      BY <1>5, <2>1, EntriesGrow DEF ProxyInv, EntriesInv, RecorderTypeOK
    <2>3. RecorderTypeOK'
      BY <1>11, <2>1 DEF RecorderTypeOK
    <2>4. EntriesInv'
      BY <1>4, <2>2, EntriesAreRequests DEF EntriesInv, ProxyInv
    <2>5. LedgerInv'
      BY <1>6, <1>7, <1>11, <1>12, <2>1, <2>2 DEF LedgerInv
    <2>6. HostInv'
      <3> SUFFICES ASSUME onlyHosts = {}
                   PROVE  \E h : allowed' = {h} /\ \A p \in ToSet(entries') : traffic[p].host = h
        BY <1>1 DEF HostInv
      <3>1. CASE allowed = {}
        <4>1. entries = <<>>
          BY <3>1 DEF ProxyInv, HostInv
        <4>2. ToSet(entries) = {}
          BY <4>1 DEF ToSet
        <4> QED  BY <1>1, <2>2, <3>1, <4>2 DEF hosts
      <3>2. CASE allowed # {}
        <4>1. PICK h : allowed = {h} /\ \A p \in ToSet(entries) : traffic[p].host = h
          BY <3>2 DEF ProxyInv, HostInv
        <4>2. traffic[q].host = h
          BY <1>2, <1>9, <4>1 DEF hosts
        <4> QED  BY <1>1, <2>2, <4>1, <4>2 DEF hosts
      <3> QED  BY <3>1, <3>2
    <2> QED  BY <1>8, <2>3, <2>4, <2>5, <2>6 DEF ProxyInv
  <1>10. CASE reason # ""
    <2>1. entries' = entries /\ dropped' = [dropped EXCEPT ![reason] = @ + 1]
      BY <1>1, <1>10
    <2>2. dropped' \in [Reasons -> Nat] /\ Omitted(dropped') = Omitted(dropped) + 1
      BY <1>3, <1>10, <2>1, OmittedGrows DEF RecorderTypeOK
    <2>3. RecorderTypeOK'
      BY <1>11, <2>1, <2>2 DEF RecorderTypeOK
    <2>4. EntriesInv'
      BY <1>4, <2>1, EntriesAreRequests DEF EntriesInv, ProxyInv
    <2>5. LedgerInv'
      BY <1>6, <1>7, <1>11, <1>12, <2>1, <2>2 DEF LedgerInv
    <2>6. HostInv'
      <3> SUFFICES ASSUME onlyHosts = {}
                   PROVE  \E h : allowed' = {h} /\ \A p \in ToSet(entries') : traffic[p].host = h
        BY <1>1 DEF HostInv
      <3>1. CASE allowed = {}
        <4>1. ToSet(entries) = {}
          BY <3>1 DEF ProxyInv, HostInv, ToSet
        <4> QED  BY <1>1, <2>1, <3>1, <4>1 DEF hosts
      <3>2. CASE allowed # {}
        BY <1>1, <2>1, <3>2 DEF ProxyInv, HostInv, hosts
      <3> QED  BY <3>1, <3>2
    <2> QED  BY <1>8, <2>3, <2>4, <2>5, <2>6 DEF ProxyInv
  <1> QED  BY <1>9, <1>10

\* Passing the answer back changes no book: the request was already handled.
LEMMA AnswerStep ==
    ASSUME RecorderTypeOK, ProxyInv, inv' = inv, NEW q \in DOMAIN traffic, Answer(q)
    PROVE  RecorderTypeOK' /\ ProxyInv' /\ Handled' = Handled
  <1>1. /\ traffic' = traffic /\ onlyHosts' = onlyHosts /\ allowed' = allowed /\ entries' = entries
        /\ dropped' = dropped /\ tunneled' = tunneled /\ handlers[q] = "recorded"
        /\ handlers' = [handlers EXCEPT ![q] = "answered"]
    BY DEF Answer
  <1>2. RecorderTypeOK'
    BY <1>1 DEF RecorderTypeOK, HandlerStates
  <1>3. \A p \in DOMAIN traffic : handlers'[p] = IF p = q THEN "answered" ELSE handlers[p]
    BY <1>1 DEF RecorderTypeOK
  <1>4. KindInv'
    BY <1>1, <1>3 DEF KindInv, ProxyInv
  <1>5. EntriesInv'
    BY <1>1, <1>3, EntriesAreRequests DEF EntriesInv, ProxyInv
  <1>6. Handled' = Handled
    BY <1>1, <1>3 DEF Handled
  <1>7. LedgerInv' /\ HostInv'
    BY <1>1, <1>6 DEF LedgerInv, HostInv, ProxyInv
  <1> QED  BY <1>2, <1>4, <1>5, <1>6, <1>7 DEF ProxyInv

\* After Serve returned the handlers that are left are those cut off, or have only to
\* answer: what was kept stays true.
LEMMA LateHandlers ==
    ASSUME RInv, inv' = inv, stage' = stage, kept' = kept, NEW q \in DOMAIN traffic,
           Tunnel(q) \/ Handle(q) \/ RoundTripFails(q) \/ Record(q) \/ Answer(q)
    PROVE  KeptInv'
  <1> SUFFICES ASSUME stage \notin {"start", "recording"}, serving' = "closed"
               PROVE  KeptInv'
    BY DEF KeptInv
  <1>1. /\ serving' = serving /\ traffic' = traffic /\ onlyHosts' = onlyHosts
        /\ handlers \in [DOMAIN traffic -> HandlerStates]
    BY DEF Tunnel, Handle, RoundTripFails, Record, Answer, RInv, RecorderTypeOK
  <1>2. ~Tunnel(q) /\ ~Handle(q)
    BY <1>1 DEF Tunnel, Handle, ToProxy
  <1>3. \/ handlers[q] = "asking" /\ handlers' = [handlers EXCEPT ![q] = "failed"]
        \/ handlers[q] = "asking" /\ handlers' = [handlers EXCEPT ![q] = "recorded"]
        \/ handlers[q] = "recorded" /\ handlers' = [handlers EXCEPT ![q] = "answered"]
    BY <1>2 DEF RoundTripFails, Record, Answer
  <1>4. /\ Cardinality(ToSet(kept.entries)) = Len(kept.entries)
        /\ Cardinality(Handled \ kept.cut) = Len(kept.entries) + Omitted(kept.dropped) + kept.tunneled
        /\ onlyHosts = {} => \E h : \A p \in ToSet(kept.entries) : traffic[p].host = h
        /\ \A p \in DOMAIN traffic : handlers[p] = "asking" => p \in kept.cut
    BY <1>1 DEF RInv, KeptInv
  <1>5. Handled' \ kept.cut = Handled \ kept.cut
    BY <1>1, <1>3, <1>4 DEF Handled
  <1>6. \A p \in DOMAIN traffic : handlers'[p] = "asking" => p \in kept.cut
    BY <1>1, <1>3, <1>4
  <1> QED  BY <1>1, <1>4, <1>5, <1>6 DEF KeptInv

\* Whatever a handler of the proxy does, the books stay right.
LEMMA HandlersKeepBooks ==
    ASSUME RInv, inv' = inv, stage' = stage, kept' = kept, HandlerStep
    PROVE  RInv'
  <1>1. PICK q \in DOMAIN traffic :
          Tunnel(q) \/ Handle(q) \/ RoundTripFails(q) \/ Record(q) \/ Answer(q)
    BY DEF HandlerStep
  <1>2. RecorderTypeOK' /\ ProxyInv'
    BY <1>1, TunnelStep, HandleStep, RoundTripFailsStep, RecordStep, AnswerStep DEF RInv
  <1>3. serving' = serving
    BY <1>1 DEF Tunnel, Handle, RoundTripFails, Record, Answer
  <1>4. ServingInv'
    BY <1>3 DEF RInv, ServingInv
  <1>5. KeptInv'
    BY <1>1, LateHandlers
  <1> QED  BY <1>2, <1>4, <1>5 DEF RInv

(***************************************************************************)
(* The process around it.                                                  *)
(***************************************************************************)
LEMMA InitRInv == Init => RInv
  <1> SUFFICES ASSUME Init PROVE RInv
    OBVIOUS
  <1>1. /\ inv \in Invocations /\ traffic = inv.traffic /\ allowed = onlyHosts
        /\ entries = <<>> /\ dropped = [r \in Reasons |-> 0] /\ tunneled = 0 /\ serving = "down"
        /\ handlers = [q \in DOMAIN traffic |-> "unsent"] /\ stage = "start"
    BY DEF Init, RecorderInit
  <1>2. RecorderTypeOK
    BY <1>1 DEF RecorderTypeOK, HandlerStates
  <1>3. Handled = {} /\ ToSet(entries) = {} /\ Len(entries) = 0
    BY <1>1 DEF Handled, ToSet
  <1>4. Omitted(dropped) = 0
    BY <1>1 DEF Omitted, Reasons
  <1>5. ProxyInv
    <2>1. Cardinality({}) = 0
      BY FS_EmptySet
    <2>2. KindInv /\ HostInv
      BY <1>1 DEF KindInv, HostInv
    <2>4. Cardinality(Handled) = 0 /\ Cardinality(ToSet(entries)) = 0
      BY <1>3, <2>1
    <2>5. \A q \in ToSet(entries) : handlers[q] \in {"recorded", "answered"}
      BY <1>3
    <2>6. Len(entries) + Omitted(dropped) + tunneled = 0
      BY <1>1, <1>3, <1>4
    <2>3. EntriesInv /\ LedgerInv
      BY <1>3, <2>4, <2>5, <2>6 DEF EntriesInv, LedgerInv
    <2> QED  BY <2>2, <2>3 DEF ProxyInv
  <1> QED  BY <1>1, <1>2, <1>5 DEF RInv, ServingInv, KeptInv

\* A step that leaves the proxy and what was kept alone, and is not the end of a recording.
LEMMA QuietStep ==
    ASSUME RInv, inv' = inv, UNCHANGED recorderVars, kept' = kept,
           stage = "recording" => serving # "closed" \/ stage' = stage,
           stage' = "start" => serving = "down" \/ stage = "start"
    PROVE  RInv'
  <1>1. /\ traffic' = traffic /\ onlyHosts' = onlyHosts /\ allowed' = allowed /\ entries' = entries
        /\ dropped' = dropped /\ tunneled' = tunneled /\ serving' = serving /\ handlers' = handlers
    BY DEF recorderVars
  <1>2. Handled' = Handled
    BY <1>1 DEF Handled
  <1>3. RecorderTypeOK'
    BY <1>1 DEF RInv, RecorderTypeOK
  <1>4. ProxyInv'
    BY <1>1, <1>2 DEF RInv, ProxyInv, KindInv, EntriesInv, LedgerInv, HostInv
  <1>5. ServingInv'
    BY <1>1 DEF RInv, ServingInv
  <1>6. KeptInv'
    BY <1>1, <1>2 DEF RInv, KeptInv, ServingInv
  <1> QED  BY <1>3, <1>4, <1>5, <1>6 DEF RInv

\* Collecting takes over the entries and the counts of the proxy as they stand.
LEMMA CollectStep ==
    ASSUME RInv, inv' = inv, Collect
    PROVE  RInv'
  <1>1. /\ traffic' = traffic /\ onlyHosts' = onlyHosts /\ allowed' = allowed /\ entries' = entries
        /\ dropped' = dropped /\ tunneled' = tunneled /\ serving' = serving /\ handlers' = handlers
        /\ stage = "recording" /\ stage' = "collected"
        /\ kept' = [entries |-> entries, dropped |-> dropped, tunneled |-> tunneled,
                    cut |-> {q \in DOMAIN handlers : handlers[q] = "asking"}]
    BY DEF Collect, Go, recorderVars
  <1>2. Handled' = Handled
    BY <1>1 DEF Handled
  <1>3. RecorderTypeOK'
    BY <1>1 DEF RInv, RecorderTypeOK
  <1>4. ProxyInv'
    BY <1>1, <1>2 DEF RInv, ProxyInv, KindInv, EntriesInv, LedgerInv, HostInv
  <1>5. ServingInv'
    BY <1>1 DEF RInv, ServingInv
  <1>6. KeptInv'
    <2>1. /\ kept'.entries = entries /\ kept'.dropped = dropped /\ kept'.tunneled = tunneled
          /\ kept'.cut = {q \in DOMAIN traffic : handlers[q] = "asking"}
      BY <1>1 DEF RInv, RecorderTypeOK
    <2>2. Handled \ kept'.cut = Handled
      BY <2>1 DEF Handled
    <2>3. onlyHosts = {} => \E h : \A q \in ToSet(entries) : traffic[q].host = h
      <3> SUFFICES ASSUME onlyHosts = {}, entries = <<>> PROVE \E h : \A q \in ToSet(entries) : traffic[q].host = h
        BY DEF RInv, ProxyInv, HostInv
      <3>1. ToSet(entries) = {}
        BY DEF ToSet
      <3> QED  BY <3>1
    <2>4. /\ Cardinality(ToSet(entries)) = Len(entries)
          /\ Cardinality(Handled) = Len(entries) + Omitted(dropped) + tunneled
      BY DEF RInv, ProxyInv, EntriesInv, LedgerInv
    <2> QED  BY <1>1, <1>2, <2>1, <2>2, <2>3, <2>4 DEF KeptInv
  <1> QED  BY <1>3, <1>4, <1>5, <1>6 DEF RInv

\* Listening, Ctrl+C and the end of the two seconds move only serving.
LEMMA ServeStep ==
    ASSUME RInv, inv' = inv, kept' = kept, stage' = "recording", inv.command = "record",
           Listen \/ Interrupt \/ (\E expired \in BOOLEAN : Shutdown(expired))
    PROVE  RInv'
  <1>1. /\ traffic' = traffic /\ onlyHosts' = onlyHosts /\ allowed' = allowed /\ entries' = entries
        /\ dropped' = dropped /\ tunneled' = tunneled /\ handlers' = handlers
    BY DEF Listen, Interrupt, Shutdown
  <1>2. Handled' = Handled
    BY <1>1 DEF Handled
  <1>3. RecorderTypeOK'
    BY <1>1 DEF RInv, RecorderTypeOK
  <1>4. ProxyInv'
    BY <1>1, <1>2 DEF RInv, ProxyInv, KindInv, EntriesInv, LedgerInv, HostInv
  <1>5. ServingInv' /\ KeptInv'
    BY DEF ServingInv, KeptInv
  <1> QED  BY <1>3, <1>4, <1>5 DEF RInv

\* Every step keeps the inductive invariant of recording.
LEMMA NextRInv == RInv /\ [Next]_vars => RInv'
  <1> SUFFICES ASSUME RInv, [Next]_vars PROVE RInv'
    OBVIOUS
  <1>1. inv' = inv
    BY InvocationStays
  <1> USE DEF Exit, Go, Started
  <1>2. ASSUME UNCHANGED recorderVars, kept' = kept, stage # "recording", stage' # "start"
        PROVE  RInv'
    BY <1>1, <1>2, QuietStep
  <1>3. CASE RefuseArguments \/ Load \/ ValidateCommand \/ Edit
    BY <1>2, <1>3 DEF RefuseArguments, Load, ValidateCommand, Edit
  <1>4. CASE \E opens \in BOOLEAN : Prepare(opens)
    BY <1>2, <1>4 DEF Prepare
  <1>5. CASE \E o \in Outcomes : ExecuteSpec(o)
    BY <1>2, <1>5 DEF ExecuteSpec
  <1>6. CASE (\E how \in Hows : WriteNext(how)) \/ WriteDone
    BY <1>2, <1>6 DEF WriteNext, WriteDone
  <1>7. CASE \E observed \in 0 .. Len(StepsOf(spec)), class \in {"success", "network"}, printed \in BOOLEAN :
               Debug(observed, class, printed)
    BY <1>2, <1>7 DEF Debug
  <1>8. CASE Report \/ (\E printed \in BOOLEAN : CompareRuns(printed))
    BY <1>2, <1>8 DEF Report, CompareRuns
  <1>9. CASE \/ \E how \in Hows : NewOne(how)
             \/ \E converts \in BOOLEAN, how \in Hows : ImportCommand(converts, how)
    BY <1>2, <1>9 DEF NewOne, ImportCommand
  <1>10. CASE \/ \E listens \in BOOLEAN : StayUp(listens)
              \/ \E fault \in BOOLEAN : GoDown(fault)
    BY <1>2, <1>10 DEF StayUp, GoDown
  <1>11. CASE \E listens \in BOOLEAN : RecordListen(listens)
    <2>1. CASE Listen /\ stage' = "recording" /\ inv.command = "record" /\ kept' = kept
      BY <1>1, <2>1, ServeStep
    <2>2. CASE UNCHANGED recorderVars /\ stage' = "end" /\ stage = "start" /\ kept' = kept
      BY <1>2, <2>2
    <2> QED  BY <1>11, <2>1, <2>2 DEF RecordListen
  <1>12. CASE Proxying
    <2>1. stage' = stage /\ kept' = kept
      BY <1>12 DEF Proxying, commandVars
    <2>2. CASE HandlerStep
      BY <1>1, <2>1, <2>2, HandlersKeepBooks
    <2>3. CASE stage = "recording" /\ (Interrupt \/ \E expired \in BOOLEAN : Shutdown(expired))
      <3>1. serving # "down"
        BY <2>3 DEF Interrupt, Shutdown
      <3>2. inv.command = "record"
        BY <3>1 DEF RInv, ServingInv
      <3> QED  BY <1>1, <2>1, <2>3, <3>2, ServeStep
    <2> QED  BY <1>12, <2>2, <2>3 DEF Proxying
  <1>13. CASE AcceptFails
    BY <1>1, <1>13, QuietStep DEF AcceptFails
  <1>14. CASE Collect
    BY <1>1, <1>14, CollectStep
  <1>15. CASE \E how \in Hows : BuildScenario(how)
    BY <1>2, <1>15 DEF BuildScenario
  <1>16. CASE MigrateStart \/ (\E text \in Texts : MigrateOne(text))
    BY <1>2, <1>16 DEF MigrateStart, MigrateOne
  <1>17. CASE (\E how \in Hows : WriteBackup(how)) \/ (\E how \in Hows : WriteDestination(how))
    BY <1>2, <1>17 DEF WriteBackup, WriteDestination
  <1>18. CASE MigrateDone \/ (\E begun \in BOOLEAN : Crash(begun))
    BY <1>2, <1>18 DEF MigrateDone, Crash
  <1>19. CASE Again
    <2>1. serving = "down"
      BY <1>19 DEF Again, RInv, ServingInv
    <2> QED  BY <1>1, <1>19, <2>1, QuietStep DEF Again
  <1>20. CASE UNCHANGED vars
    BY <1>1, <1>20, QuietStep DEF vars, commandVars
  <1> QED  BY <1>3, <1>4, <1>5, <1>6, <1>7, <1>8, <1>9, <1>10, <1>11, <1>12, <1>13, <1>14, <1>15,
              <1>16, <1>17, <1>18, <1>19, <1>20 DEF Next

(***************************************************************************)
(* No request is lost.                                                     *)
(***************************************************************************)
\* When the recorder has stopped, every request it handled is in the entries once or in a
\* count the user is shown, for every session and order of its handlers, and without
\* -host all entries are of one host (recorder.go:118, recorder.go:222).
THEOREM NoRequestLost == Spec => []RecordedOrSaid
  <1>1. RInv => RecordedOrSaid
    <2> SUFFICES ASSUME RInv, Stopped
                 PROVE  /\ Cardinality(ToSet(kept.entries)) = Len(kept.entries)
                        /\ Cardinality(Handled \ kept.cut) = Len(kept.entries) + Omitted(kept.dropped) + kept.tunneled
                        /\ onlyHosts = {} => Cardinality({traffic[q].host : q \in ToSet(kept.entries)}) <= 1
      BY DEF RecordedOrSaid, Handled
    <2>1. /\ Cardinality(ToSet(kept.entries)) = Len(kept.entries)
          /\ Cardinality(Handled \ kept.cut) = Len(kept.entries) + Omitted(kept.dropped) + kept.tunneled
          /\ onlyHosts = {} => \E h : \A q \in ToSet(kept.entries) : traffic[q].host = h
      BY DEF RInv, KeptInv, Stopped
    <2>2. ASSUME onlyHosts = {}
          PROVE  Cardinality({traffic[q].host : q \in ToSet(kept.entries)}) <= 1
      <3>1. PICK h : \A q \in ToSet(kept.entries) : traffic[q].host = h
        BY <2>1, <2>2
      <3>2. {traffic[q].host : q \in ToSet(kept.entries)} \in {{}, {h}}
        BY <3>1
      <3>3. Cardinality({}) = 0 /\ Cardinality({h}) = 1
        BY FS_EmptySet, FS_Singleton
      <3> DEFINE hosts == {traffic[q].host : q \in ToSet(kept.entries)}
      <3> HIDE DEF hosts
      <3>4. hosts = {} \/ hosts = {h}
        BY <3>2 DEF hosts
      <3>5. Cardinality(hosts) \in {0, 1}
        BY <3>3, <3>4
      <3>6. Cardinality(hosts) <= 1
        BY <3>5
      <3> QED  BY <3>6 DEF hosts
    <2> QED  BY <2>1, <2>2
  <1> QED  BY <1>1, InitRInv, NextRInv, PTL DEF Spec

(***************************************************************************)
(* Groups in the order of their first requests.                            *)
(***************************************************************************)
\* A place among numbers in order: there is one for each, and a later one is greater.
LEMMA PlacesInOrder ==
    ASSUME NEW T, T \subseteq Nat, IsFiniteSet(T)
    PROVE  /\ Cardinality(T) \in Nat
           /\ \A n \in 1 .. Cardinality(T) : NthOf(T, n) \in T
           /\ \A i \in T : \E n \in 1 .. Cardinality(T) : NthOf(T, n) = i
           /\ \A m, n \in 1 .. Cardinality(T) : NthOf(T, m) < NthOf(T, n) => m < n
  <1> DEFINE UpTo(i) == {j \in T : j <= i}
             P(i) == Cardinality(UpTo(i))
             N == Cardinality(T)
             f == [i \in T |-> P(i)]
  <1>1. N \in Nat
    BY FS_CardinalityType
  <1>2. \A i \in T : IsFiniteSet(UpTo(i)) /\ P(i) \in 1 .. N
    <2> SUFFICES ASSUME NEW i \in T PROVE IsFiniteSet(UpTo(i)) /\ P(i) \in 1 .. N
      OBVIOUS
    <2>1. UpTo(i) \subseteq T /\ i \in UpTo(i)
      OBVIOUS
    <2> HIDE DEF UpTo
    <2>2. IsFiniteSet(UpTo(i)) /\ Cardinality(UpTo(i)) <= N
      BY <2>1, FS_Subset
    <2>3. Cardinality(UpTo(i)) \in Nat /\ Cardinality(UpTo(i)) # 0
      BY <2>1, <2>2, FS_CardinalityType, FS_EmptySet
    <2> QED  BY <1>1, <2>2, <2>3
  <1>3. \A i, j \in T : i < j => P(i) < P(j)
    <2> SUFFICES ASSUME NEW i \in T, NEW j \in T, i < j PROVE P(i) < P(j)
      OBVIOUS
    <2>1. UpTo(i) \cup {j} \subseteq UpTo(j) /\ j \notin UpTo(i)
      <3>1. i \in Nat /\ j \in Nat /\ \A x \in T : x \in Nat
        OBVIOUS
      <3>2. \A x \in UpTo(i) : x \in UpTo(j)
        BY <3>1
      <3>3. j \in UpTo(j) /\ j \notin UpTo(i)
        BY <3>1
      <3> HIDE DEF UpTo
      <3> QED  BY <3>2, <3>3
    <2>2. IsFiniteSet(UpTo(i)) /\ IsFiniteSet(UpTo(j)) /\ P(i) \in Nat /\ P(j) \in Nat
      BY <1>1, <1>2
    <2> HIDE DEF UpTo
    <2>3. Cardinality(UpTo(i) \cup {j}) = P(i) + 1
      BY <2>1, <2>2, FS_AddElement
    <2>4. Cardinality(UpTo(i) \cup {j}) <= P(j)
      BY <2>1, <2>2, FS_Subset
    <2> QED  BY <2>2, <2>3, <2>4
  <1>4. \A n : NthOf(T, n) = CHOOSE i \in T : P(i) = n
    BY DEF NthOf
  <1> HIDE DEF P, UpTo
  <1>5. \A i, j \in T : P(i) = P(j) => i = j
    <2> SUFFICES ASSUME NEW i \in T, NEW j \in T, i # j PROVE P(i) # P(j)
      OBVIOUS
    <2>1. i < j \/ j < i
      OBVIOUS
    <2>2. P(i) < P(j) \/ P(j) < P(i)
      BY <1>3, <2>1
    <2>3. P(i) \in Nat /\ P(j) \in Nat
      BY <1>1, <1>2
    <2> QED  BY <2>2, <2>3
  <1>6. f \in Injection(T, 1 .. N)
    BY <1>2, <1>5 DEF Injection, IsInjective
  <1>7. IsFiniteSet(1 .. N) /\ Cardinality(1 .. N) = N
    BY <1>1, FS_Interval
  <1>8. f \in Surjection(T, 1 .. N)
    BY <1>6, <1>7, FS_Injection
  <1>9. \A n \in 1 .. N : \E i \in T : P(i) = n
    BY <1>8 DEF Surjection
  <1>10. \A n \in 1 .. N : NthOf(T, n) \in T /\ P(NthOf(T, n)) = n
    BY <1>4, <1>9
  <1>11. \A i \in T : P(i) \in 1 .. N /\ NthOf(T, P(i)) = i
    BY <1>2, <1>5, <1>10
  <1>12. ASSUME NEW m \in 1 .. N, NEW n \in 1 .. N, NthOf(T, m) < NthOf(T, n) PROVE m < n
    <2>1. P(NthOf(T, m)) < P(NthOf(T, n))
      BY <1>3, <1>10, <1>12
    <2> QED  BY <1>10, <2>1
  <1> QED  BY <1>1, <1>10, <1>11, <1>12

(***************************************************************************)
(* The values offered, one after the other.                                *)
(***************************************************************************)
\* The sequences one after the other: nothing else, nothing missing, none out of turn.
Joined(seqs, n, s) ==
    /\ s \in Seq(UNION {{seqs[g][k] : k \in DOMAIN seqs[g]} : g \in 1 .. n})
    /\ \A g \in 1 .. n : \A k \in DOMAIN seqs[g] : \E a \in DOMAIN s : s[a] = seqs[g][k]
    /\ \A a, b \in DOMAIN s : a < b => s[a].step <= s[b].step

\* One sequence more, after the others.
LEMMA JoinStep ==
    ASSUME NEW seqs, NEW n \in Nat, NEW s, NEW X, n > 0,
           s \in Seq(X), Joined(seqs, n - 1, s), seqs[n] \in Seq(X),
           \A g \in 1 .. n : \A k \in DOMAIN seqs[g] : seqs[g][k].step = g
    PROVE  Joined(seqs, n, s \o seqs[n])
  <1> DEFINE t == seqs[n]
             All(m) == UNION {{seqs[g][k] : k \in DOMAIN seqs[g]} : g \in 1 .. m}
             both == s \o t
  <1>1. /\ both \in Seq(X) /\ Len(both) = Len(s) + Len(t) /\ Len(s) \in Nat /\ Len(t) \in Nat
        /\ DOMAIN both = 1 .. Len(s) + Len(t) /\ DOMAIN s = 1 .. Len(s) /\ DOMAIN t = 1 .. Len(t)
        /\ \A a \in 1 .. Len(s) : both[a] = s[a]
        /\ \A a \in 1 .. Len(t) : both[Len(s) + a] = t[a]
    OBVIOUS
  <1>2. \A a \in DOMAIN both : a \in DOMAIN s \/ (a - Len(s) \in DOMAIN t /\ both[a] = t[a - Len(s)])
    <2> SUFFICES ASSUME NEW a \in DOMAIN both, a \notin DOMAIN s
                 PROVE  a - Len(s) \in DOMAIN t /\ both[a] = t[a - Len(s)]
      OBVIOUS
    <2>1. a \in Nat /\ a - Len(s) \in 1 .. Len(t) /\ Len(s) + (a - Len(s)) = a
      BY <1>1
    <2> QED  BY <1>1, <2>1
  <1>3. n \in 1 .. n /\ \A g \in 1 .. n - 1 : g \in 1 .. n
    OBVIOUS
  <1>4. \A g \in 1 .. n : g = n \/ g \in 1 .. n - 1
    OBVIOUS
  <1> HIDE DEF both
  <1>5. s \in Seq(All(n - 1))
    BY DEF Joined
  <1>6. \A x \in All(n - 1) : x \in All(n)
    BY <1>3
  <1>7. \A k \in DOMAIN t : t[k] \in All(n)
    BY <1>3
  <1>8. \A a \in DOMAIN s : s[a] \in All(n - 1)
    <2> HIDE DEF All
    <2> QED  BY <1>5
  <1> HIDE DEF All
  <1>9. \A a \in DOMAIN both : both[a] \in All(n)
    BY <1>1, <1>2, <1>6, <1>7, <1>8
  <1>10. both \in Seq(All(n))
    BY <1>1, <1>9
  <1>11. ASSUME NEW g \in 1 .. n, NEW k \in DOMAIN seqs[g]
         PROVE  \E a \in DOMAIN both : both[a] = seqs[g][k]
    <2>1. CASE g = n
      <3>1. k \in 1 .. Len(t) /\ seqs[g][k] = t[k]
        BY <1>1, <1>11, <2>1
      <3>2. Len(s) + k \in 1 .. Len(s) + Len(t)
        BY <1>1, <3>1
      <3> QED  BY <1>1, <3>1, <3>2
    <2>2. CASE g \in 1 .. n - 1
      <3>1. PICK a \in DOMAIN s : s[a] = seqs[g][k]
        BY <1>11, <2>2 DEF Joined
      <3>2. a \in DOMAIN both /\ both[a] = seqs[g][k]
        BY <1>1, <3>1
      <3> QED  BY <3>2
    <2> QED  BY <1>4, <2>1, <2>2
  <1>12. \A k \in DOMAIN t : t[k].step = n
    BY <1>3
  <1>13. \A a \in DOMAIN s : s[a].step \in 1 .. n - 1
    <2> SUFFICES ASSUME NEW a \in DOMAIN s PROVE s[a].step \in 1 .. n - 1
      OBVIOUS
    <2>1. PICK g \in 1 .. n - 1 : \E k \in DOMAIN seqs[g] : s[a] = seqs[g][k]
      BY <1>8 DEF All
    <2> QED  BY <1>3, <2>1
  <1>14. ASSUME NEW a \in DOMAIN both, NEW b \in DOMAIN both, a < b
         PROVE  both[a].step <= both[b].step
    <2>1. CASE a \in DOMAIN s /\ b \in DOMAIN s
      BY <1>1, <1>14, <2>1 DEF Joined
    <2>2. CASE a \in DOMAIN s /\ b \notin DOMAIN s
      <3>1. both[b].step = n
        BY <1>2, <1>12, <2>2
      <3>2. both[a] = s[a]
        BY <1>1, <2>2
      <3>3. both[a].step \in 1 .. n - 1
        BY <1>13, <2>2, <3>2
      <3> QED  BY <3>1, <3>3
    <2>3. CASE a \notin DOMAIN s
      <3>1. b \notin DOMAIN s
        BY <1>1, <1>14, <2>3
      <3>2. both[a].step = n /\ both[b].step = n
        BY <1>2, <1>12, <2>3, <3>1
      <3> QED  BY <3>2
    <2> QED  BY <2>1, <2>2, <2>3
  <1>15. both \in Seq(UNION {{seqs[g][k] : k \in DOMAIN seqs[g]} : g \in 1 .. n})
    BY <1>10 DEF All
  <1>16. Joined(seqs, n, both)
    BY <1>11, <1>14, <1>15 DEF Joined
  <1> QED  BY <1>16 DEF both

\* FlattenSeq joins its sequences.
LEMMA Flattened ==
    ASSUME NEW X, NEW seqs \in Seq(Seq(X)), NEW n, n = Len(seqs),
           \A g \in 1 .. n : \A k \in DOMAIN seqs[g] : seqs[g][k].step = g
    PROVE  FlattenSeq(seqs) \in Seq(X) /\ Joined(seqs, n, FlattenSeq(seqs))
  <1>1. n \in Nat /\ DOMAIN seqs = 1 .. n /\ \A g \in 1 .. n : seqs[g] \in Seq(X)
    OBVIOUS
  <1>2. <<>> \in Seq(X) /\ Joined(seqs, 0, <<>>)
    BY DEF Joined
  <1>3. CASE n = 0
    <2>1. PICK Y : Y = Seq(X)
      OBVIOUS
    <2>3. seqs \in Seq(Y)
      BY <2>1
    <2>4. Len(seqs) = 0
      BY <1>3
    <2>5. seqs = <<>>
      BY <2>3, <2>4
    <2>2. FlattenSeq(seqs) = seqs
      BY <1>3 DEF FlattenSeq
    <2> QED  BY <1>2, <1>3, <2>5, <2>2
  <1>4. CASE n # 0
    <2> DEFINE Next1(F, i) == IF i = 1 THEN seqs[i] ELSE F[i - 1] \o seqs[i]
               Joins(F) == F = [i \in 1 .. n |-> Next1(F, i)]
               Upto(F, m) == \A i \in 1 .. m : F[i] = Next1(F, i)
               T == {m \in 0 .. n : \E F : Upto(F, m)}
    <2>1. FlattenSeq(seqs) = (CHOOSE F : Joins(F))[n]
      BY <1>4 DEF FlattenSeq
    <2>2. 0 \in T
      BY <1>1
    <2>3. ASSUME NEW m \in 0 .. n, m \in T, m < n PROVE m + 1 \in T
      <3>1. PICK F : Upto(F, m)
        BY <2>3
      <3> DEFINE G == [i \in 1 .. m + 1 |-> IF i <= m THEN F[i] ELSE Next1(F, i)]
      <3>2. \A i \in 1 .. m : G[i] = F[i]
        BY <2>3
      <3>3. G[m + 1] = Next1(F, m + 1)
        BY <2>3
      <3> HIDE DEF G
      <3>4. \A i \in 1 .. m : Next1(G, i) = Next1(F, i)
        <4> SUFFICES ASSUME NEW i \in 1 .. m, i # 1 PROVE G[i - 1] = F[i - 1]
          OBVIOUS
        <4>1. i - 1 \in 1 .. m
          BY <2>3
        <4> QED  BY <3>2, <4>1
      <3>5. Next1(G, m + 1) = Next1(F, m + 1)
        <4> SUFFICES ASSUME m # 0 PROVE G[m + 1 - 1] = F[m + 1 - 1]
          BY <2>3
        <4>1. m + 1 - 1 = m /\ m \in 1 .. m
          BY <2>3
        <4> QED  BY <3>2, <4>1
      <3>6. \A i \in 1 .. m + 1 : i \in 1 .. m \/ i = m + 1
        BY <2>3
      <3> HIDE DEF Next1
      <3>7. Upto(G, m + 1)
        BY <3>1, <3>2, <3>3, <3>4, <3>5, <3>6
      <3>8. m + 1 \in 0 .. n
        BY <1>1, <2>3
      <3> HIDE DEF Upto
      <3> QED  BY <3>7, <3>8
    <2>4. 0 .. n \subseteq T
      <3> HIDE DEF T
      <3> QED  BY <1>1, <2>2, <2>3, CountingUp
    <2>5. PICK F : Upto(F, n)
      <3> HIDE DEF Upto
      <3> QED  BY <1>1, <2>4
    <2> DEFINE H == [i \in 1 .. n |-> F[i]]
    <2>6. \A i \in 1 .. n : H[i] = Next1(F, i)
      <3> HIDE DEF Next1
      <3> QED  BY <2>5
    <2>7. \A i \in 1 .. n : Next1(H, i) = Next1(F, i)
      <3> SUFFICES ASSUME NEW i \in 1 .. n, i # 1 PROVE H[i - 1] = F[i - 1]
        OBVIOUS
      <3>1. i - 1 \in 1 .. n
        BY <1>1
      <3> QED  BY <3>1
    <2>8. Joins(H)
      <3>1. H = [i \in 1 .. n |-> H[i]]
        OBVIOUS
      <3> HIDE DEF H, Next1
      <3> QED  BY <2>6, <2>7, <3>1
    <2> HIDE DEF H
    <2>9. PICK flat : flat = CHOOSE G : Joins(G)
      OBVIOUS
    <2>10. Joins(flat)
      <3> HIDE DEF Joins
      <3> QED  BY <2>8, <2>9, Zenon
    <2>11. \A i \in 1 .. n : flat[i] = Next1(flat, i)
      <3> HIDE DEF Next1
      <3> QED  BY <2>10
    <2>17. \A i \in 1 .. n : i # 1 => flat[i] = flat[i - 1] \o seqs[i]
      <3> SUFFICES ASSUME NEW i \in 1 .. n, i # 1 PROVE Next1(flat, i) = flat[i - 1] \o seqs[i]
        BY <2>11
      <3> QED  OBVIOUS
    <2> DEFINE Fine(m) == flat[m] \in Seq(X) /\ Joined(seqs, m, flat[m])
               S == {m \in 0 .. n : m = 0 \/ Fine(m)}
    <2>12. 0 \in S
      BY <1>1
    <2>13. ASSUME NEW m \in 0 .. n, m \in S, m < n PROVE m + 1 \in S
      <3>1. /\ m + 1 \in 1 .. n /\ m + 1 \in Nat /\ m + 1 > 0 /\ m + 1 - 1 = m
            /\ \A g \in 1 .. m + 1 : g \in 1 .. n
        BY <1>1, <2>13
      <3>2. seqs[m + 1] \in Seq(X)
        BY <1>1, <3>1
      <3>3. \A s : s \in Seq(X) /\ Joined(seqs, m, s) => Joined(seqs, m + 1, s \o seqs[m + 1])
        <4> SUFFICES ASSUME NEW s, s \in Seq(X), Joined(seqs, m, s)
                     PROVE  Joined(seqs, m + 1, s \o seqs[m + 1])
          OBVIOUS
        <4>1. PICK p : p = m + 1
          OBVIOUS
        <4>2. p \in Nat /\ p > 0 /\ p - 1 = m /\ seqs[p] \in Seq(X) /\ \A g \in 1 .. p : g \in 1 .. n
          BY <3>1, <3>2, <4>1
        <4>3. \A g \in 1 .. p : \A k \in DOMAIN seqs[g] : seqs[g][k].step = g
          BY <4>2
        <4>4. Joined(seqs, p - 1, s)
          BY <4>2
        <4>5. Joined(seqs, p, s \o seqs[p])
          BY <4>2, <4>3, <4>4, JoinStep, Zenon
        <4> QED  BY <4>1, <4>5
      <3>4. CASE m = 0
        <4>1. flat[1] = seqs[1] /\ m + 1 = 1
          BY <2>11, <3>1, <3>4
        <4>2. <<>> \o seqs[1] = seqs[1]
          BY <3>2, <3>4
        <4>5. Joined(seqs, m, <<>>)
          BY <1>2, <3>4
        <4>6. Joined(seqs, m + 1, <<>> \o seqs[m + 1])
          BY <1>2, <3>3, <4>5, Zenon
        <4>3. Joined(seqs, 1, seqs[1])
          BY <4>1, <4>2, <4>6
        <4>4. Fine(1)
          BY <3>2, <4>1, <4>3
        <4> HIDE DEF Fine
        <4> QED  BY <3>1, <4>1, <4>4
      <3>5. CASE m # 0
        <4>1. Fine(m)
          BY <2>13, <3>5
        <4>5. PICK p : p = m + 1
          OBVIOUS
        <4>6. p \in 1 .. n
          BY <3>1, <4>5
        <4>7. p # 1
          BY <2>13, <3>5, <4>5
        <4>8. p - 1 = m
          BY <2>13, <4>5
        <4>9. flat[p] = flat[p - 1] \o seqs[p]
          BY <2>17, <4>6, <4>7, Zenon
        <4>2. flat[m + 1] = flat[m] \o seqs[m + 1]
          BY <4>5, <4>8, <4>9, Zenon
        <4>3. flat[m + 1] \in Seq(X)
          BY <3>2, <4>1, <4>2
        <4>4. Fine(m + 1)
          BY <3>3, <4>1, <4>2, <4>3
        <4> HIDE DEF Fine
        <4> QED  BY <3>1, <4>4
      <3> QED  BY <3>4, <3>5
    <2>14. 0 .. n \subseteq S
      <3> HIDE DEF S
      <3> QED  BY <1>1, <2>12, <2>13, CountingUp
    <2>15. Fine(n)
      <3> HIDE DEF Fine
      <3> QED  BY <1>1, <1>4, <2>14
    <2>16. FlattenSeq(seqs) = flat[n]
      BY <2>1, <2>9, Zenon
    <2> QED  BY <2>15, <2>16
  <1> QED  BY <1>3, <1>4

\* The values offered come from the first answers, all of them, group after group.
InOrder(groups, offers) ==
    /\ \E X : offers \in Seq(X)
    /\ \A a \in DOMAIN offers : offers[a].step \in DOMAIN groups
    /\ \A a, b \in DOMAIN offers : a < b => offers[a].step <= offers[b].step
    /\ \A g \in DOMAIN groups : \A i \in DOMAIN groups[g].first.reply :
          \E a \in DOMAIN offers : offers[a] = [step |-> g, candidate |-> groups[g].first.reply[i]]

\* Groups the recorder can make: one after the other, each with a list of values.
Listed(groups) ==
    /\ \E m \in Nat : DOMAIN groups = 1 .. m
    /\ \A g \in DOMAIN groups : \E V : groups[g].first.reply \in Seq(V)

\* Offers lists every value of every first answer in that order.
LEMMA OffersInOrder ==
    ASSUME NEW groups, Listed(groups)
    PROVE  InOrder(groups, Offers(groups))
  <1>1. PICK m \in Nat : DOMAIN groups = 1 .. m
    BY DEF Listed
  <1> DEFINE Row(g) == [i \in DOMAIN groups[g].first.reply |->
                           [step |-> g, candidate |-> groups[g].first.reply[i]]]
             rows == [g \in DOMAIN groups |-> Row(g)]
             X == UNION {{Row(g)[i] : i \in DOMAIN Row(g)} : g \in 1 .. m}
             offers == Offers(groups)
  <1>2. offers = FlattenSeq(rows)
    BY DEF Offers
  <1>3. \A g \in 1 .. m : Row(g) \in Seq(X)
    <2> SUFFICES ASSUME NEW g \in 1 .. m PROVE Row(g) \in Seq(X)
      OBVIOUS
    <2>1. PICK V : groups[g].first.reply \in Seq(V)
      BY <1>1 DEF Listed
    <2>2. PICK reply : reply = groups[g].first.reply
      OBVIOUS
    <2>3. Len(reply) \in Nat /\ DOMAIN reply = 1 .. Len(reply)
      BY <2>1, <2>2
    <2>4. DOMAIN Row(g) = 1 .. Len(reply) /\ \A i \in DOMAIN Row(g) : Row(g)[i] \in X
      BY <2>2, <2>3
    <2>5. Row(g) = [i \in 1 .. Len(reply) |-> Row(g)[i]]
      BY <2>2, <2>3
    <2> HIDE DEF Row, X
    <2> QED  BY <2>3, <2>4, <2>5
  <1>4. \A g \in 1 .. m : \A i \in DOMAIN Row(g) : Row(g)[i].step = g
    OBVIOUS
  <1>5. \A g \in 1 .. m : rows[g] = Row(g)
    BY <1>1
  <1>6. rows \in Seq(Seq(X)) /\ Len(rows) = m
    <2> HIDE DEF Row, X
    <2>1. rows = [g \in 1 .. m |-> Row(g)]
      BY <1>1
    <2>2. PICK Y : Y = Seq(X)
      OBVIOUS
    <2>3. \A g \in 1 .. m : Row(g) \in Y
      BY <1>3, <2>2
    <2>4. rows \in Seq(Y) /\ Len(rows) = m
      BY <2>1, <2>3
    <2> QED  BY <2>2, <2>4
  <1>7. \A g \in 1 .. m : \A i \in DOMAIN rows[g] : rows[g][i].step = g
    <2> HIDE DEF Row, rows
    <2> QED  BY <1>4, <1>5
  <1>8. offers \in Seq(X) /\ Joined(rows, m, offers)
    <2> HIDE DEF rows, X
    <2>1. FlattenSeq(rows) \in Seq(X) /\ Joined(rows, m, FlattenSeq(rows))
      BY <1>6, <1>7, Flattened
    <2> QED  BY <1>2, <2>1
  <1> HIDE DEF offers
  <1>9. \A a \in DOMAIN offers : offers[a].step \in DOMAIN groups
    <2> SUFFICES ASSUME NEW a \in DOMAIN offers PROVE offers[a].step \in 1 .. m
      BY <1>1
    <2>1. offers[a] \in X
      <3> HIDE DEF X
      <3> QED  BY <1>8
    <2>2. PICK g \in 1 .. m : \E i \in DOMAIN Row(g) : offers[a] = Row(g)[i]
      <3> HIDE DEF Row
      <3> QED  BY <2>1
    <2> HIDE DEF Row, X
    <2> QED  BY <1>4, <2>2
  <1>10. ASSUME NEW g \in DOMAIN groups, NEW i \in DOMAIN groups[g].first.reply
         PROVE  \E a \in DOMAIN offers : offers[a] = [step |-> g, candidate |-> groups[g].first.reply[i]]
    <2>1. g \in 1 .. m /\ i \in DOMAIN Row(g) /\ Row(g)[i] = [step |-> g, candidate |-> groups[g].first.reply[i]]
      BY <1>1, <1>10
    <2>2. \A h \in 1 .. m : \A k \in DOMAIN rows[h] : \E a \in DOMAIN offers : offers[a] = rows[h][k]
      BY <1>8 DEF Joined
    <2> HIDE DEF Row, rows
    <2>3. i \in DOMAIN rows[g] /\ rows[g][i] = Row(g)[i]
      BY <1>5, <2>1
    <2>4. PICK a \in DOMAIN offers : offers[a] = rows[g][i]
      BY <2>1, <2>2, <2>3
    <2> QED  BY <2>1, <2>3, <2>4
  <1>11. \A a, b \in DOMAIN offers : a < b => offers[a].step <= offers[b].step
    BY <1>8 DEF Joined
  <1>12. \E Y : offers \in Seq(Y)
    <2> HIDE DEF X
    <2> QED  BY <1>8
  <1>13. InOrder(groups, offers)
    BY <1>9, <1>10, <1>11, <1>12 DEF InOrder
  <1> QED  BY <1>13 DEF offers

(***************************************************************************)
(* Correlation.                                                            *)
(***************************************************************************)
\* The captures once n offers were looked at: every value a later group uses is among
\* them, from the first step that offered it, under the first name that was free.
CapturesAfter(groups, offers, n, c) ==
    /\ \E R : c \in Seq(R)
    /\ \A k \in DOMAIN c : \E o \in 1 .. n : c[k].step = offers[o].step
    /\ \A o \in 1 .. n : offers[o].candidate.long /\ Consumers(groups, offers[o]) # {} =>
          \E k \in DOMAIN c : c[k].value = offers[o].candidate.value /\ c[k].step <= offers[o].step
    /\ \A k \in DOMAIN c :
          c[k].variable = IF \E i \in 1 .. k - 1 : c[i].variable = c[k].leaf
                          THEN Qualified(Subject(groups[c[k].step].first), c[k].leaf) ELSE c[k].leaf

\* The next offer keeps that.
LEMMA ClaimStep ==
    ASSUME NEW groups, NEW m \in Nat, DOMAIN groups = 1 .. m, NEW offers, InOrder(groups, offers),
           NEW n \in Nat, n + 1 \in DOMAIN offers, NEW c, CapturesAfter(groups, offers, n, c)
    PROVE  CapturesAfter(groups, offers, n + 1, Claim(groups, c, offers[n + 1]))
  <1> DEFINE offer == offers[n + 1]
             value == offer.candidate.value
             new == [step |-> offer.step, value |-> value, leaf |-> Plain(offer.candidate.name),
                     variable |-> VariableName(Plain(offer.candidate.name), Subject(groups[offer.step].first), c)]
             taken == \E i \in DOMAIN c : c[i].value = value
             skipped == ~offer.candidate.long \/ Consumers(groups, offer) = {} \/ taken
             d == Claim(groups, c, offer)
  <1>1. d = IF skipped THEN c ELSE Append(c, new)
    BY DEF Claim
  <1>2. PICK X : offers \in Seq(X)
    BY DEF InOrder
  <1>3. /\ \A o \in 1 .. n : o \in DOMAIN offers /\ o < n + 1
        /\ \A o \in 1 .. n + 1 : o \in 1 .. n \/ o = n + 1
        /\ \A o \in 1 .. n : o \in 1 .. n + 1
        /\ n + 1 \in 1 .. n + 1
    BY <1>2
  <1>4. \A o \in DOMAIN offers : offers[o].step \in Nat
    BY DEF InOrder
  <1>5. \A o \in 1 .. n : offers[o].step <= offer.step
    BY <1>3 DEF InOrder
  <1>6. PICK R : c \in Seq(R)
    BY DEF CapturesAfter
  <1>7. \A k \in DOMAIN c : c[k].step \in Nat /\ c[k].step <= offer.step
    BY <1>3, <1>4, <1>5 DEF CapturesAfter
  <1>8. CASE skipped
    <2>1. d = c
      BY <1>1, <1>8
    <2>2. \A k \in DOMAIN c : \E o \in 1 .. n + 1 : c[k].step = offers[o].step
      BY <1>3 DEF CapturesAfter
    <2>3. ASSUME NEW o \in 1 .. n + 1, offers[o].candidate.long, Consumers(groups, offers[o]) # {}
          PROVE  \E k \in DOMAIN c : c[k].value = offers[o].candidate.value /\ c[k].step <= offers[o].step
      <3>1. CASE o \in 1 .. n
        BY <2>3, <3>1 DEF CapturesAfter
      <3>2. CASE o = n + 1
        <4>1. taken
          BY <1>8, <2>3, <3>2
        <4> QED  BY <1>7, <3>2, <4>1
      <3> QED  BY <1>3, <3>1, <3>2
    <2> HIDE DEF d, offer
    <2>4. CapturesAfter(groups, offers, n + 1, c)
      BY <1>6, <2>2, <2>3 DEF CapturesAfter
    <2> QED  BY <2>1, <2>4 DEF d, offer
  <1>9. CASE ~skipped
    <2>1. d = Append(c, new)
      BY <1>1, <1>9
    <2> DEFINE L == Len(c)
    <2>2. /\ L \in Nat /\ DOMAIN c = 1 .. L /\ DOMAIN d = 1 .. L + 1
          /\ \A k \in 1 .. L : d[k] = c[k]
          /\ d[L + 1] = new
          /\ \E Q : d \in Seq(Q)
      <3> DEFINE Q == R \cup {new}
      <3> HIDE DEF new, d
      <3>1. c \in Seq(Q)
        BY <1>6
      <3>2. new \in Q
        OBVIOUS
      <3> HIDE DEF Q
      <3>3. Append(c, new) \in Seq(Q)
        BY <3>1, <3>2
      <3> QED  BY <2>1, <3>1, <3>2, <3>3
    <2>3. /\ new.step = offer.step /\ new.value = value /\ new.leaf = Plain(offer.candidate.name)
          /\ new.variable = VariableName(new.leaf, Subject(groups[new.step].first), c)
      OBVIOUS
    <2>4. \A k \in DOMAIN d : (k \in 1 .. L /\ d[k] = c[k]) \/ (k = L + 1 /\ d[k] = new)
      BY <2>2
    <2>5. L + 1 \in DOMAIN d /\ \A k \in 1 .. L : k \in DOMAIN d
      BY <2>2
    <2> HIDE DEF d, new
    <2>6. \A k \in DOMAIN d : \E o \in 1 .. n + 1 : d[k].step = offers[o].step
      BY <1>3, <2>2, <2>3, <2>4 DEF CapturesAfter
    <2>7. ASSUME NEW o \in 1 .. n + 1, offers[o].candidate.long, Consumers(groups, offers[o]) # {}
          PROVE  \E k \in DOMAIN d : d[k].value = offers[o].candidate.value /\ d[k].step <= offers[o].step
      <3>1. CASE o \in 1 .. n
        <4>1. PICK k \in DOMAIN c : c[k].value = offers[o].candidate.value /\ c[k].step <= offers[o].step
          BY <2>7, <3>1 DEF CapturesAfter
        <4>2. k \in DOMAIN d /\ d[k] = c[k]
          BY <2>2, <2>5, <4>1
        <4> QED  BY <4>1, <4>2
      <3>2. CASE o = n + 1
        <4>1. d[L + 1].value = offers[o].candidate.value /\ d[L + 1].step = offers[o].step
          BY <2>2, <2>3, <3>2
        <4>2. offers[o].step \in Nat
          BY <1>4, <3>2
        <4> QED  BY <2>5, <4>1, <4>2
      <3> QED  BY <1>3, <3>1, <3>2
    <2>8. ASSUME NEW k \in DOMAIN d
          PROVE  d[k].variable = IF \E i \in 1 .. k - 1 : d[i].variable = d[k].leaf
                                 THEN Qualified(Subject(groups[d[k].step].first), d[k].leaf) ELSE d[k].leaf
      <3>1. CASE k \in 1 .. L
        <4>1. d[k] = c[k] /\ k \in DOMAIN c
          BY <2>2, <3>1
        <4>2. \A i \in 1 .. k - 1 : d[i] = c[i]
          BY <2>2, <3>1
        <4>3. c[k].variable = IF \E i \in 1 .. k - 1 : c[i].variable = c[k].leaf
                              THEN Qualified(Subject(groups[c[k].step].first), c[k].leaf) ELSE c[k].leaf
          BY <4>1 DEF CapturesAfter
        <4> QED  BY <4>1, <4>2, <4>3
      <3>2. CASE k = L + 1
        <4>1. d[k] = new /\ k - 1 = L
          BY <2>2, <3>2
        <4>2. \A i \in 1 .. L : d[i] = c[i]
          BY <2>2
        <4>3. new.variable = IF \E i \in 1 .. L : c[i].variable = new.leaf
                             THEN Qualified(Subject(groups[new.step].first), new.leaf) ELSE new.leaf
          BY <2>2, <2>3 DEF VariableName
        <4> QED  BY <4>1, <4>2, <4>3
      <3> QED  BY <2>4, <3>1, <3>2
    <2> HIDE DEF offer
    <2>9. CapturesAfter(groups, offers, n + 1, d)
      BY <2>2, <2>6, <2>7, <2>8 DEF CapturesAfter
    <2> QED  BY <2>9 DEF d, offer
  <1> QED  BY <1>8, <1>9

\* Correlate looks at every offer, one after the other.
LEMMA WhatIsCaptured ==
    ASSUME NEW groups, Listed(groups)
    PROVE  CapturesAfter(groups, Offers(groups), Len(Offers(groups)), Correlate(groups))
  <1> DEFINE offers == Offers(groups)
             N == Len(offers)
             After(F, n) == IF n = 0 THEN <<>> ELSE Claim(groups, F[n - 1], offers[n])
             Claims(F) == F = [n \in 0 .. N |-> After(F, n)]
             UpTo(F, m) == \A n \in 0 .. m : F[n] = After(F, n)
             T == {m \in 0 .. N : \E F : UpTo(F, m)}
  <1>1. Correlate(groups) = (CHOOSE F : Claims(F))[N]
    BY DEF Correlate
  <1>2. InOrder(groups, offers)
    BY OffersInOrder
  <1> HIDE DEF offers
  <1>3. N \in Nat /\ DOMAIN offers = 1 .. N
    <2>1. PICK X : offers \in Seq(X)
      BY <1>2 DEF InOrder
    <2> QED  BY <2>1
  <1> HIDE DEF N
  <1>4. 0 \in T
    <2> DEFINE F == [n \in 0 .. 0 |-> <<>>]
    <2>1. \A n \in 0 .. 0 : n = 0
      OBVIOUS
    <2>2. UpTo(F, 0)
      BY <2>1
    <2> HIDE DEF UpTo
    <2> QED  BY <1>3, <2>2
  <1>5. ASSUME NEW m \in 0 .. N, m \in T, m < N PROVE m + 1 \in T
    <2>1. PICK F : UpTo(F, m)
      BY <1>5
    <2> DEFINE G == [n \in 0 .. m + 1 |-> IF n <= m THEN F[n] ELSE After(F, n)]
    <2>2. \A n \in 0 .. m : G[n] = F[n]
      BY <1>5
    <2>3. G[m + 1] = After(F, m + 1)
      BY <1>5
    <2> HIDE DEF G
    <2>4. \A n \in 0 .. m + 1 : After(G, n) = After(F, n)
      <3> SUFFICES ASSUME NEW n \in 0 .. m + 1, n # 0 PROVE G[n - 1] = F[n - 1]
        OBVIOUS
      <3>1. n - 1 \in 0 .. m
        BY <1>5
      <3> QED  BY <2>2, <3>1
    <2>5. \A n \in 0 .. m + 1 : n \in 0 .. m \/ n = m + 1
      BY <1>5
    <2> HIDE DEF After
    <2>6. UpTo(G, m + 1)
      BY <2>1, <2>2, <2>3, <2>4, <2>5
    <2>7. m + 1 \in 0 .. N
      BY <1>3, <1>5
    <2> HIDE DEF UpTo
    <2> QED  BY <2>6, <2>7
  <1>6. 0 .. N \subseteq T
    <2> HIDE DEF T
    <2> QED  BY <1>3, <1>4, <1>5, CountingUp
  <1>7. PICK F : UpTo(F, N)
    <2> HIDE DEF UpTo
    <2> QED  BY <1>3, <1>6
  <1> DEFINE H == [n \in 0 .. N |-> F[n]]
  <1>8. \A n \in 0 .. N : H[n] = After(F, n)
    <2> HIDE DEF After
    <2> QED  BY <1>7
  <1>9. \A n \in 0 .. N : After(H, n) = After(F, n)
    <2> SUFFICES ASSUME NEW n \in 0 .. N, n # 0 PROVE H[n - 1] = F[n - 1]
      OBVIOUS
    <2>1. n - 1 \in 0 .. N
      BY <1>3
    <2> QED  BY <2>1
  <1>10. Claims(H)
    <2>1. H = [n \in 0 .. N |-> H[n]]
      OBVIOUS
    <2> HIDE DEF H, After
    <2> QED  BY <1>8, <1>9, <2>1
  <1> HIDE DEF H
  <1>11. PICK claimed : claimed = CHOOSE G : Claims(G)
    OBVIOUS
  <1>12. Claims(claimed)
    <2> HIDE DEF Claims
    <2> QED  BY <1>10, <1>11, Zenon
  <1>13. \A n \in 0 .. N : claimed[n] = After(claimed, n)
    <2> HIDE DEF After
    <2> QED  BY <1>12
  <1>14. claimed[0] = <<>>
    BY <1>3, <1>13
  <1>15. \A n \in 0 .. N : n # 0 => claimed[n] = Claim(groups, claimed[n - 1], offers[n])
    <2> SUFFICES ASSUME NEW n \in 0 .. N, n # 0
                 PROVE  After(claimed, n) = Claim(groups, claimed[n - 1], offers[n])
      BY <1>13
    <2> QED  OBVIOUS
  <1> DEFINE Fine(n) == CapturesAfter(groups, offers, n, claimed[n])
             S == {n \in 0 .. N : Fine(n)}
  <1>16. 0 \in S
    <2>1. CapturesAfter(groups, offers, 0, <<>>)
      <3>1. <<>> \in Seq({})
        OBVIOUS
      <3> QED  BY <3>1 DEF CapturesAfter
    <2> QED  BY <1>3, <1>14, <2>1
  <1>17. ASSUME NEW n \in 0 .. N, n \in S, n < N PROVE n + 1 \in S
    <2>1. PICK p : p = n + 1
      OBVIOUS
    <2>2. p \in 0 .. N /\ p # 0 /\ p - 1 = n /\ p \in DOMAIN offers /\ n \in Nat
      BY <1>3, <1>17, <2>1
    <2>3. claimed[p] = Claim(groups, claimed[p - 1], offers[p])
      BY <1>15, <2>2, Zenon
    <2>4. claimed[n + 1] = Claim(groups, claimed[n], offers[n + 1])
      BY <2>1, <2>2, <2>3, Zenon
    <2>5. PICK m \in Nat : DOMAIN groups = 1 .. m
      BY DEF Listed
    <2>6. Fine(n)
      BY <1>17
    <2>7. CapturesAfter(groups, offers, n + 1, Claim(groups, claimed[n], offers[n + 1]))
      BY <1>2, <2>1, <2>2, <2>5, <2>6, ClaimStep
    <2>8. Fine(n + 1)
      BY <2>4, <2>7
    <2> HIDE DEF Fine
    <2> QED  BY <2>1, <2>2, <2>8
  <1>18. 0 .. N \subseteq S
    <2> HIDE DEF S
    <2> QED  BY <1>3, <1>16, <1>17, CountingUp
  <1>19. Fine(N)
    <2> HIDE DEF Fine
    <2> QED  BY <1>3, <1>18
  <1>20. Correlate(groups) = claimed[N]
    BY <1>1, <1>11, Zenon
  <1>21. CapturesAfter(groups, offers, N, Correlate(groups))
    BY <1>19, <1>20
  <1> QED  BY <1>21 DEF offers, N

\* A value an earlier group offers and a group uses is captured before it, under a name
\* of its own.
LEMMA CapturedBefore ==
    ASSUME NEW groups, Listed(groups), NEW c, c = Correlate(groups),
           NEW g \in DOMAIN groups, NEW h \in DOMAIN groups, h < g, NEW v, Uses(groups[g].first, v),
           NEW i \in DOMAIN groups[h].first.reply,
           groups[h].first.reply[i].value = v, groups[h].first.reply[i].long,
           ~\E a, b, k \in DOMAIN c :
               /\ a < k /\ c[a].variable = c[k].leaf
               /\ b < k /\ c[b].variable = Qualified(Subject(groups[c[k].step].first), c[k].leaf)
    PROVE  \E k \in DOMAIN c :
              /\ c[k].value = v /\ c[k].step < g /\ c[k].step \in Nat
              /\ \A l \in DOMAIN c : c[l].variable = c[k].variable => l = k
  <1> DEFINE offers == Offers(groups)
             N == Len(offers)
  <1>1. CapturesAfter(groups, offers, N, c)
    BY WhatIsCaptured
  <1>2. InOrder(groups, offers)
    BY OffersInOrder
  <1>3. PICK m \in Nat : DOMAIN groups = 1 .. m
    BY DEF Listed
  <1> HIDE DEF offers
  <1>4. N \in Nat /\ DOMAIN offers = 1 .. N
    <2>1. PICK X : offers \in Seq(X)
      BY <1>2 DEF InOrder
    <2> QED  BY <2>1
  <1> HIDE DEF N
  <1>5. PICK o \in DOMAIN offers : offers[o] = [step |-> h, candidate |-> groups[h].first.reply[i]]
    BY <1>2 DEF InOrder
  <1>6. offers[o].step = h /\ offers[o].candidate.value = v /\ offers[o].candidate.long
    BY <1>5
  <1>7. g \in Consumers(groups, offers[o])
    BY <1>6 DEF Consumers
  <1>8. PICK k \in DOMAIN c : c[k].value = v /\ c[k].step <= h
    BY <1>1, <1>4, <1>6, <1>7 DEF CapturesAfter
  <1>9. c[k].step \in DOMAIN groups
    BY <1>1, <1>2, <1>4 DEF CapturesAfter, InOrder
  <1>10. c[k].step \in Nat /\ c[k].step < g
    BY <1>3, <1>8, <1>9
  <1>11. DOMAIN c \subseteq Nat \ {0} /\ \A l \in DOMAIN c : \A a \in 1 .. l - 1 : a \in DOMAIN c
    <2>1. PICK R : c \in Seq(R)
      BY <1>1 DEF CapturesAfter
    <2> QED  BY <2>1
  <1>12. ASSUME NEW a \in DOMAIN c, NEW l \in DOMAIN c, a < l PROVE c[a].variable # c[l].variable
    <2>1. c[l].variable = IF \E e \in 1 .. l - 1 : c[e].variable = c[l].leaf
                          THEN Qualified(Subject(groups[c[l].step].first), c[l].leaf) ELSE c[l].leaf
      BY <1>1 DEF CapturesAfter
    <2>2. a \in 1 .. l - 1
      BY <1>11, <1>12
    <2>3. CASE \E e \in 1 .. l - 1 : c[e].variable = c[l].leaf
      <3>1. PICK e \in 1 .. l - 1 : c[e].variable = c[l].leaf
        BY <2>3
      <3>2. e \in DOMAIN c /\ e < l
        BY <1>11, <3>1
      <3>3. c[l].variable = Qualified(Subject(groups[c[l].step].first), c[l].leaf)
        BY <2>1, <2>3
      <3>4. c[a].variable # Qualified(Subject(groups[c[l].step].first), c[l].leaf)
        BY <1>12, <3>1, <3>2, Zenon
      <3> QED  BY <3>3, <3>4
    <2>4. CASE ~\E e \in 1 .. l - 1 : c[e].variable = c[l].leaf
      BY <2>1, <2>2, <2>4
    <2> QED  BY <2>3, <2>4
  <1>13. \A l \in DOMAIN c : c[l].variable = c[k].variable => l = k
    <2> SUFFICES ASSUME NEW l \in DOMAIN c, l # k PROVE c[l].variable # c[k].variable
      OBVIOUS
    <2>1. l < k \/ k < l
      BY <1>11
    <2> QED  BY <1>12, <2>1
  <1> QED  BY <1>8, <1>10, <1>13

\* Groups are in the order of their first requests, so a group whose first request was
\* recorded before that of another comes before it.
LEMMA GroupsInOrder ==
    ASSUME NEW X, NEW recorded \in Seq(X), NEW groups, groups = GroupByRoute(recorded)
    PROVE  /\ \E m \in Nat : DOMAIN groups = 1 .. m
           /\ \A g \in DOMAIN groups : \E i \in DOMAIN recorded :
                /\ groups[g].first = recorded[i]
                /\ \A h \in DOMAIN groups, j \in DOMAIN recorded :
                      j < i /\ groups[h].first = recorded[j] => h < g
  <1> DEFINE T == Firsts(recorded)
             m == Cardinality(T)
             At1(g) == NthOf(T, g)
  <1>1. DOMAIN recorded = 1 .. Len(recorded) /\ Len(recorded) \in Nat
    OBVIOUS
  <1>2. T \subseteq DOMAIN recorded
    BY DEF Firsts
  <1>3. T \subseteq Nat /\ IsFiniteSet(T)
    <2>1. IsFiniteSet(1 .. Len(recorded))
      BY <1>1, FS_Interval
    <2> HIDE DEF T
    <2> QED  BY <1>1, <1>2, <2>1, FS_Subset
  <1>4. /\ m \in Nat /\ \A g \in 1 .. m : At1(g) \in T
        /\ \A g, h \in 1 .. m : At1(h) < At1(g) => h < g
    <2> HIDE DEF T
    <2> QED  BY <1>3, PlacesInOrder
  <1>5. DOMAIN groups = 1 .. m /\ \A g \in 1 .. m : groups[g].first = recorded[At1(g)]
    BY DEF GroupByRoute
  <1>6. \A j \in DOMAIN recorded, i \in T : recorded[i] = recorded[j] => i <= j
    <2> SUFFICES ASSUME NEW j \in DOMAIN recorded, NEW i \in T, recorded[i] = recorded[j], ~(i <= j)
                 PROVE  FALSE
      OBVIOUS
    <2>1. j \in 1 .. i - 1
      BY <1>1, <1>2
    <2>2. Route(recorded[j]) # Route(recorded[i])
      BY <2>1 DEF Firsts
    <2> QED  BY <2>2
  <1> HIDE DEF T, m
  <1>7. ASSUME NEW g \in DOMAIN groups
        PROVE  \E i \in DOMAIN recorded :
                  /\ groups[g].first = recorded[i]
                  /\ \A h \in DOMAIN groups, j \in DOMAIN recorded :
                        j < i /\ groups[h].first = recorded[j] => h < g
    <2>1. g \in 1 .. m /\ At1(g) \in DOMAIN recorded /\ groups[g].first = recorded[At1(g)]
      BY <1>2, <1>4, <1>5, <1>7
    <2>2. ASSUME NEW h \in DOMAIN groups, NEW j \in DOMAIN recorded, j < At1(g), groups[h].first = recorded[j]
          PROVE  h < g
      <3>1. h \in 1 .. m /\ At1(h) \in T /\ recorded[At1(h)] = recorded[j]
        BY <1>4, <1>5, <2>2
      <3>2. At1(h) <= j
        BY <1>6, <3>1
      <3>3. At1(h) < At1(g)
        BY <1>1, <1>2, <2>1, <2>2, <3>1, <3>2
      <3> QED  BY <1>4, <2>1, <3>1, <3>3
    <2> QED  BY <2>1, <2>2
  <1> QED  BY <1>4, <1>5, <1>7

(***************************************************************************)
(* The order in which requests are recorded.                               *)
(***************************************************************************)
\* A request that passed record, and one that record keeps.
Recorded(q) == handlers[q] \in {"recorded", "answered"}
Kept(q) == ClassifyRequest(traffic[q], allowed) = ""

\* Once a host is allowed the decision on a request does not change.
DecidedInv ==
    /\ allowed = {} => \A q \in DOMAIN traffic : ~Recorded(q)
    /\ \A q \in DOMAIN traffic : Recorded(q) => (q \in ToSet(entries) <=> Kept(q))

\* The client knows what it was answered, and sends a value only when it knows it.
LearnedInv ==
    /\ \A v \in learned : \E q \in DOMAIN traffic : handlers[q] = "answered" /\ v \in Values(traffic[q])
    /\ \A q \in DOMAIN traffic, v \in Served(traffic) :
          handlers[q] # "unsent" /\ Uses(traffic[q], v) => v \in learned

\* A request that sends a value stands after one whose answer carried it, or one whose
\* answer was left out did.
ProducedBefore(list) ==
    \A i \in DOMAIN list, v \in Served(traffic) : Uses(traffic[list[i]], v) =>
        \E q \in DOMAIN traffic :
            v \in Values(traffic[q]) /\ (~Kept(q) \/ \E j \in DOMAIN list : j < i /\ list[j] = q)

OrderInv == DecidedInv /\ LearnedInv /\ ProducedBefore(entries)

\* A step of a handler that records nothing keeps the order.
LEMMA OtherHandlers ==
    ASSUME RecorderTypeOK, ProxyInv, OrderInv, NEW q \in DOMAIN traffic,
           Tunnel(q) \/ Handle(q) \/ RoundTripFails(q)
    PROVE  OrderInv'
  <1>1. /\ traffic' = traffic /\ allowed' = allowed /\ entries' = entries /\ learned' = learned
        /\ \E now \in {"tunneled", "refused", "asking", "failed"} : handlers' = [handlers EXCEPT ![q] = now]
        /\ handlers[q] \in {"unsent", "asking"}
        /\ handlers[q] = "unsent" => \A v \in Served(traffic) : Uses(traffic[q], v) => v \in learned
    BY DEF Tunnel, Handle, RoundTripFails, ToProxy
  <1>2. PICK now \in {"tunneled", "refused", "asking", "failed"} : handlers' = [handlers EXCEPT ![q] = now]
    BY <1>1
  <1>3. \A p \in DOMAIN traffic : handlers'[p] = IF p = q THEN now ELSE handlers[p]
    BY <1>2 DEF RecorderTypeOK
  <1>4. \A p \in DOMAIN traffic : (Recorded(p)' <=> Recorded(p)) /\ (Kept(p)' <=> Kept(p))
    BY <1>1, <1>3 DEF Recorded, Kept
  <1>5. DecidedInv'
    BY <1>1, <1>4 DEF OrderInv, DecidedInv
  <1>6. \A v \in learned : \E p \in DOMAIN traffic : handlers'[p] = "answered" /\ v \in Values(traffic[p])
    BY <1>1, <1>3 DEF OrderInv, LearnedInv
  <1>7. \A p \in DOMAIN traffic, v \in Served(traffic) :
          handlers'[p] # "unsent" /\ Uses(traffic[p], v) => v \in learned
    BY <1>1, <1>3 DEF OrderInv, LearnedInv
  <1>8. LearnedInv'
    BY <1>1, <1>6, <1>7 DEF LearnedInv
  <1>9. ProducedBefore(entries)'
    BY <1>1, <1>4 DEF OrderInv, ProducedBefore
  <1> QED  BY <1>5, <1>8, <1>9 DEF OrderInv

\* The client learns the values of an answer when the request is in its place.
LEMMA AnswerOrder ==
    ASSUME RecorderTypeOK, ProxyInv, OrderInv, NEW q \in DOMAIN traffic, Answer(q)
    PROVE  OrderInv'
  <1>1. /\ traffic' = traffic /\ allowed' = allowed /\ entries' = entries
        /\ learned' = learned \cup Values(traffic[q])
        /\ handlers' = [handlers EXCEPT ![q] = "answered"] /\ handlers[q] = "recorded"
    BY DEF Answer
  <1>2. \A p \in DOMAIN traffic : handlers'[p] = IF p = q THEN "answered" ELSE handlers[p]
    BY <1>1 DEF RecorderTypeOK
  <1>3. \A p \in DOMAIN traffic : (Recorded(p)' <=> Recorded(p)) /\ (Kept(p)' <=> Kept(p))
    BY <1>1, <1>2 DEF Recorded, Kept
  <1>4. DecidedInv'
    BY <1>1, <1>3 DEF OrderInv, DecidedInv
  <1>5. \A v \in learned' : \E p \in DOMAIN traffic : handlers'[p] = "answered" /\ v \in Values(traffic[p])
    BY <1>1, <1>2 DEF OrderInv, LearnedInv
  <1>6. \A p \in DOMAIN traffic, v \in Served(traffic) :
          handlers'[p] # "unsent" /\ Uses(traffic[p], v) => v \in learned'
    BY <1>1, <1>2 DEF OrderInv, LearnedInv
  <1>7. LearnedInv'
    BY <1>1, <1>5, <1>6 DEF LearnedInv
  <1>8. ProducedBefore(entries)'
    BY <1>1, <1>3 DEF OrderInv, ProducedBefore
  <1> QED  BY <1>4, <1>7, <1>8 DEF OrderInv

\* The request that is recorded comes last, after those that gave it its values.
LEMMA RecordOrder ==
    ASSUME RecorderTypeOK, ProxyInv, OrderInv, NEW q \in DOMAIN traffic, Record(q)
    PROVE  /\ OrderInv'
           /\ allowed # {} => allowed' = allowed
  <1> DEFINE hosts == IF allowed = {} THEN {traffic[q].host} ELSE allowed
             reason == ClassifyRequest(traffic[q], hosts)
  <1>1. /\ traffic' = traffic /\ allowed' = hosts /\ learned' = learned
        /\ entries' = IF reason = "" THEN Append(entries, q) ELSE entries
        /\ handlers[q] = "asking" /\ handlers' = [handlers EXCEPT ![q] = "recorded"]
    BY DEF Record
  <1>2. \A p \in DOMAIN traffic : handlers'[p] = IF p = q THEN "recorded" ELSE handlers[p]
    BY <1>1 DEF RecorderTypeOK
  <1>3. allowed' # {} /\ (allowed # {} => allowed' = allowed)
    BY <1>1
  <1>4. Kept(q)' <=> reason = ""
    BY <1>1 DEF Kept
  <1> HIDE DEF reason, hosts
  <1>5. \A p \in DOMAIN traffic : p # q => (Recorded(p)' <=> Recorded(p))
    BY <1>2 DEF Recorded
  <1>6. \A p \in DOMAIN traffic : Recorded(p) => (Kept(p)' <=> Kept(p))
    BY <1>1, <1>3 DEF OrderInv, DecidedInv, Kept
  <1>7. /\ q \notin ToSet(entries) /\ ~Recorded(q)
        /\ \A p \in ToSet(entries) : p \in DOMAIN traffic /\ Recorded(p)
    BY <1>1, EntriesAreRequests DEF ProxyInv, EntriesInv, Recorded
  <1>8. entries \in Seq(DOMAIN traffic) /\ Len(entries) \in Nat /\ DOMAIN entries = 1 .. Len(entries)
    BY DEF RecorderTypeOK
  <1>9. ToSet(entries') = IF reason = "" THEN ToSet(entries) \cup {q} ELSE ToSet(entries)
    BY <1>1, <1>7, EntriesGrow DEF ProxyInv, EntriesInv
  <1>10. DecidedInv'
    <2>1. \A p \in DOMAIN traffic : Recorded(p)' => (p \in ToSet(entries') <=> Kept(p)')
      <3> SUFFICES ASSUME NEW p \in DOMAIN traffic, Recorded(p)'
                   PROVE  p \in ToSet(entries') <=> Kept(p)'
        OBVIOUS
      <3>1. CASE p = q
        BY <1>4, <1>7, <1>9, <3>1
      <3>2. CASE p # q
        <4>1. Recorded(p)
          BY <1>5, <3>2
        <4>2. p \in ToSet(entries) <=> Kept(p)
          BY <4>1 DEF OrderInv, DecidedInv
        <4>3. p \in ToSet(entries') <=> p \in ToSet(entries)
          BY <1>9, <3>2
        <4> QED  BY <1>6, <4>1, <4>2, <4>3
      <3> QED  BY <3>1, <3>2
    <2> QED  BY <1>1, <1>3, <2>1 DEF DecidedInv
  <1>11. LearnedInv'
    <2>1. \A v \in learned : \E p \in DOMAIN traffic : handlers'[p] = "answered" /\ v \in Values(traffic[p])
      BY <1>1, <1>2 DEF OrderInv, LearnedInv
    <2>2. \A p \in DOMAIN traffic, v \in Served(traffic) :
            handlers'[p] # "unsent" /\ Uses(traffic[p], v) => v \in learned
      BY <1>1, <1>2 DEF OrderInv, LearnedInv
    <2> QED  BY <1>1, <2>1, <2>2 DEF LearnedInv
  <1>12. ASSUME NEW i \in DOMAIN entries, NEW v \in Served(traffic), Uses(traffic[entries[i]], v)
         PROVE  \E p \in DOMAIN traffic :
                   v \in Values(traffic[p]) /\ (~Kept(p)' \/ \E j \in DOMAIN entries : j < i /\ entries[j] = p)
    <2>1. PICK p \in DOMAIN traffic :
            v \in Values(traffic[p]) /\ (~Kept(p) \/ \E j \in DOMAIN entries : j < i /\ entries[j] = p)
      BY <1>12 DEF OrderInv, ProducedBefore
    <2>2. entries[i] \in ToSet(entries)
      BY DEF ToSet
    <2>3. allowed # {}
      BY <1>7, <2>2 DEF OrderInv, DecidedInv
    <2>4. Kept(p)' <=> Kept(p)
      BY <1>1, <1>3, <2>3 DEF Kept
    <2> QED  BY <2>1, <2>4
  <1>13. CASE reason # ""
    <2>1. entries' = entries
      BY <1>1, <1>13
    <2>2. ProducedBefore(entries)'
      BY <1>1, <1>12, <2>1 DEF ProducedBefore
    <2> QED  BY <1>3, <1>10, <1>11, <2>2 DEF OrderInv
  <1>14. CASE reason = ""
    <2>1. /\ DOMAIN entries' = 1 .. Len(entries) + 1 /\ entries'[Len(entries) + 1] = q
          /\ \A i \in DOMAIN entries : entries'[i] = entries[i] /\ i \in DOMAIN entries'
      <3>1. entries' = Append(entries, q)
        BY <1>1, <1>14
      <3>2. /\ Len(Append(entries, q)) = Len(entries) + 1
            /\ \A i \in 1 .. Len(entries) : Append(entries, q)[i] = entries[i]
            /\ Append(entries, q)[Len(entries) + 1] = q
            /\ DOMAIN Append(entries, q) = 1 .. Len(entries) + 1
        BY DEF RecorderTypeOK
      <3>3. \A i \in DOMAIN entries : i \in 1 .. Len(entries) /\ i \in 1 .. Len(entries) + 1
        BY <1>8
      <3> QED  BY <3>1, <3>2, <3>3, Zenon
    <2>2. ASSUME NEW i \in DOMAIN entries', NEW v \in Served(traffic), Uses(traffic[entries'[i]], v)
          PROVE  \E p \in DOMAIN traffic :
                    v \in Values(traffic[p]) /\ (~Kept(p)' \/ \E j \in DOMAIN entries' : j < i /\ entries'[j] = p)
      <3>1. CASE i \in DOMAIN entries
        <4>1. entries'[i] = entries[i]
          BY <2>1, <3>1
        <4>2. PICK p \in DOMAIN traffic :
                v \in Values(traffic[p]) /\ (~Kept(p)' \/ \E j \in DOMAIN entries : j < i /\ entries[j] = p)
          BY <1>12, <2>2, <3>1, <4>1
        <4> QED  BY <2>1, <4>2
      <3>2. CASE i \notin DOMAIN entries
        <4>1. i = Len(entries) + 1 /\ entries'[i] = q
          BY <1>8, <2>1, <2>2, <3>2
        <4>2. v \in learned
          BY <1>1, <2>2, <4>1 DEF OrderInv, LearnedInv
        <4>3. PICK p \in DOMAIN traffic : handlers[p] = "answered" /\ v \in Values(traffic[p])
          BY <4>2 DEF OrderInv, LearnedInv
        <4>4. Recorded(p)
          BY <4>3 DEF Recorded
        <4>5. p \in ToSet(entries) \/ ~Kept(p)'
          BY <1>6, <4>4 DEF OrderInv, DecidedInv
        <4>6. CASE p \in ToSet(entries)
          <5>1. PICK j \in DOMAIN entries : entries[j] = p
            BY <4>6 DEF ToSet
          <5>2. j \in DOMAIN entries' /\ entries'[j] = p /\ j < i
            BY <1>8, <2>1, <4>1, <5>1
          <5> QED  BY <4>3, <5>2
        <4> QED  BY <4>3, <4>5, <4>6
      <3> QED  BY <3>1, <3>2
    <2>3. traffic' = traffic
      BY <1>1
    <2>4. ProducedBefore(entries)'
      <3> SUFFICES ASSUME NEW i \in DOMAIN entries', NEW v \in Served(traffic), Uses(traffic[entries'[i]], v)
                   PROVE  \E p \in DOMAIN traffic :
                             /\ v \in Values(traffic[p])
                             /\ ~Kept(p)' \/ \E j \in DOMAIN entries' : j < i /\ entries'[j] = p
        BY <2>3 DEF ProducedBefore
      <3> QED  BY <2>2
    <2> QED  BY <1>3, <1>10, <1>11, <2>4 DEF OrderInv
  <1> QED  BY <1>13, <1>14

\* What was kept when Serve returned is in that order, whatever is recorded too late.
KeptOrderInv ==
    stage \notin {"start", "recording"} /\ serving = "closed" /\ kept.entries # <<>> =>
        /\ kept.entries \in Seq(DOMAIN traffic) /\ allowed # {}
        /\ ProducedBefore(kept.entries)
        /\ \A i \in DOMAIN kept.entries : Kept(kept.entries[i])

\* The scenario is the one generated from what was kept.
GeneratedInv ==
    Stopped /\ stage # "collected" /\ kept.entries # <<>> =>
        spec = RenderYAML(Groups, Correlate(Groups), inv.edited)

ReplayInv == OrderInv /\ KeptOrderInv /\ GeneratedInv

\* Nothing was recorded yet.
LEMMA ReplayInit == Init => ReplayInv
  <1> SUFFICES ASSUME Init PROVE ReplayInv
    OBVIOUS
  <1>1. /\ stage = "start" /\ entries = <<>> /\ learned = {}
        /\ handlers = [q \in DOMAIN traffic |-> "unsent"]
    BY DEF Init, RecorderInit
  <1>2. DecidedInv /\ LearnedInv
    BY <1>1 DEF DecidedInv, LearnedInv, Recorded
  <1>3. ProducedBefore(entries)
    BY <1>1 DEF ProducedBefore
  <1> QED  BY <1>1, <1>2, <1>3 DEF ReplayInv, OrderInv, KeptOrderInv, GeneratedInv, Stopped

\* A step that records nothing, and neither collects nor builds.
LEMMA QuietReplays ==
    ASSUME RInv, ReplayInv, inv' = inv, UNCHANGED recorderVars, kept' = kept,
           stage = "recording" => serving # "closed" \/ stage' = stage,
           stage = "collected" => stage' = stage,
           inv.command = "record" => spec' = spec
    PROVE  ReplayInv'
  <1>1. /\ traffic' = traffic /\ allowed' = allowed /\ entries' = entries
        /\ serving' = serving /\ handlers' = handlers /\ learned' = learned
    BY DEF recorderVars
  <1>2. \A q : (Recorded(q)' <=> Recorded(q)) /\ (Kept(q)' <=> Kept(q))
    BY <1>1 DEF Recorded, Kept
  <1>3. DecidedInv'
    BY <1>1, <1>2 DEF ReplayInv, OrderInv, DecidedInv
  <1>4. LearnedInv'
    BY <1>1 DEF ReplayInv, OrderInv, LearnedInv
  <1>5. ProducedBefore(entries)'
    BY <1>1, <1>2 DEF ReplayInv, OrderInv, ProducedBefore
  <1>6. KeptOrderInv'
    <2> SUFFICES ASSUME stage' \notin {"start", "recording"}, serving = "closed", kept.entries # <<>>
                 PROVE  /\ kept.entries \in Seq(DOMAIN traffic) /\ allowed # {}
                        /\ ProducedBefore(kept.entries)'
                        /\ \A i \in DOMAIN kept.entries : Kept(kept.entries[i])'
      BY <1>1 DEF KeptOrderInv
    <2>1. stage \notin {"start", "recording"}
      BY DEF RInv, ServingInv
    <2>2. /\ kept.entries \in Seq(DOMAIN traffic) /\ allowed # {}
          /\ ProducedBefore(kept.entries)
          /\ \A i \in DOMAIN kept.entries : Kept(kept.entries[i])
      BY <2>1 DEF ReplayInv, KeptOrderInv
    <2> QED  BY <1>1, <1>2, <2>2 DEF ProducedBefore
  <1>7. GeneratedInv'
    <2> SUFFICES ASSUME Stopped', stage' # "collected", kept.entries # <<>>
                 PROVE  spec' = RenderYAML(Groups, Correlate(Groups), inv.edited)'
      BY DEF GeneratedInv
    <2>1. Stopped /\ stage # "collected"
      BY <1>1 DEF Stopped, RInv, ServingInv
    <2>2. Groups' = Groups
      BY <1>1 DEF Groups
    <2>3. spec' = spec /\ spec = RenderYAML(Groups, Correlate(Groups), inv.edited)
      BY <1>1, <2>1 DEF ReplayInv, GeneratedInv, Stopped
    <2> QED  BY <2>2, <2>3
  <1> QED  BY <1>3, <1>4, <1>5, <1>6, <1>7 DEF ReplayInv, OrderInv

\* While the proxy is not closed, or the recording goes on, only the order matters.
LEMMA ServingReplays ==
    ASSUME ReplayInv, traffic' = traffic, allowed' = allowed, entries' = entries,
           handlers' = handlers, learned' = learned, stage' \in {"start", "recording"}
    PROVE  ReplayInv'
  <1>1. \A q : (Recorded(q)' <=> Recorded(q)) /\ (Kept(q)' <=> Kept(q))
    BY DEF Recorded, Kept
  <1>2. DecidedInv'
    BY <1>1 DEF ReplayInv, OrderInv, DecidedInv
  <1>3. LearnedInv'
    BY DEF ReplayInv, OrderInv, LearnedInv
  <1>4. ProducedBefore(entries)'
    BY <1>1 DEF ReplayInv, OrderInv, ProducedBefore
  <1>5. KeptOrderInv' /\ GeneratedInv'
    BY DEF KeptOrderInv, GeneratedInv, Stopped
  <1> QED  BY <1>2, <1>3, <1>4, <1>5 DEF ReplayInv, OrderInv

\* A handler, also one that Serve did not wait for.
LEMMA HandlersReplay ==
    ASSUME RInv, ReplayInv, UNCHANGED commandVars, HandlerStep
    PROVE  ReplayInv'
  <1>1. /\ inv' = inv /\ stage' = stage /\ kept' = kept /\ spec' = spec
    BY DEF commandVars
  <1>2. PICK q \in DOMAIN traffic :
          Tunnel(q) \/ Handle(q) \/ RoundTripFails(q) \/ Record(q) \/ Answer(q)
    BY DEF HandlerStep
  <1>3. RecorderTypeOK /\ ProxyInv /\ OrderInv
    BY DEF RInv, ReplayInv
  <1>4. OrderInv'
    BY <1>2, <1>3, OtherHandlers, RecordOrder, AnswerOrder
  <1>5. traffic' = traffic /\ serving' = serving
    BY <1>2 DEF Tunnel, Handle, RoundTripFails, Record, Answer
  <1>6. allowed # {} => allowed' = allowed
    <2>1. Record(q) => (allowed # {} => allowed' = allowed)
      BY <1>3, RecordOrder
    <2>2. ~Record(q) => allowed' = allowed
      BY <1>2 DEF Tunnel, Handle, RoundTripFails, Answer
    <2> QED  BY <2>1, <2>2
  <1>7. KeptOrderInv'
    <2> SUFFICES ASSUME stage \notin {"start", "recording"}, serving = "closed", kept.entries # <<>>
                 PROVE  /\ kept.entries \in Seq(DOMAIN traffic) /\ allowed' # {}
                        /\ ProducedBefore(kept.entries)'
                        /\ \A i \in DOMAIN kept.entries : Kept(kept.entries[i])'
      BY <1>1, <1>5 DEF KeptOrderInv
    <2>1. /\ kept.entries \in Seq(DOMAIN traffic) /\ allowed # {}
          /\ ProducedBefore(kept.entries)
          /\ \A i \in DOMAIN kept.entries : Kept(kept.entries[i])
      BY DEF ReplayInv, KeptOrderInv
    <2>2. allowed' = allowed
      BY <1>6, <2>1
    <2>3. \A p : Kept(p)' <=> Kept(p)
      BY <1>5, <2>2 DEF Kept
    <2> QED  BY <1>1, <1>5, <2>1, <2>2, <2>3 DEF ProducedBefore
  <1>8. GeneratedInv'
    <2>1. Groups' = Groups /\ (Stopped' <=> Stopped)
      BY <1>1, <1>5 DEF Groups, Stopped
    <2> QED  BY <1>1, <2>1 DEF ReplayInv, GeneratedInv
  <1> QED  BY <1>4, <1>7, <1>8 DEF ReplayInv

\* What is kept are the entries as they stand.
LEMMA CollectReplays ==
    ASSUME RInv, ReplayInv, inv' = inv, Collect
    PROVE  ReplayInv'
  <1>1. /\ traffic' = traffic /\ allowed' = allowed /\ entries' = entries
        /\ handlers' = handlers /\ learned' = learned
        /\ stage' = "collected" /\ kept'.entries = entries
    BY DEF Collect, Go, recorderVars
  <1>2. \A q : (Recorded(q)' <=> Recorded(q)) /\ (Kept(q)' <=> Kept(q))
    BY <1>1 DEF Recorded, Kept
  <1>3. DecidedInv'
    BY <1>1, <1>2 DEF ReplayInv, OrderInv, DecidedInv
  <1>4. LearnedInv'
    BY <1>1 DEF ReplayInv, OrderInv, LearnedInv
  <1>5. ProducedBefore(entries)'
    BY <1>1, <1>2 DEF ReplayInv, OrderInv, ProducedBefore
  <1>6. ProducedBefore(kept.entries)'
    BY <1>1, <1>5 DEF ProducedBefore
  <1>7. \A i \in DOMAIN entries : entries[i] \in DOMAIN traffic /\ Recorded(entries[i]) /\ Kept(entries[i])
    <2> SUFFICES ASSUME NEW i \in DOMAIN entries
                 PROVE  entries[i] \in DOMAIN traffic /\ Recorded(entries[i]) /\ Kept(entries[i])
      OBVIOUS
    <2>1. entries[i] \in ToSet(entries)
      BY DEF ToSet
    <2>2. entries[i] \in DOMAIN traffic /\ Recorded(entries[i])
      BY <2>1, EntriesAreRequests DEF RInv, ProxyInv, EntriesInv, Recorded
    <2> QED  BY <2>1, <2>2 DEF ReplayInv, OrderInv, DecidedInv
  <1>8. entries # <<>> => allowed # {}
    <2> SUFFICES ASSUME entries # <<>>, allowed = {} PROVE FALSE
      OBVIOUS
    <2>1. 1 \in DOMAIN entries
      BY DEF RInv, RecorderTypeOK
    <2> QED  BY <1>7, <2>1 DEF ReplayInv, OrderInv, DecidedInv
  <1>9. entries \in Seq(DOMAIN traffic)
    BY DEF RInv, RecorderTypeOK
  <1>10. KeptOrderInv'
    BY <1>1, <1>2, <1>6, <1>7, <1>8, <1>9 DEF KeptOrderInv
  <1>11. GeneratedInv'
    BY <1>1 DEF GeneratedInv
  <1> QED  BY <1>3, <1>4, <1>5, <1>10, <1>11 DEF ReplayInv, OrderInv

\* BuildScenario generates from what was kept.
LEMMA BuildReplays ==
    ASSUME RInv, ReplayInv, inv' = inv, NEW how \in Hows, BuildScenario(how)
    PROVE  ReplayInv'
  <1>1. /\ traffic' = traffic /\ allowed' = allowed /\ entries' = entries
        /\ serving' = serving /\ handlers' = handlers /\ learned' = learned
        /\ stage = "collected" /\ kept' = kept
        /\ spec' = IF kept.entries = <<>> THEN spec
                   ELSE RenderYAML(Groups, Correlate(Groups), inv.edited)
    BY DEF BuildScenario, recorderVars
  <1>2. \A q : (Recorded(q)' <=> Recorded(q)) /\ (Kept(q)' <=> Kept(q))
    BY <1>1 DEF Recorded, Kept
  <1>3. DecidedInv'
    BY <1>1, <1>2 DEF ReplayInv, OrderInv, DecidedInv
  <1>4. LearnedInv'
    BY <1>1 DEF ReplayInv, OrderInv, LearnedInv
  <1>5. ProducedBefore(entries)'
    BY <1>1, <1>2 DEF ReplayInv, OrderInv, ProducedBefore
  <1>6. KeptOrderInv'
    <2> SUFFICES ASSUME serving = "closed", kept.entries # <<>>
                 PROVE  /\ kept.entries \in Seq(DOMAIN traffic) /\ allowed # {}
                        /\ ProducedBefore(kept.entries)'
                        /\ \A i \in DOMAIN kept.entries : Kept(kept.entries[i])'
      BY <1>1 DEF KeptOrderInv
    <2>1. /\ kept.entries \in Seq(DOMAIN traffic) /\ allowed # {}
          /\ ProducedBefore(kept.entries)
          /\ \A i \in DOMAIN kept.entries : Kept(kept.entries[i])
      BY <1>1 DEF ReplayInv, KeptOrderInv
    <2> QED  BY <1>1, <1>2, <2>1 DEF ProducedBefore
  <1>7. GeneratedInv'
    <2>1. Groups' = Groups
      BY <1>1 DEF Groups
    <2> QED  BY <1>1, <2>1 DEF GeneratedInv
  <1> QED  BY <1>3, <1>4, <1>5, <1>6, <1>7 DEF ReplayInv, OrderInv

\* Every step keeps it.
LEMMA ReplayStep == RInv /\ RunInv /\ ReplayInv /\ [Next]_vars => ReplayInv'
  <1> SUFFICES ASSUME RInv, RunInv, ReplayInv, [Next]_vars PROVE ReplayInv'
    OBVIOUS
  <1>1. inv' = inv
    BY InvocationStays
  <1>2. StagesInv
    BY DEF RunInv
  <1> USE DEF Exit, Go, Started
  <1>3. ASSUME UNCHANGED recorderVars, kept' = kept, stage \notin {"recording", "collected"},
               inv.command = "record" => spec' = spec
        PROVE  ReplayInv'
    BY <1>1, <1>3, QuietReplays
  <1>4. CASE RefuseArguments \/ Load \/ ValidateCommand \/ Edit
    BY <1>3, <1>4 DEF RefuseArguments, Load, ValidateCommand, Edit
  <1>5. CASE \E opens \in BOOLEAN : Prepare(opens)
    BY <1>2, <1>3, <1>5 DEF Prepare, StagesInv
  <1>6. CASE \E o \in Outcomes : ExecuteSpec(o)
    BY <1>3, <1>6 DEF ExecuteSpec
  <1>7. CASE (\E how \in Hows : WriteNext(how)) \/ WriteDone
    BY <1>3, <1>7 DEF WriteNext, WriteDone
  <1>8. CASE \E observed \in 0 .. Len(StepsOf(spec)), class \in {"success", "network"}, printed \in BOOLEAN :
               Debug(observed, class, printed)
    BY <1>3, <1>8 DEF Debug
  <1>9. CASE Report \/ (\E printed \in BOOLEAN : CompareRuns(printed))
    BY <1>3, <1>9 DEF Report, CompareRuns
  <1>10. CASE \/ \E how \in Hows : NewOne(how)
              \/ \E converts \in BOOLEAN, how \in Hows : ImportCommand(converts, how)
    BY <1>3, <1>10 DEF NewOne, ImportCommand
  <1>11. CASE \/ \E listens \in BOOLEAN : StayUp(listens)
              \/ \E fault \in BOOLEAN : GoDown(fault)
    BY <1>3, <1>11 DEF StayUp, GoDown
  <1>12. CASE \E listens \in BOOLEAN : RecordListen(listens)
    <2>1. CASE Listen /\ stage' = "recording"
      BY <2>1, ServingReplays DEF Listen
    <2>2. CASE UNCHANGED recorderVars /\ stage = "start" /\ kept' = kept /\ spec' = spec
      BY <1>3, <2>2
    <2> QED  BY <1>12, <2>1, <2>2 DEF RecordListen
  <1>13. CASE Proxying
    <2>1. UNCHANGED commandVars
      BY <1>13 DEF Proxying
    <2>2. CASE HandlerStep
      BY <2>1, <2>2, HandlersReplay
    <2>3. CASE stage = "recording" /\ (Interrupt \/ \E expired \in BOOLEAN : Shutdown(expired))
      <3>1. stage' = "recording"
        BY <2>1, <2>3 DEF commandVars
      <3> QED  BY <2>3, <3>1, ServingReplays DEF Interrupt, Shutdown
    <2> QED  BY <1>13, <2>2, <2>3 DEF Proxying
  <1>14. CASE AcceptFails
    BY <1>1, <1>14, QuietReplays DEF AcceptFails
  <1>15. CASE Collect
    BY <1>1, <1>15, CollectReplays
  <1>16. CASE \E how \in Hows : BuildScenario(how)
    BY <1>1, <1>16, BuildReplays
  <1>17. CASE MigrateStart \/ (\E text \in Texts : MigrateOne(text))
    BY <1>2, <1>3, <1>17 DEF MigrateStart, MigrateOne, StagesInv
  <1>18. CASE (\E how \in Hows : WriteBackup(how)) \/ (\E how \in Hows : WriteDestination(how))
    BY <1>3, <1>18 DEF WriteBackup, WriteDestination
  <1>19. CASE MigrateDone \/ (\E begun \in BOOLEAN : Crash(begun))
    BY <1>3, <1>19 DEF MigrateDone, Crash
  <1>20. CASE Again
    BY <1>3, <1>20 DEF Again
  <1>21. CASE UNCHANGED vars
    BY <1>1, <1>21, QuietReplays DEF vars, commandVars
  <1> QED  BY <1>4, <1>5, <1>6, <1>7, <1>8, <1>9, <1>10, <1>11, <1>12, <1>13, <1>14, <1>15,
              <1>16, <1>17, <1>18, <1>19, <1>20, <1>21 DEF Next

(***************************************************************************)
(* What the scenario refers to.                                            *)
(***************************************************************************)

\* The field an update sets last is what it set.
LEMMA LastField ==
    ASSUME NEW blank, "refs" \in DOMAIN blank, NEW a, NEW b, NEW c, NEW d, NEW e, NEW f, NEW g, NEW h
    PROVE  [blank EXCEPT !.keys = a, !.vars = b, !.secrets = c, !.load = d, !.steps = e, !.data = f,
                         !.slo = g, !.refs = h].refs = h
  OBVIOUS

\* A reference of step g to a variable, in a field.
Refers(refs, g, field, name) ==
    \E r \in refs : r.block = "step" /\ r.step = g /\ r.source = "" /\ r.field = field /\ r.name = name

\* The step of a group is a GraphQL one in the end.
GraphQLStep(groups, captures, g) == AsGraphQL(groups[g].first, Substitutions(groups, captures, g))

\* The scenario refers to every variable that stands for a value of a group, in every
\* field where the value is replaced.
LEMMA GeneratedRefers ==
    ASSUME NEW groups, NEW captures, NEW blank, "refs" \in DOMAIN blank, NEW g \in DOMAIN groups,
           NEW k \in DOMAIN captures, captures[k].step < g, Uses(groups[g].first, captures[k].value),
           NEW field \in ReplacedIn(groups[g].first, GraphQLStep(groups, captures, g), captures[k].value)
    PROVE  Refers(RenderYAML(groups, captures, blank).refs, g, field, captures[k].variable)
  <1>1. RenderReferences(groups, captures) \subseteq RenderYAML(groups, captures, blank).refs
    BY LastField DEF RenderYAML
  <1> DEFINE s == captures[k]
             subs == Substitutions(groups, captures, g)
             r == Reference(s.variable, "", "step", g, field)
             Own(c) == {Reference(c.variable, "", "step", g, f) :
                           f \in ReplacedIn(groups[g].first, GraphQLStep(groups, captures, g), c.value)}
             own == UNION {Own(c) : c \in subs}
  <1>2. s \in subs
    BY DEF Substitutions
  <1>3. own \subseteq StepReferences(groups, captures, g)
    BY DEF StepReferences, GraphQLStep
  <1>4. r \in Own(s)
    OBVIOUS
  <1>5. r \in own
    <2> HIDE DEF r, s, Own, subs
    <2> QED  BY <1>2, <1>4
  <1>6. r \in RenderReferences(groups, captures)
    <2> HIDE DEF r, own
    <2> QED  BY <1>3, <1>5 DEF RenderReferences
  <1>7. /\ r.block = "step" /\ r.step = g /\ r.source = "" /\ r.field = field
        /\ r.name = captures[k].variable
    BY DEF Reference
  <1> HIDE DEF r
  <1> QED  BY <1>1, <1>6, <1>7 DEF Refers

\* A value in the path of a request that is no GraphQL call, or in the text of any, is
\* replaced there, and is one the request uses.
LEMMA WhereReplaced ==
    ASSUME NEW groups, NEW captures, NEW g, NEW v
    PROVE  LET request == groups[g].first
               fields == ReplacedIn(request, GraphQLStep(groups, captures, g), v)
           IN /\ InPath(request, v) => Uses(request, v)
              /\ InText(request, v) => Uses(request, v)
              /\ InPath(request, v) /\ request.operation = "" => "path" \in fields
              /\ InText(request, v) => "body" \in fields \/ "variables" \in fields
  <1> DEFINE request == groups[g].first
             graphql == GraphQLStep(groups, captures, g)
             fields == ReplacedIn(request, graphql, v)
  <1>1. \A where : Carries(request, v, where) => \E c \in request.carries : c.value = v
    BY DEF Carries
  <1>2. /\ InPath(request, v) => Uses(request, v)
        /\ InText(request, v) => Uses(request, v)
    BY <1>1 DEF InPath, InText, Uses
  <1>3. request.operation = "" => ~graphql
    BY DEF GraphQLStep, AsGraphQL
  <1> HIDE DEF graphql
  <1>4. InPath(request, v) /\ request.operation = "" => "path" \in fields
    BY <1>3 DEF InPath, ReplacedIn
  <1>5. InText(request, v) => "body" \in fields \/ "variables" \in fields
    BY DEF InText, ReplacedIn
  <1> QED  BY <1>2, <1>4, <1>5 DEF graphql

\* What a reference reads when one capture before the step has its name.
LEMMA OneReplay ==
    ASSUME NEW captures, NEW g \in Nat, NEW k \in DOMAIN captures,
           captures[k].step \in Nat, captures[k].step < g,
           \A l \in DOMAIN captures : captures[l].variable = captures[k].variable => l = k
    PROVE  Replays(captures, g, captures[k].variable) = {captures[k].value}
  <1> DEFINE name == captures[k].variable
             before == {i \in DOMAIN captures : captures[i].variable = name /\ captures[i].step < g}
             steps == {captures[i].step : i \in before}
             last == Max(steps)
  <1>1. before = {k}
    OBVIOUS
  <1>2. steps = {captures[k].step}
    BY <1>1
  <1>3. last = captures[k].step
    <2> DEFINE S == {captures[k].step}
    <2>1. S \subseteq Nat /\ S # {} /\ \A x \in S : x <= captures[k].step
      OBVIOUS
    <2>2. Max(S) \in S
      BY <2>1, MaxIsGreatest
    <2> QED  BY <1>2, <2>2
  <1>4. {j \in before : captures[j].step = last} = {k}
    BY <1>1, <1>3
  <1>5. Replays(captures, g, name) = {captures[i].value : i \in {j \in before : captures[j].step = last}}
    BY DEF Replays
  <1> QED  BY <1>4, <1>5

\* The groups of what was kept.
LEMMA GroupsListed ==
    ASSUME RInv, kept.entries \in Seq(DOMAIN traffic)
    PROVE  Listed(Groups)
  <1> DEFINE recorded == [i \in DOMAIN kept.entries |-> traffic[kept.entries[i]]]
             X == {traffic[q] : q \in DOMAIN traffic}
  <1>1. recorded \in Seq(X)
    OBVIOUS
  <1>2. Groups = GroupByRoute(recorded)
    BY DEF Groups
  <1> HIDE DEF recorded
  <1>3. /\ \E m \in Nat : DOMAIN Groups = 1 .. m
        /\ \A g \in DOMAIN Groups : \E i \in DOMAIN recorded : Groups[g].first = recorded[i]
    BY <1>1, <1>2, GroupsInOrder
  <1>4. \A g \in DOMAIN Groups : \E q \in DOMAIN traffic : Groups[g].first = traffic[q]
    BY <1>3, <1>1
  <1>5. \A q \in DOMAIN traffic : \E V : traffic[q].reply \in Seq(V)
    BY CommandAssumption DEF RInv, RecorderTypeOK
  <1> QED  BY <1>3, <1>4, <1>5 DEF Listed

\* A value handed over between first requests comes from an earlier group, that offers it.
LEMMA ProducerComesFirst ==
    ASSUME RInv, ReplayInv, stage \notin {"start", "recording"}, serving = "closed", kept.entries # <<>>,
           NEW g \in DOMAIN Groups, NEW v \in Served(traffic), Uses(Groups[g].first, v), Offered(v)
    PROVE  \E h \in DOMAIN Groups : h < g /\ \E i \in DOMAIN Groups[h].first.reply :
              Groups[h].first.reply[i].value = v /\ Groups[h].first.reply[i].long
  <1> DEFINE recorded == [i \in DOMAIN kept.entries |-> traffic[kept.entries[i]]]
             X == {traffic[q] : q \in DOMAIN traffic}
  <1>1. /\ kept.entries \in Seq(DOMAIN traffic)
        /\ ProducedBefore(kept.entries)
        /\ \A i \in DOMAIN kept.entries : Kept(kept.entries[i])
    BY DEF ReplayInv, KeptOrderInv
  <1>2. recorded \in Seq(X) /\ DOMAIN recorded = DOMAIN kept.entries
    BY <1>1
  <1>3. \A i \in DOMAIN kept.entries : recorded[i] = traffic[kept.entries[i]]
    OBVIOUS
  <1>4. Groups = GroupByRoute(recorded)
    BY DEF Groups
  <1> HIDE DEF recorded
  <1>5. PICK i \in DOMAIN recorded :
          /\ Groups[g].first = recorded[i]
          /\ \A h \in DOMAIN Groups, j \in DOMAIN recorded : j < i /\ Groups[h].first = recorded[j] => h < g
    BY <1>2, <1>4, GroupsInOrder
  <1>6. Uses(traffic[kept.entries[i]], v)
    BY <1>2, <1>3, <1>5
  <1>7. PICK q \in DOMAIN traffic :
          /\ v \in Values(traffic[q])
          /\ ~Kept(q) \/ \E j \in DOMAIN kept.entries : j < i /\ kept.entries[j] = q
    BY <1>1, <1>2, <1>6 DEF ProducedBefore
  <1>8. PICK h \in DOMAIN Groups : Groups[h].first = traffic[q]
    BY <1>7 DEF Offered
  <1>9. PICK l \in DOMAIN recorded : Groups[h].first = recorded[l]
    <2>1. \A x \in DOMAIN Groups : \E l \in DOMAIN recorded : Groups[x].first = recorded[l]
      BY <1>2, <1>4, GroupsInOrder
    <2> QED  BY <2>1
  <1>10. Kept(q)
    <2>1. traffic[q] = traffic[kept.entries[l]]
      BY <1>2, <1>3, <1>8, <1>9
    <2>2. Kept(kept.entries[l])
      BY <1>1, <1>2
    <2> QED  BY <2>1, <2>2 DEF Kept
  <1>11. PICK j \in DOMAIN kept.entries : j < i /\ kept.entries[j] = q
    BY <1>7, <1>10
  <1>12. h < g
    BY <1>2, <1>3, <1>5, <1>8, <1>11
  <1>13. \E k \in DOMAIN traffic[q].reply : traffic[q].reply[k].value = v /\ traffic[q].reply[k].long
    BY <1>7 DEF Offered
  <1> QED  BY <1>8, <1>12, <1>13

\* The scenario has a reference that replays v in a field of step g.
Replayed(captures, refs, g, v, field) ==
    \E r \in refs : /\ r.block = "step" /\ r.step = g /\ r.source = ""
                    /\ r.field = field /\ Replays(captures, g, r.name) = {v}

\* Wherever the value is replaced, what stands there replays it.
LEMMA ReplacedReplays ==
    ASSUME RInv, ReplayInv, Stopped, stage # "collected", kept.entries # <<>>,
           NEW g \in DOMAIN Groups, NEW v \in Served(traffic),
           Uses(Groups[g].first, v), Offered(v), ~NameClash(Correlate(Groups)),
           NEW field \in ReplacedIn(Groups[g].first, GraphQLStep(Groups, Correlate(Groups), g), v)
    PROVE  Replayed(Correlate(Groups), spec.refs, g, v, field)
  <1>1. stage \notin {"start", "recording"} /\ serving = "closed"
    BY DEF Stopped
  <1>2. spec = RenderYAML(Groups, Correlate(Groups), inv.edited)
    BY DEF ReplayInv, GeneratedInv, Stopped
  <1>3. Listed(Groups)
    BY <1>1, GroupsListed DEF ReplayInv, KeptOrderInv
  <1>4. PICK h \in DOMAIN Groups : h < g /\ \E i \in DOMAIN Groups[h].first.reply :
          Groups[h].first.reply[i].value = v /\ Groups[h].first.reply[i].long
    BY <1>1, ProducerComesFirst
  <1> DEFINE captures == Correlate(Groups)
  <1>5. ~\E a, b, k \in DOMAIN captures :
            /\ a < k /\ captures[a].variable = captures[k].leaf
            /\ b < k /\ captures[b].variable =
                          Qualified(Subject(Groups[captures[k].step].first), captures[k].leaf)
    BY DEF NameClash
  <1>6. PICK k \in DOMAIN captures :
          /\ captures[k].value = v /\ captures[k].step < g /\ captures[k].step \in Nat
          /\ \A l \in DOMAIN captures : captures[l].variable = captures[k].variable => l = k
    <2> HIDE DEF captures
    <2>1. PICK c : c = captures
      OBVIOUS
    <2> QED  BY <1>3, <1>4, <1>5, CapturedBefore DEF captures
  <1>7. g \in Nat
    BY <1>3 DEF Listed
  <1>8. "refs" \in DOMAIN inv.edited
    BY RunAssumption DEF RInv, RecorderTypeOK, Decoded, WellFormed
  <1> HIDE DEF captures
  <1>9. Refers(RenderYAML(Groups, captures, inv.edited).refs, g, field, captures[k].variable)
    <2>1. Uses(Groups[g].first, captures[k].value)
      BY <1>6
    <2>2. captures[k].step < g
      BY <1>6
    <2>3. field \in ReplacedIn(Groups[g].first, GraphQLStep(Groups, captures, g), captures[k].value)
      BY <1>6 DEF captures
    <2> QED  BY <1>8, <2>1, <2>2, <2>3, GeneratedRefers
  <1>10. Replays(captures, g, captures[k].variable) = {v}
    BY <1>6, <1>7, OneReplay
  <1>11. Refers(spec.refs, g, field, captures[k].variable)
    BY <1>2, <1>9 DEF captures
  <1> QED  BY <1>10, <1>11 DEF captures, Refers, Replayed

\* A recording replays: a value an answer gave and a later request sent is captured where
\* it first showed up and referred to, in the same place, under a name of its own, for
\* every session and every order of the handlers (recorder.go:156, build.go:187).
THEOREM RecordingsReplay == Spec => []RecordingReplays
  <1>1. RInv /\ RunInv /\ ReplayInv => RecordingReplays
    <2> DEFINE captures == Correlate(Groups)
    <2>1. ASSUME RInv, ReplayInv, Stopped, stage # "collected", kept.entries # <<>>,
                 NEW g \in DOMAIN Groups, NEW v \in Served(traffic), Offered(v), ~NameClash(captures)
          PROVE  /\ InPath(Groups[g].first, v) /\ Groups[g].first.operation = "" =>
                      Replayed(captures, spec.refs, g, v, "path")
                 /\ InText(Groups[g].first, v) =>
                      \/ Replayed(captures, spec.refs, g, v, "body")
                      \/ Replayed(captures, spec.refs, g, v, "variables")
      <3>1. \A field \in ReplacedIn(Groups[g].first, GraphQLStep(Groups, captures, g), v) :
               Uses(Groups[g].first, v) => Replayed(captures, spec.refs, g, v, field)
        BY <2>1, ReplacedReplays
      <3> HIDE DEF captures
      <3>2. LET request == Groups[g].first
                fields == ReplacedIn(request, GraphQLStep(Groups, captures, g), v)
            IN /\ InPath(request, v) => Uses(request, v)
               /\ InText(request, v) => Uses(request, v)
               /\ InPath(request, v) /\ request.operation = "" => "path" \in fields
               /\ InText(request, v) => "body" \in fields \/ "variables" \in fields
        BY WhereReplaced, Zenon
      <3> QED  BY <3>1, <3>2
    <2> DEFINE Within(g, v, fields) ==
                  \E r \in spec.refs : /\ r.block = "step" /\ r.step = g /\ r.source = ""
                                       /\ r.field \in fields /\ Replays(captures, g, r.name) = {v}
    <2>2. \A g, v : /\ Replayed(captures, spec.refs, g, v, "path") => Within(g, v, {"path"})
                    /\ Replayed(captures, spec.refs, g, v, "body") => Within(g, v, {"body", "variables"})
                    /\ Replayed(captures, spec.refs, g, v, "variables") => Within(g, v, {"body", "variables"})
      <3> HIDE DEF captures
      <3> QED  BY DEF Replayed
    <2>3. RecordingReplays <=>
            (Stopped /\ stage # "collected" /\ kept.entries # <<>> =>
               \A g \in DOMAIN Groups, v \in Served(traffic) :
                  Offered(v) /\ ~NameClash(captures) =>
                     /\ InPath(Groups[g].first, v) /\ Groups[g].first.operation = "" => Within(g, v, {"path"})
                     /\ InText(Groups[g].first, v) => Within(g, v, {"body", "variables"}))
      BY Zenon DEF RecordingReplays
    <2> HIDE DEF captures, Within
    <2> QED  BY <2>1, <2>2, <2>3
  <1>2. Init => RInv /\ RunInv /\ ReplayInv
    BY InitRInv, RunInit, ReplayInit
  <1>3. RInv /\ RunInv /\ ReplayInv /\ [Next]_vars => (RInv /\ RunInv /\ ReplayInv)'
    BY NextRInv, RunStep, ReplayStep
  <1> QED  BY <1>1, <1>2, <1>3, PTL DEF Spec
=============================================================================
