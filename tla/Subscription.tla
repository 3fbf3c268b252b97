---------------------------- MODULE Subscription ----------------------------
(***************************************************************************)
(* The subscription an "await" step reads from: readers (one per Kafka     *)
(* partition, one for an AMQP queue) deliver messages by correlation       *)
(* value, iterations wait for theirs with a timeout.  A message nobody     *)
(* waits for yet is held, up to Cap of them; a waiter that is registered   *)
(* gets its message through a channel of one, outside the mutex.           *)
(*                                                                         *)
(* One action per critical section of the mutex or channel operation, so   *)
(* the steps of deliver and await interleave as the goroutines do.         *)
(***************************************************************************)
EXTENDS Integers, Sequences, FiniteSets

CONSTANTS
    Waiters,       \* iterations that run the await step, once each
    Correlations,  \* correlation values
    Readers,       \* goroutines that call deliver
    Cap,           \* heldMessagesCap
    MaxMessages    \* bound on the messages the broker hands out

Message  == 1 .. MaxMessages
NoMsg    == 0
Nobody   == "nobody"
NoValue  == ""          \* a message without the field, or with an empty key

\* The marker is no waiter: what await registers is a channel it just made.
ASSUME SubscriptionAssumption ==
    /\ Cap \in Nat \ {0}
    /\ MaxMessages \in Nat
    /\ Nobody \notin Waiters

VARIABLES
    expected,  \* the value each waiter expects: config.Expected, resolved
    open,      \* the readers run; shutdown stops them
    received,  \* messages read from the broker so far
    arrivals,  \* subscription.arrivals
    order,     \* subscription.order
    waiting,   \* subscription.waiting: the waiter whose channel is registered
    hand,      \* the message each reader carries, and whom it is for once it knows
    chan,      \* the channel of one of each waiter
    pc,        \* where each await call is
    result,    \* the message each await returned, NoMsg for none
    dropped    \* history: messages ignored, evicted, or replaced by a newer one

vars == <<expected, open, received, arrivals, order, waiting, hand, chan, pc, result,
          dropped>>

Idle == [value |-> NoValue, to |-> Nobody, msg |-> NoMsg]

Held == {c \in Correlations : arrivals[c] # NoMsg}

\* The type of the state.
TypeOK ==
    /\ expected \in [Waiters -> Correlations]
    /\ open \in BOOLEAN
    /\ received \in 0 .. MaxMessages
    /\ arrivals \in [Correlations -> Message \cup {NoMsg}]
    /\ order \in Seq(Correlations)
    /\ waiting \in [Correlations -> Waiters \cup {Nobody}]
    /\ hand \in [Readers -> [value : Correlations \cup {NoValue},
                             to : Waiters \cup {Nobody}, msg : Message \cup {NoMsg}]]
    /\ chan \in [Waiters -> Message \cup {NoMsg}]
    /\ pc \in [Waiters -> {"start", "waiting", "expired", "lastlook", "done"}]
    /\ result \in [Waiters -> Message \cup {NoMsg}]
    /\ dropped \subseteq Message

Init ==
    /\ expected \in [Waiters -> Correlations]
    /\ open = TRUE
    /\ received = 0
    /\ arrivals = [c \in Correlations |-> NoMsg]
    /\ order = <<>>
    /\ waiting = [c \in Correlations |-> Nobody]
    /\ hand = [r \in Readers |-> Idle]
    /\ chan = [w \in Waiters |-> NoMsg]
    /\ pc = [w \in Waiters |-> "start"]
    /\ result = [w \in Waiters |-> NoMsg]
    /\ dropped = {}

-----------------------------------------------------------------------------
(* The readers, and deliver.                                               *)

\* ReadMessage returned, or the range over the deliveries: the reader has a
\* message and its correlation value.
Read(r, v) ==
    /\ open
    /\ hand[r] = Idle
    /\ received < MaxMessages
    /\ received' = received + 1
    /\ hand' = [hand EXCEPT ![r] = [value |-> v, to |-> Nobody, msg |-> received + 1]]
    /\ UNCHANGED <<expected, open, arrivals, order, waiting, chan, pc, result, dropped>>

\* deliver was called and has not taken the mutex yet.
Delivering(r) == hand[r].msg # NoMsg /\ hand[r].to = Nobody

\* No correlation value: deliver returns at once.
Ignore(r) ==
    /\ Delivering(r)
    /\ hand[r].value = NoValue
    /\ dropped' = dropped \cup {hand[r].msg}
    /\ hand' = [hand EXCEPT ![r] = Idle]
    /\ UNCHANGED <<expected, open, received, arrivals, order, waiting, chan, pc, result>>

Registration_Kept(c) == waiting

\* delete(subscription.waiting, correlation)
Registration(c) == [waiting EXCEPT ![c] = Nobody]

\* Somebody waits: the registration goes under the lock, the send comes after.
DeliverToWaiter(r, c) ==
    /\ Delivering(r)
    /\ hand[r].value = c /\ waiting[c] # Nobody
    /\ waiting' = Registration(c)
    /\ hand' = [hand EXCEPT ![r].to = waiting[c]]
    /\ UNCHANGED <<expected, open, received, arrivals, order, chan, pc, result, dropped>>

Overflows_Never(longer) == FALSE

\* len(subscription.order) > heldMessagesCap
Overflows(longer) == Len(longer) > Cap

\* Nobody waits: the message is held under its value, and the oldest entry of
\* the order goes when there are more than Cap.
Hold(r, c) ==
    LET longer == Append(order, c)
        held   == [arrivals EXCEPT ![c] = hand[r].msg]
        oldest == Head(longer)
    IN  /\ Delivering(r)
        /\ hand[r].value = c /\ waiting[c] = Nobody
        /\ IF Overflows(longer)
           THEN /\ order' = Tail(longer)
                /\ arrivals' = [held EXCEPT ![oldest] = NoMsg]
                /\ dropped' = dropped \cup ({arrivals[c], held[oldest]} \ {NoMsg})
           ELSE /\ order' = longer
                /\ arrivals' = held
                /\ dropped' = dropped \cup ({arrivals[c]} \ {NoMsg})
        /\ hand' = [hand EXCEPT ![r] = Idle]
        /\ UNCHANGED <<expected, open, received, waiting, chan, pc, result>>

\* canal <- received
HandOver(r) ==
    /\ hand[r].to # Nobody
    /\ chan[hand[r].to] = NoMsg
    /\ chan' = [chan EXCEPT ![hand[r].to] = hand[r].msg]
    /\ hand' = [hand EXCEPT ![r] = Idle]
    /\ UNCHANGED <<expected, open, received, arrivals, order, waiting, pc, result, dropped>>

-----------------------------------------------------------------------------
(* await                                                                    *)

Taken_Left(w) == arrivals

\* delete(subscription.arrivals, correlation); the entry in order stays.
Taken(w) == [arrivals EXCEPT ![expected[w]] = NoMsg]

\* The message is already held.
TakeHeld(w) ==
    /\ pc[w] = "start"
    /\ arrivals[expected[w]] # NoMsg
    /\ result' = [result EXCEPT ![w] = arrivals[expected[w]]]
    /\ arrivals' = Taken(w)
    /\ pc' = [pc EXCEPT ![w] = "done"]
    /\ UNCHANGED <<expected, open, received, order, waiting, hand, chan, dropped>>

NothingHeld_NotChecked(w) == TRUE

\* The look at arrivals and the registration are one critical section.
NothingHeld(w) == arrivals[expected[w]] = NoMsg

Register(w) ==
    /\ pc[w] = "start"
    /\ NothingHeld(w)
    /\ waiting' = [waiting EXCEPT ![expected[w]] = w]
    /\ pc' = [pc EXCEPT ![w] = "waiting"]
    /\ UNCHANGED <<expected, open, received, arrivals, order, hand, chan, result, dropped>>

\* case received := <-canal, in the first select or in the last look.
Receive(w) ==
    /\ pc[w] \in {"waiting", "lastlook"}
    /\ chan[w] # NoMsg
    /\ result' = [result EXCEPT ![w] = chan[w]]
    /\ chan' = [chan EXCEPT ![w] = NoMsg]
    /\ pc' = [pc EXCEPT ![w] = "done"]
    /\ UNCHANGED <<expected, open, received, arrivals, order, waiting, hand, dropped>>

Interrupted_OnlyByCancel(w) == ~open

\* The timer, or the context of the run, may end the wait at any moment.
Interrupted(w) == TRUE

\* select may prefer the timer to a message that is already in the channel.
Expire(w) ==
    /\ pc[w] = "waiting"
    /\ Interrupted(w)
    /\ pc' = [pc EXCEPT ![w] = "expired"]
    /\ UNCHANGED <<expected, open, received, arrivals, order, waiting, hand, chan, result,
                   dropped>>

Unregistered_Kept(w)   == waiting
Unregistered_Nil(w)    == [waiting EXCEPT ![expected[w]] = "nil channel"]
Unregistered_Others(w) == [c \in Correlations |-> Nobody]

Unregistered(w) == [waiting EXCEPT ![expected[w]] = Nobody]

Unregister(w) ==
    /\ pc[w] = "expired"
    /\ waiting' = Unregistered(w)
    /\ pc' = [pc EXCEPT ![w] = "lastlook"]
    /\ UNCHANGED <<expected, open, received, arrivals, order, hand, chan, result, dropped>>

GiveUp(w) ==
    /\ pc[w] = "lastlook"
    /\ chan[w] = NoMsg
    /\ pc' = [pc EXCEPT ![w] = "done"]
    /\ UNCHANGED <<expected, open, received, arrivals, order, waiting, hand, chan, result,
                   dropped>>

\* Protocol.Close: the readers stop, whoever waits runs into its timeout.
Shutdown ==
    /\ open
    /\ open' = FALSE
    /\ UNCHANGED <<expected, received, arrivals, order, waiting, hand, chan, pc, result,
                   dropped>>

Finished ==
    /\ \A w \in Waiters : pc[w] = "done"
    /\ \A r \in Readers : hand[r] = Idle
    /\ UNCHANGED vars

-----------------------------------------------------------------------------
WaiterStep(w) ==
    TakeHeld(w) \/ Register(w) \/ Receive(w) \/ Expire(w) \/ Unregister(w) \/ GiveUp(w)

DeliverStep(r) ==
    \/ Ignore(r)
    \/ \E c \in Correlations : DeliverToWaiter(r, c) \/ Hold(r, c)
    \/ HandOver(r)

Next ==
    \/ \E r \in Readers, v \in Correlations \cup {NoValue} : Read(r, v)
    \/ \E r \in Readers : DeliverStep(r)
    \/ \E w \in Waiters : WaiterStep(w)
    \/ Shutdown
    \/ Finished

\* Iterations and readers are scheduled, and every await has a timer.  No
\* message has to arrive.
Fairness ==
    /\ \A w \in Waiters : WF_vars(WaiterStep(w))
    /\ \A r \in Readers : WF_vars(DeliverStep(r))

Spec     == Init /\ [][Next]_vars
FairSpec == Spec /\ Fairness

-----------------------------------------------------------------------------
\* Every iteration waits for a value of its own: key: "${orderId}".
Distinct == \A v, w \in Waiters : expected[v] = expected[w] => v = w

\* The send of deliver happens outside the mutex, into a channel of one.  It
\* never blocks: nobody else carries a message for the same waiter, and its
\* channel is empty.  A blocked reader would stop delivering to everybody.
HandOverNeverBlocks ==
    \A r \in Readers : hand[r].to # Nobody =>
        /\ chan[hand[r].to] = NoMsg
        /\ \A s \in Readers : hand[s].to = hand[r].to => s = r

\* No lost wakeup: a waiter is never registered for a value whose message is
\* already held, so a fast answer does not turn into a timeout.
NoLostWakeup == \A c \in Correlations : waiting[c] # Nobody => arrivals[c] = NoMsg

\* A registration belongs to an await that is still going on: what a finished
\* await leaves behind would swallow the next message of that value.
NoStaleRegistration ==
    \A c \in Correlations : waiting[c] # Nobody => pc[waiting[c]] \in {"waiting", "expired"}

\* The memory of a subscription is bounded: order and arrivals stay within Cap,
\* and what is held can still be evicted.
HeldIsBounded ==
    /\ Len(order) <= Cap
    /\ \A c \in Held : \E i \in DOMAIN order : order[i] = c

\* A message is in one place, whatever the interleaving of readers, waiters and
\* timers: carried by a reader, held, in a channel, returned by one await, or
\* given up while nobody waited.  None is returned twice, and one can only be
\* stranded in a channel whose await reported a timeout: deliver had unregistered
\* the waiter but not yet sent when the waiter took its last look.
MessageInOnePlace ==
    /\ \A m \in 1 .. received :
          Cardinality({r \in Readers : hand[r].msg = m})
          + Cardinality({c \in Correlations : arrivals[c] = m})
          + Cardinality({w \in Waiters : chan[w] = m})
          + Cardinality({w \in Waiters : result[w] = m})
          + (IF m \in dropped THEN 1 ELSE 0) = 1
    /\ \A w \in Waiters : chan[w] # NoMsg => result[w] = NoMsg

\* With a value per iteration, giving up means that no message of that value was
\* within reach: the registration that unregister removes is the waiter's own.
OwnRegistration ==
    Distinct => \A w \in Waiters :
        pc[w] \in {"waiting", "expired"} /\ chan[w] = NoMsg
            => \/ waiting[expected[w]] = w
               \/ \E r \in Readers : hand[r].to = w

\* Every await returns.
EveryAwaitReturns == \A w \in Waiters : <>(pc[w] = "done")

\* The comment on heldMessagesCap: a "cap on messages held for waiters that have
\* not arrived yet".  A held message is given up only when Cap are held.
EvictsOnlyAtCap ==
    [][\A c \in Correlations :
          (arrivals[c] # NoMsg /\ arrivals[c] \in dropped' /\ arrivals'[c] = NoMsg)
             => Cardinality(Held) >= Cap]_vars
=============================================================================
