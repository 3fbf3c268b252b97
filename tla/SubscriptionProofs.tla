------------------------- MODULE SubscriptionProofs -------------------------
(***************************************************************************)
(* Proofs about Subscription, for any number of iterations, correlation    *)
(* values, readers and messages, and any cap.                              *)
(***************************************************************************)
EXTENDS Subscription, SequenceTheorems, FiniteSetTheorems, TLAPS

\* A reader that knows whom its message is for carries a message.
HandInv == \A r \in Readers : hand[r].to # Nobody => hand[r].msg # NoMsg

\* A registration is for the value its waiter expects, and while it stands
\* nothing was sent to the waiter and nobody is about to.
RegisteredInv ==
    \A c \in Correlations : waiting[c] # Nobody =>
        /\ expected[waiting[c]] = c
        /\ pc[waiting[c]] \in {"waiting", "expired"}
        /\ arrivals[c] = NoMsg
        /\ chan[waiting[c]] = NoMsg
        /\ \A r \in Readers : hand[r].to # waiting[c]

\* A reader about to send does so to an await that registered and got nothing
\* yet, even if that await has given up meanwhile.
CarriedInv ==
    \A r \in Readers : hand[r].to # Nobody =>
        /\ pc[hand[r].to] # "start"
        /\ chan[hand[r].to] = NoMsg
        /\ result[hand[r].to] = NoMsg
        /\ \A s \in Readers : hand[s].to = hand[r].to => s = r

\* A channel is written after the registration and emptied before the return.
ChannelInv ==
    \A w \in Waiters : /\ chan[w] # NoMsg => pc[w] # "start" /\ result[w] = NoMsg
                       /\ result[w] # NoMsg => pc[w] = "done"

\* Only messages that were read are anywhere.
ReadInv ==
    /\ \A r \in Readers : hand[r].msg <= received
    /\ \A c \in Correlations : arrivals[c] <= received
    /\ \A w \in Waiters : chan[w] <= received /\ result[w] <= received
    /\ \A m \in dropped : m <= received

\* No message is twice in one kind of place.
UniqueInv ==
    /\ \A r, s \in Readers : hand[r].msg = hand[s].msg /\ hand[r].msg # NoMsg => r = s
    /\ \A c, d \in Correlations : arrivals[c] = arrivals[d] /\ arrivals[c] # NoMsg => c = d
    /\ \A v, w \in Waiters : chan[v] = chan[w] /\ chan[v] # NoMsg => v = w
    /\ \A v, w \in Waiters : result[v] = result[w] /\ result[v] # NoMsg => v = w

\* No message is in two kinds of place.
ApartInv ==
    /\ \A r \in Readers, c \in Correlations : hand[r].msg = arrivals[c] => arrivals[c] = NoMsg
    /\ \A r \in Readers, w \in Waiters : hand[r].msg = chan[w] => chan[w] = NoMsg
    /\ \A r \in Readers, w \in Waiters : hand[r].msg = result[w] => result[w] = NoMsg
    /\ \A c \in Correlations, w \in Waiters : arrivals[c] = chan[w] => chan[w] = NoMsg
    /\ \A c \in Correlations, w \in Waiters : arrivals[c] = result[w] => result[w] = NoMsg
    /\ \A v, w \in Waiters : chan[v] = result[w] => result[w] = NoMsg
    /\ \A r \in Readers : hand[r].msg \notin dropped
    /\ \A c \in Correlations : arrivals[c] \notin dropped
    /\ \A w \in Waiters : chan[w] \notin dropped /\ result[w] \notin dropped

\* No message has vanished.
SomewhereInv ==
    \A m \in 1 .. received :
        \/ \E r \in Readers : hand[r].msg = m
        \/ \E c \in Correlations : arrivals[c] = m
        \/ \E w \in Waiters : chan[w] = m
        \/ \E w \in Waiters : result[w] = m
        \/ m \in dropped

PlaceInv == ReadInv /\ UniqueInv /\ ApartInv /\ SomewhereInv

IInv == /\ TypeOK /\ HandInv /\ RegisteredInv /\ CarriedInv /\ ChannelInv
        /\ HeldIsBounded /\ OwnRegistration /\ PlaceInv

-----------------------------------------------------------------------------
\* A subscription starts with the inductive invariant: nothing read, nobody waiting.
LEMMA InitIInv == Init => IInv
  <1> SUFFICES ASSUME Init PROVE IInv
    OBVIOUS
  <1> USE SubscriptionAssumption DEF Init, Idle, NoMsg
  <1>1. TypeOK
    BY DEF TypeOK, Message
  <1>2. HandInv /\ RegisteredInv /\ CarriedInv /\ ChannelInv
    BY DEF HandInv, RegisteredInv, CarriedInv, ChannelInv
  <1>3. HeldIsBounded
    BY DEF HeldIsBounded, Held
  <1>4. OwnRegistration
    BY DEF OwnRegistration
  <1>5. PlaceInv
    BY DEF PlaceInv, ReadInv, UniqueInv, ApartInv, SomewhereInv
  <1> QED
    BY <1>1, <1>2, <1>3, <1>4, <1>5 DEF IInv

\* Messages are numbered, and a place without one holds NoMsg.
LEMMA MessagesAreNumbers ==
  ASSUME TypeOK
  PROVE  /\ received \in Int /\ \A m \in dropped : m \in Int /\ m # NoMsg
         /\ \A r \in Readers : hand[r].msg \in Int
         /\ \A c \in Correlations : arrivals[c] \in Int
         /\ \A w \in Waiters : chan[w] \in Int /\ result[w] \in Int
  BY SubscriptionAssumption DEF TypeOK, Message, NoMsg

\* ReadMessage hands a message to a reader that had none.
LEMMA ReadKeeps ==
  ASSUME IInv, NEW r \in Readers, NEW v \in Correlations \cup {NoValue}, Read(r, v)
  PROVE  IInv'
  <1> USE SubscriptionAssumption DEF IInv, Read, Idle, NoMsg
  <1>1. TypeOK'
    BY DEF TypeOK, Message
  <1>2. HandInv' /\ RegisteredInv' /\ CarriedInv' /\ ChannelInv'
    BY DEF TypeOK, Message, HandInv, RegisteredInv, CarriedInv, ChannelInv
  <1>3. HeldIsBounded'
    BY DEF HeldIsBounded, Held
  <1>4. OwnRegistration'
    BY DEF TypeOK, OwnRegistration, Distinct
  <1>5. ReadInv'
    <2>1. \A s \in Readers : hand'[s].msg = IF s = r THEN received + 1 ELSE hand[s].msg
      BY DEF TypeOK
    <2> QED
      BY <2>1, MessagesAreNumbers DEF PlaceInv, ReadInv
  <1>6. UniqueInv'
    BY DEF TypeOK, Message, PlaceInv, ReadInv, UniqueInv
  <1>7. ApartInv'
    BY DEF TypeOK, Message, PlaceInv, ReadInv, ApartInv
  <1>8. SomewhereInv'
    BY SMTT(30) DEF TypeOK, Message, PlaceInv, SomewhereInv
  <1> QED
    BY <1>1, <1>2, <1>3, <1>4, <1>5, <1>6, <1>7, <1>8 DEF PlaceInv

\* deliver gives up a message without a value.
LEMMA IgnoreKeeps ==
  ASSUME IInv, NEW r \in Readers, Ignore(r)
  PROVE  IInv'
  <1> USE SubscriptionAssumption DEF IInv, Ignore, Delivering, Idle, NoMsg
  <1>1. TypeOK'
    BY DEF TypeOK, Message
  <1>2. HandInv' /\ RegisteredInv' /\ CarriedInv' /\ ChannelInv'
    BY DEF TypeOK, Message, HandInv, RegisteredInv, CarriedInv, ChannelInv
  <1>3. HeldIsBounded'
    BY DEF HeldIsBounded, Held
  <1>4. OwnRegistration'
    BY DEF TypeOK, OwnRegistration, Distinct, RegisteredInv
  <1>5. ReadInv'
    BY MessagesAreNumbers DEF TypeOK, PlaceInv, ReadInv
  <1>6. UniqueInv'
    BY DEF TypeOK, Message, PlaceInv, ReadInv, UniqueInv, ApartInv
  <1>7. ApartInv'
    BY DEF TypeOK, Message, PlaceInv, ReadInv, UniqueInv, ApartInv
  <1>8. SomewhereInv'
    BY DEF TypeOK, Message, PlaceInv, SomewhereInv
  <1> QED
    BY <1>1, <1>2, <1>3, <1>4, <1>5, <1>6, <1>7, <1>8 DEF PlaceInv

\* deliver unregisters the waiter and carries its message.
LEMMA DeliverToWaiterKeeps ==
  ASSUME IInv, NEW r \in Readers, NEW c \in Correlations, DeliverToWaiter(r, c)
  PROVE  IInv'
  <1> USE SubscriptionAssumption DEF IInv, DeliverToWaiter, Registration, Delivering, NoMsg
  <1>1. TypeOK'
    <2>1. hand[r] \in [value : Correlations \cup {NoValue}, to : Waiters \cup {Nobody},
                       msg : Message \cup {NoMsg}]
      BY DEF TypeOK
    <2>2. [hand[r] EXCEPT !.to = waiting[c]]
             \in [value : Correlations \cup {NoValue}, to : Waiters \cup {Nobody},
                  msg : Message \cup {NoMsg}]
      BY <2>1 DEF TypeOK
    <2> QED
      BY <2>2 DEF TypeOK
  <1>2. HandInv' /\ RegisteredInv' /\ CarriedInv' /\ ChannelInv'
    BY DEF TypeOK, Message, HandInv, RegisteredInv, CarriedInv, ChannelInv
  <1>3. HeldIsBounded'
    BY DEF HeldIsBounded, Held
  <1>4. OwnRegistration'
    BY DEF TypeOK, OwnRegistration, Distinct, RegisteredInv
  <1>5. ReadInv'
    BY MessagesAreNumbers DEF TypeOK, PlaceInv, ReadInv
  <1>6. UniqueInv'
    BY DEF TypeOK, Message, PlaceInv, ReadInv, UniqueInv, ApartInv
  <1>7. ApartInv'
    BY DEF TypeOK, Message, PlaceInv, ReadInv, UniqueInv, ApartInv
  <1>8. SomewhereInv'
    BY DEF TypeOK, Message, PlaceInv, SomewhereInv
  <1> QED
    BY <1>1, <1>2, <1>3, <1>4, <1>5, <1>6, <1>7, <1>8 DEF PlaceInv

\* The send puts the message in the empty channel of its waiter.
LEMMA HandOverKeeps ==
  ASSUME IInv, NEW r \in Readers, HandOver(r)
  PROVE  IInv'
  <1> USE SubscriptionAssumption DEF IInv, HandOver, Idle, NoMsg
  <1>1. TypeOK'
    BY DEF TypeOK, Message
  <1>2. HandInv' /\ RegisteredInv' /\ CarriedInv' /\ ChannelInv'
    BY DEF TypeOK, Message, HandInv, RegisteredInv, CarriedInv, ChannelInv
  <1>3. HeldIsBounded'
    BY DEF HeldIsBounded, Held
  <1>4. OwnRegistration'
    <2> SUFFICES ASSUME Distinct', NEW w \in Waiters,
                        pc[w] \in {"waiting", "expired"}, chan'[w] = NoMsg
                 PROVE  \/ waiting[expected[w]] = w
                        \/ \E s \in Readers : hand'[s].to = w
      BY DEF OwnRegistration
    <2>1. w # hand[r].to /\ chan[w] = NoMsg
      BY DEF TypeOK, HandInv
    <2>2. ASSUME NEW s \in Readers, hand[s].to = w PROVE hand'[s].to = w
      BY <2>1, <2>2 DEF TypeOK
    <2> QED
      BY <2>1, <2>2 DEF OwnRegistration, Distinct
  <1>5. ReadInv'
    BY MessagesAreNumbers DEF TypeOK, PlaceInv, ReadInv
  <1>6. UniqueInv'
    BY DEF TypeOK, Message, PlaceInv, ReadInv, UniqueInv, ApartInv
  <1>7. ApartInv'
    BY DEF TypeOK, Message, PlaceInv, ReadInv, UniqueInv, ApartInv
  <1>8. SomewhereInv'
    BY DEF TypeOK, Message, PlaceInv, SomewhereInv
  <1> QED
    BY <1>1, <1>2, <1>3, <1>4, <1>5, <1>6, <1>7, <1>8 DEF PlaceInv

\* await returns the message it finds held.
LEMMA TakeHeldKeeps ==
  ASSUME IInv, NEW w \in Waiters, TakeHeld(w)
  PROVE  IInv'
  <1> USE SubscriptionAssumption DEF IInv, TakeHeld, Taken, NoMsg
  <1>1. TypeOK'
    BY DEF TypeOK, Message
  <1>2. HandInv' /\ RegisteredInv' /\ CarriedInv' /\ ChannelInv'
    BY DEF TypeOK, Message, HandInv, RegisteredInv, CarriedInv, ChannelInv
  <1>3. HeldIsBounded'
    BY DEF HeldIsBounded, Held
  <1>4. OwnRegistration'
    BY DEF TypeOK, OwnRegistration, Distinct, RegisteredInv
  <1>5. ReadInv'
    BY MessagesAreNumbers DEF TypeOK, PlaceInv, ReadInv
  <1>6. UniqueInv'
    BY DEF TypeOK, Message, PlaceInv, ReadInv, UniqueInv, ApartInv
  <1>7. ApartInv'
    BY DEF TypeOK, Message, PlaceInv, ReadInv, UniqueInv, ApartInv
  <1>8. SomewhereInv'
    <2>1. result[w] = NoMsg /\ result'[w] = arrivals[expected[w]]
      BY DEF TypeOK, ChannelInv
    <2>2. ASSUME NEW v \in Waiters, result[v] # NoMsg PROVE result'[v] = result[v]
      BY <2>1, <2>2 DEF TypeOK
    <2>3. ASSUME NEW c \in Correlations, arrivals[c] # NoMsg
          PROVE  arrivals'[c] = arrivals[c] \/ arrivals[c] = result'[w]
      BY <2>1, <2>3 DEF TypeOK
    <2> QED
      BY <2>1, <2>2, <2>3 DEF PlaceInv, SomewhereInv
  <1> QED
    BY <1>1, <1>2, <1>3, <1>4, <1>5, <1>6, <1>7, <1>8 DEF PlaceInv

\* await registers when nothing is held.
LEMMA RegisterKeeps ==
  ASSUME IInv, NEW w \in Waiters, Register(w)
  PROVE  IInv'
  <1> USE SubscriptionAssumption DEF IInv, Register, NothingHeld, NoMsg
  <1>1. TypeOK'
    BY DEF TypeOK, Message
  <1>2. HandInv' /\ RegisteredInv' /\ CarriedInv' /\ ChannelInv'
    BY DEF TypeOK, Message, HandInv, RegisteredInv, CarriedInv, ChannelInv
  <1>3. HeldIsBounded'
    BY DEF HeldIsBounded, Held
  <1>4. OwnRegistration'
    BY DEF TypeOK, OwnRegistration, Distinct, RegisteredInv
  <1>5. ReadInv'
    BY MessagesAreNumbers DEF TypeOK, PlaceInv, ReadInv
  <1>6. UniqueInv'
    BY DEF TypeOK, Message, PlaceInv, ReadInv, UniqueInv, ApartInv
  <1>7. ApartInv'
    BY DEF TypeOK, Message, PlaceInv, ReadInv, UniqueInv, ApartInv
  <1>8. SomewhereInv'
    BY DEF TypeOK, Message, PlaceInv, SomewhereInv
  <1> QED
    BY <1>1, <1>2, <1>3, <1>4, <1>5, <1>6, <1>7, <1>8 DEF PlaceInv

\* await returns what is in its channel.
LEMMA ReceiveKeeps ==
  ASSUME IInv, NEW w \in Waiters, Receive(w)
  PROVE  IInv'
  <1> USE SubscriptionAssumption DEF IInv, Receive, NoMsg
  <1>1. TypeOK'
    BY DEF TypeOK, Message
  <1>2. HandInv' /\ RegisteredInv' /\ CarriedInv' /\ ChannelInv'
    BY DEF TypeOK, Message, HandInv, RegisteredInv, CarriedInv, ChannelInv
  <1>3. HeldIsBounded'
    BY DEF HeldIsBounded, Held
  <1>4. OwnRegistration'
    BY DEF TypeOK, OwnRegistration, Distinct, RegisteredInv
  <1>5. ReadInv'
    BY MessagesAreNumbers DEF TypeOK, PlaceInv, ReadInv
  <1>6. UniqueInv'
    BY DEF TypeOK, Message, PlaceInv, ReadInv, UniqueInv, ApartInv
  <1>7. ApartInv'
    BY DEF TypeOK, Message, PlaceInv, ReadInv, UniqueInv, ApartInv
  <1>8. SomewhereInv'
    <2>1. result[w] = NoMsg /\ result'[w] = chan[w]
      BY DEF TypeOK, ChannelInv
    <2>2. ASSUME NEW v \in Waiters, result[v] # NoMsg PROVE result'[v] = result[v]
      BY <2>1, <2>2 DEF TypeOK
    <2>3. ASSUME NEW v \in Waiters, chan[v] # NoMsg
          PROVE  chan'[v] = chan[v] \/ chan[v] = result'[w]
      BY <2>1, <2>3 DEF TypeOK
    <2> QED
      BY <2>1, <2>2, <2>3 DEF PlaceInv, SomewhereInv
  <1> QED
    BY <1>1, <1>2, <1>3, <1>4, <1>5, <1>6, <1>7, <1>8 DEF PlaceInv

\* The timer ends the wait.
LEMMA ExpireKeeps ==
  ASSUME IInv, NEW w \in Waiters, Expire(w)
  PROVE  IInv'
  <1> USE SubscriptionAssumption DEF IInv, Expire, NoMsg
  <1>1. TypeOK'
    BY DEF TypeOK, Message
  <1>2. HandInv' /\ RegisteredInv' /\ CarriedInv' /\ ChannelInv'
    BY DEF TypeOK, Message, HandInv, RegisteredInv, CarriedInv, ChannelInv
  <1>3. HeldIsBounded'
    BY DEF HeldIsBounded, Held
  <1>4. OwnRegistration'
    BY DEF TypeOK, OwnRegistration, Distinct, RegisteredInv
  <1>5. ReadInv'
    BY MessagesAreNumbers DEF TypeOK, PlaceInv, ReadInv
  <1>6. UniqueInv'
    BY DEF TypeOK, Message, PlaceInv, ReadInv, UniqueInv, ApartInv
  <1>7. ApartInv'
    BY DEF TypeOK, Message, PlaceInv, ReadInv, UniqueInv, ApartInv
  <1>8. SomewhereInv'
    BY DEF TypeOK, Message, PlaceInv, SomewhereInv
  <1> QED
    BY <1>1, <1>2, <1>3, <1>4, <1>5, <1>6, <1>7, <1>8 DEF PlaceInv

\* await removes the registration of its value.
LEMMA UnregisterKeeps ==
  ASSUME IInv, NEW w \in Waiters, Unregister(w)
  PROVE  IInv'
  <1> USE SubscriptionAssumption DEF IInv, Unregister, Unregistered, NoMsg
  <1>1. TypeOK'
    BY DEF TypeOK, Message
  <1>2. HandInv' /\ RegisteredInv' /\ CarriedInv' /\ ChannelInv'
    BY DEF TypeOK, Message, HandInv, RegisteredInv, CarriedInv, ChannelInv
  <1>3. HeldIsBounded'
    BY DEF HeldIsBounded, Held
  <1>4. OwnRegistration'
    BY DEF TypeOK, OwnRegistration, Distinct, RegisteredInv
  <1>5. ReadInv'
    BY MessagesAreNumbers DEF TypeOK, PlaceInv, ReadInv
  <1>6. UniqueInv'
    BY DEF TypeOK, Message, PlaceInv, ReadInv, UniqueInv, ApartInv
  <1>7. ApartInv'
    BY DEF TypeOK, Message, PlaceInv, ReadInv, UniqueInv, ApartInv
  <1>8. SomewhereInv'
    BY DEF TypeOK, Message, PlaceInv, SomewhereInv
  <1> QED
    BY <1>1, <1>2, <1>3, <1>4, <1>5, <1>6, <1>7, <1>8 DEF PlaceInv

\* await returns empty-handed.
LEMMA GiveUpKeeps ==
  ASSUME IInv, NEW w \in Waiters, GiveUp(w)
  PROVE  IInv'
  <1> USE SubscriptionAssumption DEF IInv, GiveUp, NoMsg
  <1>1. TypeOK'
    BY DEF TypeOK, Message
  <1>2. HandInv' /\ RegisteredInv' /\ CarriedInv' /\ ChannelInv'
    BY DEF TypeOK, Message, HandInv, RegisteredInv, CarriedInv, ChannelInv
  <1>3. HeldIsBounded'
    BY DEF HeldIsBounded, Held
  <1>4. OwnRegistration'
    BY DEF TypeOK, OwnRegistration, Distinct, RegisteredInv
  <1>5. ReadInv'
    BY MessagesAreNumbers DEF TypeOK, PlaceInv, ReadInv
  <1>6. UniqueInv'
    BY DEF TypeOK, Message, PlaceInv, ReadInv, UniqueInv, ApartInv
  <1>7. ApartInv'
    BY DEF TypeOK, Message, PlaceInv, ReadInv, UniqueInv, ApartInv
  <1>8. SomewhereInv'
    BY DEF TypeOK, Message, PlaceInv, SomewhereInv
  <1> QED
    BY <1>1, <1>2, <1>3, <1>4, <1>5, <1>6, <1>7, <1>8 DEF PlaceInv

\* The order after deliver held a message of value c: within Cap, and what is held
\* occurs in it unless it is the entry that was evicted.
LEMMA OrderAfterHold ==
  ASSUME order \in Seq(Correlations), Len(order) <= Cap, NEW c \in Correlations
  PROVE  LET longer == Append(order, c)
         IN  /\ longer \in Seq(Correlations)
             /\ Head(longer) \in Correlations
             /\ Tail(longer) \in Seq(Correlations)
             /\ Len(longer) > Cap => Len(Tail(longer)) <= Cap
             /\ \A d \in Correlations :
                   (d = c \/ \E i \in DOMAIN order : order[i] = d) =>
                      /\ \E i \in DOMAIN longer : longer[i] = d
                      /\ d # Head(longer) => \E i \in DOMAIN Tail(longer) : Tail(longer)[i] = d
  <1> USE SubscriptionAssumption
  <1> DEFINE longer == Append(order, c)
  <1>1. /\ longer \in Seq(Correlations) /\ longer # <<>>
        /\ Len(longer) = Len(order) + 1 /\ Len(order) \in Nat
        /\ \A i \in 1 .. Len(order) : longer[i] = order[i]
        /\ longer[Len(order) + 1] = c
    BY AppendProperties, LenProperties
  <1>2. /\ Head(longer) \in Correlations /\ Head(longer) = longer[1]
        /\ Tail(longer) \in Seq(Correlations)
        /\ Len(Tail(longer)) = Len(order)
        /\ \A i \in 1 .. Len(order) : Tail(longer)[i] = longer[i + 1]
    BY <1>1, HeadTailProperties
  <1>3. /\ DOMAIN order = 1 .. Len(order) /\ DOMAIN longer = 1 .. (Len(order) + 1)
        /\ DOMAIN Tail(longer) = 1 .. Len(order)
    BY <1>1, <1>2, LenProperties
  <1>4. ASSUME NEW d \in Correlations, d = c \/ \E i \in DOMAIN order : order[i] = d
        PROVE  /\ \E i \in DOMAIN longer : longer[i] = d
               /\ d # Head(longer) => \E i \in DOMAIN Tail(longer) : Tail(longer)[i] = d
    <2>1. PICK i \in 1 .. (Len(order) + 1) : longer[i] = d
      BY <1>1, <1>3, <1>4
    <2>2. ASSUME d # Head(longer) PROVE i - 1 \in 1 .. Len(order) /\ Tail(longer)[i - 1] = d
      <3>1. i # 1
        BY <1>2, <2>1, <2>2
      <3> QED
        BY <1>1, <1>2, <2>1, <3>1
    <2> QED
      BY <1>3, <2>1, <2>2
  <1> HIDE DEF longer
  <1>5. Len(longer) > Cap => Len(Tail(longer)) <= Cap
    BY <1>2
  <1> QED
    BY <1>1, <1>2, <1>4, <1>5 DEF longer

\* deliver holds the message of its reader, gives up the one it replaces and, at
\* the cap, the one it evicts: which may be the message it just held.
LEMMA HoldEffect ==
  ASSUME IInv, NEW r \in Readers, NEW c \in Correlations, Hold(r, c)
  PROVE  /\ arrivals' \in [Correlations -> Message \cup {NoMsg}] /\ dropped' \subseteq Message
         /\ \A d \in Correlations :
               arrivals'[d] \in {NoMsg, IF d = c THEN hand[r].msg ELSE arrivals[d]}
         /\ \A d \in Correlations : arrivals[d] # NoMsg =>
               arrivals'[d] = arrivals[d] \/ arrivals[d] \in dropped'
         /\ arrivals'[c] = hand[r].msg \/ hand[r].msg \in dropped'
         /\ dropped \subseteq dropped'
         /\ \A m \in dropped' \ dropped :
               /\ m = hand[r].msg \/ \E d \in Correlations : m = arrivals[d]
               /\ \A d \in Correlations : arrivals'[d] # m
         /\ \A s \in Readers : hand'[s] = IF s = r THEN Idle ELSE hand[s]
  <1> USE DEF IInv
  <1> DEFINE held   == [arrivals EXCEPT ![c] = hand[r].msg]
             oldest == Head(Append(order, c))
  <1>1. oldest \in Correlations
    BY OrderAfterHold DEF TypeOK, HeldIsBounded
  <1>2. /\ held \in [Correlations -> Message \cup {NoMsg}]
        /\ held[c] = hand[r].msg /\ \A d \in Correlations \ {c} : held[d] = arrivals[d]
    BY DEF TypeOK
  <1>3. \A s \in Readers : hand'[s] = IF s = r THEN Idle ELSE hand[s]
    BY DEF TypeOK, Hold
  <1>4. hand[r].msg \in Message /\ \A d \in Correlations : arrivals[d] # hand[r].msg
    BY DEF Hold, Delivering, TypeOK, PlaceInv, ApartInv
  <1>5. \A d, e \in Correlations : arrivals[d] = arrivals[e] /\ arrivals[d] # NoMsg => d = e
    BY DEF PlaceInv, UniqueInv
  <1>6. NoMsg \notin Message
    BY SubscriptionAssumption DEF Message, NoMsg
  <1>7. CASE Overflows(Append(order, c))
    <2>1. /\ arrivals' = [held EXCEPT ![oldest] = NoMsg]
          /\ dropped' = dropped \cup ({arrivals[c], held[oldest]} \ {NoMsg})
      BY <1>7 DEF Hold
    <2>2. \A d \in Correlations : arrivals'[d] = IF d = oldest THEN NoMsg ELSE held[d]
      BY <2>1, <1>2
    <2>3. arrivals' \in [Correlations -> Message \cup {NoMsg}]
      BY <2>1, <1>2
    <2> HIDE DEF held, oldest
    <2>4. dropped' \subseteq Message
      BY <2>1, <1>1, <1>2 DEF TypeOK
    <2>5. ASSUME NEW m \in dropped' \ dropped
          PROVE  /\ m = hand[r].msg \/ \E d \in Correlations : m = arrivals[d]
                 /\ \A d \in Correlations : arrivals'[d] # m
      BY <2>1, <2>2, <1>1, <1>2, <1>4, <1>5, <1>6
    <2> QED
      BY <2>1, <2>2, <2>3, <2>4, <2>5, <1>1, <1>2, <1>3, <1>4
  <1>8. CASE ~Overflows(Append(order, c))
    <2>1. arrivals' = held /\ dropped' = dropped \cup ({arrivals[c]} \ {NoMsg})
      BY <1>8 DEF Hold
    <2> HIDE DEF held, oldest
    <2>2. dropped' \subseteq Message
      BY <2>1 DEF TypeOK
    <2>3. ASSUME NEW m \in dropped' \ dropped
          PROVE  /\ m = hand[r].msg \/ \E d \in Correlations : m = arrivals[d]
                 /\ \A d \in Correlations : arrivals'[d] # m
      BY <2>1, <1>2, <1>4, <1>5, <1>6
    <2> QED
      BY <2>1, <2>2, <2>3, <1>2, <1>3, <1>4
  <1> QED
    BY <1>7, <1>8

\* deliver holds a message nobody waits for.
LEMMA HoldKeeps ==
  ASSUME IInv, NEW r \in Readers, NEW c \in Correlations, Hold(r, c)
  PROVE  IInv'
  <1> USE SubscriptionAssumption DEF IInv
  <1> DEFINE longer == Append(order, c)
             oldest == Head(longer)
  <1>a. /\ hand[r].msg # NoMsg /\ hand[r].to = Nobody /\ waiting[c] = Nobody
        /\ hand' = [hand EXCEPT ![r] = Idle]
        /\ UNCHANGED <<expected, open, received, waiting, chan, pc, result>>
    BY DEF Hold, Delivering
  <1>b. /\ longer \in Seq(Correlations)
        /\ oldest \in Correlations
        /\ Tail(longer) \in Seq(Correlations)
        /\ Len(longer) > Cap => Len(Tail(longer)) <= Cap
        /\ \A d \in Correlations :
              (d = c \/ \E i \in DOMAIN order : order[i] = d) =>
                 /\ \E i \in DOMAIN longer : longer[i] = d
                 /\ d # oldest => \E i \in DOMAIN Tail(longer) : Tail(longer)[i] = d
    BY OrderAfterHold DEF TypeOK, HeldIsBounded
  <1>c. /\ arrivals' = IF Overflows(longer)
                       THEN [[arrivals EXCEPT ![c] = hand[r].msg] EXCEPT ![oldest] = NoMsg]
                       ELSE [arrivals EXCEPT ![c] = hand[r].msg]
        /\ order' = IF Overflows(longer) THEN Tail(longer) ELSE longer
    BY DEF Hold
  <1> HIDE DEF longer, oldest
  <1>1. TypeOK'
    BY <1>a, <1>b, <1>c, HoldEffect DEF TypeOK, Idle
  <1>2. HandInv' /\ RegisteredInv' /\ CarriedInv' /\ ChannelInv'
    BY <1>a, HoldEffect DEF TypeOK, Idle, HandInv, RegisteredInv, CarriedInv, ChannelInv
  <1>3. HeldIsBounded'
    <2>1. Len(order') <= Cap
      BY <1>b, <1>c, LenProperties DEF Overflows
    <2>2. ASSUME NEW d \in Correlations, arrivals'[d] # NoMsg
          PROVE  \E i \in DOMAIN order' : order'[i] = d
      <3>1. d = c \/ \E i \in DOMAIN order : order[i] = d
        BY <2>2, HoldEffect DEF HeldIsBounded, Held
      <3>2. Overflows(longer) => d # oldest
        BY <2>2, <1>b, <1>c DEF TypeOK
      <3> QED
        BY <3>1, <3>2, <1>b, <1>c
    <2> QED
      BY <2>1, <2>2 DEF HeldIsBounded, Held
  <1>4. OwnRegistration'
    BY <1>a, HoldEffect DEF TypeOK, OwnRegistration, Distinct, Idle
  <1>5. ReadInv'
    <2>1. 0 <= received
      BY DEF TypeOK
    <2>2. /\ \A s \in Readers : hand[s].msg <= received
          /\ \A d \in Correlations : arrivals[d] <= received
          /\ \A m \in dropped : m <= received
          /\ \A w \in Waiters : chan[w] <= received /\ result[w] <= received
      BY DEF PlaceInv, ReadInv
    <2>3. \A s \in Readers : hand'[s].msg <= received
      BY <2>1, <2>2, HoldEffect DEF Idle, NoMsg
    <2>4. \A d \in Correlations : arrivals'[d] <= received
      BY <2>1, <2>2, HoldEffect DEF NoMsg
    <2>5. \A m \in dropped' : m <= received
      BY <2>2, HoldEffect
    <2> QED
      BY <1>a, <2>2, <2>3, <2>4, <2>5 DEF ReadInv
  <1>6. UniqueInv'
    BY <1>a, HoldEffect DEF PlaceInv, UniqueInv, ApartInv, Idle, NoMsg
  <1>7. ApartInv'
    BY <1>a, HoldEffect DEF PlaceInv, UniqueInv, ApartInv, Idle, NoMsg, Message, TypeOK
  <1>8. SomewhereInv'
    BY <1>a, HoldEffect DEF PlaceInv, SomewhereInv, Idle, NoMsg
  <1> QED
    BY <1>1, <1>2, <1>3, <1>4, <1>5, <1>6, <1>7, <1>8 DEF PlaceInv

-----------------------------------------------------------------------------
\* Every step of a reader, an iteration or the shutdown keeps the inductive invariant.
LEMMA NextIInv == IInv /\ [Next]_vars => IInv'
  <1> SUFFICES ASSUME IInv, [Next]_vars PROVE IInv'
    OBVIOUS
  <1>1. ASSUME NEW r \in Readers, DeliverStep(r) PROVE IInv'
    BY <1>1, IgnoreKeeps, DeliverToWaiterKeeps, HoldKeeps, HandOverKeeps DEF DeliverStep
  <1>2. ASSUME NEW w \in Waiters, WaiterStep(w) PROVE IInv'
    BY <1>2, TakeHeldKeeps, RegisterKeeps, ReceiveKeeps, ExpireKeeps, UnregisterKeeps,
       GiveUpKeeps DEF WaiterStep
  <1>3. ASSUME UNCHANGED <<expected, received, arrivals, order, waiting, hand, chan, pc,
                           result, dropped>>, open' \in BOOLEAN
        PROVE  IInv'
    BY <1>3 DEF IInv, TypeOK, HandInv, RegisteredInv, CarriedInv, ChannelInv, HeldIsBounded,
       Held, OwnRegistration, Distinct, PlaceInv, ReadInv, UniqueInv, ApartInv, SomewhereInv
  <1>4. CASE Shutdown
    BY <1>3, <1>4 DEF Shutdown
  <1>5. CASE UNCHANGED vars
    BY <1>3, <1>5 DEF vars, IInv, TypeOK
  <1> QED
    BY <1>1, <1>2, <1>4, <1>5, ReadKeeps DEF Next, Finished

\* The inductive invariant holds in every reachable state.
LEMMA SpecIInv == Spec => []IInv
  BY InitIInv, NextIInv, PTL DEF Spec

\* deliver, await and the timers keep the state of a subscription well-typed.
THEOREM SubscriptionTyped == Spec => []TypeOK
  <1>1. IInv => TypeOK
    BY DEF IInv
  <1> QED
    BY <1>1, SpecIInv, PTL

\* However many readers deliver, the send that deliver makes outside the mutex finds
\* the channel of one empty, and no other reader about to fill it.
THEOREM SendNeverBlocks == Spec => []HandOverNeverBlocks
  <1>1. IInv => HandOverNeverBlocks
    BY DEF IInv, CarriedInv, HandOverNeverBlocks
  <1> QED
    BY <1>1, SpecIInv, PTL

\* await never registers for a value whose message is held, and deliver never holds
\* one for a value somebody waits for.
THEOREM WakeupNeverLost == Spec => []NoLostWakeup
  <1>1. IInv => NoLostWakeup
    BY DEF IInv, RegisteredInv, NoLostWakeup
  <1> QED
    BY <1>1, SpecIInv, PTL

\* Whoever is registered in subscription.waiting has not returned from await.
THEOREM RegistrationNeverStale == Spec => []NoStaleRegistration
  <1>1. IInv => NoStaleRegistration
    BY DEF IInv, RegisteredInv, NoStaleRegistration
  <1> QED
    BY <1>1, SpecIInv, PTL

\* subscription.order never exceeds heldMessagesCap, and whatever arrivals holds can
\* be reached for eviction through it.
THEOREM HeldBounded == Spec => []HeldIsBounded
  <1>1. IInv => HeldIsBounded
    BY DEF IInv
  <1> QED
    BY <1>1, SpecIInv, PTL

\* With a value per iteration an await that is going on is registered, is about to be
\* sent its message, or has it in its channel: unregister removes its own entry.
THEOREM RegistrationIsOwn == Spec => []OwnRegistration
  <1>1. IInv => OwnRegistration
    BY DEF IInv
  <1> QED
    BY <1>1, SpecIInv, PTL

\* A message read from the broker is in exactly one place: no await returns one that
\* another returned, and none disappears without being counted as given up.
THEOREM MessageNeverDoubled == Spec => []MessageInOnePlace
  <1>1. ASSUME IInv, NEW m \in 1 .. received
        PROVE  Cardinality({r \in Readers : hand[r].msg = m})
               + Cardinality({c \in Correlations : arrivals[c] = m})
               + Cardinality({w \in Waiters : chan[w] = m})
               + Cardinality({w \in Waiters : result[w] = m})
               + (IF m \in dropped THEN 1 ELSE 0) = 1
    <2> DEFINE InHand == {r \in Readers : hand[r].msg = m}
               IsHeld == {c \in Correlations : arrivals[c] = m}
               InChan == {w \in Waiters : chan[w] = m}
               IsBack == {w \in Waiters : result[w] = m}
    <2> SUFFICES Cardinality(InHand) + Cardinality(IsHeld) + Cardinality(InChan)
                 + Cardinality(IsBack) + (IF m \in dropped THEN 1 ELSE 0) = 1
      OBVIOUS
    <2> HIDE DEF InHand, IsHeld, InChan, IsBack
    <2> USE <1>1 DEF IInv, PlaceInv
    <2>1. m # NoMsg
      BY DEF NoMsg
    <2>2. Cardinality({}) = 0
      BY FS_EmptySet
    <2>3. CASE \E r \in Readers : hand[r].msg = m
      <3>1. PICK r \in Readers : hand[r].msg = m
        BY <2>3
      <3>2. InHand = {r}
        BY <3>1, <2>1 DEF UniqueInv, InHand
      <3>3. IsHeld = {} /\ InChan = {} /\ IsBack = {} /\ m \notin dropped
        BY <3>1, <2>1 DEF ApartInv, InHand, IsHeld, InChan, IsBack
      <3>4. Cardinality(InHand) = 1
        BY <3>2, FS_Singleton, Zenon
      <3> QED
        BY <3>3, <3>4, <2>2
    <2>4. CASE \E c \in Correlations : arrivals[c] = m
      <3>1. PICK c \in Correlations : arrivals[c] = m
        BY <2>4
      <3>2. IsHeld = {c}
        BY <3>1, <2>1 DEF UniqueInv, IsHeld
      <3>3. InHand = {} /\ InChan = {} /\ IsBack = {} /\ m \notin dropped
        BY <3>1, <2>1 DEF ApartInv, InHand, IsHeld, InChan, IsBack
      <3>4. Cardinality(IsHeld) = 1
        BY <3>2, FS_Singleton, Zenon
      <3> QED
        BY <3>3, <3>4, <2>2
    <2>5. CASE \E w \in Waiters : chan[w] = m
      <3>1. PICK w \in Waiters : chan[w] = m
        BY <2>5
      <3>2. InChan = {w}
        BY <3>1, <2>1 DEF UniqueInv, InChan
      <3>3. InHand = {} /\ IsHeld = {} /\ IsBack = {} /\ m \notin dropped
        BY <3>1, <2>1 DEF ApartInv, InHand, IsHeld, InChan, IsBack
      <3>4. Cardinality(InChan) = 1
        BY <3>2, FS_Singleton, Zenon
      <3> QED
        BY <3>3, <3>4, <2>2
    <2>6. CASE \E w \in Waiters : result[w] = m
      <3>1. PICK w \in Waiters : result[w] = m
        BY <2>6
      <3>2. IsBack = {w}
        BY <3>1, <2>1 DEF UniqueInv, IsBack
      <3>3. InHand = {} /\ IsHeld = {} /\ InChan = {} /\ m \notin dropped
        BY <3>1, <2>1 DEF ApartInv, InHand, IsHeld, InChan, IsBack
      <3>4. Cardinality(IsBack) = 1
        BY <3>2, FS_Singleton, Zenon
      <3> QED
        BY <3>3, <3>4, <2>2
    <2>7. CASE m \in dropped
      <3>1. InHand = {} /\ IsHeld = {} /\ InChan = {} /\ IsBack = {}
        BY <2>7 DEF ApartInv, InHand, IsHeld, InChan, IsBack
      <3> QED
        BY <3>1, <2>2, <2>7
    <2> QED
      BY <2>3, <2>4, <2>5, <2>6, <2>7 DEF SomewhereInv
  <1>2. IInv => MessageInOnePlace
    BY <1>1 DEF MessageInOnePlace, IInv, ChannelInv
  <1> QED
    BY <1>2, SpecIInv, PTL
=============================================================================
