---------------------------- MODULE RunningProofs ----------------------------
(***************************************************************************)
(* Runs of a scenario, proved for every scenario, environment and outcome: *)
(* what runs was accepted, the mix keeps its shares, nothing is sent blank *)
(* and the exit code is what happened.  The sums, positions and counts of  *)
(* the mix, the rules and the document are reasoned about by their least   *)
(* counterexample: LeastNumber stands in for induction.                    *)
(***************************************************************************)
EXTENDS Command, FiniteSetTheorems, WellFoundedInduction, TLAPS

\* Every set of numbers has a least one.
LEMMA LeastNumber ==
    ASSUME NEW T, T \subseteq Nat, T # {}
    PROVE  \E x \in T : \A y \in T : x <= y
  <1>1. \E R : IsWellFoundedOn(R, Nat) /\ \A x, y \in Nat : x < y => <<x, y>> \in R
    <2>1. \A x, y \in Nat : x < y => <<x, y>> \in OpToRel(<, Nat)
      BY DEF OpToRel
    <2> QED  BY <2>1, NatLessThanWellFounded, Zenon
  <1>2. PICK R : IsWellFoundedOn(R, Nat) /\ \A x, y \in Nat : x < y => <<x, y>> \in R
    BY <1>1
  <1>3. IsWellFoundedOn(R, Nat)
    BY <1>2, Zenon
  <1>4. PICK x \in T : \A y \in T : ~(<<y, x>> \in R)
    BY <1>3, WFMin, Zenon
  <1>5. \A a, b \in Nat : a < b => <<a, b>> \in R
    BY <1>2, Zenon
  <1>6. \A y \in T : ~(y < x)
    BY <1>4, <1>5
  <1>7. \A y \in T : x <= y
    BY <1>6
  <1> QED  BY <1>7

\* Every bounded set of numbers has a greatest one, which is what Max chooses.
LEMMA MaxIsGreatest ==
    ASSUME NEW T, T \subseteq Nat, T # {}, NEW m \in Nat, \A x \in T : x <= m
    PROVE  Max(T) \in T /\ \A y \in T : y <= Max(T)
  <1> DEFINE gaps == {g \in Nat : m - g \in T}
  <1>1. gaps # {}
    <2>1. PICK x \in T : TRUE
      OBVIOUS
    <2>2. m - x \in Nat /\ m - (m - x) = x
      BY <2>1
    <2> QED  BY <2>1, <2>2
  <1>2. PICK g \in gaps : \A h \in gaps : g <= h
    BY <1>1, LeastNumber
  <1>3. \A y \in T : y <= m - g
    <2> SUFFICES ASSUME NEW y \in T PROVE y <= m - g
      OBVIOUS
    <2>1. m - y \in Nat /\ m - (m - y) = y
      OBVIOUS
    <2>2. g <= m - y
      BY <1>2, <2>1
    <2> QED  BY <2>1, <2>2
  <1>4. m - g \in T
    BY <1>2
  <1>5. \A y \in T : m - g >= y
    BY <1>3, <1>4
  <1>6. Max(T) \in T /\ \A y \in T : Max(T) >= y
    BY <1>4, <1>5 DEF Max
  <1> QED  BY <1>6

\* Min chooses the least number of a set.
LEMMA MinIsLeast ==
    ASSUME NEW T, T \subseteq Nat, T # {}
    PROVE  Min(T) \in T /\ \A y \in T : Min(T) <= y
  <1>1. PICK x \in T : \A y \in T : x <= y
    BY LeastNumber
  <1> QED  BY <1>1 DEF Min

\* Counting up from 0: what holds of it, and of the next number after every one it holds
\* of, holds of all.
LEMMA CountingUp ==
    ASSUME NEW K \in Nat, NEW T, 0 \in T, \A J \in 0 .. K : J \in T /\ J < K => J + 1 \in T
    PROVE  0 .. K \subseteq T
  <1> SUFFICES ASSUME ~(0 .. K \subseteq T) PROVE FALSE
    OBVIOUS
  <1> DEFINE missing == {J \in Nat : J <= K /\ J \notin T}
  <1>1. missing # {}
    OBVIOUS
  <1>2. PICK x \in missing : \A y \in missing : x <= y
    BY <1>1, LeastNumber
  <1>3. x # 0
    BY <1>2
  <1>4. x - 1 \in T
    BY <1>2, <1>3
  <1>5. x - 1 \in 0 .. K /\ x - 1 < K /\ (x - 1) + 1 = x
    BY <1>2, <1>3
  <1>6. x \in T
    BY <1>4, <1>5
  <1> QED  BY <1>2, <1>6

(***************************************************************************)
(* The shares of a mix.                                                    *)
(***************************************************************************)
\* What CheckMix leaves of a scenario with weights.
Weighted(doc) ==
    /\ StepsOf(doc) = doc.steps
    /\ Len(doc.steps) \in Nat \ {0}
    /\ DOMAIN doc.steps = 1 .. Len(doc.steps)
    /\ \A i \in DOMAIN doc.steps : Weight(doc.steps[i]) \in Nat \ {0}

\* Every step of an accepted mix has a weight, and a weight is at least one (mix.go:105).
LEMMA AcceptedMix ==
    ASSUME NEW doc, NEW defined, Decoded(doc), HasMix(doc), CheckMix(doc, defined)
    PROVE  Weighted(doc)
  <1>1. PICK i \in DOMAIN StepsOf(doc) : TRUE
    BY DEF HasMix
  <1>2. StepsOf(doc) = doc.steps
    BY <1>1 DEF StepsOf
  <1>3. Len(doc.steps) \in Nat /\ DOMAIN doc.steps = 1 .. Len(doc.steps)
    <2>1. doc.steps \in Seq({doc.steps[k] : k \in DOMAIN doc.steps})
      BY Zenon DEF Decoded
    <2>2. PICK S : doc.steps \in Seq(S)
      BY <2>1, Zenon
    <2> QED  BY <2>2
  <1>4. Len(doc.steps) # 0
    BY <1>1, <1>2, <1>3
  <1>5. \A k \in DOMAIN doc.steps : Weight(doc.steps[k]) > 0
    BY <1>2 DEF CheckMix
  <1>6. \A k \in DOMAIN doc.steps : Weight(doc.steps[k]) \in Int
    <2>1. \A k \in DOMAIN doc.steps : doc.steps[k].weight \in Int
      BY Zenon DEF Decoded
    <2> QED  BY <2>1 DEF Weight
  <1> QED  BY <1>2, <1>3, <1>4, <1>5, <1>6 DEF Weighted

\* The divisor of the weights is at least one and divides each of them (mix.go).
LEMMA DivisorDivides ==
    ASSUME NEW W, W \subseteq Nat \ {0}, W # {}
    PROVE  /\ GreatestCommonDivisor(W) \in Nat \ {0}
           /\ \A w \in W : w % GreatestCommonDivisor(W) = 0
  <1> DEFINE D == {d \in 1 .. Min(W) : \A w \in W : w % d = 0}
  <1>1. Min(W) \in Nat \ {0}
    BY MinIsLeast
  <1>2. 1 \in D
    <2>1. \A w \in W : w % 1 = 0
      OBVIOUS
    <2> QED  BY <1>1, <2>1
  <1>3. D \subseteq Nat /\ \A d \in D : d <= Min(W)
    BY <1>1
  <1>4. Max(D) \in D
    <2> HIDE DEF D
    <2> QED  BY <1>1, <1>2, <1>3, MaxIsGreatest
  <1>5. GreatestCommonDivisor(W) = Max(D)
    BY DEF GreatestCommonDivisor
  <1> QED  BY <1>4, <1>5

\* A number divided by a divisor of it.
LEMMA Quotient ==
    ASSUME NEW w \in Nat \ {0}, NEW g \in Nat \ {0}, w % g = 0
    PROVE  w \div g \in Nat \ {0} /\ (w \div g) * g = w
  OBVIOUS

\* The shares are at least one and in the proportion of the weights.
LEMMA SharesAreProportional ==
    ASSUME NEW doc, Weighted(doc)
    PROVE  /\ Shares(doc) \in [DOMAIN doc.steps -> Nat \ {0}]
           /\ \A i, j \in DOMAIN doc.steps :
                Shares(doc)[i] * Weight(doc.steps[j]) = Shares(doc)[j] * Weight(doc.steps[i])
  <1> DEFINE W == {Weight(doc.steps[i]) : i \in DOMAIN doc.steps}
             g == GreatestCommonDivisor(W)
             S(i) == Shares(doc)[i]
             w(i) == Weight(doc.steps[i])
  <1>1. W \subseteq Nat \ {0} /\ W # {}
    BY DEF Weighted
  <1>2. g \in Nat \ {0} /\ \A x \in W : x % g = 0
    <2> HIDE DEF W
    <2> QED  BY <1>1, DivisorDivides
  <1>3. Shares(doc) = [i \in DOMAIN doc.steps |-> w(i) \div g]
    BY DEF Shares
  <1> HIDE DEF g
  <1>4. \A i \in DOMAIN doc.steps : S(i) \in Nat \ {0} /\ S(i) * g = w(i) /\ w(i) \in Nat
    <2> SUFFICES ASSUME NEW i \in DOMAIN doc.steps
                 PROVE  S(i) \in Nat \ {0} /\ S(i) * g = w(i) /\ w(i) \in Nat
      OBVIOUS
    <2>1. w(i) \in Nat \ {0} /\ w(i) % g = 0
      BY <1>1, <1>2
    <2>2. w(i) \div g \in Nat \ {0} /\ (w(i) \div g) * g = w(i)
      <3> HIDE DEF w
      <3> QED  BY <1>2, <2>1, Quotient
    <2> QED  BY <1>3, <2>1, <2>2
  <1>5. Shares(doc) \in [DOMAIN doc.steps -> Nat \ {0}]
    BY <1>3, <1>4
  <1>6. ASSUME NEW i \in DOMAIN doc.steps, NEW j \in DOMAIN doc.steps
        PROVE  S(i) * w(j) = S(j) * w(i)
    <2>1. \A a, b \in Nat : a * (b * g) = b * (a * g)
      BY <1>2
    <2>2. w(j) = S(j) * g /\ w(i) = S(i) * g /\ S(i) \in Nat /\ S(j) \in Nat
      BY <1>4
    <2> HIDE DEF S, w
    <2> QED  BY <2>1, <2>2
  <1> QED  BY <1>5, <1>6

(***************************************************************************)
(* The slots of a mix: one for every copy of every alternative.            *)
(***************************************************************************)
Slot(i, c) == [step |-> i, copy |-> c]
FirstCopies(doc, i, k) == {a \in Slots(doc) : a.step = i /\ a.copy < k}

\* A slot is a copy of a step, and every copy of every step has one.
LEMMA WhatSlotsAre ==
    ASSUME NEW doc, Weighted(doc)
    PROVE  /\ \A a \in Slots(doc) :
                /\ a = Slot(a.step, a.copy)
                /\ a.step \in DOMAIN doc.steps /\ a.copy \in Nat /\ a.copy < Shares(doc)[a.step]
           /\ \A i \in DOMAIN doc.steps, c \in Nat :
                c < Shares(doc)[i] => Slot(i, c) \in Slots(doc)
  <1>1. Shares(doc) \in [DOMAIN doc.steps -> Nat \ {0}]
    BY SharesAreProportional
  <1>2. ASSUME NEW a \in Slots(doc)
        PROVE  /\ a = Slot(a.step, a.copy)
               /\ a.step \in DOMAIN doc.steps /\ a.copy \in Nat /\ a.copy < Shares(doc)[a.step]
    <2>1. PICK i \in DOMAIN doc.steps : \E c \in 0 .. Shares(doc)[i] - 1 : a = [step |-> i, copy |-> c]
      BY DEF Slots
    <2>2. PICK c \in 0 .. Shares(doc)[i] - 1 : a = [step |-> i, copy |-> c]
      BY <2>1
    <2> QED  BY <1>1, <2>2 DEF Slot
  <1>3. ASSUME NEW i \in DOMAIN doc.steps, NEW c \in Nat, c < Shares(doc)[i]
        PROVE  Slot(i, c) \in Slots(doc)
    <2>1. c \in 0 .. Shares(doc)[i] - 1
      BY <1>1, <1>3
    <2> QED  BY <2>1 DEF Slots, Slot
  <1> QED  BY <1>2, <1>3

\* The first k copies of a step are k slots.
LEMMA CountCopies ==
    ASSUME NEW doc, Weighted(doc), NEW i \in DOMAIN doc.steps, NEW k \in Nat, k <= Shares(doc)[i]
    PROVE  IsFiniteSet(FirstCopies(doc, i, k)) /\ Cardinality(FirstCopies(doc, i, k)) = k
  <1> DEFINE f == [c \in 0 .. k - 1 |-> Slot(i, c)]
             C == FirstCopies(doc, i, k)
  <1>1. Shares(doc)[i] \in Nat
    BY SharesAreProportional
  <1>2. \A c \in 0 .. k - 1 : f[c] \in C
    BY <1>1, WhatSlotsAre DEF FirstCopies, Slot
  <1>3. \A c, d \in 0 .. k - 1 : f[c] = f[d] => c = d
    BY DEF Slot
  <1>4. \A a \in C : a.copy \in 0 .. k - 1 /\ f[a.copy] = a
    BY WhatSlotsAre DEF FirstCopies
  <1>5. f \in Bijection(0 .. k - 1, C)
    <2> HIDE DEF C
    <2> QED  BY <1>2, <1>3, <1>4 DEF Bijection, Injection, Surjection, IsInjective
  <1>6. IsFiniteSet(0 .. k - 1) /\ Cardinality(0 .. k - 1) = k
    BY FS_Interval
  <1> QED  BY <1>5, <1>6, FS_Bijection DEF ExistsBijection

\* There are finitely many slots.
LEMMA SlotsFinite ==
    ASSUME NEW doc, Weighted(doc)
    PROVE  IsFiniteSet(Slots(doc))
  <1> DEFINE UpTo(J) == {a \in Slots(doc) : a.step <= J}
             K == Len(doc.steps)
             T == {J \in 0 .. K : IsFiniteSet(UpTo(J))}
  <1>1. K \in Nat /\ DOMAIN doc.steps = 1 .. K
    BY DEF Weighted
  <1>2. 0 \in T
    <2>1. UpTo(0) = {}
      BY <1>1, WhatSlotsAre
    <2> HIDE DEF UpTo
    <2> QED  BY <1>1, <2>1, FS_EmptySet
  <1>3. ASSUME NEW J \in 0 .. K, J \in T, J < K
        PROVE  J + 1 \in T
    <2>1. Shares(doc)[J + 1] \in Nat /\ J + 1 \in DOMAIN doc.steps
      BY <1>1, <1>3, SharesAreProportional
    <2> DEFINE C == FirstCopies(doc, J + 1, Shares(doc)[J + 1])
    <2>2. IsFiniteSet(C)
      BY <2>1, CountCopies
    <2>3. UpTo(J + 1) = UpTo(J) \cup C
      BY <1>1, <2>1, WhatSlotsAre DEF FirstCopies
    <2>4. IsFiniteSet(UpTo(J) \cup C)
      <3> HIDE DEF C, UpTo
      <3> QED  BY <1>3, <2>2, FS_Union
    <2> HIDE DEF C, UpTo
    <2>5. IsFiniteSet(UpTo(J + 1))
      BY <2>3, <2>4, Zenon
    <2>6. J + 1 \in 0 .. K
      BY <1>1, <1>3
    <2> QED  BY <2>5, <2>6
  <1>4. 0 .. K \subseteq T
    <2> HIDE DEF T
    <2> QED  BY <1>1, <1>2, <1>3, CountingUp
  <1>5. UpTo(K) = Slots(doc)
    BY <1>1, WhatSlotsAre
  <1> HIDE DEF UpTo
  <1> QED  BY <1>1, <1>4, <1>5

(***************************************************************************)
(* Before puts the slots in a line.                                        *)
(***************************************************************************)
\* Multiplication keeps an order, and a factor that is not 0 can be taken out of it.
LEMMA Factor ==
    ASSUME NEW x \in Int, NEW y \in Int, NEW t \in Nat \ {0}
    PROVE  x <= y <=> x * t <= y * t
  OBVIOUS

\* Fractions compare by cross multiplication: p/s before q/t before r/u.
LEMMA CrossMultiplied ==
    ASSUME NEW p \in Nat, NEW q \in Nat, NEW r \in Nat,
           NEW s \in Nat \ {0}, NEW t \in Nat \ {0}, NEW u \in Nat \ {0},
           p * t <= q * s, q * u <= r * t
    PROVE  /\ p * u <= r * s
           /\ p * u = r * s => p * t = q * s /\ q * u = r * t
  <1>1. (p * t) * u <= (q * s) * u
    BY Factor
  <1>2. (q * u) * s <= (r * t) * s
    BY Factor
  <1>3. /\ (p * t) * u = (p * u) * t /\ (q * s) * u = (q * u) * s
        /\ (r * t) * s = (r * s) * t
    OBVIOUS
  <1>4. (p * u) * t <= (r * s) * t
    BY <1>1, <1>2, <1>3
  <1>5. p * u <= r * s
    BY <1>4, Factor
  <1>6. ASSUME p * u = r * s
        PROVE  p * t = q * s /\ q * u = r * t
    <2>1. (p * t) * u = (q * s) * u /\ (q * u) * s = (r * t) * s
      BY <1>1, <1>2, <1>3, <1>6
    <2>2. (q * s) * u <= (p * t) * u /\ (r * t) * s <= (q * u) * s
      BY <2>1
    <2>3. q * s <= p * t /\ r * t <= q * u
      BY <2>2, Factor
    <2> QED  BY <2>3
  <1> QED  BY <1>5, <1>6

\* Of two slots one is before the other, never both, and what is before a slot is before
\* all that come after it (the sort of mix.go has one outcome).
LEMMA BeforeIsALine ==
    ASSUME NEW doc, Weighted(doc), NEW a \in Slots(doc), NEW b \in Slots(doc)
    PROVE  /\ ~Before(doc, a, a)
           /\ a # b => Before(doc, a, b) \/ Before(doc, b, a)
           /\ \A c \in Slots(doc) : Before(doc, a, b) /\ Before(doc, b, c) => Before(doc, a, c)
  <1> DEFINE P(x) == 2 * x.copy + 1
             S(x) == Shares(doc)[x.step]
             Tie(x, y) == x.step < y.step \/ (x.step = y.step /\ x.copy < y.copy)
             Sooner(x, y) == P(x) * S(y) < P(y) * S(x) \/ (P(x) * S(y) = P(y) * S(x) /\ Tie(x, y))
  <1>1. \A x, y : Before(doc, x, y) <=> Sooner(x, y)
    BY DEF Before
  <1>2. \A x \in Slots(doc) :
          /\ x = Slot(x.step, x.copy) /\ x.step \in Nat /\ x.copy \in Nat
          /\ P(x) \in Nat /\ S(x) \in Nat \ {0}
    BY WhatSlotsAre, SharesAreProportional, SMTT(30) DEF Weighted
  <1>3. \A x, y \in Slots(doc) : P(x) * S(y) \in Nat
    <2> HIDE DEF P, S
    <2> QED  BY <1>2
  <1>4. ~Sooner(a, a)
    BY <1>2, <1>3
  <1>5. ASSUME a # b PROVE Sooner(a, b) \/ Sooner(b, a)
    <2>1. a.step # b.step \/ a.copy # b.copy
      BY <1>2, <1>5
    <2>2. Tie(a, b) \/ Tie(b, a)
      BY <1>2, <2>1
    <2> HIDE DEF Tie
    <2>3. P(a) * S(b) \in Nat /\ P(b) * S(a) \in Nat
      BY <1>3
    <2> HIDE DEF P, S
    <2> QED  BY <2>2, <2>3
  <1>6. ASSUME NEW c \in Slots(doc), Sooner(a, b), Sooner(b, c)
        PROVE  Sooner(a, c)
    <2>1. /\ P(a) \in Nat /\ P(b) \in Nat /\ P(c) \in Nat
          /\ S(a) \in Nat \ {0} /\ S(b) \in Nat \ {0} /\ S(c) \in Nat \ {0}
      BY <1>2
    <2>2. Tie(a, b) /\ Tie(b, c) => Tie(a, c)
      BY <1>2
    <2> HIDE DEF P, S, Tie
    <2>3. P(a) * S(b) <= P(b) * S(a) /\ P(b) * S(c) <= P(c) * S(b)
      BY <1>3, <1>6
    <2>4. /\ P(a) * S(c) <= P(c) * S(a)
          /\ P(a) * S(c) = P(c) * S(a) => P(a) * S(b) = P(b) * S(a) /\ P(b) * S(c) = P(c) * S(b)
      BY <2>1, <2>3, CrossMultiplied
    <2> QED  BY <1>3, <1>6, <2>2, <2>4
  <1> HIDE DEF Sooner
  <1> QED  BY <1>1, <1>4, <1>5, <1>6

Below(doc, a) == {b \in Slots(doc) : Before(doc, b, a)}
Rank(doc, a) == Cardinality(Below(doc, a)) + 1
At(doc, n) == CHOOSE a \in Slots(doc) : Rank(doc, a) = n
Cycles(doc) == Cardinality(Slots(doc))

\* The rank of a slot is its place among all of them.
LEMMA RankGrows ==
    ASSUME NEW doc, Weighted(doc), NEW a \in Slots(doc), NEW b \in Slots(doc)
    PROVE  /\ Rank(doc, a) \in 1 .. Cycles(doc) /\ Cycles(doc) \in Nat
           /\ Before(doc, a, b) => Rank(doc, a) < Rank(doc, b)
  <1>1. IsFiniteSet(Slots(doc)) /\ Cycles(doc) \in Nat
    BY SlotsFinite, FS_CardinalityType DEF Cycles
  <1>2. Below(doc, a) \subseteq Slots(doc) /\ Below(doc, b) \subseteq Slots(doc)
    BY DEF Below
  <1>3. /\ IsFiniteSet(Below(doc, a)) /\ Cardinality(Below(doc, a)) \in Nat
        /\ IsFiniteSet(Below(doc, b)) /\ Cardinality(Below(doc, b)) \in Nat
    BY <1>1, <1>2, FS_Subset, FS_CardinalityType
  <1>4. Rank(doc, a) \in 1 .. Cycles(doc)
    <2>1. a \notin Below(doc, a)
      BY BeforeIsALine DEF Below
    <2>2. Cardinality(Below(doc, a) \cup {a}) = Cardinality(Below(doc, a)) + 1
      BY <1>3, <2>1, FS_AddElement
    <2>3. Below(doc, a) \cup {a} \subseteq Slots(doc)
      BY <1>2
    <2>4. Cardinality(Below(doc, a) \cup {a}) <= Cycles(doc)
      BY <1>1, <2>3, FS_Subset DEF Cycles
    <2> QED  BY <1>1, <1>3, <2>2, <2>4 DEF Rank
  <1>5. ASSUME Before(doc, a, b)
        PROVE  Rank(doc, a) < Rank(doc, b)
    <2>1. Below(doc, a) \cup {a} \subseteq Below(doc, b)
      <3>1. \A c \in Below(doc, a) : c \in Below(doc, b)
        BY <1>5, BeforeIsALine DEF Below
      <3> QED  BY <1>5, <3>1 DEF Below
    <2>2. a \notin Below(doc, a)
      BY BeforeIsALine DEF Below
    <2>3. Cardinality(Below(doc, a) \cup {a}) = Cardinality(Below(doc, a)) + 1
      BY <1>3, <2>2, FS_AddElement
    <2>4. Cardinality(Below(doc, a) \cup {a}) <= Cardinality(Below(doc, b))
      BY <1>3, <2>1, FS_Subset
    <2> QED  BY <1>3, <2>3, <2>4 DEF Rank
  <1> QED  BY <1>1, <1>4, <1>5

\* Every place of the cycle is the rank of exactly one slot.
LEMMA EveryPlaceIsTaken ==
    ASSUME NEW doc, Weighted(doc)
    PROVE  /\ \A n \in 1 .. Cycles(doc) : At(doc, n) \in Slots(doc) /\ Rank(doc, At(doc, n)) = n
           /\ \A a \in Slots(doc) : At(doc, Rank(doc, a)) = a
  <1> DEFINE f == [a \in Slots(doc) |-> Rank(doc, a)]
             N == Cycles(doc)
  <1>1. IsFiniteSet(Slots(doc)) /\ N \in Nat
    BY SlotsFinite, FS_CardinalityType DEF Cycles
  <1>2. \A a \in Slots(doc) : Rank(doc, a) \in 1 .. N
    BY RankGrows
  <1>3. \A a, b \in Slots(doc) : Rank(doc, a) = Rank(doc, b) => a = b
    <2> SUFFICES ASSUME NEW a \in Slots(doc), NEW b \in Slots(doc), a # b
                 PROVE  Rank(doc, a) # Rank(doc, b)
      OBVIOUS
    <2>1. Before(doc, a, b) \/ Before(doc, b, a)
      BY BeforeIsALine
    <2>2. Rank(doc, a) < Rank(doc, b) \/ Rank(doc, b) < Rank(doc, a)
      BY <2>1, RankGrows
    <2> QED  BY <1>1, <1>2, <2>2
  <1>4. f \in Injection(Slots(doc), 1 .. N)
    BY <1>2, <1>3 DEF Injection, IsInjective
  <1>5. IsFiniteSet(1 .. N) /\ Cardinality(1 .. N) = N
    BY <1>1, FS_Interval
  <1>6. f \in Surjection(Slots(doc), 1 .. N)
    BY <1>4, <1>5, FS_Injection DEF Cycles
  <1>7. \A n \in 1 .. N : \E a \in Slots(doc) : Rank(doc, a) = n
    BY <1>6 DEF Surjection
  <1>8. \A n \in 1 .. N : At(doc, n) \in Slots(doc) /\ Rank(doc, At(doc, n)) = n
    BY <1>7 DEF At
  <1>9. \A a \in Slots(doc) : At(doc, Rank(doc, a)) = a
    BY <1>2, <1>3, <1>8
  <1> QED  BY <1>8, <1>9

\* The order of a mix names a step at every place of its cycle.
LEMMA OrderNamesSteps ==
    ASSUME NEW doc, Weighted(doc)
    PROVE  /\ MixOrder(doc) = [n \in 1 .. Cycles(doc) |-> At(doc, n).step]
           /\ Len(MixOrder(doc)) = Cycles(doc)
           /\ Cycles(doc) \in Nat \ {0}
           /\ \A n \in 1 .. Cycles(doc) : MixOrder(doc)[n] \in DOMAIN doc.steps
  <1>1. MixOrder(doc) = [n \in 1 .. Cycles(doc) |-> At(doc, n).step]
    BY DEF MixOrder, At, Rank, Below, Cycles
  <1>2. Cycles(doc) \in Nat \ {0}
    <2>1. Shares(doc)[1] \in Nat \ {0} /\ 1 \in DOMAIN doc.steps
      BY SharesAreProportional DEF Weighted
    <2>2. Slot(1, 0) \in Slots(doc)
      BY <2>1, WhatSlotsAre
    <2> QED  BY <2>2, RankGrows
  <1>3. Len(MixOrder(doc)) = Cycles(doc)
    BY <1>1, <1>2
  <1>4. \A n \in 1 .. Cycles(doc) : MixOrder(doc)[n] \in DOMAIN doc.steps
    BY <1>1, EveryPlaceIsTaken, WhatSlotsAre
  <1> QED  BY <1>1, <1>2, <1>3, <1>4

(***************************************************************************)
(* How often a step ran after n iterations.                                *)
(***************************************************************************)
Early(doc, n) == {a \in Slots(doc) : Rank(doc, a) <= n}
EarlyOf(doc, n, i) == {a \in Early(doc, n) : a.step = i}
Iterations(doc, n, i) == {j \in 1 .. n : MixOrder(doc)[j] = i}

\* The iterations of a step among the first n are its slots of rank n at most.
LEMMA CountIterations ==
    ASSUME NEW doc, Weighted(doc), NEW n \in 0 .. Cycles(doc), NEW i \in DOMAIN doc.steps
    PROVE  /\ Cardinality(Iterations(doc, n, i)) = Cardinality(EarlyOf(doc, n, i))
           /\ IsFiniteSet(Early(doc, n)) /\ Cardinality(Early(doc, n)) = n
  <1> DEFINE places == {j \in 1 .. n : MixOrder(doc)[j] = i}
             slots == {a \in Early(doc, n) : a.step = i}
             f == [j \in places |-> At(doc, j)]
             g == [j \in 1 .. n |-> At(doc, j)]
  <1>1. Cycles(doc) \in Nat /\ n \in Nat /\ n <= Cycles(doc)
    BY OrderNamesSteps
  <1>2. \A j \in 1 .. n : /\ At(doc, j) \in Slots(doc) /\ Rank(doc, At(doc, j)) = j
                           /\ MixOrder(doc)[j] = At(doc, j).step
    BY <1>1, OrderNamesSteps, EveryPlaceIsTaken
  <1>3. \A a \in Early(doc, n) : Rank(doc, a) \in 1 .. n /\ At(doc, Rank(doc, a)) = a
    BY <1>1, RankGrows, EveryPlaceIsTaken DEF Early
  <1>4. IsFiniteSet(1 .. n) /\ Cardinality(1 .. n) = n
    BY <1>1, FS_Interval
  <1>5. g \in Bijection(1 .. n, Early(doc, n))
    <2>1. \A j \in 1 .. n : g[j] \in Early(doc, n)
      BY <1>1, <1>2 DEF Early
    <2>2. \A j, k \in 1 .. n : g[j] = g[k] => j = k
      BY <1>2
    <2>3. \A a \in Early(doc, n) : \E j \in 1 .. n : g[j] = a
      BY <1>3
    <2> QED  BY <2>1, <2>2, <2>3 DEF Bijection, Injection, Surjection, IsInjective
  <1>6. f \in Bijection(places, slots)
    <2>1. \A j \in places : f[j] \in slots
      BY <1>1, <1>2 DEF Early
    <2>2. \A j, k \in places : f[j] = f[k] => j = k
      BY <1>2
    <2>3. \A a \in slots : \E j \in places : f[j] = a
      <3> SUFFICES ASSUME NEW a \in slots PROVE Rank(doc, a) \in places /\ f[Rank(doc, a)] = a
        OBVIOUS
      <3> QED  BY <1>2, <1>3
    <2> HIDE DEF places, slots
    <2> QED  BY <2>1, <2>2, <2>3 DEF Bijection, Injection, Surjection, IsInjective
  <1>7. IsFiniteSet(places)
    <2>1. places \subseteq 1 .. n
      OBVIOUS
    <2> HIDE DEF places
    <2> QED  BY <1>4, <2>1, FS_Subset
  <1>8. Cardinality(slots) = Cardinality(places)
    <2> HIDE DEF places, slots, f
    <2> QED  BY <1>6, <1>7, FS_Bijection DEF ExistsBijection
  <1>9. IsFiniteSet(Early(doc, n)) /\ Cardinality(Early(doc, n)) = n
    BY <1>4, <1>5, FS_Bijection DEF ExistsBijection
  <1> QED  BY <1>8, <1>9 DEF Iterations, EarlyOf

\* The slots of a step among the first n are its first copies, and as many as its share
\* of the position of the nth slot, to half a slot.  p over 2 s is that position, s being
\* the share of the step in it.
LEMMA CopiesInStep ==
    ASSUME NEW doc, Weighted(doc), NEW n \in 1 .. Cycles(doc), NEW j \in DOMAIN doc.steps,
           NEW s, s = Shares(doc)[At(doc, n).step],
           NEW p, p = 2 * At(doc, n).copy + 1
    PROVE  \E k \in Nat : /\ k <= Shares(doc)[j]
                          /\ {a \in Early(doc, n) : a.step = j} = FirstCopies(doc, j, k)
                          /\ 2 * (k * s) <= p * Shares(doc)[j] + s
                          /\ p * Shares(doc)[j] <= 2 * (k * s) + s
  <1> DEFINE t == Shares(doc)[j]
             last == At(doc, n)
             In(c) == Slot(j, c) \in Early(doc, n)
             out == {c \in Nat : c <= t /\ (c = t \/ ~In(c))}
  <1>1. last \in Slots(doc) /\ Rank(doc, last) = n /\ n \in Nat
    BY EveryPlaceIsTaken, OrderNamesSteps
  <1>2. t \in Nat \ {0} /\ s \in Nat \ {0} /\ last.copy \in Nat /\ last.copy < s /\ p \in Nat
    BY <1>1, SharesAreProportional, WhatSlotsAre
  <1>3. \A a \in Slots(doc) : a \in Early(doc, n) <=> a = last \/ Before(doc, a, last)
    <2> SUFFICES ASSUME NEW a \in Slots(doc), a # last
                 PROVE  Rank(doc, a) <= n <=> Before(doc, a, last)
      BY <1>1 DEF Early
    <2>1. Before(doc, a, last) \/ Before(doc, last, a)
      BY <1>1, BeforeIsALine
    <2>2. Rank(doc, a) \in Nat
      BY RankGrows
    <2>3. Before(doc, a, last) => Rank(doc, a) < n
      BY <1>1, RankGrows
    <2>4. Before(doc, last, a) => n < Rank(doc, a)
      BY <1>1, RankGrows
    <2> QED  BY <1>1, <2>1, <2>2, <2>3, <2>4
  <1>4. \A c \in Nat : c < t => Slot(j, c) \in Slots(doc) /\ Slot(j, c).copy = c /\ Slot(j, c).step = j
    BY WhatSlotsAre DEF Slot
  <1>5. \A c \in Nat : c < t /\ In(c) => (2 * c + 1) * s <= p * t
    <2> SUFFICES ASSUME NEW c \in Nat, c < t, In(c) PROVE (2 * c + 1) * s <= p * t
      OBVIOUS
    <2>1. CASE Slot(j, c) = last
      BY <1>2, <1>4, <2>1
    <2>2. CASE Before(doc, Slot(j, c), last)
      <3>1. (2 * c + 1) * s < p * t \/ (2 * c + 1) * s = p * t
        BY <1>4, <2>2 DEF Before
      <3>2. (2 * c + 1) * s \in Nat /\ p * t \in Nat
        BY <1>2
      <3> QED  BY <3>1, <3>2
    <2> QED  BY <1>3, <1>4, <2>1, <2>2
  <1>6. \A c \in Nat : c < t /\ ~In(c) => p * t <= (2 * c + 1) * s
    <2> SUFFICES ASSUME NEW c \in Nat, c < t, ~In(c) PROVE p * t <= (2 * c + 1) * s
      OBVIOUS
    <2>1. Slot(j, c) # last /\ ~Before(doc, Slot(j, c), last)
      BY <1>3, <1>4
    <2>2. Before(doc, last, Slot(j, c))
      BY <1>1, <1>4, <2>1, BeforeIsALine
    <2>3. p * t < (2 * c + 1) * s \/ p * t = (2 * c + 1) * s
      BY <1>4, <2>2 DEF Before
    <2>4. (2 * c + 1) * s \in Nat /\ p * t \in Nat
      BY <1>2
    <2> QED  BY <2>3, <2>4
  <1>7. \A c, d \in Nat : c < d /\ d < t /\ In(d) => In(c)
    <2> SUFFICES ASSUME NEW c \in Nat, NEW d \in Nat, c < d, d < t, In(d) PROVE In(c)
      OBVIOUS
    <2>1. (2 * c + 1) * t < (2 * d + 1) * t
      BY <1>2
    <2>2. Before(doc, Slot(j, c), Slot(j, d))
      BY <1>2, <1>4, <2>1 DEF Before
    <2>3. Rank(doc, Slot(j, c)) < Rank(doc, Slot(j, d))
      BY <1>2, <1>4, <2>2, RankGrows
    <2>4. Rank(doc, Slot(j, c)) \in Nat /\ Rank(doc, Slot(j, d)) \in Nat
      BY <1>2, <1>4, RankGrows
    <2> QED  BY <1>1, <1>2, <1>4, <2>3, <2>4 DEF Early
  <1>8. out # {} /\ out \subseteq Nat
    BY <1>2
  <1>9. PICK k \in out : \A c \in out : k <= c
    <2> HIDE DEF out
    <2> QED  BY <1>8, LeastNumber
  <1>10. k \in Nat /\ k <= t /\ (k = t \/ ~In(k)) /\ \A c \in Nat : c < k => In(c)
    BY <1>2, <1>9
  <1>11. {a \in Early(doc, n) : a.step = j} = FirstCopies(doc, j, k)
    <2>1. ASSUME NEW a \in Slots(doc), a.step = j
          PROVE  a \in Early(doc, n) <=> a.copy < k
      <3>1. a = Slot(j, a.copy) /\ a.copy \in Nat /\ a.copy < t
        BY <2>1, WhatSlotsAre
      <3>2. a \in Early(doc, n) <=> In(a.copy)
        BY <3>1
      <3>3. a.copy < k => In(a.copy)
        BY <1>10, <3>1
      <3>4. In(a.copy) => a.copy < k
        BY <1>2, <1>7, <1>10, <3>1
      <3> QED  BY <3>2, <3>3, <3>4
    <2> QED  BY <2>1 DEF FirstCopies, Early
  <1>12. 2 * (k * s) <= p * t + s
    <2>1. CASE k = 0
      BY <1>2, <2>1
    <2>2. CASE k # 0
      <3>1. k - 1 \in Nat /\ k - 1 < t /\ In(k - 1)
        BY <1>2, <1>10, <2>2
      <3>2. (2 * (k - 1) + 1) * s <= p * t
        BY <1>5, <3>1
      <3>3. (2 * (k - 1) + 1) * s = 2 * (k * s) - s
        BY <1>2, <1>10
      <3> QED  BY <1>2, <1>10, <3>2, <3>3
    <2> QED  BY <2>1, <2>2
  <1>13. p * t <= 2 * (k * s) + s
    <2>1. CASE k = t
      <3>1. p <= 2 * s
        BY <1>2
      <3>2. p * t <= (2 * s) * t
        BY <1>2, <3>1, Factor
      <3>3. (2 * s) * t = 2 * (t * s)
        BY <1>2
      <3> QED  BY <1>2, <2>1, <3>2, <3>3
    <2>2. CASE k # t
      <3>1. p * t <= (2 * k + 1) * s
        BY <1>2, <1>6, <1>10, <2>2
      <3>2. (2 * k + 1) * s = 2 * (k * s) + s
        BY <1>2, <1>10
      <3> QED  BY <3>1, <3>2
    <2> QED  BY <2>1, <2>2
  <1> QED  BY <1>10, <1>11, <1>12, <1>13

\* The slots of one more step are added to those of the steps before it.
LEMMA DisjointUnion ==
    ASSUME NEW S, NEW T, NEW U, U = S \cup T, S \cap T = {}, IsFiniteSet(S), IsFiniteSet(T)
    PROVE  IsFiniteSet(U) /\ Cardinality(U) = Cardinality(S) + Cardinality(T)
  <1>1. /\ IsFiniteSet(S \cup T)
        /\ Cardinality(S \cup T) = Cardinality(S) + Cardinality(T) - Cardinality(S \cap T)
    BY FS_Union
  <1>2. Cardinality(S \cap T) = 0 /\ Cardinality(S) \in Nat /\ Cardinality(T) \in Nat
    BY FS_EmptySet, FS_CardinalityType
  <1> QED  BY <1>1, <1>2

\* And so are their distances from the share.
LEMMA OneStepMore ==
    ASSUME NEW A \in Nat, NEW B \in Nat, NEW k \in Nat, NEW t \in Nat, NEW s \in Nat, NEW p \in Nat,
           NEW m \in Nat,
           2 * (A * s) <= p * B + m * s, p * B <= 2 * (A * s) + m * s,
           2 * (k * s) <= p * t + s, p * t <= 2 * (k * s) + s
    PROVE  /\ 2 * ((A + k) * s) <= p * (B + t) + (m + 1) * s
           /\ p * (B + t) <= 2 * ((A + k) * s) + (m + 1) * s
  <1>1. (A + k) * s = A * s + k * s /\ p * (B + t) = p * B + p * t /\ (m + 1) * s = m * s + s
    OBVIOUS
  <1>2. A * s \in Nat /\ k * s \in Nat /\ p * B \in Nat /\ p * t \in Nat /\ m * s \in Nat
    OBVIOUS
  <1> QED  BY <1>1, <1>2

\* The same, over all the steps but step i: A of their B slots are among the first n, and
\* each step is off by half a slot at most.
LEMMA CopiesElsewhere ==
    ASSUME NEW doc, Weighted(doc), NEW n \in 1 .. Cycles(doc), NEW i \in DOMAIN doc.steps,
           NEW s, s = Shares(doc)[At(doc, n).step],
           NEW p, p = 2 * At(doc, n).copy + 1
    PROVE  LET A == Cardinality({a \in Early(doc, n) : a.step # i})
               B == Cardinality({a \in Slots(doc) : a.step # i})
           IN  /\ A \in Nat /\ B \in Nat
               /\ 2 * (A * s) <= p * B + (Len(doc.steps) - 1) * s
               /\ p * B <= 2 * (A * s) + (Len(doc.steps) - 1) * s
  <1> DEFINE K == Len(doc.steps)
             G(J) == {a \in Slots(doc) : a.step # i /\ a.step <= J}
             H(J) == {a \in Early(doc, n) : a.step # i /\ a.step <= J}
             A(J) == Cardinality(H(J))
             B(J) == Cardinality(G(J))
             m(J) == IF i <= J THEN J - 1 ELSE J
             Close(J) == /\ IsFiniteSet(G(J)) /\ IsFiniteSet(H(J)) /\ A(J) \in Nat /\ B(J) \in Nat
                         /\ 2 * (A(J) * s) <= p * B(J) + m(J) * s
                         /\ p * B(J) <= 2 * (A(J) * s) + m(J) * s
             T == {J \in 0 .. K : Close(J)}
  <1>1. K \in Nat \ {0} /\ DOMAIN doc.steps = 1 .. K /\ i \in 1 .. K
    BY DEF Weighted
  <1>2. At(doc, n) \in Slots(doc)
    BY EveryPlaceIsTaken
  <1>3. s \in Nat \ {0} /\ p \in Nat
    BY <1>2, SharesAreProportional, WhatSlotsAre
  <1>4. \A a \in Slots(doc) : a.step \in 1 .. K
    BY <1>1, WhatSlotsAre
  <1>5. Early(doc, n) \subseteq Slots(doc)
    BY DEF Early
  <1>6. 0 \in T
    <2>1. G(0) = {} /\ H(0) = {}
      BY <1>1, <1>4, <1>5
    <2> HIDE DEF G, H
    <2>2. IsFiniteSet(G(0)) /\ IsFiniteSet(H(0)) /\ A(0) = 0 /\ B(0) = 0
      BY <2>1, FS_EmptySet
    <2>3. m(0) = 0
      BY <1>1
    <2> HIDE DEF A, B, m
    <2> QED  BY <1>1, <1>3, <2>2, <2>3
  <1>7. ASSUME NEW J \in 0 .. K, J \in T, J < K
        PROVE  J + 1 \in T
    <2>1. J + 1 \in 1 .. K /\ J \in Nat
      BY <1>1, <1>7
    <2>2. Close(J)
      BY <1>7
    <2>3. CASE J + 1 = i
      <3>1. G(J + 1) = G(J) /\ H(J + 1) = H(J) /\ m(J + 1) = m(J)
        BY <1>1, <1>4, <1>5, <2>1, <2>3
      <3> HIDE DEF G, H, m
      <3> QED  BY <2>1, <2>2, <3>1
    <2>4. CASE J + 1 # i
      <3> DEFINE t == Shares(doc)[J + 1]
                 C == FirstCopies(doc, J + 1, t)
                 E == {a \in Early(doc, n) : a.step = J + 1}
      <3>1. t \in Nat \ {0} /\ J + 1 \in DOMAIN doc.steps
        BY <1>1, <2>1, SharesAreProportional
      <3>2. PICK k \in Nat : /\ k <= t /\ E = FirstCopies(doc, J + 1, k)
                             /\ 2 * (k * s) <= p * t + s /\ p * t <= 2 * (k * s) + s
        BY <3>1, CopiesInStep
      <3>3. /\ IsFiniteSet(C) /\ Cardinality(C) = t
            /\ IsFiniteSet(E) /\ Cardinality(E) = k
        <4>1. IsFiniteSet(C) /\ Cardinality(C) = t
          BY <3>1, CountCopies
        <4>2. IsFiniteSet(FirstCopies(doc, J + 1, k)) /\ Cardinality(FirstCopies(doc, J + 1, k)) = k
          BY <3>1, <3>2, CountCopies
        <4> HIDE DEF E
        <4> QED  BY <3>2, <4>1, <4>2
      <3>4. G(J + 1) = G(J) \cup C /\ G(J) \cap C = {}
        BY <1>1, <1>4, <2>1, <2>4, WhatSlotsAre DEF FirstCopies
      <3>5. H(J + 1) = H(J) \cup E /\ H(J) \cap E = {}
        BY <1>1, <1>4, <1>5, <2>1, <2>4
      <3>6. m(J + 1) = m(J) + 1 /\ m(J) \in Nat
        BY <1>1, <2>1, <2>4
      <3> HIDE DEF G, H, C, E, m
      <3>20. IsFiniteSet(G(J)) /\ IsFiniteSet(H(J)) /\ A(J) \in Nat /\ B(J) \in Nat
        BY <2>2
      <3>7. IsFiniteSet(G(J + 1)) /\ B(J + 1) = B(J) + t
        <4>1. IsFiniteSet(G(J + 1)) /\ Cardinality(G(J + 1)) = Cardinality(G(J)) + Cardinality(C)
          <5>1. G(J + 1) = G(J) \cup C
            BY <3>4, Zenon
          <5>2. G(J) \cap C = {}
            BY <3>4, Zenon
          <5>3. IsFiniteSet(G(J))
            BY <3>20, Zenon
          <5>4. IsFiniteSet(C)
            BY <3>3, Zenon
          <5> QED  BY <5>1, <5>2, <5>3, <5>4, DisjointUnion, Zenon
        <4> QED  BY <3>3, <4>1, Zenon
      <3>8. IsFiniteSet(H(J + 1)) /\ A(J + 1) = A(J) + k
        <4>1. IsFiniteSet(H(J + 1)) /\ Cardinality(H(J + 1)) = Cardinality(H(J)) + Cardinality(E)
          <5>1. H(J + 1) = H(J) \cup E
            BY <3>5, Zenon
          <5>2. H(J) \cap E = {}
            BY <3>5, Zenon
          <5>3. IsFiniteSet(H(J))
            BY <3>20, Zenon
          <5>4. IsFiniteSet(E)
            BY <3>3, Zenon
          <5> QED  BY <5>1, <5>2, <5>3, <5>4, DisjointUnion, Zenon
        <4> QED  BY <3>3, <4>1, Zenon
      <3>9. 2 * (A(J) * s) <= p * B(J) + m(J) * s /\ p * B(J) <= 2 * (A(J) * s) + m(J) * s
        BY <2>2
      <3> HIDE DEF A, B, t
      <3>10. /\ 2 * ((A(J) + k) * s) <= p * (B(J) + t) + (m(J) + 1) * s
             /\ p * (B(J) + t) <= 2 * ((A(J) + k) * s) + (m(J) + 1) * s
        BY <1>3, <3>1, <3>2, <3>6, <3>9, <3>20, OneStepMore
      <3>11. A(J + 1) \in Nat /\ B(J + 1) \in Nat
        BY <3>1, <3>2, <3>7, <3>8, <3>20
      <3>12. Close(J + 1)
        BY <3>6, <3>7, <3>8, <3>10, <3>11
      <3> QED  BY <2>1, <3>12
    <2> QED  BY <2>3, <2>4
  <1>8. 0 .. K \subseteq T
    <2> HIDE DEF T
    <2> QED  BY <1>1, <1>6, <1>7, CountingUp
  <1>9. Close(K)
    <2> HIDE DEF Close
    <2> QED  BY <1>1, <1>8
  <1>11. m(K) = K - 1
    BY <1>1
  <1>10. G(K) = {a \in Slots(doc) : a.step # i} /\ H(K) = {a \in Early(doc, n) : a.step # i}
    BY <1>1, <1>4, <1>5
  <1> HIDE DEF G, H, m
  <1> QED  BY <1>9, <1>10, <1>11

\* Half a slot of its own and half a slot of every other step put a step of share t, of
\* whose slots k are among the first A + k of B + t, no further from its share than this.
LEMMA DriftBound ==
    ASSUME NEW A \in Nat, NEW B \in Nat, NEW k \in Nat, NEW t \in Nat, NEW s \in Nat \ {0},
           NEW p \in Nat, NEW m \in Nat,
           2 * (A * s) <= p * B + m * s, p * B <= 2 * (A * s) + m * s,
           2 * (k * s) <= p * t + s, p * t <= 2 * (k * s) + s
    PROVE  LET D == k * (B + t) - (A + k) * t IN
           /\ 2 * D <= (B + t) + t * (m - 1)
           /\ -((B + t) + t * (m - 1)) <= 2 * D
  <1> DEFINE D == k * (B + t) - (A + k) * t
  <1>1. D = k * B - A * t /\ D \in Int
    OBVIOUS
  <1>2. (B + t) + t * (m - 1) = B + m * t /\ B + m * t \in Nat
    OBVIOUS
  <1>3. ASSUME NEW x \in Int, NEW y \in Int, NEW z \in Nat, x <= y PROVE x * z <= y * z
    BY <1>3
  <1>4. (2 * (k * s)) * B <= (p * t + s) * B /\ (p * t) * B <= (2 * (k * s) + s) * B
    BY <1>3
  <1>5. (2 * (A * s)) * t <= (p * B + m * s) * t /\ (p * B) * t <= (2 * (A * s) + m * s) * t
    BY <1>3
  <1>6. /\ (2 * (k * s)) * B = 2 * ((k * B) * s) /\ (p * t + s) * B = (p * t) * B + B * s
        /\ (2 * (k * s) + s) * B = 2 * ((k * B) * s) + B * s
        /\ (2 * (A * s)) * t = 2 * ((A * t) * s) /\ (p * B + m * s) * t = (p * t) * B + (m * t) * s
        /\ (2 * (A * s) + m * s) * t = 2 * ((A * t) * s) + (m * t) * s /\ (p * B) * t = (p * t) * B
    OBVIOUS
  <1>7. /\ (2 * (k * B - A * t)) * s = 2 * ((k * B) * s) - 2 * ((A * t) * s)
        /\ (B + m * t) * s = B * s + (m * t) * s
        /\ (-(B + m * t)) * s = -(B * s + (m * t) * s)
    OBVIOUS
  <1>8. /\ (k * B) * s \in Nat /\ (A * t) * s \in Nat /\ B * s \in Nat /\ (m * t) * s \in Nat
        /\ (p * t) * B \in Nat
    OBVIOUS
  <1>9. /\ 2 * ((k * B) * s) - 2 * ((A * t) * s) <= B * s + (m * t) * s
        /\ -(B * s + (m * t) * s) <= 2 * ((k * B) * s) - 2 * ((A * t) * s)
    BY <1>4, <1>5, <1>6, <1>8
  <1>10. (2 * D) * s <= (B + m * t) * s /\ (-(B + m * t)) * s <= (2 * D) * s
    BY <1>1, <1>7, <1>9
  <1> HIDE DEF D
  <1>11. 2 * D <= B + m * t /\ -(B + m * t) <= 2 * D
    BY <1>1, <1>2, <1>10, Factor
  <1> QED  BY <1>2, <1>11 DEF D

\* After n iterations a step has run its share of them, to the bound of MixKeepsShare, and
\* after a whole cycle exactly (MixOrder, mix.go:32).
LEMMA ShareKept ==
    ASSUME NEW doc, Weighted(doc), NEW n \in 0 .. Cycles(doc), NEW i \in DOMAIN doc.steps
    PROVE  LET slack == Cycles(doc) + Shares(doc)[i] * (Len(doc.steps) - 2)
               drift == Drift(MixOrder(doc), Shares(doc), n, i)
           IN  /\ -slack <= 2 * drift /\ 2 * drift <= slack
               /\ n = Cycles(doc) => drift = 0
  <1> DEFINE N == Cycles(doc)
             K == Len(doc.steps)
             t == Shares(doc)[i]
             own == {a \in Early(doc, n) : a.step = i}
             others == {a \in Early(doc, n) : a.step # i}
             all == {a \in Slots(doc) : a.step = i}
             rest == {a \in Slots(doc) : a.step # i}
             slack == N + t * (K - 2)
             drift == Drift(MixOrder(doc), Shares(doc), n, i)
  <1>1. N \in Nat \ {0} /\ Len(MixOrder(doc)) = N /\ n \in Nat /\ n <= N
    BY OrderNamesSteps
  <1>2. K \in Nat \ {0} /\ t \in Nat \ {0}
    BY SharesAreProportional DEF Weighted
  <1>3. Cardinality(Iterations(doc, n, i)) = Cardinality(own)
    <2>1. own = EarlyOf(doc, n, i)
      BY DEF EarlyOf
    <2> HIDE DEF own
    <2> QED  BY <2>1, CountIterations
  <1>4. IsFiniteSet(Early(doc, n)) /\ Cardinality(Early(doc, n)) = n
    BY CountIterations, Zenon
  <1>5. drift = Cardinality(own) * N - n * t
    BY <1>1, <1>3 DEF Drift, Iterations
  <1>6. IsFiniteSet(own) /\ IsFiniteSet(others) /\ n = Cardinality(own) + Cardinality(others)
    <2>1. Early(doc, n) = own \cup others /\ own \cap others = {}
      OBVIOUS
    <2>2. own \subseteq Early(doc, n) /\ others \subseteq Early(doc, n)
      OBVIOUS
    <2> HIDE DEF own, others
    <2>3. IsFiniteSet(own) /\ IsFiniteSet(others)
      BY <1>4, <2>2, FS_Subset
    <2> QED  BY <1>4, <2>1, <2>3, DisjointUnion
  <1>7. IsFiniteSet(rest) /\ Cardinality(all) = t /\ N = t + Cardinality(rest)
    <2>1. all = FirstCopies(doc, i, t)
      BY WhatSlotsAre DEF FirstCopies
    <2>2. Slots(doc) = all \cup rest /\ all \cap rest = {} /\ rest \subseteq Slots(doc)
      OBVIOUS
    <2> HIDE DEF all, rest
    <2>3. IsFiniteSet(all) /\ Cardinality(all) = t
      BY <1>2, <2>1, CountCopies
    <2>4. IsFiniteSet(rest)
      BY <2>2, SlotsFinite, FS_Subset
    <2> QED  BY <2>2, <2>3, <2>4, DisjointUnion DEF Cycles
  <1>8. Cardinality(own) \in Nat /\ Cardinality(others) \in Nat /\ Cardinality(rest) \in Nat
    <2> HIDE DEF own, others, rest
    <2> QED  BY <1>6, <1>7, FS_CardinalityType
  <1>9. CASE n = 0
    <2> HIDE DEF own, others, rest, t, drift
    <2>1. drift = 0
      <3>1. Cardinality(own) = 0
        BY <1>6, <1>8, <1>9
      <3>2. 0 * N - 0 * t = 0
        BY <1>1, <1>2
      <3> QED  BY <1>5, <1>9, <3>1, <3>2
    <2>2. t * (K - 2) >= -t
      BY <1>2
    <2>3. slack >= 0 /\ slack \in Int
      BY <1>1, <1>2, <1>7, <1>8, <2>2, SMTT(30)
    <2>4. n # N
      BY <1>1, <1>9
    <2> HIDE DEF slack
    <2> QED  BY <2>1, <2>3, <2>4 DEF drift, slack, t
  <1>10. CASE n # 0
    <2> DEFINE s == Shares(doc)[At(doc, n).step]
               p == 2 * At(doc, n).copy + 1
               A == Cardinality(others)
               B == Cardinality(rest)
    <2>1. n \in 1 .. Cycles(doc)
      BY <1>1, <1>10
    <2>2. s \in Nat \ {0} /\ p \in Nat
      <3>1. At(doc, n) \in Slots(doc)
        BY <2>1, EveryPlaceIsTaken
      <3> QED  BY <3>1, SharesAreProportional, WhatSlotsAre
    <2>3. 2 * (A * s) <= p * B + (K - 1) * s /\ p * B <= 2 * (A * s) + (K - 1) * s
      BY <2>1, CopiesElsewhere
    <2>4. PICK k \in Nat : /\ k <= t /\ own = FirstCopies(doc, i, k)
                           /\ 2 * (k * s) <= p * t + s /\ p * t <= 2 * (k * s) + s
      BY <2>1, CopiesInStep
    <2>5. Cardinality(own) = k
      <3>1. Cardinality(FirstCopies(doc, i, k)) = k
        BY <1>2, <2>4, CountCopies DEF t
      <3> HIDE DEF own
      <3> QED  BY <2>4, <3>1, Zenon
    <2>6. drift = k * (B + t) - (A + k) * t
      <3> HIDE DEF own, others, rest, t, drift
      <3> QED  BY <1>2, <1>5, <1>6, <1>7, <1>8, <2>5
    <2>7. A \in Nat /\ B \in Nat /\ K - 1 \in Nat
      BY <1>2, <1>8
    <2> HIDE DEF A, B, s, p, t
    <2>8. LET D == k * (B + t) - (A + k) * t IN
          2 * D <= (B + t) + t * ((K - 1) - 1) /\ -((B + t) + t * ((K - 1) - 1)) <= 2 * D
      BY <1>2, <2>2, <2>3, <2>4, <2>7, DriftBound
    <2>9. slack = (B + t) + t * ((K - 1) - 1)
      BY <1>1, <1>2, <1>7, <2>7 DEF B
    <2>10. n = N => drift = 0
      <3>1. n = N => Early(doc, n) = Slots(doc)
        BY <1>1, RankGrows DEF Early
      <3>2. n = N => own = all
        BY <3>1
      <3>3. n = N => k = t
        BY <1>7, <2>5, <3>2
      <3> HIDE DEF own, all, drift
      <3> QED  BY <1>1, <1>2, <1>5, <2>5, <3>3
    <2> HIDE DEF slack, drift
    <2>11. -slack <= 2 * drift /\ 2 * drift <= slack
      BY <2>6, <2>8, <2>9
    <2> QED  BY <2>10, <2>11 DEF slack, drift, t
  <1> QED  BY <1>9, <1>10

(***************************************************************************)
(* What is known at every stage of a command that runs a scenario.         *)
(***************************************************************************)
Runners == {"execute", "serve run"}
Readers == Runners \cup {"debug"}

\* What Prepare lets through.
Accepted(doc) ==
    /\ Decoded(doc)
    /\ Check(doc) /\ RequireEnvironment(doc, inv.session) /\ CheckDataFields(doc, inv.defined)

\* The file a run reads is the one named, or what an editor saved over it.
SourceInv ==
    inv.command \in Readers =>
        /\ 1 \in DOMAIN files
        /\ files[1] \in {[state |-> "whole", doc |-> inv.docs[1]], [state |-> "whole", doc |-> inv.edited]}

\* The stages of each command.
StagesInv ==
    /\ stage \in {"start", "loaded", "ready", "write", "end", "up", "recording", "collected",
                  "migrate", "backup", "destination"}
    /\ stage = "loaded" => inv.command \in {"execute", "debug"}
    /\ stage = "ready" => inv.command \in Readers
    /\ stage = "up" => inv.command \in {"serve", "ui", "target", "demo"}
    /\ stage \in {"recording", "collected"} => inv.command = "record"
    /\ stage \in {"migrate", "backup", "destination"} => inv.command = "migrate"
    /\ stage # "start" /\ stage # "end" => inv.args = "ok"

\* Nothing ran before the stage that runs it, and what ran was accepted.
AcceptedInv ==
    /\ stage = "ready" => Accepted(spec)
    /\ Ran => /\ stage \in {"write", "end"} /\ inv.command \in Runners
              /\ Accepted(spec)
              /\ \E o \in Outcomes : document = <<Document(spec, o)>>

RunInv == inv \in Invocations /\ SourceInv /\ StagesInv /\ AcceptedInv

\* A process starts with nothing read and nothing run.
LEMMA RunInit == Init => RunInv
  <1> SUFFICES ASSUME Init PROVE RunInv
    OBVIOUS
  <1>1. inv \in Invocations /\ stage = "start" /\ document = <<>>
    BY DEF Init
  <1>2. 1 \in DOMAIN inv.docs
    BY <1>1, RunAssumption
  <1>3. files[1] = [state |-> "whole", doc |-> inv.docs[1]] /\ 1 \in DOMAIN files
    BY <1>2 DEF Init
  <1>4. SourceInv
    BY <1>3 DEF SourceInv
  <1>5. StagesInv /\ AcceptedInv
    BY <1>1 DEF StagesInv, AcceptedInv, Ran
  <1> QED  BY <1>1, <1>4, <1>5 DEF RunInv

\* A step that runs nothing keeps what is known of the run.
LEMMA RunFrame ==
    ASSUME RunInv, inv' = inv, document' = document, files' = files \/ inv.command = "migrate",
           spec' = spec \/ ~Ran, stage' # "ready", StagesInv', Ran => stage' \in {"write", "end"}
    PROVE  RunInv'
  <1>1. SourceInv'
    BY DEF RunInv, SourceInv, Readers, Runners
  <1>2. Ran' <=> Ran
    BY DEF Ran
  <1>3. ASSUME Ran PROVE Accepted(spec)' /\ \E o \in Outcomes : document' = <<Document(spec', o)>>
    <2>1. spec' = spec
      BY <1>3
    <2> QED  BY <1>3, <2>1 DEF RunInv, AcceptedInv, Accepted, Check, RequireEnvironment
  <1>4. AcceptedInv'
    BY <1>2, <1>3 DEF RunInv, AcceptedInv
  <1> QED  BY <1>1, <1>4 DEF RunInv

\* The steps of the commands that run no scenario, and of the end of those that do.
LEMMA OtherSteps ==
    ASSUME RunInv,
           \/ RefuseArguments \/ Load \/ ValidateCommand
           \/ \E how \in Hows : WriteNext(how)
           \/ WriteDone
           \/ \E observed \in 0 .. Len(StepsOf(spec)), class \in {"success", "network"}, printed \in BOOLEAN :
                 Debug(observed, class, printed)
           \/ Report
           \/ \E printed \in BOOLEAN : CompareRuns(printed)
           \/ \E how \in Hows : NewOne(how)
           \/ \E converts \in BOOLEAN, how \in Hows : ImportCommand(converts, how)
           \/ \E listens \in BOOLEAN : StayUp(listens)
           \/ \E fault \in BOOLEAN : GoDown(fault)
           \/ \E listens \in BOOLEAN : RecordListen(listens)
           \/ Proxying \/ AcceptFails \/ Collect
           \/ \E how \in Hows : BuildScenario(how)
           \/ MigrateStart
           \/ \E text \in Texts : MigrateOne(text)
           \/ \E how \in Hows : WriteBackup(how)
           \/ \E how \in Hows : WriteDestination(how)
           \/ MigrateDone
           \/ \E begun \in BOOLEAN : Crash(begun)
           \/ Again
    PROVE  /\ inv' = inv /\ document' = document /\ (files' = files \/ inv.command = "migrate")
           /\ spec' = spec \/ ~Ran
           /\ stage' # "ready" /\ StagesInv' /\ (Ran => stage' \in {"write", "end"})
  <1> USE DEF Exit, Go, Started, Readers, Runners
  <1>1. StagesInv /\ (Ran => stage \in {"write", "end"} /\ inv.command \in Runners)
    BY DEF RunInv, AcceptedInv
  <1> USE <1>1 DEF StagesInv
  <1>2. CASE RefuseArguments
    BY <1>2 DEF RefuseArguments
  <1>3. CASE Load \/ ValidateCommand
    BY <1>3 DEF Load, ValidateCommand
  <1>4. CASE \E how \in Hows : WriteNext(how)
    BY <1>4 DEF WriteNext
  <1>5. CASE WriteDone
    BY <1>5 DEF WriteDone
  <1>6. CASE \E observed \in 0 .. Len(StepsOf(spec)), class \in {"success", "network"}, printed \in BOOLEAN :
               Debug(observed, class, printed)
    BY <1>6 DEF Debug
  <1>7. CASE Report \/ \E printed \in BOOLEAN : CompareRuns(printed)
    BY <1>7 DEF Report, CompareRuns
  <1>8. CASE \E how \in Hows : NewOne(how)
    BY <1>8 DEF NewOne
  <1>9. CASE \E converts \in BOOLEAN, how \in Hows : ImportCommand(converts, how)
    BY <1>9 DEF ImportCommand
  <1>10. CASE (\E listens \in BOOLEAN : StayUp(listens)) \/ \E fault \in BOOLEAN : GoDown(fault)
    BY <1>10 DEF StayUp, GoDown
  <1>11. CASE \E listens \in BOOLEAN : RecordListen(listens)
    BY <1>11 DEF RecordListen
  <1>12. CASE Proxying
    BY <1>12 DEF Proxying, commandVars
  <1>13. CASE AcceptFails \/ Collect
    BY <1>13 DEF AcceptFails, Collect
  <1>14. CASE \E how \in Hows : BuildScenario(how)
    BY <1>14 DEF BuildScenario
  <1>15. CASE MigrateStart \/ MigrateDone
    BY <1>15 DEF MigrateStart, MigrateDone
  <1>16. CASE \E text \in Texts : MigrateOne(text)
    BY <1>16 DEF MigrateOne
  <1>17. CASE \E how \in Hows : WriteBackup(how)
    BY <1>17 DEF WriteBackup
  <1>18. CASE \E how \in Hows : WriteDestination(how)
    BY <1>18 DEF WriteDestination
  <1>19. CASE \E begun \in BOOLEAN : Crash(begun)
    BY <1>19 DEF Crash
  <1>20. CASE Again
    BY <1>20 DEF Again
  <1> QED  BY <1>2, <1>3, <1>4, <1>5, <1>6, <1>7, <1>8, <1>9, <1>10, <1>11, <1>12, <1>13, <1>14,
              <1>15, <1>16, <1>17, <1>18, <1>19, <1>20

\* An editor that saves the scenario changes what will be read, not what was.
LEMMA EditStep == RunInv /\ Edit => RunInv'
  <1> SUFFICES ASSUME RunInv, Edit PROVE RunInv'
    OBVIOUS
  <1>1. /\ UNCHANGED <<inv, stage, spec, document>> /\ stage = "loaded" /\ inv.command \in Readers
        /\ files' = [files EXCEPT ![1].doc = inv.edited] /\ inv.args = "ok"
    BY DEF Edit, RunInv, StagesInv, Readers, Runners
  <1>2. files'[1] = [state |-> "whole", doc |-> inv.edited] /\ 1 \in DOMAIN files'
    BY <1>1 DEF RunInv, SourceInv
  <1>3. SourceInv'
    BY <1>1, <1>2 DEF SourceInv
  <1>4. StagesInv'
    BY <1>1 DEF RunInv, StagesInv
  <1>5. AcceptedInv'
    BY <1>1 DEF RunInv, AcceptedInv, Ran
  <1> QED  BY <1>1, <1>3, <1>4, <1>5 DEF RunInv

\* What Prepare lets through is what it read, whoever wrote it.
LEMMA PrepareStep ==
    ASSUME RunInv, NEW opens \in BOOLEAN, Prepare(opens)
    PROVE  RunInv'
  <1>1. /\ UNCHANGED <<inv, files, document>> /\ inv.command \in Readers /\ inv.args = "ok"
        /\ stage \in {"start", "loaded"} /\ spec' = files[1].doc /\ stage' \in {"ready", "end"}
    BY DEF Prepare, Go, Exit, Started, RunInv, StagesInv, Readers, Runners
  <1>2. ~Ran /\ ~Ran'
    BY <1>1 DEF RunInv, AcceptedInv, Ran
  <1>3. spec' \in {inv.docs[1], inv.edited}
    BY <1>1 DEF RunInv, SourceInv
  <1>4. Decoded(spec')
    BY <1>3, RunAssumption DEF RunInv
  <1>5. stage' = "ready" => /\ Check(spec') /\ RequireEnvironment(spec', inv.session)
                            /\ CheckDataFields(spec', inv.defined)
    BY DEF Prepare, Go, Exit
  <1>6. stage' = "ready" => Accepted(spec)'
    BY <1>1, <1>4, <1>5 DEF Accepted, Check, RequireEnvironment
  <1>7. AcceptedInv'
    BY <1>1, <1>2, <1>6 DEF AcceptedInv
  <1>8. SourceInv' /\ StagesInv'
    BY <1>1 DEF RunInv, SourceInv, StagesInv
  <1> QED  BY <1>1, <1>7, <1>8 DEF RunInv

\* A load runs the scenario Prepare accepted, and its document is of that scenario.
LEMMA ExecuteStep ==
    ASSUME RunInv, NEW o \in Outcomes, ExecuteSpec(o)
    PROVE  RunInv'
  <1>1. /\ UNCHANGED <<inv, files, spec>> /\ inv.command \in Runners /\ stage = "ready"
        /\ document' = <<Document(spec, o)>> /\ stage' \in {"write", "end"} /\ inv.args = "ok"
    BY DEF ExecuteSpec, Go, Exit, RunInv, StagesInv, Runners
  <1>2. Accepted(spec)'
    BY <1>1 DEF RunInv, AcceptedInv, Accepted, Check, RequireEnvironment
  <1>3. \E q \in Outcomes : document' = <<Document(spec', q)>>
    BY <1>1
  <1>4. AcceptedInv'
    BY <1>1, <1>2, <1>3 DEF AcceptedInv
  <1>5. SourceInv' /\ StagesInv'
    BY <1>1 DEF RunInv, SourceInv, StagesInv, Readers, Runners
  <1> QED  BY <1>1, <1>4, <1>5 DEF RunInv

\* Every step of a process keeps the invariant.
LEMMA RunStep == RunInv /\ [Next]_vars => RunInv'
  <1> SUFFICES ASSUME RunInv, [Next]_vars PROVE RunInv'
    OBVIOUS
  <1>1. CASE UNCHANGED vars
    <2>1. UNCHANGED <<inv, stage, files, spec, document>>
      BY <1>1 DEF vars, commandVars
    <2>2. StagesInv' /\ SourceInv'
      BY <2>1 DEF RunInv, StagesInv, SourceInv
    <2>3. AcceptedInv'
      BY <2>1 DEF RunInv, AcceptedInv, Accepted, Ran, Check, RequireEnvironment
    <2> QED  BY <2>1, <2>2, <2>3 DEF RunInv
  <1>2. CASE Edit
    BY <1>2, EditStep
  <1>3. CASE \E opens \in BOOLEAN : Prepare(opens)
    BY <1>3, PrepareStep
  <1>4. CASE \E o \in Outcomes : ExecuteSpec(o)
    BY <1>4, ExecuteStep
  <1>5. CASE Next /\ ~Edit /\ ~(\E opens \in BOOLEAN : Prepare(opens)) /\ ~(\E o \in Outcomes : ExecuteSpec(o))
    <2>1. /\ inv' = inv /\ document' = document /\ (files' = files \/ inv.command = "migrate")
          /\ spec' = spec \/ ~Ran
          /\ stage' # "ready" /\ StagesInv' /\ (Ran => stage' \in {"write", "end"})
      BY <1>5, OtherSteps, Zenon DEF Next
    <2> QED  BY <2>1, RunFrame
  <1> QED  BY <1>1, <1>2, <1>3, <1>4, <1>5

\* Whoever edits the file in between, what is run is a document the checks of Prepare
\* accepted as it was read (runner.go:124).
THEOREM OnlyAcceptedRuns == Spec => []RunInv
  <1>1. Init => RunInv
    BY RunInit
  <1>2. RunInv /\ [Next]_vars => RunInv'
    BY RunStep
  <1> QED  BY <1>1, <1>2, PTL DEF Spec

\* MixKeepsShare of every document that is accepted.
THEOREM MixesKeepTheirShares == Spec => []MixKeepsShare
  <1>1. RunInv => MixKeepsShare
    <2> SUFFICES ASSUME RunInv, Ran, HasMix(spec)
                 PROVE  LET order == MixOrder(spec)
                            share == Shares(spec)
                            total == Len(order)
                            steps == DOMAIN spec.steps
                        IN /\ \A i, j \in steps : share[i] * Weight(spec.steps[j]) = share[j] * Weight(spec.steps[i])
                           /\ \A n \in 0 .. total, i \in steps :
                                LET slack == total + share[i] * (Len(spec.steps) - 2)
                                    drift == Drift(order, share, n, i)
                                IN -slack <= 2 * drift /\ 2 * drift <= slack
                           /\ \A i \in steps : Drift(order, share, total, i) = 0
      BY DEF MixKeepsShare
    <2>1. Decoded(spec) /\ CheckMix(spec, inv.defined)
      BY DEF RunInv, AcceptedInv, Accepted, Check, Validate
    <2>2. Weighted(spec)
      BY <2>1, AcceptedMix
    <2>3. Len(MixOrder(spec)) = Cycles(spec) /\ Cycles(spec) \in Nat
      BY <2>2, OrderNamesSteps
    <2>4. \A i, j \in DOMAIN spec.steps :
            Shares(spec)[i] * Weight(spec.steps[j]) = Shares(spec)[j] * Weight(spec.steps[i])
      BY <2>2, SharesAreProportional
    <2>5. \A n \in 0 .. Cycles(spec), i \in DOMAIN spec.steps :
            LET slack == Cycles(spec) + Shares(spec)[i] * (Len(spec.steps) - 2)
                drift == Drift(MixOrder(spec), Shares(spec), n, i)
            IN  /\ -slack <= 2 * drift /\ 2 * drift <= slack
                /\ n = Cycles(spec) => drift = 0
      BY <2>2, ShareKept
    <2>6. Cycles(spec) \in 0 .. Cycles(spec)
      BY <2>3
    <2> QED  BY <2>3, <2>4, <2>5, <2>6
  <1> QED  BY <1>1, OnlyAcceptedRuns, PTL

(***************************************************************************)
(* What an accepted scenario sends.                                        *)
(***************************************************************************)
\* What the checks between them leave of a scenario that runs.
LEMMA WhatWasAccepted ==
    ASSUME NEW doc, Accepted(doc)
    PROVE  /\ Decoded(doc) /\ StepsOf(doc) = doc.steps
           /\ Len(doc.steps) \in Nat \ {0} /\ DOMAIN doc.steps = 1 .. Len(doc.steps)
           /\ \A i \in DOMAIN doc.steps : ReadStep(doc.steps[i])
           /\ CheckReferences(doc, inv.defined) /\ CheckDataFields(doc, inv.defined)
           /\ MissingEnvironment(doc, inv.defined) \subseteq inv.session
           /\ CheckMix(doc, inv.defined) /\ CheckBrokers(doc, inv.defined) /\ CheckSLOSteps(doc)
           /\ ReadSLO(RulesOf(doc))
           /\ Target(doc, inv.defined) \in {"http", "broker"}
           /\ ReadLoad(doc.load)
           /\ \A i \in DOMAIN Phases(doc.load) : PhaseTime(doc.load.profiles[i]) > 0
  <1>1. Decoded(doc) /\ Parse(doc, inv.defined) /\ Validate(doc, inv.defined)
    BY DEF Accepted, Check
  <1>2. /\ CheckDataFields(doc, inv.defined)
        /\ MissingEnvironment(doc, inv.defined) \subseteq inv.session
    BY DEF Accepted, RequireEnvironment
  <1>3. StepsOf(doc) # <<>> /\ CheckMix(doc, inv.defined) /\ CheckBrokers(doc, inv.defined) /\ CheckSLOSteps(doc)
    BY <1>1, Zenon DEF Validate
  <1>4. StepsOf(doc) = doc.steps
    BY <1>3 DEF StepsOf
  <1>5. Len(doc.steps) \in Nat /\ DOMAIN doc.steps = 1 .. Len(doc.steps) /\ (Len(doc.steps) = 0 => doc.steps = <<>>)
    <2>1. doc.steps \in Seq({doc.steps[k] : k \in DOMAIN doc.steps})
      BY <1>1, Zenon DEF Decoded
    <2>2. PICK S : doc.steps \in Seq(S)
      BY <2>1, Zenon
    <2> QED  BY <2>2
  <1>6. \A i \in DOMAIN doc.steps : ReadStep(doc.steps[i])
    BY <1>1, <1>4 DEF Parse
  <1>7. CheckReferences(doc, inv.defined) /\ ReadSLO(RulesOf(doc))
    BY <1>1, Zenon DEF Parse
  <1>8. Target(doc, inv.defined) \in {"http", "broker"}
    BY <1>1, Zenon DEF Validate, ValidTarget
  <1>9. "load" \in doc.keys /\ \A i \in DOMAIN Phases(doc.load) : PhaseTime(doc.load.profiles[i]) > 0
    BY <1>1, Zenon DEF Validate
  <1>10. ReadLoad(doc.load)
    BY <1>1, <1>9, Zenon DEF Parse
  <1> QED  BY <1>1, <1>2, <1>3, <1>4, <1>5, <1>6, <1>7, <1>8, <1>9, <1>10

\* A step that was read has a protocol.
LEMMA HasProtocol ==
    ASSUME NEW step, ReadStep(step)
    PROVE  Protocol(step) \in Protocols
  <1>1. Cardinality(step.keys \intersect Protocols) = 1
    BY DEF ReadStep
  <1>2. step.keys \intersect Protocols # {}
    BY <1>1, FS_EmptySet
  <1> QED  BY <1>2 DEF Protocol

\* The steps of an iteration are steps of the scenario: one alternative of a mix, or all
\* of them in the order of the file.
LEMMA StepsOfAnIteration ==
    ASSUME NEW doc, Accepted(doc), NEW n \in Nat, NEW k \in DOMAIN StepsOfIteration(doc, n)
    PROVE  LET order == StepsOfIteration(doc, n) IN
           /\ order[k] \in DOMAIN doc.steps
           /\ HasMix(doc) => k = 1 /\ Len(order) = 1
           /\ ~HasMix(doc) => /\ Len(order) = Len(doc.steps) /\ k \in DOMAIN doc.steps
                              /\ \A j \in DOMAIN doc.steps : order[j] = j
  <1>1. CASE HasMix(doc)
    <2>1. Weighted(doc)
      BY <1>1, WhatWasAccepted, AcceptedMix
    <2> DEFINE N == Len(MixOrder(doc))
    <2>2. N \in Nat \ {0} /\ \A m \in 1 .. N : MixOrder(doc)[m] \in DOMAIN doc.steps
      BY <2>1, OrderNamesSteps
    <2>3. StepsOfIteration(doc, n) = <<MixOrder(doc)[(n % N) + 1]>>
      BY <1>1 DEF StepsOfIteration
    <2>4. (n % N) + 1 \in 1 .. N
      <3> HIDE DEF N
      <3> QED  BY <2>2
    <2> QED  BY <1>1, <2>2, <2>3, <2>4
  <1>2. CASE ~HasMix(doc)
    <2>1. StepsOfIteration(doc, n) = [i \in 1 .. Len(doc.steps) |-> i] /\ Len(doc.steps) \in Nat
      BY <1>2, WhatWasAccepted DEF StepsOfIteration
    <2> QED  BY <1>2, <2>1, WhatWasAccepted
  <1> QED  BY <1>1, <1>2

\* Every step finds an address (brokers.go:17): its own, the broker's or the target.
LEMMA EveryStepHasAnAddress ==
    ASSUME NEW doc, Accepted(doc), NEW i \in DOMAIN doc.steps
    PROVE  LET step == doc.steps[i]
               protocol == IF Protocol(step) = "await" /\ BrokerTechnology(step) = "" THEN "polling"
                           ELSE Protocol(step)
           IN \/ Address([protocol |-> protocol, address |-> step.address],
                         [messaging |-> MessagingFor(doc, BrokerTechnology(step)),
                          target |-> Target(doc, inv.defined)]) # ""
              \/ Protocol(step) = "amqp" /\ step.address = "http"
  <1> DEFINE step == doc.steps[i]
             protocol == IF Protocol(step) = "await" /\ BrokerTechnology(step) = "" THEN "polling"
                         ELSE Protocol(step)
             c == [protocol |-> protocol, address |-> step.address]
             messaging == MessagingFor(doc, BrokerTechnology(step))
             target == Target(doc, inv.defined)
             s == [messaging |-> messaging, target |-> target]
  <1>1. Protocol(step) \in Protocols /\ target \in {"http", "broker"}
    BY WhatWasAccepted, HasProtocol
  <1>2. \/ BrokerTechnology(step) = "" \/ step.address # "" \/ messaging = "given"
        \/ target \notin {"", "http"}
    BY WhatWasAccepted DEF CheckBrokers
  <1>3. /\ c.protocol = protocol /\ c.address = step.address
        /\ s.messaging = messaging /\ s.target = target
    OBVIOUS
  <1>4. Protocol(step) \in {"kafka", "amqp"} => BrokerTechnology(step) # ""
    BY DEF BrokerTechnology
  <1> HIDE DEF c, s, step, messaging, target
  <1>5. CASE protocol \in {"kafka", "await"}
    <2>1. BrokerTechnology(step) # ""
      BY <1>4, <1>5
    <2>2. BrokerAddress(c, s) # ""
      BY <1>1, <1>2, <1>3, <2>1 DEF BrokerAddress
    <2>3. Address(c, s) = BrokerAddress(c, s)
      BY <1>3, <1>5 DEF Address
    <2> QED  BY <2>2, <2>3 DEF c, s, step, messaging, target
  <1>6. CASE protocol = "amqp"
    <2>1. BrokerTechnology(step) # "" /\ Protocol(step) = "amqp"
      BY <1>4, <1>6
    <2>2. AMQPAddress(c, s) # "" \/ step.address = "http"
      BY <1>1, <1>2, <1>3, <2>1 DEF AMQPAddress
    <2>3. Address(c, s) = AMQPAddress(c, s)
      BY <1>3, <1>6 DEF Address
    <2> QED  BY <2>1, <2>2, <2>3 DEF c, s, step, messaging, target
  <1>7. CASE protocol \notin {"kafka", "await", "amqp"}
    <2>1. StepOrTarget(c, s) # "" /\ BuildURL(c, s) # ""
      BY <1>1, <1>3 DEF StepOrTarget, BuildURL
    <2>2. Address(c, s) \in {StepOrTarget(c, s), BuildURL(c, s)}
      BY <1>3, <1>7 DEF Address
    <2> QED  BY <2>1, <2>2 DEF c, s, step, messaging, target
  <1> QED  BY <1>5, <1>6, <1>7

\* A plain reference of the k-th step of iteration n.
RefersAt(doc, r, n, k) == r.block = "step" /\ r.source = "" /\ r.step = StepsOfIteration(doc, n)[k]

\* A capture a step refers to is made by a step before it in the iteration, by itself or
\* by a later one: in a mix no alternative counts on another (mix.go:105).
LEMMA CapturedWhere ==
    ASSUME NEW doc, Accepted(doc), NEW n \in Nat, NEW k \in DOMAIN StepsOfIteration(doc, n),
           NEW r \in References(doc, inv.defined), RefersAt(doc, r, n, k),
           NEW i \in DOMAIN doc.steps, r.name \in Captured(doc.steps[i])
    PROVE  LET order == StepsOfIteration(doc, n) IN
           \/ \E j \in 1 .. k - 1 : r.name \in Captured(doc.steps[order[j]])
           \/ \E j \in k .. Len(order) : r.name \in Captured(doc.steps[order[j]])
  <1> DEFINE order == StepsOfIteration(doc, n)
  <1>1. /\ StepsOf(doc) = doc.steps /\ Len(doc.steps) \in Nat /\ DOMAIN doc.steps = 1 .. Len(doc.steps)
        /\ CheckMix(doc, inv.defined)
    BY WhatWasAccepted
  <1>2. CASE HasMix(doc)
    <2> DEFINE producers == {h \in DOMAIN StepsOf(doc) : r.name \in Captured(doc.steps[h])}
    <2>1. k = 1 /\ Len(order) = 1
      BY <1>2, StepsOfAnIteration
    <2>2. i \in producers
      BY <1>1
    <2>3. Max(producers) = r.step
      <3>1. ~ChainedCaptures(doc, inv.defined)
        BY <1>1, <1>2 DEF CheckMix
      <3>2. ~(producers # {} /\ Max(producers) # r.step)
        BY <3>1, Zenon DEF ChainedCaptures, RefersAt
      <3> HIDE DEF producers
      <3> QED  BY <2>2, <3>2
    <2>4. producers \subseteq Nat /\ \A x \in producers : x <= Len(doc.steps)
      <3>1. producers \subseteq 1 .. Len(doc.steps)
        BY <1>1, Zenon
      <3> HIDE DEF producers
      <3> QED  BY <1>1, <3>1
    <2>5. Max(producers) \in producers
      <3> HIDE DEF producers
      <3> QED  BY <1>1, <2>2, <2>4, MaxIsGreatest
    <2>6. r.step \in producers
      <3> HIDE DEF producers
      <3> QED  BY <2>3, <2>5
    <2>7. r.name \in Captured(doc.steps[order[1]])
      BY <2>1, <2>6 DEF RefersAt
    <2>8. 1 \in k .. Len(order)
      <3> HIDE DEF order
      <3> QED  BY <2>1
    <2> QED  BY <2>7, <2>8, Zenon
  <1>3. CASE ~HasMix(doc)
    <2>1. Len(order) = Len(doc.steps) /\ k \in DOMAIN doc.steps /\ order[i] = i
      BY <1>3, StepsOfAnIteration
    <2>2. i \in 1 .. k - 1 \/ i \in k .. Len(order)
      <3>1. i \in 1 .. Len(doc.steps) /\ k \in 1 .. Len(doc.steps)
        BY <1>1, <2>1, Zenon
      <3> HIDE DEF order
      <3> QED  BY <1>1, <2>1, <3>1
    <2>3. r.name \in Captured(doc.steps[order[i]])
      BY <2>1
    <2> QED  BY <2>2, <2>3, Zenon
  <1> QED  BY <1>2, <1>3

\* A plain reference of a step has a value when the step is sent, or is one of the blanks
\* the code accepts.
LEMMA PlainReferences ==
    ASSUME NEW doc, Accepted(doc), NEW n \in Nat, NEW k \in DOMAIN StepsOfIteration(doc, n),
           NEW r \in References(doc, inv.defined), RefersAt(doc, r, n, k),
           ResolvesToNothing(doc, inv.defined, KnownAt(doc, n, k), r)
    PROVE  Excused(doc, n, k, r)
  <1> DEFINE order == StepsOfIteration(doc, n)
             basic == \E a \in AuthOf(doc) : AuthKind(a) = "basic"
             known == KnownAt(doc, n, k)
  <1>1. /\ r.name \notin known
        /\ r.name \in BlankVars(doc, inv.defined) \/ (r.name \notin inv.defined /\ ~r.fallback)
    BY DEF ResolvesToNothing
  <1>2. RunVars(doc, inv.defined, inv.session) \subseteq known
    BY DEF KnownAt
  <1>3. CASE r.name \in BlankVars(doc, inv.defined)
    BY <1>3 DEF Excused
  <1>4. CASE r.name \notin BlankVars(doc, inv.defined)
    <2>1. r.name \notin inv.defined /\ ~r.fallback
      BY <1>1, <1>4
    <2>2. r.env \/ r.name \in KnownVariables(doc)
      <3>1. CheckReferences(doc, inv.defined)
        BY WhatWasAccepted
      <3> QED  BY <2>1, <3>1 DEF CheckReferences, InEnvironment, RefersAt
    <2>3. CASE r.env
      <3>1. r.name \in MissingEnvironment(doc, inv.defined)
        BY <2>1, <2>3 DEF MissingEnvironment
      <3>2. r.name \in inv.session
        BY <3>1, WhatWasAccepted
      <3>3. r.name \in BrokerCredentialNames(doc)
        BY <1>1, <1>2, <3>2 DEF RunVars
      <3> QED  BY <3>2, <3>3 DEF Excused
    <2>4. CASE r.name \in VarsOf(doc)
      BY <1>1, <1>2, <1>4, <2>4 DEF RunVars
    <2>5. ASSUME NEW i \in DOMAIN StepsOf(doc), r.name \in Captured(StepsOf(doc)[i])
          PROVE  Excused(doc, n, k, r)
      <3>1. i \in DOMAIN doc.steps /\ r.name \in Captured(doc.steps[i])
        BY <2>5, WhatWasAccepted
      <3>2. \/ \E j \in 1 .. k - 1 : r.name \in Captured(doc.steps[order[j]])
            \/ \E j \in k .. Len(order) : r.name \in Captured(doc.steps[order[j]])
        BY <3>1, CapturedWhere
      <3>3. ~\E j \in 1 .. k - 1 : r.name \in Captured(doc.steps[order[j]])
        BY <1>1 DEF KnownAt
      <3> QED  BY <3>2, <3>3 DEF Excused
    <2>6. ASSUME NEW login \in Logins(doc), r.name \in Captured(login)
          PROVE  Excused(doc, n, k, r)
      <3>1. basic
        <4> SUFFICES ASSUME ~basic PROVE FALSE
          OBVIOUS
        <4> DEFINE logins == IF basic THEN {} ELSE Logins(doc)
                   given == UNION {Captured(l) : l \in logins}
        <4>1. given \subseteq known
          BY DEF KnownAt
        <4>2. logins = Logins(doc)
          OBVIOUS
        <4> HIDE DEF logins
        <4>3. r.name \in given
          BY <2>6, <4>2
        <4> HIDE DEF given
        <4> QED  BY <1>1, <4>1, <4>3
      <3> QED  BY <2>6, <3>1 DEF Excused
    <2>7. \/ r.env \/ r.name \in VarsOf(doc)
          \/ \E i \in DOMAIN StepsOf(doc) : r.name \in Captured(StepsOf(doc)[i])
          \/ \E login \in Logins(doc) : r.name \in Captured(login)
      <3> DEFINE ofSteps == UNION {Captured(StepsOf(doc)[i]) : i \in DOMAIN StepsOf(doc)}
                 ofLogins == UNION {Captured(login) : login \in Logins(doc)}
      <3>1. KnownVariables(doc) = VarsOf(doc) \cup ofSteps \cup ofLogins
        BY DEF KnownVariables
      <3>2. r.name \in ofSteps => \E i \in DOMAIN StepsOf(doc) : r.name \in Captured(StepsOf(doc)[i])
        OBVIOUS
      <3>3. r.name \in ofLogins => \E login \in Logins(doc) : r.name \in Captured(login)
        OBVIOUS
      <3> HIDE DEF ofSteps, ofLogins
      <3> QED  BY <2>2, <3>1, <3>2, <3>3
    <2> QED  BY <2>3, <2>4, <2>5, <2>6, <2>7
  <1> QED  BY <1>3, <1>4

\* A reference to a data source names a field it generates or a column it has.
LEMMA DataReferences ==
    ASSUME NEW doc, Accepted(doc), NEW r \in References(doc, inv.defined), r.source # "", r.step # 0,
           ~r.fallback
    PROVE  r.name \in Fields(doc.data[r.source]) \cup doc.data[r.source].columns
  <1>1. ~r.env
    <2>1. \A q \in doc.refs : q.env => q.source = ""
      BY WhatWasAccepted, Zenon DEF Decoded
    <2>2. r \in doc.refs
      BY DEF References, ExpandEnvironment
    <2> QED  BY <2>1, <2>2
  <1>2. ResolveFromSource(doc, r)
    <2>1. CheckReferences(doc, inv.defined)
      BY WhatWasAccepted
    <2> QED  BY <1>1, <2>1 DEF CheckReferences, InEnvironment
  <1>3. CheckDataFields(doc, inv.defined)
    BY WhatWasAccepted
  <1> QED  BY <1>2, <1>3 DEF ResolveFromSource, CheckDataFields

\* NoSilentBlank of every document that is accepted: what Parse, Validate,
\* RequireEnvironment and CheckDataFields refuse between them is enough.
THEOREM NothingSentBlank == Spec => []NoSilentBlank
  <1>1. RunInv => NoSilentBlank
    <2> SUFFICES ASSUME RunInv, Ran,
                        NEW n \in 0 .. Cycle(spec) - 1, NEW k \in DOMAIN StepsOfIteration(spec, n)
                 PROVE  SentWhole(spec, n, k)
      BY DEF NoSilentBlank
    <2> DEFINE i == StepsOfIteration(spec, n)[k]
    <2>1. Accepted(spec) /\ n \in Nat
      BY DEF RunInv, AcceptedInv
    <2>2. i \in DOMAIN spec.steps /\ i # 0
      BY <2>1, StepsOfAnIteration, WhatWasAccepted
    <2>3. ASSUME NEW r \in References(spec, inv.defined), r.block = "step", r.step = i
          PROVE  IF r.source = ""
                 THEN Excused(spec, n, k, r)
                      \/ ~ResolvesToNothing(spec, inv.defined, KnownAt(spec, n, k), r)
                 ELSE r.fallback \/ r.name \in Fields(spec.data[r.source]) \cup spec.data[r.source].columns
      <3>1. CASE r.source = ""
        BY <2>1, <2>3, <3>1, PlainReferences DEF RefersAt
      <3>2. CASE r.source # ""
        BY <2>1, <2>2, <2>3, <3>2, DataReferences
      <3> QED  BY <3>1, <3>2
    <2>4. LET step == spec.steps[i]
              protocol == IF Protocol(step) = "await" /\ BrokerTechnology(step) = "" THEN "polling"
                          ELSE Protocol(step)
          IN \/ Address([protocol |-> protocol, address |-> step.address],
                        [messaging |-> MessagingFor(spec, BrokerTechnology(step)),
                         target |-> Target(spec, inv.defined)]) # ""
             \/ Protocol(step) = "amqp" /\ step.address = "http"
      BY <2>1, <2>2, EveryStepHasAnAddress
    <2> QED  BY <2>3, <2>4, Zenon DEF SentWhole
  <1> QED  BY <1>1, OnlyAcceptedRuns, PTL

(***************************************************************************)
(* Sums over the steps and the phases.  A fold takes the elements one at a *)
(* time, in the order ch chooses them.                                     *)
(***************************************************************************)
SumsUp(F, f, ch, S) ==
    F = [s \in SUBSET S |-> IF s = {} THEN 0 ELSE F[s \ {ch[s]}] + f[ch[s]]]

Chooses(ch, S) == \A s \in SUBSET S : s # {} => ch[s] \in s

\* Taking one element out of a set makes it one smaller.
LEMMA OneSmaller ==
    ASSUME NEW S, IsFiniteSet(S), NEW s \in SUBSET S, NEW x \in s
    PROVE  /\ s \ {x} \in SUBSET S
           /\ Cardinality(s) \in Nat \ {0} /\ Cardinality(s \ {x}) = Cardinality(s) - 1
  <1>1. IsFiniteSet(s)
    BY FS_Subset
  <1>2. Cardinality(s) \in Nat /\ Cardinality(s) # 0
    BY <1>1, FS_CardinalityType, FS_EmptySet
  <1>3. Cardinality(s \ {x}) = Cardinality(s) - 1
    BY <1>1, FS_RemoveElement
  <1> QED  BY <1>2, <1>3

\* There is a function that sums up: the fold is defined.
LEMMA SumExists ==
    ASSUME NEW S, IsFiniteSet(S), NEW f \in [S -> Nat], NEW ch, Chooses(ch, S)
    PROVE  \E F : SumsUp(F, f, ch, S)
  <1> DEFINE N == Cardinality(S)
             Small(n) == {s \in SUBSET S : Cardinality(s) <= n}
             Sums(h, n) == \A s \in Small(n) : h[s] = IF s = {} THEN 0 ELSE h[s \ {ch[s]}] + f[ch[s]]
             T == {n \in 0 .. N : \E h : Sums(h, n)}
  <1>1. N \in Nat
    BY FS_CardinalityType
  <1>2. \A s \in SUBSET S : Cardinality(s) \in Nat /\ Cardinality(s) <= N /\ (Cardinality(s) = 0 => s = {})
    <2> SUFFICES ASSUME NEW s \in SUBSET S
                 PROVE  Cardinality(s) \in Nat /\ Cardinality(s) <= N /\ (Cardinality(s) = 0 => s = {})
      OBVIOUS
    <2>1. IsFiniteSet(s) /\ Cardinality(s) <= N
      BY FS_Subset
    <2> QED  BY <2>1, FS_CardinalityType, FS_EmptySet
  <1>3. \A s \in SUBSET S : s # {} => /\ s \ {ch[s]} \in SUBSET S
                                      /\ Cardinality(s \ {ch[s]}) = Cardinality(s) - 1
    BY OneSmaller DEF Chooses
  <1>4. 0 \in T
    <2> DEFINE h == [s \in SUBSET S |-> 0]
    <2>1. \A s \in Small(0) : s = {}
      BY <1>2
    <2>2. Sums(h, 0)
      BY <2>1
    <2> HIDE DEF Sums
    <2> QED  BY <1>1, <2>2
  <1>5. ASSUME NEW n \in 0 .. N, n \in T, n < N
        PROVE  n + 1 \in T
    <2>1. n \in Nat /\ n + 1 \in 0 .. N
      BY <1>1, <1>5
    <2>2. PICK h : Sums(h, n)
      BY <1>5
    <2> DEFINE g == [s \in SUBSET S |-> IF s \in Small(n) THEN h[s] ELSE h[s \ {ch[s]}] + f[ch[s]]]
    <2>3. Sums(g, n + 1)
      <3> SUFFICES ASSUME NEW s \in Small(n + 1)
                   PROVE  g[s] = IF s = {} THEN 0 ELSE g[s \ {ch[s]}] + f[ch[s]]
        OBVIOUS
      <3>1. s \in SUBSET S /\ Cardinality(s) <= n + 1
        OBVIOUS
      <3>2. s # {} => s \ {ch[s]} \in Small(n)
        BY <1>2, <1>3, <2>1, <3>1
      <3>3. s # {} => g[s \ {ch[s]}] = h[s \ {ch[s]}]
        BY <3>2
      <3>4. CASE s \in Small(n)
        <4>1. g[s] = h[s]
          BY <3>1, <3>4
        <4>2. h[s] = IF s = {} THEN 0 ELSE h[s \ {ch[s]}] + f[ch[s]]
          BY <2>2, <3>4
        <4> HIDE DEF g, Small
        <4> QED  BY <3>3, <4>1, <4>2
      <3>5. CASE s \notin Small(n)
        <4>1. g[s] = h[s \ {ch[s]}] + f[ch[s]]
          BY <3>1, <3>5
        <4>2. s # {}
          <5>1. Cardinality({}) = 0 /\ {} \in SUBSET S
            BY FS_EmptySet
          <5>2. {} \in Small(n)
            BY <2>1, <5>1
          <5> HIDE DEF Small
          <5> QED  BY <3>5, <5>2
        <4> HIDE DEF g, Small
        <4> QED  BY <3>3, <4>1, <4>2
      <3> QED  BY <3>4, <3>5
    <2> HIDE DEF Sums
    <2> QED  BY <2>1, <2>3
  <1>6. 0 .. N \subseteq T
    <2> HIDE DEF T
    <2> QED  BY <1>1, <1>4, <1>5, CountingUp
  <1>7. PICK h : Sums(h, N)
    <2> HIDE DEF Sums
    <2> QED  BY <1>1, <1>6
  <1> DEFINE F == [s \in SUBSET S |-> h[s]]
  <1>8. \A s \in SUBSET S : s \in Small(N)
    BY <1>2
  <1>9. \A s \in SUBSET S : F[s] = IF s = {} THEN 0 ELSE F[s \ {ch[s]}] + f[ch[s]]
    <2> SUFFICES ASSUME NEW s \in SUBSET S
                 PROVE  F[s] = IF s = {} THEN 0 ELSE F[s \ {ch[s]}] + f[ch[s]]
      OBVIOUS
    <2>1. h[s] = IF s = {} THEN 0 ELSE h[s \ {ch[s]}] + f[ch[s]]
      BY <1>7, <1>8
    <2>2. F[s] = h[s] /\ (s # {} => F[s \ {ch[s]}] = h[s \ {ch[s]}])
      BY <1>3
    <2> HIDE DEF F
    <2> QED  BY <2>1, <2>2
  <1>10. F = [s \in SUBSET S |-> F[s]]
    OBVIOUS
  <1> HIDE DEF F
  <1>11. SumsUp(F, f, ch, S)
    BY <1>9, <1>10 DEF SumsUp
  <1> QED  BY <1>11

\* Sums of numbers are numbers, and of smaller numbers smaller.
LEMMA SumsCompare ==
    ASSUME NEW S, IsFiniteSet(S), NEW ch, Chooses(ch, S),
           NEW f \in [S -> Nat], NEW g \in [S -> Nat], \A x \in S : f[x] <= g[x],
           NEW F, SumsUp(F, f, ch, S), NEW G, SumsUp(G, g, ch, S)
    PROVE  F[S] \in Nat /\ G[S] \in Nat /\ F[S] <= G[S]
  <1> DEFINE N == Cardinality(S)
             Fine(s) == F[s] \in Nat /\ G[s] \in Nat /\ F[s] <= G[s]
             T == {n \in 0 .. N : \A s \in SUBSET S : Cardinality(s) = n => Fine(s)}
  <1>1. N \in Nat
    BY FS_CardinalityType
  <1>2. \A s \in SUBSET S : Cardinality(s) = 0 => s = {}
    BY FS_Subset, FS_EmptySet
  <1>3. F[{}] = 0 /\ G[{}] = 0
    BY DEF SumsUp
  <1>4. 0 \in T
    <2>1. Fine({})
      BY <1>3
    <2> HIDE DEF Fine
    <2>2. \A s \in SUBSET S : Cardinality(s) = 0 => Fine(s)
      BY <1>2, <2>1
    <2> QED  BY <1>1, <2>2
  <1>5. ASSUME NEW n \in 0 .. N, n \in T, n < N
        PROVE  n + 1 \in T
    <2>1. n \in Nat /\ n + 1 \in 0 .. N
      BY <1>1, <1>5
    <2>2. ASSUME NEW s \in SUBSET S, Cardinality(s) = n + 1
          PROVE  Fine(s)
      <3> DEFINE x == ch[s]
                 r == s \ {x}
      <3>1. s # {}
        BY <2>1, <2>2, FS_EmptySet
      <3>2. x \in s /\ x \in S
        BY <3>1 DEF Chooses
      <3>3. r \in SUBSET S /\ Cardinality(r) = n
        BY <2>1, <2>2, <3>2, OneSmaller
      <3>4. Fine(r)
        BY <1>5, <3>3
      <3>5. F[s] = F[r] + f[x] /\ G[s] = G[r] + g[x]
        BY <3>1 DEF SumsUp
      <3>6. f[x] \in Nat /\ g[x] \in Nat /\ f[x] <= g[x]
        BY <3>2
      <3> HIDE DEF x, r
      <3> QED  BY <3>4, <3>5, <3>6
    <2> HIDE DEF Fine
    <2> QED  BY <2>1, <2>2
  <1>6. 0 .. N \subseteq T
    <2> HIDE DEF T
    <2> QED  BY <1>1, <1>4, <1>5, CountingUp
  <1> HIDE DEF Fine
  <1>7. Fine(S)
    BY <1>1, <1>6
  <1> QED  BY <1>7 DEF Fine

AnyOf(S) == [s \in SUBSET S |-> CHOOSE x \in s : TRUE]
LastOf(S) == [s \in SUBSET S |-> Max(s)]

\* Total sums up a counter of the steps.
LEMMA TotalSumsUp ==
    ASSUME NEW d, NEW what, NEW D, D = DOMAIN d.steps, IsFiniteSet(D), \A x \in D : d.steps[x][what] \in Nat
    PROVE  /\ Chooses(AnyOf(D), D)
           /\ \E F : SumsUp(F, [x \in D |-> d.steps[x][what]], AnyOf(D), D) /\ Total(d, what) = F[D]
  <1> DEFINE f == [x \in D |-> d.steps[x][what]]
             ch == AnyOf(D)
             Folds(F) == F = [s \in SUBSET D |-> IF s = {} THEN 0 ELSE
                                 F[s \ {CHOOSE x \in s : TRUE}] + d.steps[CHOOSE x \in s : TRUE][what]]
  <1>1. Total(d, what) = (CHOOSE F : Folds(F))[D]
    BY DEF Total, FoldFunctionOnSet, MapThenFoldSet
  <1>2. Chooses(ch, D)
    BY DEF Chooses, AnyOf
  <1>3. \A s \in SUBSET D : s # {} =>
          ch[s] = (CHOOSE x \in s : TRUE) /\ f[ch[s]] = d.steps[CHOOSE x \in s : TRUE][what]
    <2> SUFFICES ASSUME NEW s \in SUBSET D, s # {}
                 PROVE  ch[s] = (CHOOSE x \in s : TRUE) /\ f[ch[s]] = d.steps[CHOOSE x \in s : TRUE][what]
      OBVIOUS
    <2>1. ch[s] = CHOOSE x \in s : TRUE
      BY DEF AnyOf
    <2>2. ch[s] \in D
      BY <1>2 DEF Chooses
    <2> QED  BY <2>1, <2>2
  <1> HIDE DEF f, ch
  <1>4. ASSUME NEW F PROVE Folds(F) <=> SumsUp(F, f, ch, D)
    <2> DEFINE One(s) == IF s = {} THEN 0 ELSE
                            F[s \ {CHOOSE x \in s : TRUE}] + d.steps[CHOOSE x \in s : TRUE][what]
               Other(s) == IF s = {} THEN 0 ELSE F[s \ {ch[s]}] + f[ch[s]]
    <2>1. \A s \in SUBSET D : One(s) = Other(s)
      <3> SUFFICES ASSUME NEW s \in SUBSET D, s # {} PROVE One(s) = Other(s)
        OBVIOUS
      <3>1. ch[s] = (CHOOSE x \in s : TRUE) /\ f[ch[s]] = d.steps[CHOOSE x \in s : TRUE][what]
        BY <1>3
      <3>2. PICK x : x = CHOOSE y \in s : TRUE
        OBVIOUS
      <3> QED  BY <3>1, <3>2
    <2>2. Folds(F) <=> F = [s \in SUBSET D |-> One(s)]
      BY Zenon
    <2>3. SumsUp(F, f, ch, D) <=> F = [s \in SUBSET D |-> Other(s)]
      BY Zenon DEF SumsUp
    <2> HIDE DEF One, Other, Folds
    <2>4. [s \in SUBSET D |-> One(s)] = [s \in SUBSET D |-> Other(s)]
      BY <2>1
    <2> QED  BY <2>2, <2>3, <2>4, Zenon
  <1>5. f \in [D -> Nat]
    BY DEF f
  <1>6. PICK G : SumsUp(G, f, ch, D)
    BY <1>2, <1>5, SumExists
  <1> HIDE DEF Folds
  <1>7. Folds(G)
    BY <1>4, <1>6, Zenon
  <1>8. Folds(CHOOSE F : Folds(F))
    BY <1>7, Zenon
  <1>9. SumsUp(CHOOSE F : Folds(F), f, ch, D)
    BY <1>4, <1>8, Zenon
  <1> QED  BY <1>1, <1>2, <1>9, Zenon DEF f, ch

\* No more errors than samples, step by step and so in total.
LEMMA TotalsInOrder ==
    ASSUME NEW d, IsFiniteSet(DOMAIN d.steps),
           \A x \in DOMAIN d.steps :
              /\ d.steps[x].count \in Nat /\ d.steps[x].errors \in Nat
              /\ d.steps[x].errors <= d.steps[x].count
    PROVE  /\ Total(d, "count") \in Nat /\ Total(d, "errors") \in Nat
           /\ Total(d, "errors") <= Total(d, "count")
  <1> DEFINE D == DOMAIN d.steps
             f == [x \in D |-> d.steps[x]["errors"]]
             g == [x \in D |-> d.steps[x]["count"]]
  <1>1. \A x \in D : /\ d.steps[x]["count"] \in Nat /\ d.steps[x]["errors"] \in Nat
                     /\ d.steps[x]["errors"] <= d.steps[x]["count"]
    OBVIOUS
  <1>2. Chooses(AnyOf(D), D)
    BY <1>1, TotalSumsUp
  <1>3. PICK F : SumsUp(F, f, AnyOf(D), D) /\ Total(d, "errors") = F[D]
    BY <1>1, TotalSumsUp
  <1>4. PICK G : SumsUp(G, g, AnyOf(D), D) /\ Total(d, "count") = G[D]
    BY <1>1, TotalSumsUp
  <1>5. f \in [D -> Nat] /\ g \in [D -> Nat] /\ \A x \in D : f[x] <= g[x]
    BY <1>1
  <1> HIDE DEF f, g, D
  <1>6. F[D] \in Nat /\ G[D] \in Nat /\ F[D] <= G[D]
    BY <1>2, <1>3, <1>4, <1>5, SumsCompare DEF D
  <1> QED  BY <1>3, <1>4, <1>6

\* The plan of an accepted load is a number of requests.
LEMMA PlannedIsANumber ==
    ASSUME NEW doc, Accepted(doc)
    PROVE  TotalRequests(doc.load) \in Nat
  <1> DEFINE load == doc.load
             D == DOMAIN Phases(load)
             f == [x \in D |-> CountInPhase(Phases(load)[x])]
             ch == LastOf(D)
             Folds(F) == F = [s \in SUBSET D |-> IF s = {} THEN 0 ELSE
                                 F[s \ {Max(s)}] + CountInPhase(Phases(load)[Max(s)])]
  <1>1. CASE Closed(load)
    <2>1. TotalRequests(load) = 0
      BY <1>1 DEF TotalRequests, FoldLeft, MapThenFoldSet
    <2> QED  BY <2>1
  <1>2. CASE ~Closed(load)
    <2>1. TotalRequests(load) = (CHOOSE F : Folds(F))[D] \div 7200
      BY <1>2 DEF TotalRequests, FoldLeft, MapThenFoldSet
    <2>2. ReadOpenLoad(load)
      BY <1>2, WhatWasAccepted DEF ReadLoad
    <2>3. PICK m \in Nat : D = 1 .. m
      <3>1. load.profiles \in Seq({load.profiles[i] : i \in DOMAIN load.profiles})
        BY WhatWasAccepted, Zenon DEF Decoded
      <3>2. PICK S : load.profiles \in Seq(S)
        BY <3>1, Zenon
      <3>3. PICK profiles : profiles = Phases(load)
        OBVIOUS
      <3>4. profiles \in Seq(S)
        BY <3>2, <3>3 DEF Phases
      <3>5. DOMAIN profiles = 1 .. Len(profiles) /\ Len(profiles) \in Nat
        BY <3>4
      <3> QED  BY <3>3, <3>5
    <2>4. \A x \in D : CountInPhase(Phases(load)[x]) \in Nat
      <3> SUFFICES ASSUME NEW x \in D PROVE CountInPhase(Phases(load)[x]) \in Nat
        OBVIOUS
      <3> DEFINE phase == load.profiles[x]
      <3>1. Phases(load)[x] = phase /\ x \in DOMAIN load.profiles
        BY DEF Phases
      <3>2. ReadPhase(phase)
        BY <2>2 DEF ReadOpenLoad
      <3>3. /\ "from" \in phase.keys => phase.from.number \in Int
            /\ {"to", "rate"} \intersect phase.keys # {} => phase.to.number \in Int
            /\ "duration" \in phase.keys => phase.duration \in Int
        BY <3>1, WhatWasAccepted, Zenon DEF Decoded
      <3>4. PhaseTime(phase) > 0
        BY <3>1, WhatWasAccepted
      <3> HIDE DEF phase
      <3>5. \A rate : rate.number \in Int /\ ReadRate(rate) => PerHour(rate) \in Nat
        BY DEF ReadRate, PerHour
      <3>6. From(phase) \in Nat
        BY <3>2, <3>3, <3>5 DEF From, ReadPhase
      <3>7. To(phase) \in Nat
        BY <3>2, <3>3, <3>5 DEF To, ReadPhase
      <3>8. PhaseTime(phase) \in Nat
        BY <3>3, <3>4 DEF PhaseTime
      <3>9. InitialRate(phase) \in Nat
        BY <3>6, <3>7 DEF InitialRate
      <3>10. CountInPhase(phase) \in Nat
        BY <3>7, <3>8, <3>9 DEF CountInPhase
      <3> QED  BY <3>1, <3>10 DEF phase
    <2>5. IsFiniteSet(D)
      BY <2>3, FS_Interval
    <2>6. \A s \in SUBSET D : s # {} => Max(s) \in s
      <3> SUFFICES ASSUME NEW s \in SUBSET D, s # {} PROVE Max(s) \in s
        OBVIOUS
      <3> HIDE DEF D
      <3>1. s \subseteq Nat /\ \A x \in s : x <= m
        BY <2>3
      <3> QED  BY <3>1, MaxIsGreatest
    <2>7. Chooses(ch, D)
      BY <2>6 DEF Chooses, LastOf
    <2>8. f \in [D -> Nat]
      BY <2>4
    <2>9. \A s \in SUBSET D : s # {} => ch[s] = Max(s) /\ f[ch[s]] = CountInPhase(Phases(load)[Max(s)])
      <3>1. \A s \in SUBSET D : ch[s] = Max(s)
        BY DEF LastOf
      <3>2. \A s \in SUBSET D : s # {} => Max(s) \in D
        BY <2>6
      <3> QED  BY <3>1, <3>2
    <2> HIDE DEF f, ch, D
    <2>10. ASSUME NEW F PROVE Folds(F) <=> SumsUp(F, f, ch, D)
      BY <2>9 DEF SumsUp
    <2>11. PICK G : SumsUp(G, f, ch, D)
      BY <2>5, <2>7, <2>8, SumExists
    <2> HIDE DEF Folds
    <2>12. Folds(G)
      BY <2>10, <2>11, Zenon
    <2>13. Folds(CHOOSE F : Folds(F))
      BY <2>12, Zenon
    <2>14. PICK sums : sums = CHOOSE F : Folds(F)
      BY Zenon
    <2>15. SumsUp(sums, f, ch, D)
      BY <2>10, <2>13, <2>14, Zenon
    <2>16. sums[D] \in Nat
      BY <2>5, <2>7, <2>8, <2>15, SumsCompare
    <2>17. TotalRequests(load) = sums[D] \div 7200
      <3>1. PICK set : set = D
        OBVIOUS
      <3>2. sums[set] = (CHOOSE F : Folds(F))[set]
        BY <2>14, Zenon
      <3> QED  BY <2>1, <3>1, <3>2
    <2> QED  BY <2>16, <2>17
  <1> QED  BY <1>1, <1>2

(***************************************************************************)
(* What the document of a run holds.                                       *)
(***************************************************************************)
FailedOf(doc, o) == Failed(o, Sent(doc, o))

\* Iterations sent and failed are numbers, and no more fail than are sent.
LEMMA SentAndFailed ==
    ASSUME NEW doc, Accepted(doc), NEW o \in Outcomes
    PROVE  Sent(doc, o) \in Nat /\ FailedOf(doc, o) \in 0 .. Sent(doc, o)
  <1>1. o.sent \in Nat /\ o.dropped \in Nat /\ o.cut \in BOOLEAN
    BY RunAssumption
  <1>2. Due(doc, o) \in Nat
    BY <1>1, PlannedIsANumber DEF Due
  <1>3. Shed(doc, o) \in 0 .. Due(doc, o)
    BY <1>1, <1>2 DEF Shed
  <1>4. Sent(doc, o) \in Nat
    BY <1>1, <1>2, <1>3 DEF Sent
  <1> QED  BY <1>4 DEF FailedOf, Failed

\* A step has no more errors than samples.
LEMMA StepCounters ==
    ASSUME NEW doc, Accepted(doc), NEW i \in DOMAIN doc.steps, NEW sent \in Nat, NEW failed \in 0 .. sent
    PROVE  /\ StepCount(doc, i, sent, failed) \in Nat /\ StepErrors(doc, i, failed) \in Nat
           /\ StepErrors(doc, i, failed) <= StepCount(doc, i, sent, failed)
  <1>1. CASE ~HasMix(doc)
    BY <1>1 DEF StepCount, StepErrors
  <1>2. CASE HasMix(doc)
    <2> DEFINE all == {n \in 0 .. sent - 1 : StepsOfIteration(doc, n)[1] = i}
               bad == {n \in 0 .. failed - 1 : StepsOfIteration(doc, n)[1] = i}
    <2>1. bad \subseteq all /\ all \subseteq 0 .. sent - 1
      OBVIOUS
    <2>2. StepCount(doc, i, sent, failed) = Cardinality(all) /\ StepErrors(doc, i, failed) = Cardinality(bad)
      BY <1>2 DEF StepCount, StepErrors
    <2> HIDE DEF all, bad
    <2>3. IsFiniteSet(0 .. sent - 1)
      BY FS_Interval
    <2>4. IsFiniteSet(all)
      BY <2>1, <2>3, FS_Subset
    <2>5. IsFiniteSet(bad) /\ Cardinality(bad) <= Cardinality(all)
      BY <2>1, <2>4, FS_Subset
    <2> QED  BY <2>2, <2>4, <2>5, FS_CardinalityType
  <1> QED  BY <1>1, <1>2

\* The names of the steps are finitely many.
LEMMA NamesFinite ==
    ASSUME NEW doc, Accepted(doc)
    PROVE  IsFiniteSet(StepNames(doc))
  <1> DEFINE L == Len(doc.steps)
             f == [i \in 1 .. L |-> StepName(doc.steps[i])]
  <1>1. L \in Nat /\ DOMAIN doc.steps = 1 .. L
    BY WhatWasAccepted
  <1>2. f \in Surjection(1 .. L, StepNames(doc))
    BY <1>1 DEF Surjection, StepNames
  <1>3. IsFiniteSet(1 .. L)
    BY <1>1, FS_Interval
  <1> QED  BY <1>2, <1>3, FS_Surjection

\* The fields the rules are read from, as they are collected.
Line(doc, o, i) ==
    [count |-> StepCount(doc, i, Sent(doc, o), FailedOf(doc, o)),
     errors |-> StepErrors(doc, i, FailedOf(doc, o)),
     latency |-> o.latency, service |-> o.service]

FieldsOf(doc, o, b) ==
    /\ b.closed = Closed(doc.load)
    /\ b.started = Sent(doc, o) /\ b.ended = Sent(doc, o) - FailedOf(doc, o)
    /\ b.overall = [latency |-> o.latency, service |-> o.service, rate |-> o.rate]
    /\ b.journey = [latency |-> o.latency, service |-> 0]
    /\ DOMAIN b.steps = StepNames(doc)
    /\ \A name \in StepNames(doc) : \E i \in DOMAIN doc.steps : b.steps[name] = Line(doc, o, i)
    /\ {"closed", "started", "ended", "overall", "journey", "steps"} \subseteq DOMAIN b

\* Collected puts them together.
LEMMA CollectedFields ==
    ASSUME NEW doc, NEW o, NEW b, b = Collected(doc, o)
    PROVE  FieldsOf(doc, o, b)
  <1> DEFINE At1(name) == CHOOSE i \in DOMAIN doc.steps : StepName(doc.steps[i]) = name
             steps == [name \in StepNames(doc) |-> Line(doc, o, At1(name))]
  <1>1. \A name \in StepNames(doc) : At1(name) \in DOMAIN doc.steps
    BY DEF StepNames
  <1>2. b.steps = steps
    BY DEF Collected, FailedOf, Line
  <1>3. DOMAIN steps = StepNames(doc)
    OBVIOUS
  <1>4. \A name \in StepNames(doc) : steps[name] = Line(doc, o, At1(name))
    OBVIOUS
  <1>5. \A name \in StepNames(doc) : \E i \in DOMAIN doc.steps : b.steps[name] = Line(doc, o, i)
    <2> HIDE DEF steps, At1
    <2> QED  BY <1>1, <1>2, <1>4
  <1>6. DOMAIN b.steps = StepNames(doc)
    <2> HIDE DEF steps
    <2> QED  BY <1>2, <1>3
  <1>7. /\ b.closed = Closed(doc.load)
        /\ b.started = Sent(doc, o) /\ b.ended = Sent(doc, o) - FailedOf(doc, o)
    BY DEF Collected, FailedOf
  <1>8. /\ b.overall = [latency |-> o.latency, service |-> o.service, rate |-> o.rate]
        /\ b.journey = [latency |-> o.latency, service |-> 0]
    BY DEF Collected
  <1>9. {"closed", "started", "ended", "overall", "journey", "steps"} \subseteq DOMAIN b
    BY DEF Collected
  <1> QED  BY <1>5, <1>6, <1>7, <1>8, <1>9, Zenon DEF FieldsOf

\* What DropCorrectedLatency does to them.
Uncorrected(b, d) ==
    /\ d.closed = b.closed /\ d.started = b.started /\ d.ended = b.ended
    /\ d.overall = [b.overall EXCEPT !.latency = 0]
    /\ d.journey = [latency |-> 0, service |-> b.journey.latency]
    /\ d.steps = [s \in DOMAIN b.steps |-> [b.steps[s] EXCEPT !.latency = 0]]

\* In a closed loop that is what it does.
LEMMA DroppedFields ==
    ASSUME NEW b, {"closed", "started", "ended", "overall", "journey", "steps"} \subseteq DOMAIN b, b.closed,
           NEW d, d = DropCorrectedLatency(b)
    PROVE  Uncorrected(b, d)
  BY DEF DropCorrectedLatency, Uncorrected

\* The fields of a document the rules are read from.
LEMMA DocumentFields ==
    ASSUME NEW doc, NEW o, NEW d, d = Document(doc, o)
    PROVE  /\ d.closed = Closed(doc.load)
           /\ d.started = Sent(doc, o) /\ d.ended = Sent(doc, o) - FailedOf(doc, o)
           /\ d.overall.latency = IF Closed(doc.load) THEN 0 ELSE o.latency
           /\ d.overall.service = o.service /\ d.overall.rate = o.rate
           /\ d.journey.latency = IF Closed(doc.load) THEN 0 ELSE o.latency
           /\ d.journey.service = IF Closed(doc.load) THEN o.latency ELSE 0
           /\ DOMAIN d.steps = StepNames(doc)
           /\ \A name \in StepNames(doc) :
                /\ \E i \in DOMAIN doc.steps :
                     /\ d.steps[name].count = StepCount(doc, i, Sent(doc, o), FailedOf(doc, o))
                     /\ d.steps[name].errors = StepErrors(doc, i, FailedOf(doc, o))
                /\ d.steps[name].latency = IF Closed(doc.load) THEN 0 ELSE o.latency
                /\ d.steps[name].service = o.service
  <1>1. PICK b : b = Collected(doc, o)
    OBVIOUS
  <1>2. d = DropCorrectedLatency(b)
    BY <1>1 DEF Document
  <1>3. FieldsOf(doc, o, b)
    BY <1>1, CollectedFields
  <1>4. ASSUME NEW name \in StepNames(doc)
        PROVE  /\ \E i \in DOMAIN doc.steps :
                    /\ d.steps[name].count = StepCount(doc, i, Sent(doc, o), FailedOf(doc, o))
                    /\ d.steps[name].errors = StepErrors(doc, i, FailedOf(doc, o))
               /\ d.steps[name].latency = IF Closed(doc.load) THEN 0 ELSE o.latency
               /\ d.steps[name].service = o.service
    <2>1. PICK i \in DOMAIN doc.steps : b.steps[name] = Line(doc, o, i)
      BY <1>3 DEF FieldsOf
    <2>2. CASE ~Closed(doc.load)
      <3>1. d.steps[name] = Line(doc, o, i)
        BY <1>2, <1>3, <2>1, <2>2 DEF DropCorrectedLatency, FieldsOf
      <3> QED  BY <2>2, <3>1 DEF Line
    <2>3. CASE Closed(doc.load)
      <3>1. d.steps = [s \in DOMAIN b.steps |-> [b.steps[s] EXCEPT !.latency = 0]] /\ DOMAIN b.steps = StepNames(doc)
        <4>1. /\ {"closed", "started", "ended", "overall", "journey", "steps"} \subseteq DOMAIN b
              /\ b.closed /\ DOMAIN b.steps = StepNames(doc)
          BY <1>3, <2>3, Zenon DEF FieldsOf
        <4>2. Uncorrected(b, d)
          BY <1>2, <4>1, DroppedFields
        <4> QED  BY <4>1, <4>2, Zenon DEF Uncorrected
      <3>2. d.steps[name] = [b.steps[name] EXCEPT !.latency = 0]
        BY <3>1
      <3>3. d.steps[name] = [Line(doc, o, i) EXCEPT !.latency = 0]
        BY <2>1, <3>2
      <3> QED  BY <2>3, <3>3 DEF Line
    <2> QED  BY <2>2, <2>3
  <1>5. CASE ~Closed(doc.load)
    <2>1. d = b
      BY <1>2, <1>3, <1>5 DEF DropCorrectedLatency, FieldsOf
    <2> QED  BY <1>3, <1>4, <1>5, <2>1 DEF FieldsOf
  <1>6. CASE Closed(doc.load)
    <2>1. /\ {"closed", "started", "ended", "overall", "journey", "steps"} \subseteq DOMAIN b
          /\ b.closed
      BY <1>3, <1>6, Zenon DEF FieldsOf
    <2>2. /\ d.closed = b.closed /\ d.started = b.started /\ d.ended = b.ended
          /\ d.overall = [b.overall EXCEPT !.latency = 0]
          /\ d.journey = [latency |-> 0, service |-> b.journey.latency]
          /\ d.steps = [s \in DOMAIN b.steps |-> [b.steps[s] EXCEPT !.latency = 0]]
      <3>1. Uncorrected(b, d)
        BY <1>2, <2>1, DroppedFields
      <3> QED  BY <3>1, Zenon DEF Uncorrected
    <2>3. DOMAIN d.steps = StepNames(doc)
      BY <1>3, <2>2 DEF FieldsOf
    <2>4. d.overall = [latency |-> 0, service |-> o.service, rate |-> o.rate]
      BY <1>3, <2>2 DEF FieldsOf
    <2>5. d.journey = [latency |-> 0, service |-> o.latency]
      BY <1>3, <2>2 DEF FieldsOf
    <2>6. /\ d.closed = Closed(doc.load)
          /\ d.started = Sent(doc, o) /\ d.ended = Sent(doc, o) - FailedOf(doc, o)
      BY <1>3, <2>2, Zenon DEF FieldsOf
    <2> QED  BY <1>4, <1>6, <2>3, <2>4, <2>5, <2>6
  <1> QED  BY <1>5, <1>6

\* The numbers of a document, and how they relate.
DocumentSane(doc, d) ==
    /\ d.closed \in BOOLEAN /\ DOMAIN d.steps = StepNames(doc) /\ IsFiniteSet(StepNames(doc))
    /\ d.started \in Nat /\ d.ended \in 0 .. d.started
    /\ d.overall.rate \in Nat
    /\ \A r \in {d.overall, d.journey} : r.latency \in Nat /\ r.service \in Nat
    /\ \A name \in StepNames(doc) :
         /\ d.steps[name].count \in Nat /\ d.steps[name].errors \in 0 .. d.steps[name].count
         /\ d.steps[name].latency \in Nat /\ d.steps[name].service \in Nat
         /\ ~d.closed => d.steps[name].service <= d.steps[name].latency

\* The numbers of a document are those a rule can be read against.
LEMMA DocumentNumbers ==
    ASSUME NEW doc, Accepted(doc), NEW o \in Outcomes, NEW d, d = Document(doc, o)
    PROVE  DocumentSane(doc, d)
  <1> DEFINE sent == Sent(doc, o)
             failed == FailedOf(doc, o)
  <1>1. sent \in Nat /\ failed \in 0 .. sent
    BY SentAndFailed
  <1>2. o.latency \in Nat /\ o.service \in 0 .. o.latency /\ o.rate \in Nat
    BY RunAssumption
  <1>3. Closed(doc.load) \in BOOLEAN
    BY DEF Closed
  <1> HIDE DEF sent, failed
  <1>4. d.closed \in BOOLEAN /\ DOMAIN d.steps = StepNames(doc) /\ IsFiniteSet(StepNames(doc))
    BY <1>3, DocumentFields, NamesFinite
  <1>5. d.started \in Nat /\ d.ended \in 0 .. d.started
    <2>1. d.started = sent /\ d.ended = sent - failed
      BY DocumentFields DEF sent, failed
    <2> QED  BY <1>1, <2>1
  <1>6. /\ d.overall.latency \in Nat /\ d.overall.service \in Nat /\ d.overall.rate \in Nat
        /\ d.journey.latency \in Nat /\ d.journey.service \in Nat
    BY <1>2, DocumentFields
  <1>7. ASSUME NEW name \in StepNames(doc)
        PROVE  /\ d.steps[name].count \in Nat /\ d.steps[name].errors \in 0 .. d.steps[name].count
               /\ d.steps[name].latency \in Nat /\ d.steps[name].service \in Nat
               /\ ~d.closed => d.steps[name].service <= d.steps[name].latency
    <2>1. PICK i \in DOMAIN doc.steps :
                /\ d.steps[name].count = StepCount(doc, i, sent, failed)
                /\ d.steps[name].errors = StepErrors(doc, i, failed)
      BY DocumentFields DEF sent, failed
    <2>2. /\ StepCount(doc, i, sent, failed) \in Nat /\ StepErrors(doc, i, failed) \in Nat
          /\ StepErrors(doc, i, failed) <= StepCount(doc, i, sent, failed)
      BY <1>1, StepCounters
    <2>3. d.steps[name].count \in Nat /\ d.steps[name].errors \in 0 .. d.steps[name].count
      BY <2>1, <2>2
    <2>4. /\ d.steps[name].latency = IF Closed(doc.load) THEN 0 ELSE o.latency
          /\ d.steps[name].service = o.service
          /\ d.closed = Closed(doc.load)
      BY DocumentFields
    <2> QED  BY <1>2, <1>3, <2>3, <2>4
  <1> QED  BY <1>4, <1>5, <1>6, <1>7 DEF DocumentSane

(***************************************************************************)
(* A rule is read the way its author means it.                             *)
(***************************************************************************)
Operators == {"<", "<=", ">", ">="}

\* A comparison has an answer.
LEMMA CompareAnswers ==
    ASSUME NEW x \in Int, NEW y \in Int, NEW operator \in Operators
    PROVE  Compare(x, operator, y) \in BOOLEAN
  <1>1. operator \in {"<", "<=", ">", ">="}
    BY DEF Operators
  <1>2. CASE operator = "<"
    BY <1>2 DEF Compare
  <1>3. CASE operator = "<="
    BY <1>3 DEF Compare
  <1>4. CASE operator = ">"
    BY <1>4 DEF Compare
  <1>5. CASE operator = ">="
    BY <1>5 DEF Compare
  <1> QED  BY <1>1, <1>2, <1>3, <1>4, <1>5

\* An evaluation that says passed is one that passed.
LEMMA EvaluationSays ==
    ASSUME NEW p \in BOOLEAN
    PROVE  Evaluation(p).passed <=> p
  BY DEF Evaluation

\* What ReadSLO and CheckSLOSteps leave of a rule.
LEMMA WhatRulesAre ==
    ASSUME NEW doc, Accepted(doc), NEW i \in DOMAIN RulesOf(doc), NEW r, r = RulesOf(doc)[i]
    PROVE  /\ Operator(r) \in Operators /\ r.limit \in Int
           /\ DescribeMetric(r.target, r.metric)
           /\ ScopeOf(r.target) = "step" => r.target \in StepNames(doc)
  <1>1. RulesOf(doc) = doc.slo
    BY DEF RulesOf
  <1>2. doc.slo \in Seq(RuleRecords)
    BY WhatWasAccepted, Zenon DEF Decoded, WellFormed
  <1>3. r \in RuleRecords
    BY <1>1, <1>2
  <1>4. Operator(r) \in Operators /\ r.limit \in Int
    BY <1>3 DEF RuleRecords, Operator, Operators
  <1>5. DescribeMetric(r.target, r.metric)
    <2>1. ReadSLO(RulesOf(doc))
      BY WhatWasAccepted
    <2> QED  BY <2>1, Zenon DEF ReadSLO
  <1>6. ASSUME ScopeOf(r.target) = "step" PROVE r.target \in StepNames(doc)
    <2>1. CheckSLOSteps(doc) /\ StepsOf(doc) = doc.steps
      BY WhatWasAccepted
    <2>2. \E j \in DOMAIN doc.steps : StepName(doc.steps[j]) = r.target
      BY <1>1, <1>6, <2>1, Zenon DEF CheckSLOSteps
    <2> QED  BY <2>2, Zenon DEF StepNames
  <1> QED  BY <1>4, <1>5, <1>6

\* A rule on the regression passes when there is nothing to compare with (slo.go:126).
LEMMA UnbasedPasses ==
    ASSUME NEW d, NEW r, Unbased(r)
    PROVE  EvaluateRule(r, d, Baseline).passed
  <1>1. ScopeOf(r.target) = "regression" /\ Baseline = <<>>
    BY DEF Unbased, Baseline
  <1>2. EvaluateRule(r, d, Baseline) = EvaluateRegression(r, d, Baseline)
    BY <1>1 DEF EvaluateRule
  <1>3. EvaluateRegression(r, d, Baseline) = [Evaluation(TRUE) EXCEPT !.noData = TRUE]
    BY <1>1 DEF EvaluateRegression
  <1> QED  BY <1>2, <1>3 DEF Evaluation

\* Otherwise it fails exactly for a worsening past its limit.
LEMMA RegressionAgrees ==
    ASSUME inv \in Invocations, inv.baseline = "read", NEW doc, NEW d, DocumentSane(doc, d),
           NEW r, Operator(r) \in Operators, r.limit \in Int, ScopeOf(r.target) = "regression"
    PROVE  EvaluateRule(r, d, Baseline).passed <=> Holds(r, d)
  <1> DEFINE scope == SplitRegressionMetric(r.metric)
             was == Reported(inv.before[scope])
             is == Reported(d[scope])
             worsening == IF is > was THEN is - was ELSE 0
             worse == IF Direction(was, is) = "worse" THEN (is - was) * 100 ELSE 0
             blocked == BlockingCaveats(inv.before, d) # {}
             worst == Compare(worsening * 100, Operator(r), r.limit * was)
  <1>1. scope \in {"journey", "overall"}
    BY DEF SplitRegressionMetric
  <1>2. was \in Nat
    BY <1>1, RunAssumption DEF Reported
  <1>3. is \in Nat
    BY <1>1 DEF Reported, DocumentSane
  <1>4. Holds(r, d) <=> blocked \/ Direction(was, is) = "same" \/ worst
    <2>1. Holds(r, d) <=> RegressionHolds(r, d)
      BY DEF Holds
    <2>2. RegressionHolds(r, d) <=> blocked \/ Direction(was, is) = "same" \/ worst
      BY Zenon DEF RegressionHolds
    <2> QED  BY <2>1, <2>2, Zenon
  <1>6. Direction(was, is) # "same" => worse = worsening * 100
    <2> HIDE DEF was, is
    <2> QED  BY <1>2, <1>3 DEF Direction, AcceptedNoise
  <1>7. worst \in BOOLEAN
    <2>1. worsening * 100 \in Int /\ r.limit * was \in Int
      <3> HIDE DEF was, is
      <3> QED  BY <1>2, <1>3
    <2> HIDE DEF worsening, was
    <2> QED  BY <2>1, CompareAnswers
  <1>8. EvaluateRule(r, d, Baseline) = EvaluateRegression(r, d, Baseline)
    BY DEF EvaluateRule
  <1>9. EvaluateRule(r, d, Baseline).passed <=> Holds(r, d)
    <2>1. Baseline # <<>> /\ Baseline[1] = inv.before
      BY DEF Baseline
    <2>2. EvaluateRegression(r, d, Baseline) =
            CASE blocked -> [Evaluation(TRUE) EXCEPT !.untrustworthy = TRUE]
              [] ~blocked /\ Direction(was, is) = "same" -> Evaluation(TRUE)
              [] OTHER -> Evaluation(Compare(worse, Operator(r), r.limit * was))
      BY <2>1 DEF EvaluateRegression
    <2> HIDE DEF was, is, scope, worse, worst, blocked, worsening
    <2>3. CASE blocked
      <3>1. EvaluateRegression(r, d, Baseline) = [Evaluation(TRUE) EXCEPT !.untrustworthy = TRUE]
        BY <2>2, <2>3
      <3>2. EvaluateRegression(r, d, Baseline).passed
        BY <3>1 DEF Evaluation
      <3> QED  BY <1>4, <1>8, <2>3, <3>2
    <2>4. CASE ~blocked /\ Direction(was, is) = "same"
      <3>1. EvaluateRegression(r, d, Baseline) = Evaluation(TRUE)
        BY <2>2, <2>4
      <3> QED  BY <1>4, <1>8, <2>4, <3>1, EvaluationSays
    <2>5. CASE ~blocked /\ Direction(was, is) # "same"
      <3>1. EvaluateRegression(r, d, Baseline) = Evaluation(worst)
        BY <1>6, <2>2, <2>5 DEF worst
      <3>2. EvaluateRegression(r, d, Baseline).passed <=> worst
        BY <1>7, <3>1, EvaluationSays
      <3> QED  BY <1>4, <1>8, <2>5, <3>2, Zenon
    <2> QED  BY <2>3, <2>4, <2>5
  <1> QED  BY <1>9

\* The sample of a rule: numbers, of which no more worked than were taken, and the latency
\* the report shows unless the rule is on a step of a closed loop.
LEMMA WhatSamplesAre ==
    ASSUME NEW doc, NEW d, DocumentSane(doc, d), NEW r, ScopeOf(r.target) # "regression",
           ScopeOf(r.target) = "step" => r.target \in StepNames(doc),
           NEW s, s = Sample(r, d)
    PROVE  /\ s.sampled \in Nat /\ s.worked \in 0 .. s.sampled
           /\ s.latency \in Int /\ s.count \in Int /\ s.errors \in Int
           /\ ~d.closed /\ ScopeOf(r.target) = "step" => s.latency = Reported(d.steps[r.target])
  <1>1. ScopeOf(r.target) \in {"global", "journey", "step"}
    BY DEF ScopeOf
  <1>2. CASE ScopeOf(r.target) = "global"
    <2>1. /\ Total(d, "count") \in Nat /\ Total(d, "errors") \in Nat
          /\ Total(d, "errors") <= Total(d, "count")
      <3>1. IsFiniteSet(DOMAIN d.steps)
        BY DEF DocumentSane
      <3>2. \A x \in DOMAIN d.steps : /\ d.steps[x].count \in Nat /\ d.steps[x].errors \in Nat
                                      /\ d.steps[x].errors <= d.steps[x].count
        BY DEF DocumentSane
      <3> QED  BY <3>1, <3>2, TotalsInOrder
    <2>2. /\ s.sampled = Total(d, "count") /\ s.worked = Total(d, "count") - Total(d, "errors")
          /\ s.count = Total(d, "count") /\ s.errors = Total(d, "errors") /\ s.latency = Reported(d.overall)
      BY <1>2 DEF Sample
    <2>3. Reported(d.overall) \in Int
      BY DEF Reported, DocumentSane
    <2> QED  BY <1>2, <2>1, <2>2, <2>3
  <1>3. CASE ScopeOf(r.target) = "journey"
    <2>1. /\ s.sampled = d.started /\ s.worked = d.ended
          /\ s.count = d.ended /\ s.errors = 0 /\ s.latency = Reported(d.journey)
      BY <1>3 DEF Sample
    <2>2. Reported(d.journey) \in Int
      BY DEF Reported, DocumentSane
    <2> QED  BY <1>3, <2>1, <2>2 DEF DocumentSane
  <1>4. CASE ScopeOf(r.target) = "step"
    <2> DEFINE step == d.steps[r.target]
    <2>1. /\ s.sampled = step.count /\ s.worked = step.count - step.errors
          /\ s.count = step.count /\ s.errors = step.errors /\ s.latency = step.latency
      BY <1>4 DEF Sample
    <2>2. /\ step.count \in Nat /\ step.errors \in 0 .. step.count
          /\ step.latency \in Nat /\ step.service \in Nat
          /\ ~d.closed => step.service <= step.latency
      BY <1>4 DEF DocumentSane
    <2> HIDE DEF step
    <2>3. /\ s.sampled \in Nat /\ s.worked \in 0 .. s.sampled
          /\ s.latency \in Int /\ s.count \in Int /\ s.errors \in Int
      BY <2>1, <2>2
    <2>4. ~d.closed => s.latency = Reported(step)
      BY <2>1, <2>2 DEF Reported
    <2> QED  BY <2>3, <2>4 DEF step
  <1> QED  BY <1>1, <1>2, <1>3, <1>4

\* A rule on a number of this run passes exactly when it holds.
LEMMA OthersAgree ==
    ASSUME NEW doc, NEW d, DocumentSane(doc, d), NEW r, Operator(r) \in Operators, r.limit \in Int,
           DescribeMetric(r.target, r.metric), ScopeOf(r.target) # "regression",
           ScopeOf(r.target) = "step" => r.target \in StepNames(doc), ~ClosedStepRule(r, d)
    PROVE  EvaluateRule(r, d, Baseline).passed <=> Holds(r, d)
  <1> DEFINE s == Sample(r, d)
             refused == RefuseLatencyOverFailures(r, s.sampled, s.worked)
             shown == IF ScopeOf(r.target) = "step" THEN Reported(d.steps[r.target]) ELSE s.latency
             read == CASE r.metric \in LatencyMetrics -> Compare(s.latency, Operator(r), r.limit)
                       [] r.metric = "throughput" -> Compare(d.overall.rate, Operator(r), r.limit)
                       [] r.metric = "errors" -> CompareShare(s.errors, s.count, r)
                       [] r.metric = "success" -> CompareShare(s.count - s.errors, s.count, r)
             meant == CASE r.metric \in LatencyMetrics ->
                              s.worked * 2 >= s.sampled /\ Compare(shown, Operator(r), r.limit)
                        [] r.metric = "throughput" -> Compare(d.overall.rate, Operator(r), r.limit)
                        [] r.metric = "errors" -> CompareShare(s.errors, s.count, r)
                        [] OTHER -> CompareShare(s.count - s.errors, s.count, r)
  <1>1. r.metric \in LatencyMetrics \cup {"errors", "success", "throughput"}
    BY DEF DescribeMetric, ScopeOf
  <1>2. /\ s.sampled \in Nat /\ s.worked \in 0 .. s.sampled
        /\ s.latency \in Int /\ s.count \in Int /\ s.errors \in Int
    BY WhatSamplesAre, Zenon
  <1>3. r.metric \in LatencyMetrics => shown = s.latency
    <2>1. ~d.closed /\ ScopeOf(r.target) = "step" => s.latency = Reported(d.steps[r.target])
      BY WhatSamplesAre, Zenon
    <2> HIDE DEF s
    <2> QED  BY <2>1 DEF ClosedStepRule
  <1>4. Holds(r, d) <=> meant
    BY DEF Holds, SampleHolds
  <1>5. EvaluateRule(r, d, Baseline) =
          IF refused THEN [Evaluation(FALSE) EXCEPT !.noData = TRUE] ELSE Evaluation(read)
    <2>1. ~(ScopeOf(r.target) = "step" /\ r.target \notin DOMAIN d.steps)
      BY DEF DocumentSane
    <2> QED  BY <2>1, Zenon DEF EvaluateRule
  <1>6. \A x, y \in Int : CompareShare(x, y, r) \in BOOLEAN
    <2> SUFFICES ASSUME NEW x \in Int, NEW y \in Int PROVE CompareShare(x, y, r) \in BOOLEAN
      OBVIOUS
    <2>1. x * 100 \in Int /\ r.limit * y \in Int
      OBVIOUS
    <2> QED  BY <2>1, CompareAnswers DEF CompareShare
  <1> HIDE DEF s, shown
  <1>7. read \in BOOLEAN
    <2>1. /\ Compare(s.latency, Operator(r), r.limit) \in BOOLEAN
          /\ Compare(d.overall.rate, Operator(r), r.limit) \in BOOLEAN
      BY <1>2, CompareAnswers DEF DocumentSane
    <2>2. /\ CompareShare(s.errors, s.count, r) \in BOOLEAN
          /\ CompareShare(s.count - s.errors, s.count, r) \in BOOLEAN
      BY <1>2, <1>6
    <2> QED  BY <1>1, <2>1, <2>2 DEF LatencyMetrics
  <1>8. refused <=> r.metric \in LatencyMetrics /\ ~(s.worked * 2 >= s.sampled)
    BY <1>2 DEF RefuseLatencyOverFailures
  <1>9. meant <=> read /\ ~refused
    <2>1. CASE r.metric \in LatencyMetrics
      <3>1. read = Compare(s.latency, Operator(r), r.limit)
        BY <2>1 DEF LatencyMetrics
      <3>2. meant <=> s.worked * 2 >= s.sampled /\ Compare(shown, Operator(r), r.limit)
        BY <2>1 DEF LatencyMetrics
      <3> HIDE DEF read, meant, refused
      <3> QED  BY <1>3, <1>8, <2>1, <3>1, <3>2
    <2>2. CASE r.metric \notin LatencyMetrics
      <3>1. meant <=> read
        BY <1>1, <2>2
      <3> HIDE DEF read, meant, refused
      <3> QED  BY <1>8, <2>2, <3>1
    <2> QED  BY <2>1, <2>2
  <1> HIDE DEF read, meant, refused
  <1>10. CASE refused
    <2>1. EvaluateRule(r, d, Baseline) = [Evaluation(FALSE) EXCEPT !.noData = TRUE]
      BY <1>5, <1>10
    <2>2. ~EvaluateRule(r, d, Baseline).passed
      BY <2>1 DEF Evaluation
    <2> QED  BY <1>4, <1>9, <1>10, <2>2
  <1>11. CASE ~refused
    <2>1. EvaluateRule(r, d, Baseline).passed <=> read
      BY <1>5, <1>7, <1>11, EvaluationSays
    <2> QED  BY <1>4, <1>9, <1>11, <2>1
  <1> QED  BY <1>10, <1>11

\* The gate passes exactly when the rules hold, those of the steps of a closed loop and
\* those with nothing to compare with aside.
LEMMA RulesAgree ==
    ASSUME inv \in Invocations, NEW doc, Accepted(doc), NEW o \in Outcomes, NEW d, d = Document(doc, o),
           NEW i \in DOMAIN RulesOf(doc), NEW r, r = RulesOf(doc)[i], ~ClosedStepRule(r, d),
           ~Unbased(r)
    PROVE  EvaluateRule(r, d, Baseline).passed <=> Holds(r, d)
  <1>1. DocumentSane(doc, d)
    BY DocumentNumbers
  <1>2. /\ Operator(r) \in Operators /\ r.limit \in Int
        /\ DescribeMetric(r.target, r.metric)
        /\ ScopeOf(r.target) = "step" => r.target \in StepNames(doc)
    BY WhatRulesAre, Zenon
  <1>3. CASE ScopeOf(r.target) = "regression"
    <2>1. inv.baseline = "read"
      BY <1>3 DEF Unbased
    <2> QED  BY <1>1, <1>2, <1>3, <2>1, RegressionAgrees
  <1>4. CASE ScopeOf(r.target) # "regression"
    BY <1>1, <1>2, <1>4, OthersAgree
  <1> QED  BY <1>3, <1>4

(***************************************************************************)
(* What a command leaves between two writes, and at its end.               *)
(***************************************************************************)
\* The list s names every output of S once.
OneEach(s, S) ==
    /\ s \in Seq(Outputs)
    /\ \A i \in DOMAIN s : s[i] \in S
    /\ \A o \in S : \E i \in DOMAIN s : s[i] = o
    /\ \A i, j \in DOMAIN s : s[i] = s[j] => i = j

\* The outputs that must be complete for the code to be good.
Expected ==
    CASE inv.command \in Runners -> inv.outputs
      [] inv.command = "record" -> IF SourcesOf(spec) = {} THEN {} ELSE {"csv"}
      [] OTHER -> {}
Done == \A o \in Expected : written[o] = "whole"
Judged == ExitCode(document[1], Evaluate(RulesOf(spec), document[1], Baseline))

\* A command that has not begun to write has written no output, and has no plan.
BlankInv ==
    /\ DOMAIN written = Outputs
    /\ {"pending", "failed", "final"} \subseteq DOMAIN plan
    /\ inv.command # "migrate" /\ stage \notin {"write", "end"} => \A o \in Outputs : written[o] = "absent"

\* Between two outputs: what is to come is untouched, and what is past complete.
PendingInv ==
    stage = "write" => \E S \in SUBSET Outputs :
        /\ OneEach(plan.pending, S)
        /\ \A o \in S : written[o] = "absent"
        /\ \A o \in Expected : written[o] = "whole" \/ o \in S
        /\ inv.command \in Runners => S \subseteq inv.outputs

\* The codes a command ends with are fixed when it begins to write.
PlanInv ==
    stage = "write" =>
        /\ inv.command \in Runners \cup {"record", "compare", "report"}
        /\ inv.command \in Runners => Ran /\ plan.failed = ExitSLO /\ plan.final = Judged
        /\ inv.command = "record" => /\ plan.failed = ExitSLO /\ plan.final = ExitPassed
                                     /\ other = [state |-> "whole", doc |-> spec]
        /\ inv.command = "compare" => /\ plan.failed = ExitBadFile
                                      /\ plan.final = IF Comparable(inv.before, inv.after)
                                                      THEN ExitPassed ELSE ExitInvalid

\* What the end says.
EndInv ==
    stage = "end" /\ inv.args = "ok" =>
        /\ Ran => \/ exit = ExitBadFile
                  \/ exit = ExitSLO /\ ~Done
                  \/ exit = Judged /\ Done
        /\ inv.command = "compare" =>
             \/ exit = ExitBadFile
             \/ exit = IF Comparable(inv.before, inv.after) THEN ExitPassed ELSE ExitInvalid
        /\ inv.command = "debug" /\ exit = ExitPassed => plan.final = Len(spec.steps)
        /\ inv.command = "record" /\ exit = ExitPassed =>
             other = [state |-> "whole", doc |-> spec] /\ Done

CodeInv == RunInv /\ BlankInv /\ PendingInv /\ PlanInv /\ EndInv

\* One list after another, of other outputs.
LEMMA OneAfterAnother ==
    ASSUME NEW a, NEW A, OneEach(a, A), NEW b, NEW B, OneEach(b, B), A \intersect B = {}
    PROVE  OneEach(a \o b, A \cup B)
  <1> DEFINE c == a \o b
  <1>1. /\ a \in Seq(Outputs) /\ b \in Seq(Outputs)
    BY DEF OneEach
  <1>2. /\ c \in Seq(Outputs) /\ Len(c) = Len(a) + Len(b) /\ Len(a) \in Nat /\ Len(b) \in Nat
        /\ DOMAIN a = 1 .. Len(a) /\ DOMAIN b = 1 .. Len(b) /\ DOMAIN c = 1 .. Len(c)
    BY <1>1
  <1>3. \A i \in 1 .. Len(a) + Len(b) : c[i] = IF i <= Len(a) THEN a[i] ELSE b[i - Len(a)]
    BY <1>1
  <1> HIDE DEF c
  <1>4. \A i \in DOMAIN c : \/ i \in DOMAIN a /\ c[i] = a[i] /\ c[i] \in A
                            \/ i - Len(a) \in DOMAIN b /\ c[i] = b[i - Len(a)] /\ c[i] \in B
    BY <1>2, <1>3 DEF OneEach
  <1>5. ASSUME NEW o \in A \cup B PROVE \E i \in DOMAIN c : c[i] = o
    <2>1. CASE o \in A
      <3>1. PICK i \in DOMAIN a : a[i] = o
        BY <2>1 DEF OneEach
      <3> QED  BY <1>2, <1>3, <3>1
    <2>2. CASE o \in B
      <3>1. PICK i \in DOMAIN b : b[i] = o
        BY <2>2 DEF OneEach
      <3>2. i + Len(a) \in DOMAIN c /\ c[i + Len(a)] = o
        BY <1>2, <1>3, <3>1
      <3> QED  BY <3>2
    <2> QED  BY <2>1, <2>2
  <1>6. ASSUME NEW i \in DOMAIN c, NEW j \in DOMAIN c, c[i] = c[j] PROVE i = j
    <2>1. i \in Int /\ j \in Int
      BY <1>2
    <2>2. CASE i \in DOMAIN a /\ c[i] = a[i] /\ c[i] \in A
      <3>1. j \in DOMAIN a /\ c[j] = a[j]
        BY <1>4, <1>6, <2>2
      <3> QED  BY <1>6, <2>2, <3>1 DEF OneEach
    <2>3. CASE i - Len(a) \in DOMAIN b /\ c[i] = b[i - Len(a)] /\ c[i] \in B
      <3>1. j - Len(a) \in DOMAIN b /\ c[j] = b[j - Len(a)]
        BY <1>4, <1>6, <2>3
      <3>2. i - Len(a) = j - Len(a)
        BY <1>6, <2>3, <3>1 DEF OneEach
      <3> QED  BY <1>2, <2>1, <3>2
    <2> QED  BY <1>4, <2>2, <2>3
  <1> QED  BY <1>2, <1>4, <1>5, <1>6 DEF OneEach, c

\* Order names what was asked for, once.
LEMMA OrderNamesAll ==
    ASSUME NEW outputs \in SUBSET Outputs
    PROVE  OneEach(Order(outputs), outputs)
  <1> DEFINE Asked(o) == IF o \in outputs THEN <<o>> ELSE <<>>
             Only(o) == outputs \intersect {o}
  <1>1. ASSUME NEW o \in Outputs PROVE OneEach(Asked(o), Only(o))
    <2>1. CASE o \in outputs
      <3>1. Asked(o) = <<o>> /\ Only(o) = {o}
        BY <2>1
      <3> HIDE DEF Asked, Only
      <3> QED  BY <3>1 DEF OneEach
    <2>2. CASE o \notin outputs
      <3>1. Asked(o) = <<>> /\ Only(o) = {}
        BY <2>2
      <3> HIDE DEF Asked, Only
      <3> QED  BY <3>1 DEF OneEach
    <2> QED  BY <2>1, <2>2
  <1>2. Order(outputs) = Asked("json") \o Asked("html") \o Asked("csv")
    BY DEF Order
  <1>3. OneEach(Asked("json"), Only("json")) /\ OneEach(Asked("html"), Only("html")) /\ OneEach(Asked("csv"), Only("csv"))
    BY <1>1 DEF Outputs
  <1>4. /\ Only("json") \intersect Only("html") = {}
        /\ (Only("json") \cup Only("html")) \intersect Only("csv") = {}
        /\ (Only("json") \cup Only("html")) \cup Only("csv") = outputs
    BY DEF Outputs
  <1> HIDE DEF Asked, Only
  <1>5. OneEach(Asked("json") \o Asked("html"), Only("json") \cup Only("html"))
    BY <1>3, <1>4, OneAfterAnother
  <1>6. OneEach((Asked("json") \o Asked("html")) \o Asked("csv"), (Only("json") \cup Only("html")) \cup Only("csv"))
    BY <1>3, <1>4, <1>5, OneAfterAnother
  <1> QED  BY <1>2, <1>4, <1>6

\* The first of the list is taken off it.
LEMMA FirstTaken ==
    ASSUME NEW s, NEW S, OneEach(s, S), s # <<>>
    PROVE  Head(s) \in S /\ Head(s) \in Outputs /\ OneEach(Tail(s), S \ {Head(s)})
  <1> DEFINE t == Tail(s)
  <1>1. s \in Seq(Outputs) /\ Len(s) \in Nat \ {0} /\ DOMAIN s = 1 .. Len(s)
    BY DEF OneEach
  <1>2. Head(s) = s[1] /\ 1 \in DOMAIN s
    BY <1>1
  <1>3. t \in Seq(Outputs) /\ Len(t) = Len(s) - 1 /\ DOMAIN t = 1 .. Len(s) - 1
    BY <1>1
  <1>4. \A i \in 1 .. Len(s) - 1 : t[i] = s[i + 1] /\ i + 1 \in DOMAIN s /\ i + 1 # 1
    BY <1>1
  <1> HIDE DEF t
  <1>5. s[1] \in S /\ s[1] \in Outputs
    BY <1>1, <1>2 DEF OneEach
  <1>6. \A i \in DOMAIN t : t[i] \in S \ {s[1]}
    BY <1>2, <1>3, <1>4 DEF OneEach
  <1>7. ASSUME NEW o \in S \ {s[1]} PROVE \E i \in DOMAIN t : t[i] = o
    <2>1. PICK i \in DOMAIN s : s[i] = o
      BY DEF OneEach
    <2>2. i # 1
      BY <2>1
    <2>3. i - 1 \in DOMAIN t /\ t[i - 1] = s[i]
      BY <1>1, <1>3, <1>4, <2>2
    <2> QED  BY <2>1, <2>3
  <1>8. ASSUME NEW i \in DOMAIN t, NEW j \in DOMAIN t, t[i] = t[j] PROVE i = j
    <2>1. i + 1 = j + 1
      BY <1>3, <1>4, <1>8, SMTT(30) DEF OneEach
    <2> QED  BY <1>1, <1>3, <2>1
  <1> QED  BY <1>2, <1>3, <1>5, <1>6, <1>7, <1>8 DEF OneEach, t

\* A step that neither runs, nor writes outputs, nor compares.
Quiet ==
    /\ UNCHANGED <<inv, written, plan, document>>
    /\ stage \notin {"write", "end"} \/ (stage' = "start" /\ inv.command = "migrate")
    /\ stage' # "write"
    /\ stage' = "end" /\ inv.args = "ok" =>
          exit' = ExitBadFile \/ inv.command \notin {"compare", "debug", "record"}

\* Which steps those are.
LEMMA QuietSteps ==
    ASSUME RunInv,
           \/ RefuseArguments \/ Load \/ ValidateCommand \/ Edit
           \/ \E opens \in BOOLEAN : Prepare(opens)
           \/ \E how \in Hows : NewOne(how)
           \/ \E converts \in BOOLEAN, how \in Hows : ImportCommand(converts, how)
           \/ \E listens \in BOOLEAN : StayUp(listens)
           \/ \E fault \in BOOLEAN : GoDown(fault)
           \/ \E listens \in BOOLEAN : RecordListen(listens)
           \/ Proxying \/ AcceptFails \/ Collect
           \/ MigrateStart
           \/ \E text \in Texts : MigrateOne(text)
           \/ \E how \in Hows : WriteBackup(how)
           \/ \E how \in Hows : WriteDestination(how)
           \/ MigrateDone
           \/ \E begun \in BOOLEAN : Crash(begun)
           \/ Again
    PROVE  Quiet
  <1> USE DEF Exit, Go, Started, Quiet
  <1>1. StagesInv
    BY DEF RunInv
  <1> USE <1>1 DEF StagesInv
  <1>2. CASE RefuseArguments
    BY <1>2 DEF RefuseArguments
  <1>3. CASE Load \/ ValidateCommand
    BY <1>3 DEF Load, ValidateCommand
  <1>4. CASE Edit
    BY <1>4 DEF Edit
  <1>5. CASE \E opens \in BOOLEAN : Prepare(opens)
    BY <1>5 DEF Prepare
  <1>8. CASE \E how \in Hows : NewOne(how)
    BY <1>8 DEF NewOne
  <1>9. CASE \E converts \in BOOLEAN, how \in Hows : ImportCommand(converts, how)
    BY <1>9 DEF ImportCommand
  <1>10. CASE (\E listens \in BOOLEAN : StayUp(listens)) \/ \E fault \in BOOLEAN : GoDown(fault)
    BY <1>10 DEF StayUp, GoDown
  <1>11. CASE \E listens \in BOOLEAN : RecordListen(listens)
    BY <1>11 DEF RecordListen
  <1>12. CASE Proxying
    BY <1>12 DEF Proxying, commandVars
  <1>13. CASE AcceptFails \/ Collect
    BY <1>13 DEF AcceptFails, Collect
  <1>15. CASE MigrateStart \/ MigrateDone
    BY <1>15 DEF MigrateStart, MigrateDone
  <1>16. CASE \E text \in Texts : MigrateOne(text)
    BY <1>16 DEF MigrateOne
  <1>17. CASE \E how \in Hows : WriteBackup(how)
    BY <1>17 DEF WriteBackup
  <1>18. CASE \E how \in Hows : WriteDestination(how)
    BY <1>18 DEF WriteDestination
  <1>19. CASE \E begun \in BOOLEAN : Crash(begun)
    BY <1>19 DEF Crash
  <1>20. CASE Again
    BY <1>20 DEF Again
  <1> QED  BY <1>2, <1>3, <1>4, <1>5, <1>8, <1>9, <1>10, <1>11, <1>12, <1>13,
              <1>15, <1>16, <1>17, <1>18, <1>19, <1>20

\* They leave what is known of the code.
LEMMA QuietKeeps ==
    ASSUME CodeInv, RunInv', Quiet
    PROVE  CodeInv'
  <1>1. /\ UNCHANGED <<inv, written, plan, document>> /\ stage' # "write"
        /\ stage \notin {"write", "end"} \/ (stage' = "start" /\ inv.command = "migrate")
        /\ stage' = "end" /\ inv.args = "ok" =>
             exit' = ExitBadFile \/ inv.command \notin {"compare", "debug", "record"}
    BY DEF Quiet
  <1>2. BlankInv'
    BY <1>1 DEF CodeInv, BlankInv
  <1>3. PendingInv' /\ PlanInv'
    BY <1>1 DEF PendingInv, PlanInv
  <1>4. stage' = "end" => ~Ran'
    BY <1>1 DEF CodeInv, RunInv, AcceptedInv, Ran
  <1>5. EndInv'
    BY <1>1, <1>4 DEF EndInv, ExitBadFile, ExitPassed
  <1> QED  BY <1>2, <1>3, <1>5 DEF CodeInv

\* Judged and Expected are of the scenario, the document and the invocation alone.
LEMMA SameVerdict ==
    ASSUME inv' = inv, spec' = spec, document' = document
    PROVE  Judged' = Judged /\ Expected' = Expected /\ (Ran' <=> Ran)
  BY DEF Judged, Expected, Baseline, Ran

\* A run begins to write with every output absent and its code known.
LEMMA ExecuteKeeps ==
    ASSUME CodeInv, RunInv', NEW o \in Outcomes, ExecuteSpec(o)
    PROVE  CodeInv'
  <1>1. /\ UNCHANGED <<inv, written, spec>> /\ stage = "ready" /\ inv.command \in Runners
        /\ document' = <<Document(spec, o)>>
    BY DEF ExecuteSpec, Runners
  <1>2. inv.outputs \in SUBSET Outputs
    BY RunAssumption DEF CodeInv, RunInv
  <1>3. DOMAIN written = Outputs /\ \A x \in Outputs : written[x] = "absent"
    BY <1>1 DEF CodeInv, BlankInv, Runners
  <1>4. inv.command # "record" /\ inv.command # "compare" /\ inv.command # "debug"
    BY <1>1 DEF Runners
  <1>5. CASE inv.baseline = "unreadable"
    <2>1. exit' = ExitBadFile /\ stage' = "end" /\ plan' = plan
      BY <1>5 DEF ExecuteSpec, Exit
    <2>2. BlankInv'
      BY <1>1, <1>3, <2>1 DEF CodeInv, BlankInv
    <2>3. PendingInv' /\ PlanInv' /\ EndInv'
      BY <1>1, <1>4, <2>1 DEF PendingInv, PlanInv, EndInv
    <2> QED  BY <2>2, <2>3 DEF CodeInv
  <1>6. CASE inv.baseline # "unreadable"
    <2>1. /\ stage' = "write"
          /\ plan' = [pending |-> Order(inv.outputs), failed |-> ExitSLO,
                      final |-> ExitCode(document'[1], Evaluate(RulesOf(spec), document'[1], Baseline))]
      BY <1>6 DEF ExecuteSpec, Go
    <2>2. plan'.pending = Order(inv.outputs) /\ plan'.failed = ExitSLO /\ plan'.final = Judged'
      BY <1>1, <2>1 DEF Judged, Baseline
    <2>3. BlankInv'
      BY <1>1, <1>3, <2>1 DEF BlankInv
    <2>4. OneEach(plan'.pending, inv.outputs)
      BY <1>2, <2>2, OrderNamesAll
    <2>5. Expected' = inv.outputs
      BY <1>1 DEF Expected, Runners
    <2>6. PendingInv'
      <3>1. /\ OneEach(plan'.pending, inv.outputs)
            /\ \A x \in inv.outputs : written'[x] = "absent"
            /\ \A x \in Expected' : written'[x] = "whole" \/ x \in inv.outputs
            /\ inv'.command \in Runners => inv.outputs \subseteq inv'.outputs
        BY <1>1, <1>2, <1>3, <2>4, <2>5
      <3> QED  BY <1>2, <3>1, Zenon DEF PendingInv
    <2>7. PlanInv'
      BY <1>1, <1>4, <2>2 DEF PlanInv, Ran
    <2>8. EndInv'
      BY <2>1 DEF EndInv
    <2> QED  BY <2>3, <2>6, <2>7, <2>8 DEF CodeInv
  <1> QED  BY <1>5, <1>6

\* A command begins to write what its plan names, of outputs that are absent.
LEMMA PlanMade ==
    ASSUME CodeInv, RunInv', UNCHANGED <<inv, written>>, stage \notin {"write", "end"},
           inv.command \in {"record", "compare", "report"}, stage' = "write",
           NEW S \in SUBSET Outputs, OneEach(plan'.pending, S), Expected' \subseteq S,
           {"pending", "failed", "final"} \subseteq DOMAIN plan', PlanInv'
    PROVE  CodeInv'
  <1>1. DOMAIN written = Outputs /\ \A x \in Outputs : written[x] = "absent"
    BY DEF CodeInv, BlankInv
  <1>2. BlankInv'
    BY <1>1 DEF BlankInv
  <1>3. inv'.command \notin Runners
    BY DEF Runners
  <1>4. PendingInv'
    <2>1. /\ OneEach(plan'.pending, S)
          /\ \A x \in S : written'[x] = "absent"
          /\ \A x \in Expected' : written'[x] = "whole" \/ x \in S
          /\ inv'.command \in Runners => S \subseteq inv'.outputs
      BY <1>1, <1>3
    <2> QED  BY <2>1, Zenon DEF PendingInv
  <1>5. EndInv'
    BY DEF EndInv
  <1> QED  BY <1>2, <1>4, <1>5 DEF CodeInv

\* report has one output at least.
LEMMA ReportKeeps ==
    ASSUME CodeInv, RunInv', Report
    PROVE  CodeInv'
  <1>1. /\ UNCHANGED <<inv, written, spec, document>> /\ stage = "start" /\ inv.command = "report"
    BY DEF Report, Started
  <1>2. inv.outputs \in SUBSET Outputs
    BY RunAssumption DEF CodeInv, RunInv
  <1>3. CASE inv.baseline # "read"
    <2>1. Quiet
      BY <1>1, <1>3 DEF Report, Quiet, Exit
    <2> QED  BY <2>1, QuietKeeps
  <1>4. CASE inv.baseline = "read"
    <2> DEFINE S == IF inv.outputs = {} THEN {"html"} ELSE inv.outputs
    <2>1. /\ stage' = "write"
          /\ plan' = [pending |-> IF inv.outputs = {} THEN <<"html">> ELSE Order(inv.outputs),
                      failed |-> ExitSLO, final |-> ExitPassed]
      BY <1>4 DEF Report, Go
    <2>2. plan'.pending = IF inv.outputs = {} THEN <<"html">> ELSE Order(inv.outputs)
      BY <2>1
    <2>3. OneEach(<<"html">>, {"html"})
      BY DEF OneEach, Outputs
    <2>4. OneEach(plan'.pending, S)
      BY <1>2, <2>2, <2>3, OrderNamesAll
    <2>5. S \in SUBSET Outputs
      BY <1>2 DEF Outputs
    <2>6. Expected' = {}
      BY <1>1 DEF Expected, Runners
    <2>7. PlanInv'
      BY <1>1 DEF PlanInv, Runners
    <2>8. {"pending", "failed", "final"} \subseteq DOMAIN plan'
      BY <2>1
    <2> HIDE DEF S
    <2> QED  BY <1>1, <2>1, <2>4, <2>5, <2>6, <2>7, <2>8, PlanMade
  <1> QED  BY <1>3, <1>4

\* compare knows its code before it writes.
LEMMA CompareKeeps ==
    ASSUME CodeInv, RunInv', NEW printed \in BOOLEAN, CompareRuns(printed)
    PROVE  CodeInv'
  <1>1. /\ UNCHANGED <<inv, written, spec, document>> /\ stage = "start" /\ inv.command = "compare"
    BY DEF CompareRuns, Started
  <1>2. inv.outputs \in SUBSET Outputs
    BY RunAssumption DEF CodeInv, RunInv
  <1>3. CASE inv.baseline # "read" \/ ~printed
    <2>1. Quiet
      BY <1>1, <1>3 DEF CompareRuns, Quiet, Exit
    <2> QED  BY <2>1, QuietKeeps
  <1>4. CASE ~(inv.baseline # "read" \/ ~printed)
    <2> DEFINE S == inv.outputs \intersect {"html"}
    <2>1. /\ stage' = "write"
          /\ plan' = [pending |-> Order(S), failed |-> ExitBadFile,
                      final |-> IF Comparison(inv.before, inv.after).comparable
                                THEN ExitPassed ELSE ExitInvalid]
      BY <1>4 DEF CompareRuns, Go
    <2>2. S \in SUBSET Outputs
      BY <1>2
    <2>3. Comparison(inv.before, inv.after).comparable = Comparable(inv.before, inv.after)
      BY DEF Comparison
    <2> HIDE DEF S
    <2>4. /\ plan'.pending = Order(S) /\ plan'.failed = ExitBadFile
          /\ plan'.final = IF Comparable(inv.before, inv.after) THEN ExitPassed ELSE ExitInvalid
      BY <2>1, <2>3
    <2>5. OneEach(plan'.pending, S)
      BY <2>2, <2>4, OrderNamesAll
    <2>6. Expected' = {}
      BY <1>1 DEF Expected, Runners
    <2>7. PlanInv'
      BY <1>1, <2>4 DEF PlanInv, Runners
    <2>8. {"pending", "failed", "final"} \subseteq DOMAIN plan'
      BY <2>1
    <2> QED  BY <1>1, <2>1, <2>2, <2>5, <2>6, <2>7, <2>8, PlanMade
  <1> QED  BY <1>3, <1>4

\* record has the scenario on disk before the first data file.
LEMMA BuildKeeps ==
    ASSUME CodeInv, RunInv', NEW how \in Hows, BuildScenario(how)
    PROVE  CodeInv'
  <1>1. PICK generated : generated = RenderYAML(Groups, Correlate(Groups), inv.edited)
    OBVIOUS
  <1>2. PICK accepted : accepted = (kept.entries # <<>> /\ Parse(generated, inv.defined))
    OBVIOUS
  <1>3. /\ UNCHANGED <<inv, written, document>> /\ stage = "collected" /\ inv.command = "record"
    BY DEF BuildScenario, CodeInv, RunInv, StagesInv
  <1>4. CASE ~(kept.entries # <<>> /\ Parse(generated, inv.defined) /\ how = "whole")
    <2>1. stage' = "end" /\ exit' = ExitSLO /\ plan' = plan
      BY <1>1, <1>4 DEF BuildScenario, Exit
    <2>2. BlankInv'
      BY <1>3, <2>1 DEF CodeInv, BlankInv
    <2>3. ~Ran'
      BY <1>3 DEF CodeInv, RunInv, AcceptedInv, Ran
    <2>4. PendingInv' /\ PlanInv' /\ EndInv'
      BY <1>3, <2>1, <2>3 DEF PendingInv, PlanInv, EndInv, ExitSLO, ExitPassed
    <2> QED  BY <2>2, <2>4 DEF CodeInv
  <1>5. CASE kept.entries # <<>> /\ Parse(generated, inv.defined) /\ how = "whole"
    <2> DEFINE S == IF SourcesOf(generated) = {} THEN {} ELSE {"csv"}
    <2>1. /\ stage' = "write" /\ spec' = generated /\ other' = Write(other, generated, how)
          /\ plan' = [pending |-> IF SourcesOf(generated) = {} THEN <<>> ELSE <<"csv">>,
                      failed |-> ExitSLO, final |-> ExitPassed]
      BY <1>1, <1>5 DEF BuildScenario, Go
    <2>2. other' = [state |-> "whole", doc |-> spec']
      BY <1>5, <2>1 DEF Write
    <2>3. /\ plan'.pending = IF SourcesOf(generated) = {} THEN <<>> ELSE <<"csv">>
          /\ plan'.failed = ExitSLO /\ plan'.final = ExitPassed
      BY <2>1
    <2>4. OneEach(<<"csv">>, {"csv"}) /\ OneEach(<<>>, {})
      BY DEF OneEach, Outputs
    <2>5. OneEach(plan'.pending, S)
      BY <2>3, <2>4
    <2>6. S \in SUBSET Outputs
      BY DEF Outputs
    <2>7. Expected' = S
      BY <1>3, <2>1 DEF Expected, Runners
    <2>8. PlanInv'
      BY <1>3, <2>2, <2>3 DEF PlanInv, Runners
    <2>9. {"pending", "failed", "final"} \subseteq DOMAIN plan'
      BY <2>1
    <2> HIDE DEF S
    <2> QED  BY <1>3, <2>1, <2>5, <2>6, <2>7, <2>8, <2>9, PlanMade
  <1> QED  BY <1>4, <1>5

\* The code of one iteration is good only when every step was observed.
LEMMA DebugKeeps ==
    ASSUME CodeInv, RunInv', NEW observed \in 0 .. Len(StepsOf(spec)), NEW class, NEW printed,
           Debug(observed, class, printed)
    PROVE  CodeInv'
  <1>1. /\ UNCHANGED <<inv, written, spec, document>> /\ stage = "ready" /\ inv.command = "debug"
        /\ plan' = [plan EXCEPT !.final = observed] /\ stage' = "end"
        /\ exit' = CASE observed = 0 -> ExitSLO
                     [] observed > 0 /\ ~printed -> ExitBadFile
                     [] OTHER -> IF Complete(observed, class) THEN ExitPassed ELSE ExitSLO
    BY DEF Debug, Exit
  <1>2. StepsOf(spec) = spec.steps /\ Len(spec.steps) \in Nat
    <2>1. Accepted(spec)
      BY <1>1 DEF CodeInv, RunInv, AcceptedInv
    <2> QED  BY <2>1, WhatWasAccepted
  <1>3. plan'.final = observed /\ {"pending", "failed", "final"} \subseteq DOMAIN plan'
    BY <1>1 DEF CodeInv, BlankInv
  <1>4. exit' = ExitPassed => observed = Len(spec.steps)
    BY <1>1, <1>2 DEF Complete, ExitPassed, ExitSLO, ExitBadFile
  <1>5. BlankInv'
    BY <1>1, <1>3 DEF CodeInv, BlankInv
  <1>6. ~Ran'
    BY <1>1 DEF CodeInv, RunInv, AcceptedInv, Ran
  <1>7. PendingInv' /\ PlanInv' /\ EndInv'
    BY <1>1, <1>3, <1>4, <1>6 DEF PendingInv, PlanInv, EndInv
  <1> QED  BY <1>5, <1>7 DEF CodeInv

\* One output more, or the end.
LEMMA WriteKeeps ==
    ASSUME CodeInv, RunInv', NEW how \in Hows, WriteNext(how)
    PROVE  CodeInv'
  <1> DEFINE first == Head(plan.pending)
  <1>1. /\ UNCHANGED <<inv, other, spec, document>> /\ stage = "write" /\ plan.pending # <<>>
        /\ written' = IF how = "refused" THEN written ELSE [written EXCEPT ![first] = how]
        /\ plan' = [plan EXCEPT !.pending = Tail(plan.pending)]
    BY DEF WriteNext
  <1>2. PICK S \in SUBSET Outputs :
            /\ OneEach(plan.pending, S)
            /\ \A o \in S : written[o] = "absent"
            /\ \A o \in Expected : written[o] = "whole" \/ o \in S
            /\ inv.command \in Runners => S \subseteq inv.outputs
    BY <1>1 DEF CodeInv, PendingInv
  <1>3. first \in S /\ first \in Outputs /\ OneEach(Tail(plan.pending), S \ {first})
    BY <1>1, <1>2, FirstTaken
  <1> HIDE DEF first
  <1>4. DOMAIN written = Outputs /\ {"pending", "failed", "final"} \subseteq DOMAIN plan
    BY DEF CodeInv, BlankInv
  <1>5. /\ plan'.pending = Tail(plan.pending) /\ plan'.failed = plan.failed /\ plan'.final = plan.final
        /\ {"pending", "failed", "final"} \subseteq DOMAIN plan'
    BY <1>1, <1>4
  <1>6. /\ DOMAIN written' = Outputs
        /\ \A o \in Outputs \ {first} : written'[o] = written[o]
        /\ how = "whole" => written'[first] = "whole"
        /\ how # "whole" => written'[first] # "whole"
    BY <1>1, <1>2, <1>3, <1>4 DEF Hows
  <1>7. Judged' = Judged /\ Expected' = Expected /\ (Ran' <=> Ran)
    BY <1>1, SameVerdict
  <1>8. CASE how = "whole"
    <2>1. stage' = "write"
      BY <1>8 DEF WriteNext, Go
    <2>2. BlankInv'
      BY <1>5, <1>6, <2>1 DEF BlankInv
    <2>3. PendingInv'
      <3>1. S \ {first} \in SUBSET Outputs
        OBVIOUS
      <3>2. \A o \in Expected' : written'[o] = "whole" \/ o \in S \ {first}
        <4> SUFFICES ASSUME NEW o \in Expected PROVE written'[o] = "whole" \/ o \in S \ {first}
          BY <1>7
        <4>1. Expected \subseteq Outputs
          BY RunAssumption DEF CodeInv, RunInv, Expected, Outputs
        <4> QED  BY <1>2, <1>6, <1>8, <4>1
      <3>3. /\ OneEach(plan'.pending, S \ {first})
            /\ \A o \in S \ {first} : written'[o] = "absent"
            /\ inv'.command \in Runners => S \ {first} \subseteq inv'.outputs
        BY <1>1, <1>2, <1>3, <1>5, <1>6
      <3> QED  BY <3>1, <3>2, <3>3, Zenon DEF PendingInv
    <2>4. PlanInv'
      BY <1>1, <1>5, <1>7 DEF CodeInv, PlanInv
    <2>5. EndInv'
      BY <2>1 DEF EndInv
    <2> QED  BY <2>2, <2>3, <2>4, <2>5 DEF CodeInv
  <1>9. CASE how # "whole"
    <2>1. stage' = "end" /\ exit' = plan.failed
      BY <1>9 DEF WriteNext, Exit
    <2>2. BlankInv'
      BY <1>5, <1>6, <2>1 DEF BlankInv
    <2>3. PendingInv' /\ PlanInv'
      BY <2>1 DEF PendingInv, PlanInv
    <2>4. ASSUME Ran PROVE exit' = ExitSLO /\ ~Done'
      <3>1. inv.command \in Runners
        BY <2>4 DEF CodeInv, RunInv, AcceptedInv
      <3>2. exit' = ExitSLO
        BY <1>1, <2>1, <3>1 DEF CodeInv, PlanInv
      <3>3. Expected' = inv.outputs /\ first \in inv.outputs
        BY <1>2, <1>3, <1>7, <3>1 DEF Expected, Runners
      <3> QED  BY <1>6, <1>9, <3>2, <3>3 DEF Done
    <2>5. inv.command \in Runners \cup {"record", "compare", "report"}
      BY <1>1 DEF CodeInv, PlanInv
    <2>6. (inv.command = "compare" => exit' = ExitBadFile) /\ (inv.command = "record" => exit' = ExitSLO)
      BY <1>1, <2>1 DEF CodeInv, PlanInv
    <2>7. EndInv'
      <3>1. inv.command # "debug"
        BY <2>5 DEF Runners
      <3>2. inv.command = "record" => exit' # ExitPassed
        BY <2>6 DEF ExitSLO, ExitPassed
      <3> QED  BY <1>1, <1>7, <2>4, <2>6, <3>1, <3>2 DEF EndInv
    <2> QED  BY <2>2, <2>3, <2>7 DEF CodeInv
  <1> QED  BY <1>8, <1>9

\* Everything is written, and the code is the one that was planned.
LEMMA DoneKeeps ==
    ASSUME CodeInv, RunInv', WriteDone
    PROVE  CodeInv'
  <1>1. /\ UNCHANGED <<inv, other, written, spec, document, plan>> /\ stage = "write" /\ plan.pending = <<>>
        /\ stage' = "end" /\ exit' = plan.final
    BY DEF WriteDone, Exit
  <1>2. PICK S \in SUBSET Outputs :
            /\ OneEach(plan.pending, S)
            /\ \A o \in Expected : written[o] = "whole" \/ o \in S
    BY <1>1 DEF CodeInv, PendingInv
  <1>3. S = {}
    BY <1>1, <1>2 DEF OneEach
  <1>4. Judged' = Judged /\ Expected' = Expected /\ (Ran' <=> Ran)
    BY <1>1, SameVerdict
  <1>5. Done'
    BY <1>1, <1>2, <1>3, <1>4 DEF Done
  <1>6. BlankInv'
    BY <1>1 DEF CodeInv, BlankInv
  <1>7. PendingInv' /\ PlanInv'
    BY <1>1 DEF PendingInv, PlanInv
  <1>8. Ran => inv.command \in Runners
    BY DEF CodeInv, RunInv, AcceptedInv
  <1>9. /\ inv.command \in Runners \cup {"record", "compare", "report"}
        /\ inv.command \in Runners => plan.final = Judged
        /\ inv.command = "record" => plan.final = ExitPassed /\ other = [state |-> "whole", doc |-> spec]
        /\ inv.command = "compare" =>
             plan.final = IF Comparable(inv.before, inv.after) THEN ExitPassed ELSE ExitInvalid
    BY <1>1 DEF CodeInv, PlanInv
  <1>10. EndInv'
    BY <1>1, <1>4, <1>5, <1>8, <1>9 DEF EndInv, Runners
  <1> QED  BY <1>6, <1>7, <1>10 DEF CodeInv

\* Nothing is written and nothing has ended when a command starts.
LEMMA CodeInit == Init => CodeInv
  <1> SUFFICES ASSUME Init PROVE CodeInv
    OBVIOUS
  <1>1. RunInv
    BY RunInit
  <1>2. stage = "start" /\ written = [o \in Outputs |-> "absent"] /\ plan = NoPlan
    BY DEF Init
  <1>3. BlankInv
    BY <1>2 DEF BlankInv, NoPlan
  <1>4. PendingInv /\ PlanInv /\ EndInv
    BY <1>2 DEF PendingInv, PlanInv, EndInv
  <1> QED  BY <1>1, <1>3, <1>4 DEF CodeInv

\* Every step keeps what is known of the code.
LEMMA CodeStep == CodeInv /\ [Next]_vars => CodeInv'
  <1> SUFFICES ASSUME CodeInv, [Next]_vars PROVE CodeInv'
    OBVIOUS
  <1>1. RunInv'
    BY RunStep DEF CodeInv
  <1>2. CASE UNCHANGED vars
    <2>1. UNCHANGED <<inv, stage, exit, other, written, spec, document, plan>>
      BY <1>2 DEF vars, commandVars
    <2>2. Judged' = Judged /\ Expected' = Expected /\ (Ran' <=> Ran)
      BY <2>1, SameVerdict
    <2>3. BlankInv'
      BY <2>1 DEF CodeInv, BlankInv
    <2>4. PendingInv'
      BY <2>1, <2>2 DEF CodeInv, PendingInv
    <2>5. PlanInv'
      BY <2>1, <2>2 DEF CodeInv, PlanInv
    <2>6. EndInv'
      BY <2>1, <2>2 DEF CodeInv, EndInv, Done
    <2> QED  BY <1>1, <2>3, <2>4, <2>5, <2>6 DEF CodeInv
  <1>3. CASE \E o \in Outcomes : ExecuteSpec(o)
    BY <1>1, <1>3, ExecuteKeeps
  <1>4. CASE \E how \in Hows : WriteNext(how)
    BY <1>1, <1>4, WriteKeeps
  <1>5. CASE WriteDone
    BY <1>1, <1>5, DoneKeeps
  <1>6. CASE \E observed \in 0 .. Len(StepsOf(spec)), class \in {"success", "network"}, printed \in BOOLEAN :
               Debug(observed, class, printed)
    BY <1>1, <1>6, DebugKeeps
  <1>7. CASE Report
    BY <1>1, <1>7, ReportKeeps
  <1>8. CASE \E printed \in BOOLEAN : CompareRuns(printed)
    BY <1>1, <1>8, CompareKeeps
  <1>9. CASE \E how \in Hows : BuildScenario(how)
    BY <1>1, <1>9, BuildKeeps
  <1>10. CASE Next /\ ~(\E o \in Outcomes : ExecuteSpec(o)) /\ ~(\E how \in Hows : WriteNext(how)) /\ ~WriteDone
              /\ ~(\E observed \in 0 .. Len(StepsOf(spec)), class \in {"success", "network"}, printed \in BOOLEAN :
                     Debug(observed, class, printed))
              /\ ~Report /\ ~(\E printed \in BOOLEAN : CompareRuns(printed)) /\ ~(\E how \in Hows : BuildScenario(how))
    <2>1. RunInv
      BY DEF CodeInv
    <2>2. Quiet
      BY <1>10, <2>1, QuietSteps, Zenon DEF Next
    <2> QED  BY <1>1, <2>2, QuietKeeps
  <1> QED  BY <1>2, <1>3, <1>4, <1>5, <1>6, <1>7, <1>8, <1>9, <1>10

\* The code and the outputs of a command are decided together: whatever is refused, torn or
\* never reached, the end is one of those EndInv lists.
THEOREM CodesAreDecided == Spec => []CodeInv
  <1>1. Init => CodeInv
    BY CodeInit
  <1>2. CodeInv /\ [Next]_vars => CodeInv'
    BY CodeStep
  <1> QED  BY <1>1, <1>2, PTL DEF Spec

\* ExitTellsTheTruth of every scenario, every outcome and every write that fails: the code
\* is that of the rules as their author means them (runner.go:124).
THEOREM ExitCodesTellTheTruth == Spec => []ExitTellsTheTruth
  <1>1. CodeInv => ExitTellsTheTruth
    <2> SUFFICES ASSUME CodeInv, stage = "end", inv.args = "ok" PROVE ExitTellsTheTruth
      BY DEF ExitTellsTheTruth
    <2> DEFINE d == document[1]
               rules == {RulesOf(spec)[i] : i \in DOMAIN RulesOf(spec)}
               complete == \A o \in inv.outputs : written[o] = "whole"
    <2>1. EndInv /\ inv \in Invocations
      BY DEF CodeInv, RunInv
    <2>2. ASSUME Ran
          PROVE  /\ Accepted(spec) /\ (\E o \in Outcomes : d = Document(spec, o))
                 /\ Done <=> complete
                 /\ \/ exit = ExitBadFile \/ (exit = ExitSLO /\ ~complete)
                    \/ exit = Judged /\ complete
      <3>1. inv.command \in Runners /\ Accepted(spec) /\ \E o \in Outcomes : document = <<Document(spec, o)>>
        BY <2>2 DEF CodeInv, RunInv, AcceptedInv
      <3>2. \E o \in Outcomes : d = Document(spec, o)
        BY <3>1
      <3>3. Expected = inv.outputs
        BY <3>1 DEF Expected, Runners
      <3>4. Done <=> complete
        BY <3>3, Zenon DEF Done
      <3>5. exit = ExitBadFile \/ (exit = ExitSLO /\ ~Done) \/ (exit = Judged /\ Done)
        BY <2>1, <2>2, Zenon DEF EndInv
      <3> HIDE DEF d, complete
      <3> QED  BY <3>1, <3>2, <3>4, <3>5, Zenon
    <2>3. ASSUME Ran, NEW i \in DOMAIN RulesOf(spec), ~ClosedStepRule(RulesOf(spec)[i], d),
                 ~Unbased(RulesOf(spec)[i])
          PROVE  EvaluateRule(RulesOf(spec)[i], d, Baseline).passed <=> Holds(RulesOf(spec)[i], d)
      <3> HIDE DEF d
      <3>1. PICK o \in Outcomes : d = Document(spec, o)
        BY <2>2, <2>3
      <3>2. Accepted(spec)
        BY <2>2, <2>3
      <3> QED  BY <2>1, <2>3, <3>1, <3>2, RulesAgree
    <2>4. Judged = ExitCode(d, Evaluate(RulesOf(spec), d, Baseline))
      BY DEF Judged
    <2> HIDE DEF d, complete
    <2>5. /\ Judged = ExitPassed => Valid(d) /\ Evaluate(RulesOf(spec), d, Baseline)
          /\ Judged = ExitSLO => Valid(d) /\ ~Evaluate(RulesOf(spec), d, Baseline)
          /\ Judged = ExitInvalid => ~Valid(d)
      BY <2>4 DEF ExitCode, ExitPassed, ExitSLO, ExitInvalid
    <2>6. Ran /\ exit = ExitPassed =>
            Valid(d) /\ complete /\ \A r \in rules : ClosedStepRule(r, d) \/ Unbased(r) \/ Holds(r, d)
      <3> SUFFICES ASSUME Ran, exit = ExitPassed
                   PROVE  Valid(d) /\ complete /\ \A r \in rules : ClosedStepRule(r, d) \/ Unbased(r) \/ Holds(r, d)
        OBVIOUS
      <3>1. Judged = ExitPassed /\ complete
        BY <2>2 DEF ExitBadFile, ExitSLO, ExitPassed
      <3>2. Valid(d) /\ Evaluate(RulesOf(spec), d, Baseline)
        BY <2>5, <3>1
      <3>3. \A i \in DOMAIN RulesOf(spec) :
               ClosedStepRule(RulesOf(spec)[i], d) \/ Unbased(RulesOf(spec)[i]) \/ Holds(RulesOf(spec)[i], d)
        BY <2>3, <3>2 DEF Evaluate
      <3> QED  BY <3>1, <3>2, <3>3
    <2>7. Ran /\ exit = ExitSLO =>
            \/ ~complete
            \/ Valid(d) /\ \E r \in rules : ClosedStepRule(r, d) \/ (~Unbased(r) /\ ~Holds(r, d))
      <3> SUFFICES ASSUME Ran, exit = ExitSLO, complete
                   PROVE  Valid(d) /\ \E r \in rules : ClosedStepRule(r, d) \/ (~Unbased(r) /\ ~Holds(r, d))
        OBVIOUS
      <3>1. Judged = ExitSLO
        BY <2>2 DEF ExitBadFile, ExitSLO
      <3>2. Valid(d) /\ ~Evaluate(RulesOf(spec), d, Baseline)
        BY <2>5, <3>1
      <3>3. PICK i \in DOMAIN RulesOf(spec) : ~EvaluateRule(RulesOf(spec)[i], d, Baseline).passed
        BY <3>2 DEF Evaluate
      <3>4. ~Unbased(RulesOf(spec)[i])
        BY <3>3, UnbasedPasses
      <3>5. ClosedStepRule(RulesOf(spec)[i], d) \/ ~Holds(RulesOf(spec)[i], d)
        BY <2>3, <3>3, <3>4
      <3> QED  BY <3>2, <3>4, <3>5
    <2>8. Ran /\ exit = ExitInvalid => complete /\ ~Valid(d)
      BY <2>2, <2>5 DEF ExitBadFile, ExitSLO, ExitInvalid
    <2>9. /\ inv.command = "compare" /\ exit = ExitPassed => Valid(inv.before) /\ Valid(inv.after)
          /\ inv.command = "compare" /\ exit = ExitInvalid => ~Valid(inv.before) \/ ~Valid(inv.after)
      BY <2>1 DEF EndInv, Comparable, ExitBadFile, ExitPassed, ExitInvalid
    <2>10. inv.command = "debug" /\ exit = ExitPassed => plan.final = Len(spec.steps)
      BY <2>1 DEF EndInv
    <2>11. inv.command = "record" /\ exit = ExitPassed =>
             /\ other = [state |-> "whole", doc |-> spec]
             /\ SourcesOf(spec) # {} => written["csv"] = "whole"
      <3>1. inv.command = "record" /\ exit = ExitPassed => other = [state |-> "whole", doc |-> spec] /\ Done
        BY <2>1 DEF EndInv
      <3>2. inv.command = "record" /\ SourcesOf(spec) # {} => Expected = {"csv"}
        BY DEF Expected, Runners
      <3> QED  BY <3>1, <3>2 DEF Done
    <2> QED  BY <2>6, <2>7, <2>8, <2>9, <2>10, <2>11, Zenon DEF ExitTellsTheTruth, d, complete
  <1> QED  BY <1>1, CodesAreDecided, PTL
=============================================================================
