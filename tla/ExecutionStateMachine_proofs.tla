-------------------- MODULE ExecutionStateMachine_proofs --------------------
(***************************************************************************)
(* Safety of the execution state machine for every cap, history length,    *)
(* calendar and set of candles.  The inductive invariant adds to the       *)
(* properties of the specification how the two remembered times relate,    *)
(* and that nothing the machine holds is younger than the latest close.    *)
(*                                                                         *)
(* Before it the weekend boundary (EngineClock), for every length of the   *)
(* day and every cut: what the code's calendar arithmetic computes, when   *)
(* it agrees with the reference "a Friday 22:00 lies between the two       *)
(* closes" and when it does not.                                           *)
(***************************************************************************)
EXTENDS ExecutionStateMachine, FiniteSetTheorems, SequenceTheorems, WellFoundedInduction,
        TLAPS

---------------------------------------------------------------------------
(* The weekend boundary.                                                   *)

LEMMA DivMod ==
  ASSUME NEW a \in Int, NEW b \in Nat \ {0}
  PROVE  /\ a \div b \in Int
         /\ a % b \in 0 .. b - 1
         /\ a = b * (a \div b) + (a % b)
OBVIOUS

LEMMA DivUnique ==
  ASSUME NEW b \in Nat \ {0}, NEW q \in Int, NEW r \in 0 .. b - 1
  PROVE  (b * q + r) \div b = q
OBVIOUS

LEMMA TimesMonotone ==
  ASSUME NEW a \in Int, NEW b \in Int, NEW d \in Nat, a <= b
  PROVE  d * a <= d * b
OBVIOUS

\* Going back ((weekday - 4) % 7) days from any day reaches a Friday.
LEMMA BackToFriday ==
  ASSUME NEW d \in Int
  PROVE  LET m == ((d % 7) - 4) % 7
         IN  m \in 0 .. 6 /\ \E k \in Int : d - m = 7 * k + 4
<1> DEFINE p == d % 7
           q == d \div 7
           m == (p - 4) % 7
           u == (p - 4) \div 7
<1>1. p \in 0 .. 6 /\ q \in Int /\ d = 7 * q + p
  BY DivMod
<1>2. m \in 0 .. 6 /\ u \in Int /\ p - 4 = 7 * u + m
  BY <1>1, DivMod
<1> HIDE DEF p, q, m, u
<1>3. q + u \in Int /\ d - m = 7 * (q + u) + 4
  BY <1>1, <1>2
<1>4. QED
  BY <1>2, <1>3 DEF m, p

(***************************************************************************)
(* LatestBoundary(now) is a Friday 22:00, it is not after now, and the     *)
(* next one is: "the latest Friday 22:00" is what the code computes.       *)
(***************************************************************************)
THEOREM LatestBoundaryCorrect ==
  ASSUME NEW now \in Time
  PROVE  \E k \in Int : /\ LatestBoundary(now) = Boundary(k)
                        /\ Boundary(k) <= now
                        /\ now < Boundary(k + 1)
<1> DEFINE d == now \div DayLen
           r == now % DayLen
           m == (Weekday(now) - Friday) % 7
<1>1. /\ DayLen \in Nat \ {0} /\ Cut \in 0 .. DayLen - 1
      /\ now \in Int
  BY ClockAssumption DEF Time
<1>2. d \in Int /\ r \in 0 .. DayLen - 1 /\ now = DayLen * d + r
  BY <1>1, DivMod
<1>3. m \in 0 .. 6 /\ \E k \in Int : d - m = 7 * k + 4
  <2>1. m = ((d % 7) - 4) % 7
    BY DEF Weekday, Friday
  <2> HIDE DEF d, m
  <2>2. QED
    BY <1>2, <2>1, BackToFriday
<1>4. PICK k \in Int : d - m = 7 * k + 4
  BY <1>3
<1> HIDE DEF d, r, m
<1>5. LastFriday(now) = DayLen * (d - m) + r
  <2>1. LastFriday(now) = now - m * DayLen
    BY DEF LastFriday, m
  <2>2. DayLen * (d - m) = DayLen * d - m * DayLen
    BY <1>1, <1>2, <1>3
  <2>3. QED
    BY <1>1, <1>2, <1>3, <2>1, <2>2
<1>6. AtCut(LastFriday(now)) = Boundary(k)
  <2>1. LastFriday(now) \div DayLen = d - m
    BY SMTT(40), <1>1, <1>2, <1>3, <1>5, DivUnique
  <2>2. AtCut(LastFriday(now)) = DayLen * (7 * k + 4) + Cut
    BY <1>4, <2>1 DEF AtCut
  <2>3. DayLen * (7 * k + 4) = (7 * DayLen) * k + 4 * DayLen
    BY <1>1
  <2>4. QED
    BY <2>2, <2>3 DEF Boundary, WeekLen, Friday
<1>7. Boundary(k) \in Int /\ WeekLen \in Int
  BY <1>1 DEF Boundary, WeekLen, Friday
<1>8. Boundary(k - 1) = Boundary(k) - WeekLen /\ Boundary(k + 1) = Boundary(k) + WeekLen
  BY <1>1 DEF Boundary, WeekLen, Friday
<1>9. Boundary(k) = DayLen * (d - m) + Cut
  <2>1. DayLen * (7 * k + 4) = (7 * DayLen) * k + 4 * DayLen
    BY <1>1
  <2>2. QED
    BY <1>4, <2>1 DEF Boundary, WeekLen, Friday
<1>10. CASE Boundary(k) > now
  <2>1. LatestBoundary(now) = Boundary(k - 1)
    BY <1>6, <1>8, <1>10 DEF LatestBoundary
  <2>2. DayLen * (d - m) <= DayLen * d
    BY <1>1, <1>2, <1>3, TimesMonotone
  <2>3. Boundary(k - 1) <= now
    BY <1>1, <1>2, <1>3, <1>7, <1>8, <1>9, <2>2 DEF WeekLen
  <2>4. QED
    BY <1>1, <1>7, <1>10, <2>1, <2>3
<1>11. CASE ~(Boundary(k) > now)
  <2>1. LatestBoundary(now) = Boundary(k)
    BY <1>6, <1>11 DEF LatestBoundary
  <2>2. DayLen * d <= DayLen * ((d - m) + 6)
    BY <1>1, <1>2, <1>3, TimesMonotone
  <2>3. DayLen * ((d - m) + 6) = DayLen * (d - m) + 6 * DayLen
    BY <1>1, <1>2, <1>3
  <2>4. now < Boundary(k + 1)
    BY <1>1, <1>2, <1>3, <1>7, <1>8, <1>9, <2>2, <2>3 DEF WeekLen
  <2>5. QED
    BY <1>1, <1>7, <1>11, <2>1, <2>4
<1>12. QED
  BY <1>10, <1>11

\* Boundaries come a week apart, in order, and never sooner than their index.
LEMMA BoundaryOrder ==
  ASSUME NEW j \in Int, NEW k \in Int
  PROVE  /\ Boundary(j) \in Int
         /\ j < k => Boundary(j + 1) <= Boundary(k)
         /\ j <= k => Boundary(j) <= Boundary(k)
         /\ k >= 0 => k <= Boundary(k)
         /\ k < 0 => Boundary(k) < 0
<1>1. DayLen \in Nat \ {0} /\ Cut \in 0 .. DayLen - 1 /\ WeekLen \in Nat
  BY ClockAssumption DEF WeekLen
<1>2. Boundary(j) \in Int
  BY <1>1 DEF Boundary, Friday
<1>3. j < k => Boundary(j + 1) <= Boundary(k)
  <2>1. j < k => WeekLen * (j + 1) <= WeekLen * k
    BY <1>1, TimesMonotone
  <2>2. WeekLen * (j + 1) \in Int /\ WeekLen * k \in Int
    BY <1>1
  <2>3. QED
    BY <1>1, <2>1, <2>2 DEF Boundary, Friday
<1>4. j <= k => Boundary(j) <= Boundary(k)
  <2>1. j <= k => WeekLen * j <= WeekLen * k
    BY <1>1, TimesMonotone
  <2>2. WeekLen * j \in Int /\ WeekLen * k \in Int
    BY <1>1
  <2>3. QED
    BY <1>1, <2>1, <2>2 DEF Boundary, Friday
<1>5. k >= 0 => k <= Boundary(k)
  <2>1. k >= 0 => k * 1 <= k * WeekLen
    BY <1>1, TimesMonotone DEF WeekLen
  <2>2. k * WeekLen = WeekLen * k /\ WeekLen * k \in Int
    BY <1>1
  <2>3. QED
    BY <1>1, <2>1, <2>2 DEF Boundary, Friday
<1>6. k < 0 => Boundary(k) < 0
  <2>1. k < 0 => WeekLen * k <= WeekLen * (-1)
    BY <1>1, TimesMonotone
  <2>2. WeekLen * k \in Int /\ WeekLen * (-1) = -(7 * DayLen)
    BY <1>1 DEF WeekLen
  <2>3. QED
    BY <1>1, <2>1, <2>2 DEF Boundary, Friday
<1>7. QED
  BY <1>2, <1>3, <1>4, <1>5, <1>6

(***************************************************************************)
(* A detected crossing is a real one: the state machine never resets its   *)
(* trading state without a Friday 22:00 between the two closes.            *)
(***************************************************************************)
THEOREM CrossingSound ==
  ASSUME NEW prevClose \in Time, NEW now \in Time,
         CrossedFriday2200(prevClose, now)
  PROVE  BoundaryBetween(prevClose, now)
<1>1. PICK k \in Int : LatestBoundary(now) = Boundary(k) /\ Boundary(k) <= now
  BY LatestBoundaryCorrect
<1>2. prevClose <= Boundary(k) /\ Boundary(k) < now
  BY <1>1 DEF CrossedFriday2200
<1>3. k \in 0 .. now
  BY <1>2, BoundaryOrder DEF Time
<1>4. QED
  BY <1>2, <1>3 DEF BoundaryBetween

(***************************************************************************)
(* Every crossing is detected, except by a candle that itself closes on a  *)
(* boundary: the one case in which the code departs from its docstring.    *)
(***************************************************************************)
THEOREM CrossingComplete ==
  ASSUME NEW prevClose \in Time, NEW now \in Time,
         ~IsBoundary(now), BoundaryBetween(prevClose, now)
  PROVE  CrossedFriday2200(prevClose, now)
<1>1. PICK j \in 0 .. now : prevClose <= Boundary(j) /\ Boundary(j) < now
  BY DEF BoundaryBetween
<1>2. PICK k \in Int : /\ LatestBoundary(now) = Boundary(k)
                       /\ Boundary(k) <= now
                       /\ now < Boundary(k + 1)
  BY LatestBoundaryCorrect
<1>3. Boundary(k) \in Int /\ Boundary(j) \in Int /\ Boundary(k + 1) \in Int
  BY <1>1, BoundaryOrder DEF Time
<1>4. j <= k
  <2>1. SUFFICES ASSUME k < j PROVE FALSE
    BY <1>1, <1>2 DEF Time
  <2>2. Boundary(k + 1) <= Boundary(j)
    BY <1>1, <1>2, <2>1, BoundaryOrder DEF Time
  <2>3. QED
    BY <1>1, <1>2, <1>3, <2>2 DEF Time
<1>5. Boundary(j) <= Boundary(k)
  BY <1>1, <1>2, <1>4, BoundaryOrder DEF Time
<1>6. Boundary(k) # now
  <2>1. k \in 0 .. now
    BY <1>1, <1>2, <1>4, BoundaryOrder DEF Time
  <2>2. QED
    BY <2>1 DEF IsBoundary
<1>7. QED
  BY <1>1, <1>2, <1>3, <1>5, <1>6 DEF CrossedFriday2200, Time

---------------------------------------------------------------------------
(* The state machine.                                                      *)

\* In a running machine the latest close is that of the latest candle.
TimesAgree ==
  status = "running" =>
    /\ lastOpen = None <=> lastClose = None
    /\ lastClose # None => lastClose = CloseOf(lastOpen)

\* Every open trade and setup was made at a close already processed.
NothingFromTheFuture ==
  /\ \A t \in openTrades : lastClose # None /\ t <= lastClose
  /\ \A k \in SetupKinds : \A s \in setups[k] : lastClose # None /\ s <= lastClose

IInv ==
  /\ TypeOK
  /\ TimesAgree
  /\ NothingFromTheFuture
  /\ ViewsInSync
  /\ PendingMatchesOpen
  /\ AtMostCap
  /\ WeekendFlat

---------------------------------------------------------------------------
(* Lemmas about the operators.                                             *)

LEMMA ConstantFacts ==
  /\ M5Len \in Nat \ {0} /\ EvalStart \in Time /\ RecentCap \in Nat \ {0}
  /\ Opens \subseteq Time /\ None \notin Int /\ None \notin Time
BY ClockAssumption, StateMachineAssumption DEF Time

LEMMA CloseType ==
  ASSUME NEW c \in Time
  PROVE  CloseOf(c) \in Time /\ c < CloseOf(c)
BY ConstantFacts DEF CloseOf, Time

\* s[-n:] is a sequence over the same elements, of at most n of them.
LEMMA LastNProperties ==
  ASSUME NEW S, NEW s \in Seq(S), NEW n \in Nat \ {0}
  PROVE  LastN(s, n) \in Seq(S) /\ Len(LastN(s, n)) <= n
<1>1. Len(s) \in Nat
  BY LenProperties
<1>2. CASE Len(s) <= n
  BY <1>2 DEF LastN
<1>3. CASE ~(Len(s) <= n)
  <2>1. LastN(s, n) = SubSeq(s, Len(s) - n + 1, Len(s))
    BY <1>3 DEF LastN
  <2>2. \A i \in Len(s) - n + 1 .. Len(s) : s[i] \in S
    BY <1>1, <1>3, ElementOfSeq
  <2>3. SubSeq(s, Len(s) - n + 1, Len(s)) \in Seq(S)
    BY <1>1, <1>3, <2>2, SubSeqProperties
  <2>4. Len(SubSeq(s, Len(s) - n + 1, Len(s))) = n
    BY <1>1, <1>3, <2>2, SubSeqProperties
  <2>5. QED
    BY <2>1, <2>3, <2>4
<1>4. QED
  BY <1>2, <1>3

\* The clamp leaves a positive cap whatever the snapshot holds.
LEMMA CapPositive ==
  ASSUME NEW cfg PROVE EffectiveCap(cfg) \in Nat \ {0}
BY DEF EffectiveCap

\* A nonempty set of times has an earliest one, and Oldest is one.
LEMMA OldestExists ==
  ASSUME NEW T \in SUBSET Time, T # {}
  PROVE  Oldest(T) \in T
<1>1. \E t \in T : \A u \in T : <<u, t>> \notin OpToRel(<, Nat)
  BY WFMin, NatLessThanWellFounded, Zenon DEF Time
<1>2. PICK t \in T : \A u \in T : ~(u < t)
  BY <1>1, Zenon DEF OpToRel, Time
<1>3. \A u \in T : t <= u
  BY <1>2 DEF Time
<1>4. QED
  BY <1>3 DEF Oldest

LEMMA ViewType ==
  ASSUME NEW T \in SUBSET Time
  PROVE  ViewOf(T) \in Views
<1>1. CASE T = {}
  BY <1>1 DEF ViewOf, Views
<1>2. CASE T # {}
  <2>1. Oldest(T) \in T
    BY <1>2, OldestExists
  <2>2. QED
    BY <1>2, <2>1 DEF ViewOf, Views
<1>3. QED
  BY <1>1, <1>2

---------------------------------------------------------------------------
(* One call of on_candle_close, seen from the trading state.               *)

TradingType ==
  /\ openTrades \subseteq Time /\ IsFiniteSet(openTrades)
  /\ logged \subseteq Time
  /\ topView \in Views /\ nestedView \in Views
  /\ pending \subseteq Time
  /\ setups \in [SetupKinds -> SUBSET Time]

TradingInv == TradingType /\ ViewsInSync /\ PendingMatchesOpen /\ AtMostCap

\* What a call may add to the trading state it kept: entries of its own close.
Grows(c) ==
  /\ openTrades' \subseteq KeptTrades(c) \cup {CloseOf(c)}
  /\ \A k \in SetupKinds : setups'[k] \subseteq KeptSetups(c)[k] \cup {CloseOf(c)}

LEMMA KeptFacts ==
  ASSUME TradingInv, NEW c
  PROVE  /\ KeptTrades(c) \subseteq openTrades
         /\ KeptTrades(c) \subseteq Time /\ IsFiniteSet(KeptTrades(c))
         /\ Cardinality(KeptTrades(c)) \in Nat
         /\ Cardinality(KeptTrades(c)) <= EffectiveCap(config)
         /\ KeptPending(c) = KeptTrades(c)
         /\ KeptView(c, topView) = ViewOf(KeptTrades(c))
         /\ KeptView(c, nestedView) = ViewOf(KeptTrades(c))
         /\ KeptSetups(c) \in [SetupKinds -> SUBSET Time]
         /\ \A k \in SetupKinds : KeptSetups(c)[k] \subseteq setups[k]
<1> USE DEF TradingInv, TradingType, ViewsInSync, PendingMatchesOpen, AtMostCap
<1>1. CASE Crosses(c)
  <2>1. Cardinality({}) = 0 /\ IsFiniteSet({})
    BY FS_EmptySet
  <2>2. EffectiveCap(config) \in Nat
    BY CapPositive
  <2>3. QED
    BY <1>1, <2>1, <2>2 DEF KeptTrades, KeptPending, KeptView, KeptSetups
<1>2. CASE ~Crosses(c)
  <2>1. Cardinality(openTrades) \in Nat
    BY FS_CardinalityType
  <2>2. QED
    BY <1>2, <2>1 DEF KeptTrades, KeptPending, KeptView, KeptSetups
<1>3. QED
  BY <1>1, <1>2

LEMMA ResetPreserves ==
  ASSUME TradingInv, NEW c \in Opens, config' = config, OnlyReset(c)
  PROVE  TradingInv' /\ Grows(c)
<1>1. CloseOf(c) \in Time
  BY CloseType, ConstantFacts
<1>2. openTrades' = KeptTrades(c) /\ pending' = KeptTrades(c) /\ logged' = logged
  BY KeptFacts DEF OnlyReset
<1>3. topView' = ViewOf(openTrades') /\ nestedView' = ViewOf(openTrades')
  BY <1>2, KeptFacts DEF OnlyReset
<1>4. setups' = KeptSetups(c)
  BY DEF OnlyReset
<1>5. TradingType'
  BY <1>2, <1>3, <1>4, KeptFacts, ViewType DEF TradingType, TradingInv
<1>6. QED
  BY <1>2, <1>3, <1>4, <1>5, KeptFacts
     DEF TradingInv, ViewsInSync, PendingMatchesOpen, AtMostCap, Grows

LEMMA HubPreserves ==
  ASSUME TradingInv, NEW c \in Opens, config' = config, HubTail(c)
  PROVE  TradingInv' /\ Grows(c)
<1>1. CloseOf(c) \in Time
  BY CloseType, ConstantFacts
<1>2. PICK resolved \in SUBSET KeptTrades(c), entered \in SUBSET {CloseOf(c)} :
        /\ entered # {} => Gate(Cardinality(KeptTrades(c)))
        /\ openTrades' = (KeptTrades(c) \ resolved) \cup entered
        /\ topView' = ViewOf(openTrades')
        /\ nestedView' = ViewOf(openTrades')
        /\ pending' = (KeptPending(c) \ resolved) \cup entered
        /\ logged' = logged \cup resolved
        /\ setups' \in {KeptSetups(c),
                        [k \in SetupKinds |-> KeptSetups(c)[k] \cup {CloseOf(c)}],
                        [k \in SetupKinds |-> {}]}
  BY DEF HubTail
<1> DEFINE left == KeptTrades(c) \ resolved
<1>3. /\ IsFiniteSet(left) /\ Cardinality(left) \in Nat
      /\ Cardinality(left) <= Cardinality(KeptTrades(c))
  BY KeptFacts, FS_Subset, FS_CardinalityType
<1> HIDE DEF left
<1>4. EffectiveCap(config) \in Nat /\ Cardinality(KeptTrades(c)) \in Nat
  BY CapPositive, KeptFacts
<1>5. IsFiniteSet(openTrades') /\ Cardinality(openTrades') <= EffectiveCap(config)
  <2>1. CASE entered = {}
    <3>1. openTrades' = left
      BY <1>2, <2>1 DEF left
    <3>2. QED
      BY <1>3, <1>4, <3>1, KeptFacts
  <2>2. CASE entered = {CloseOf(c)}
    <3>1. openTrades' = left \cup {CloseOf(c)}
      BY <1>2, <2>2 DEF left
    <3>2. /\ IsFiniteSet(openTrades')
          /\ Cardinality(openTrades') = IF CloseOf(c) \in left THEN Cardinality(left)
                                        ELSE Cardinality(left) + 1
      BY <1>3, <3>1, FS_AddElement
    <3>3. Cardinality(KeptTrades(c)) < EffectiveCap(config)
      BY <1>2, <2>2 DEF Gate
    <3>4. QED
      BY <1>3, <1>4, <3>2, <3>3
  <2>3. QED
    BY <1>2, <2>1, <2>2
<1>6. openTrades' \subseteq KeptTrades(c) \cup {CloseOf(c)} /\ openTrades' \subseteq Time
  BY <1>1, <1>2, KeptFacts
<1>7. pending' = openTrades'
  BY <1>2, KeptFacts
<1>8. /\ setups' \in [SetupKinds -> SUBSET Time]
      /\ \A k \in SetupKinds : setups'[k] \subseteq KeptSetups(c)[k] \cup {CloseOf(c)}
  BY <1>1, <1>2, KeptFacts
<1>9. TradingType'
  <2>1. ViewOf(openTrades') \in Views
    BY <1>6, ViewType
  <2>2. logged' \subseteq Time
    BY <1>2, KeptFacts DEF TradingInv, TradingType
  <2>3. QED
    BY <1>2, <1>5, <1>6, <1>7, <1>8, <2>1, <2>2 DEF TradingType
<1>10. QED
  BY <1>2, <1>5, <1>6, <1>7, <1>8, <1>9
     DEF TradingInv, ViewsInSync, PendingMatchesOpen, AtMostCap, Grows

---------------------------------------------------------------------------
(* The weekend.                                                            *)

\* A boundary spanned at the new close was spanned before, or lies in this step.
LEMMA SpanSplits ==
  ASSUME NEW e \in Time, NEW prevClose \in Time, NEW now \in Time,
         e <= prevClose, prevClose < now, BoundaryBetween(e, now),
         ~BoundaryBetween(e, prevClose)
  PROVE  BoundaryBetween(prevClose, now)
<1>1. PICK k \in 0 .. now : e <= Boundary(k) /\ Boundary(k) < now
  BY DEF BoundaryBetween
<1>2. Boundary(k) \in Int /\ k <= Boundary(k)
  BY <1>1, BoundaryOrder DEF Time
<1>3. CASE prevClose <= Boundary(k)
  BY <1>1, <1>3 DEF BoundaryBetween
<1>4. CASE Boundary(k) < prevClose
  <2>1. k \in 0 .. prevClose
    BY <1>1, <1>2, <1>4 DEF Time
  <2>2. QED
    BY <1>1, <1>4, <2>1 DEF BoundaryBetween
<1>5. QED
  BY <1>2, <1>3, <1>4 DEF Time

\* Leaving a close that is itself a boundary crosses that boundary.
LEMMA LeavingBoundary ==
  ASSUME NEW prevClose \in Time, NEW now \in Time, prevClose < now, IsBoundary(prevClose)
  PROVE  BoundaryBetween(prevClose, now)
BY DEF IsBoundary, BoundaryBetween, Time

\* What is no younger than the last close and spans a boundary now was reset.
LEMMA SpanningIsReset ==
  ASSUME IInv, NEW c \in Opens, lastClose # None, lastClose < CloseOf(c),
         ~IsBoundary(CloseOf(c)), NEW e \in Time, e <= lastClose,
         BoundaryBetween(e, CloseOf(c)),
         ~IsBoundary(lastClose) => ~BoundaryBetween(e, lastClose)
  PROVE  Crosses(c)
<1>1. lastClose \in Time /\ CloseOf(c) \in Time
  BY CloseType, ConstantFacts DEF IInv, TypeOK
<1>2. BoundaryBetween(lastClose, CloseOf(c))
  BY <1>1, SpanSplits, LeavingBoundary
<1>3. QED
  BY <1>1, <1>2, CrossingComplete DEF Crosses

\* Nothing made at a close spans a boundary at that close.
LEMMA NoSelfSpan ==
  ASSUME NEW t \in Time PROVE ~BoundaryBetween(t, t)
<1>1. ASSUME NEW k \in 0 .. t, t <= Boundary(k), Boundary(k) < t PROVE FALSE
  BY <1>1, BoundaryOrder DEF Time
<1>2. QED
  BY <1>1 DEF BoundaryBetween

---------------------------------------------------------------------------
(* The inductive step.                                                     *)

LEMMA AcceptedIsLater ==
  ASSUME IInv, NEW c \in Opens, status = "running", Accepted(c), lastClose # None
  PROVE  lastClose < CloseOf(c)
<1>1. lastOpen \in Time /\ lastClose = CloseOf(lastOpen) /\ c > lastOpen
  BY DEF IInv, TimesAgree, TypeOK, Accepted
<1>2. QED
  BY <1>1, ConstantFacts DEF CloseOf, Time

\* What a processed candle leaves is not from the future and spans no weekend.
LEMMA ElementSurvives ==
  ASSUME IInv, NEW c \in Opens, status = "running", Accepted(c), NEW e \in Time,
         \/ e = CloseOf(c)
         \/ /\ ~Crosses(c) /\ lastClose # None /\ e <= lastClose
            /\ ~IsBoundary(lastClose) => ~BoundaryBetween(e, lastClose)
  PROVE  /\ e <= CloseOf(c)
         /\ ~IsBoundary(CloseOf(c)) => ~BoundaryBetween(e, CloseOf(c))
<1>1. CloseOf(c) \in Time
  BY CloseType, ConstantFacts
<1>2. CASE e = CloseOf(c)
  BY <1>1, <1>2, NoSelfSpan DEF Time
<1>3. CASE e # CloseOf(c)
  <2>1. lastClose < CloseOf(c) /\ lastClose \in Time
    BY <1>3, AcceptedIsLater DEF IInv, TypeOK
  <2>2. e <= CloseOf(c)
    BY <1>1, <1>3, <2>1 DEF Time
  <2>3. QED
    BY <1>3, <2>1, <2>2, SpanningIsReset
<1>4. QED
  BY <1>2, <1>3

LEMMA ProcessedStep ==
  ASSUME IInv, NEW c \in Opens, status = "running", Accepted(c),
         TradingInv', Grows(c), lastClose' = CloseOf(c)
  PROVE  NothingFromTheFuture' /\ WeekendFlat'
<1>1. CloseOf(c) \in Time /\ CloseOf(c) # None
  BY CloseType, ConstantFacts
<1> DEFINE Fine(e) == /\ e <= CloseOf(c)
                      /\ ~IsBoundary(CloseOf(c)) => ~BoundaryBetween(e, CloseOf(c))
<1>2. ASSUME NEW t \in openTrades' PROVE Fine(t)
  <2>1. t \in Time
    BY DEF TradingInv, TradingType
  <2>2. t = CloseOf(c) \/ (~Crosses(c) /\ t \in openTrades)
    BY DEF Grows, KeptTrades
  <2>3. QED
    BY <2>1, <2>2, ElementSurvives DEF IInv, NothingFromTheFuture, WeekendFlat
<1>3. ASSUME NEW k \in SetupKinds, NEW s \in setups'[k] PROVE Fine(s)
  <2>1. s \in Time
    BY DEF TradingInv, TradingType
  <2>2. s = CloseOf(c) \/ (~Crosses(c) /\ s \in setups[k])
    BY DEF Grows, KeptSetups
  <2>3. QED
    BY <2>1, <2>2, ElementSurvives DEF IInv, NothingFromTheFuture, WeekendFlat
<1>4. QED
  BY <1>1, <1>2, <1>3 DEF NothingFromTheFuture, WeekendFlat

\* A step that raises keeps the latest close and adds nothing.
LEMMA FailedStep ==
  ASSUME IInv, NEW c \in Opens, OnlyReset(c), lastClose' = lastClose
  PROVE  NothingFromTheFuture' /\ WeekendFlat'
<1>1. openTrades' \subseteq openTrades /\ \A k \in SetupKinds : setups'[k] \subseteq setups[k]
  BY KeptFacts DEF OnlyReset, IInv, TypeOK, TradingInv, TradingType
<1>2. QED
  BY <1>1 DEF IInv, NothingFromTheFuture, WeekendFlat

LEMMA HistoryTypes ==
  ASSUME TypeOK, NEW c \in Opens
  PROVE  /\ c \in Time
         /\ PushRecent(c) \in Seq(Time) /\ Len(PushRecent(c)) <= RecentCap
         /\ Append(prior, c) \in Seq(Time)
<1>1. c \in Time
  BY ConstantFacts
<1>2. Append(recent, c) \in Seq(Time) /\ Append(prior, c) \in Seq(Time)
  BY <1>1, AppendProperties DEF TypeOK
<1>3. QED
  BY <1>1, <1>2, LastNProperties, ConstantFacts DEF PushRecent

LEMMA StepPreservesIInv ==
  ASSUME IInv, NEW c \in Opens, OnCandleClose(c)
  PROVE  IInv'
<1>1. TradingInv /\ TypeOK /\ status = "running"
  BY DEF OnCandleClose, IInv, TypeOK, TradingInv, TradingType
<1>2. c \in Time /\ CloseOf(c) \in Time /\ c # None /\ CloseOf(c) # None
  BY CloseType, ConstantFacts
<1>3. CASE RejectCandle(c)
  <2>1. TradingInv'
    BY <1>1, <1>3, ResetPreserves DEF RejectCandle
  <2>2. NothingFromTheFuture' /\ WeekendFlat'
    BY <1>3, FailedStep DEF RejectCandle, machine
  <2>3. TypeOK' /\ TimesAgree'
    BY <1>1, <1>3, <2>1
       DEF RejectCandle, machine, TypeOK, TimesAgree, TradingInv, TradingType
  <2>4. QED
    BY <2>1, <2>2, <2>3 DEF IInv, TradingInv
<1>4. CASE FailBias(c)
  <2>1. TradingInv'
    BY <1>1, <1>4, ResetPreserves DEF FailBias
  <2>2. NothingFromTheFuture' /\ WeekendFlat'
    BY <1>4, FailedStep DEF FailBias
  <2>3. TypeOK' /\ TimesAgree'
    BY <1>1, <1>2, <1>4, <2>1
       DEF FailBias, TypeOK, TimesAgree, TradingInv, TradingType
  <2>4. QED
    BY <2>1, <2>2, <2>3 DEF IInv, TradingInv
<1>5. CASE FailPolicy(c)
  <2>1. TradingInv'
    BY <1>1, <1>5, ResetPreserves DEF FailPolicy, Prepare
  <2>2. NothingFromTheFuture' /\ WeekendFlat'
    BY <1>5, FailedStep DEF FailPolicy
  <2>3. TypeOK' /\ TimesAgree'
    BY <1>1, <1>2, <1>5, <2>1, HistoryTypes
       DEF FailPolicy, Prepare, TypeOK, TimesAgree, TradingInv, TradingType
  <2>4. QED
    BY <2>1, <2>2, <2>3 DEF IInv, TradingInv
<1>6. CASE WarmUpStep(c)
  <2>1. TradingInv' /\ Grows(c)
    BY <1>1, <1>6, ResetPreserves DEF WarmUpStep, Prepare
  <2>2. NothingFromTheFuture' /\ WeekendFlat'
    BY <1>1, <1>6, <2>1, ProcessedStep DEF WarmUpStep, Prepare, Advance
  <2>3. TypeOK' /\ TimesAgree'
    BY <1>1, <1>2, <1>6, <2>1, HistoryTypes
       DEF WarmUpStep, Prepare, Advance, TypeOK, TimesAgree, TradingInv, TradingType
  <2>4. QED
    BY <2>1, <2>2, <2>3 DEF IInv, TradingInv
<1>7. CASE EvaluatedStep(c)
  <2>1. TradingInv' /\ Grows(c)
    BY <1>1, <1>7, HubPreserves DEF EvaluatedStep, Prepare
  <2>2. NothingFromTheFuture' /\ WeekendFlat'
    BY <1>1, <1>7, <2>1, ProcessedStep DEF EvaluatedStep, Prepare, Advance
  <2>3. TypeOK' /\ TimesAgree'
    BY <1>1, <1>2, <1>7, <2>1, HistoryTypes
       DEF EvaluatedStep, Prepare, Advance, TypeOK, TimesAgree, TradingInv, TradingType
  <2>4. QED
    BY <2>1, <2>2, <2>3 DEF IInv, TradingInv
<1>8. QED
  BY <1>3, <1>4, <1>5, <1>6, <1>7 DEF OnCandleClose

LEMMA InitIInv == Init => IInv
<1> SUFFICES ASSUME Init PROVE IInv
  OBVIOUS
<1>1. /\ IsFiniteSet({}) /\ Cardinality({}) = 0
  BY FS_EmptySet
<1>2. ViewOf({}) \in Views
  BY ViewType
<1>3. EffectiveCap(config) \in Nat \ {0}
  BY CapPositive
<1>4. <<>> \in Seq(Time) /\ Len(<<>>) = 0
  BY EmptySeq
<1>5. TypeOK
  BY <1>1, <1>2, <1>4, ConstantFacts DEF Init, TypeOK, Time
<1>6. QED
  BY <1>1, <1>3, <1>5
     DEF Init, IInv, TimesAgree, NothingFromTheFuture, ViewsInSync,
         PendingMatchesOpen, AtMostCap, WeekendFlat

LEMMA StutterIInv == IInv /\ UNCHANGED vars => IInv'
BY DEF vars, machine, trading, IInv, TypeOK, TimesAgree, NothingFromTheFuture,
       ViewsInSync, PendingMatchesOpen, AtMostCap, WeekendFlat, Views

(***************************************************************************)
(* The invariant is inductive: every return and every exception of         *)
(* on_candle_close leaves the state machine in a state that satisfies it.  *)
(***************************************************************************)
THEOREM Safety == Spec => []IInv
<1>1. IInv /\ [Next]_vars => IInv'
  BY StepPreservesIInv, StutterIInv DEF Next
<1>2. QED
  BY InitIInv, <1>1, PTL DEF Spec

(***************************************************************************)
(* Type correctness: in particular the recent history keeps to its cap and *)
(* every trade and setup carries a time, on every path of the handler.     *)
(***************************************************************************)
THEOREM TypeCorrect == Spec => []TypeOK
<1>1. IInv => TypeOK
  BY DEF IInv
<1>2. QED
  BY Safety, <1>1, PTL

(***************************************************************************)
(* The three copies of "is a trade open, and which" never disagree.        *)
(***************************************************************************)
THEOREM ViewsAlwaysInSync == Spec => []ViewsInSync
<1>1. IInv => ViewsInSync
  BY DEF IInv
<1>2. QED
  BY Safety, <1>1, PTL

(***************************************************************************)
(* The gate keeps the number of open trades within the policy's cap, for   *)
(* every cap, although it reads a count taken before the step's changes.   *)
(***************************************************************************)
THEOREM CapRespected == Spec => []AtMostCap
<1>1. IInv => AtMostCap
  BY DEF IInv
<1>2. QED
  BY Safety, <1>1, PTL

(***************************************************************************)
(* Log information exists for exactly the open trades.                     *)
(***************************************************************************)
THEOREM PendingAlwaysMatches == Spec => []PendingMatchesOpen
<1>1. IInv => PendingMatchesOpen
  BY DEF IInv
<1>2. QED
  BY Safety, <1>1, PTL

(***************************************************************************)
(* No trade and no setup lives through a Friday 22:00, for every calendar  *)
(* and every gap in the data, but for the candle that closes on one.       *)
(***************************************************************************)
THEOREM FlatOverTheWeekend == Spec => []WeekendFlat
<1>1. IInv => WeekendFlat
  BY DEF IInv
<1>2. QED
  BY Safety, <1>1, PTL

LEMMA RefusedDoesNotCross ==
  ASSUME IInv, NEW c \in Opens, status = "running", ~Accepted(c)
  PROVE  ~Crosses(c)
<1>1. lastOpen \in Time /\ c <= lastOpen /\ c \in Time
  BY ConstantFacts DEF Accepted, IInv, TypeOK, Time
<1>2. lastClose = CloseOf(lastOpen)
  BY <1>1, ConstantFacts DEF IInv, TimesAgree
<1>3. CloseOf(c) <= lastClose
  BY <1>1, <1>2, ConstantFacts DEF CloseOf, Time
<1>4. CloseOf(c) \in Time /\ lastClose \in Time
  BY <1>1, <1>2, CloseType
<1>5. LatestBoundary(CloseOf(c)) \in Int
  BY <1>4, LatestBoundaryCorrect, BoundaryOrder
<1>6. QED
  BY <1>3, <1>4, <1>5 DEF Crosses, CrossedFriday2200, Time

(***************************************************************************)
(* The weekend reset runs before the input is validated, and still a       *)
(* refused candle changes no trading state.                                *)
(***************************************************************************)
THEOREM RefusedInert == Spec => RefusedCandleInert
<1>1. ASSUME IInv, [Next]_vars
      PROVE  [\A c \in Opens : RejectCandle(c) => UNCHANGED trading]_vars
  <2>1. SUFFICES ASSUME Next PROVE \A c \in Opens : RejectCandle(c) => UNCHANGED trading
    BY <1>1
  <2>2. status = "running"
    BY <2>1 DEF Next, OnCandleClose
  <2>3. SUFFICES ASSUME NEW c \in Opens, RejectCandle(c) PROVE UNCHANGED trading
    OBVIOUS
  <2>4. ~Crosses(c)
    BY <1>1, <2>2, <2>3, RefusedDoesNotCross DEF RejectCandle
  <2>5. QED
    BY <2>3, <2>4
       DEF RejectCandle, OnlyReset, KeptTrades, KeptView, KeptPending, KeptSetups, trading
<1>2. QED
  BY Safety, <1>1, PTL DEF Spec, RefusedCandleInert

(***************************************************************************)
(* A trade leaves the open trades only through the log or over a weekend:  *)
(* nothing is lost because of a gap, a refusal or a failed step.           *)
(***************************************************************************)
THEOREM NothingDroppedSilently == Spec => NoSilentDrop
<1> DEFINE Explained(t) == \/ t \in logged'
                           \/ /\ lastClose # None
                              /\ BoundaryBetween(lastClose, CloseOf(lastOpen'))
<1>1. ASSUME IInv, NEW c \in Opens, OnCandleClose(c), NEW t \in openTrades \ openTrades'
      PROVE  Explained(t)
  <2>1. status = "running" /\ TypeOK
    BY <1>1 DEF OnCandleClose, IInv
  <2>2. CASE RejectCandle(c)
    BY <1>1, <2>1, <2>2, RefusedDoesNotCross DEF RejectCandle, OnlyReset, KeptTrades
  <2>3. CASE lastOpen' = c /\ (OnlyReset(c) \/ HubTail(c))
    <3>1. CASE Crosses(c)
      <4>1. lastClose \in Time /\ CloseOf(c) \in Time /\ lastClose # None
        BY <2>1, <3>1, CloseType, ConstantFacts DEF Crosses, TypeOK
      <4>2. BoundaryBetween(lastClose, CloseOf(c))
        BY <3>1, <4>1, CrossingSound DEF Crosses
      <4>3. QED
        BY <2>3, <4>1, <4>2
    <3>2. CASE ~Crosses(c)
      BY <1>1, <2>3, <3>2 DEF OnlyReset, HubTail, KeptTrades
    <3>3. QED
      BY <3>1, <3>2
  <2>4. QED
    BY <1>1, <2>2, <2>3
       DEF OnCandleClose, FailBias, FailPolicy, WarmUpStep, EvaluatedStep, Prepare
<1>2. ASSUME IInv, [Next]_vars
      PROVE  [\A t \in openTrades \ openTrades' :
                 \/ t \in logged'
                 \/ lastClose # None /\ BoundaryBetween(lastClose, CloseOf(lastOpen'))]_vars
  BY <1>1, <1>2 DEF Next
<1>3. QED
  BY Safety, <1>2, PTL DEF Spec, NoSilentDrop

---------------------------------------------------------------------------
(* The histories the spokes see.                                           *)

\* The elements of s[-n:], counted from the end of s.
LEMMA LastNElements ==
  ASSUME NEW S, NEW s \in Seq(S), NEW n \in Nat \ {0}
  PROVE  /\ Len(s) \in Nat
         /\ Len(LastN(s, n)) = IF Len(s) <= n THEN Len(s) ELSE n
         /\ \A i \in 1 .. Len(LastN(s, n)) :
              LastN(s, n)[i] = s[Len(s) - Len(LastN(s, n)) + i]
<1>1. Len(s) \in Nat
  BY LenProperties
<1>2. CASE Len(s) <= n
  BY <1>1, <1>2 DEF LastN
<1>3. CASE ~(Len(s) <= n)
  <2> DEFINE t == SubSeq(s, Len(s) - n + 1, Len(s))
  <2>1. LastN(s, n) = t
    BY <1>3 DEF LastN
  <2>2. \A i \in Len(s) - n + 1 .. Len(s) : s[i] \in S
    BY <1>1, <1>3, ElementOfSeq
  <2>3. Len(t) = n /\ \A i \in 1 .. n : t[i] = s[Len(s) - n + i]
    BY <1>1, <1>3, <2>2, SubSeqProperties
  <2>4. QED
    BY <1>1, <1>3, <2>1, <2>3
<1>4. QED
  BY <1>2, <1>3

\* s[-n:] of a longer list can be taken from s[-n:] of the shorter one.
LEMMA LastNOfAppend ==
  ASSUME NEW S, NEW s \in Seq(S), NEW x \in S, NEW n \in Nat \ {0}
  PROVE  LastN(Append(LastN(s, n), x), n) = LastN(Append(s, x), n)
<1>1. Len(s) \in Nat /\ Append(s, x) \in Seq(S) /\ Len(Append(s, x)) = Len(s) + 1
  BY AppendProperties, LenProperties
<1>2. \A i \in 1 .. Len(s) + 1 : Append(s, x)[i] = IF i = Len(s) + 1 THEN x ELSE s[i]
  BY AppendProperties
<1>3. CASE Len(s) <= n
  BY <1>3 DEF LastN
<1>4. CASE Len(s) > n
  <2> DEFINE t == SubSeq(s, Len(s) - n + 1, Len(s))
             u == Append(t, x)
             v == Append(s, x)
  <2>1. /\ t \in Seq(S) /\ Len(t) = n
        /\ \A i \in 1 .. n : t[i] = s[Len(s) - n + i]
    <3>1. \A i \in (Len(s) - n + 1) .. Len(s) : s[i] \in S
      BY <1>1, <1>4, ElementOfSeq
    <3>2. QED
      BY <1>1, <1>4, <3>1, SubSeqProperties
  <2>2. /\ u \in Seq(S) /\ Len(u) = n + 1
        /\ \A i \in 1 .. n + 1 : u[i] = IF i = n + 1 THEN x ELSE t[i]
    <3> HIDE DEF t
    <3>1. /\ u \in Seq(S) /\ Len(u) = Len(t) + 1
          /\ \A i \in 1 .. Len(t) : u[i] = t[i]
          /\ u[Len(t) + 1] = x
      BY <2>1, AppendProperties
    <3> HIDE DEF u
    <3>2. QED
      BY <2>1, <3>1
  <2>3. LastN(u, n) = SubSeq(u, 2, n + 1)
    <3> HIDE DEF u
    <3>1. ~(Len(u) <= n) /\ Len(u) - n + 1 = 2
      BY <2>2
    <3>2. QED
      BY <2>2, <3>1 DEF LastN
  <2>4. LastN(v, n) = SubSeq(v, Len(s) - n + 2, Len(s) + 1)
    BY <1>1, <1>4 DEF LastN
  <2>5. /\ SubSeq(u, 2, n + 1) \in Seq(S) /\ Len(SubSeq(u, 2, n + 1)) = n
        /\ \A i \in 1 .. n : SubSeq(u, 2, n + 1)[i] = u[i + 1]
    <3>1. \A i \in 2 .. n + 1 : u[i] \in S
      BY <2>2, ElementOfSeq
    <3>2. QED
      BY SMTT(40), <2>2, <3>1, SubSeqProperties
  <2>6. /\ SubSeq(v, Len(s) - n + 2, Len(s) + 1) \in Seq(S)
        /\ Len(SubSeq(v, Len(s) - n + 2, Len(s) + 1)) = n
        /\ \A i \in 1 .. n :
             SubSeq(v, Len(s) - n + 2, Len(s) + 1)[i] = v[Len(s) - n + 1 + i]
    <3>1. \A i \in (Len(s) - n + 2) .. Len(s) + 1 : v[i] \in S
      BY <1>1, <1>4, ElementOfSeq
    <3>2. QED
      BY <1>1, <1>4, <3>1, SubSeqProperties
  <2>7. \A i \in 1 .. n : u[i + 1] = v[Len(s) - n + 1 + i]
    BY <1>1, <1>2, <1>4, <2>1, <2>2
  <2>8. SubSeq(u, 2, n + 1) = SubSeq(v, Len(s) - n + 2, Len(s) + 1)
    BY <2>5, <2>6, <2>7, SeqEqual
  <2>9. QED
    BY <1>4, <2>3, <2>4, <2>8 DEF LastN
<1>5. QED
  BY <1>1, <1>3, <1>4

\* An order survives in the tail of a list.
LEMMA LastNIncreasing ==
  ASSUME NEW s \in Seq(Time), NEW n \in Nat \ {0}, IncreasingSeq(s)
  PROVE  IncreasingSeq(LastN(s, n))
<1> DEFINE t == LastN(s, n)
<1>1. /\ Len(s) \in Nat /\ Len(t) \in Nat /\ Len(t) <= Len(s)
      /\ \A i \in 1 .. Len(t) : t[i] = s[Len(s) - Len(t) + i]
  BY LastNElements
<1>2. SUFFICES ASSUME NEW i \in 1 .. Len(t), NEW j \in 1 .. Len(t), i < j
               PROVE  t[i] < t[j]
  BY DEF IncreasingSeq
<1>3. /\ Len(s) - Len(t) + i \in 1 .. Len(s) /\ Len(s) - Len(t) + j \in 1 .. Len(s)
      /\ Len(s) - Len(t) + i < Len(s) - Len(t) + j
  BY <1>1, <1>2
<1>4. s[Len(s) - Len(t) + i] < s[Len(s) - Len(t) + j]
  BY <1>3 DEF IncreasingSeq
<1>5. QED
  BY <1>1, <1>4

LEMMA AppendIncreasing ==
  ASSUME NEW s \in Seq(Time), NEW c \in Time, IncreasingSeq(s),
         \A i \in 1 .. Len(s) : s[i] < c
  PROVE  IncreasingSeq(Append(s, c))
<1>1. /\ Len(s) \in Nat /\ Len(Append(s, c)) = Len(s) + 1
      /\ \A i \in 1 .. Len(s) : Append(s, c)[i] = s[i]
      /\ Append(s, c)[Len(s) + 1] = c
  BY LenProperties, AppendProperties
<1>2. SUFFICES ASSUME NEW i \in 1 .. Len(s) + 1, NEW j \in 1 .. Len(s) + 1, i < j
               PROVE  Append(s, c)[i] < Append(s, c)[j]
  BY <1>1 DEF IncreasingSeq
<1>3. i \in 1 .. Len(s)
  BY <1>1, <1>2
<1>4. CASE j = Len(s) + 1
  BY <1>1, <1>3, <1>4
<1>5. CASE j # Len(s) + 1
  <2>1. j \in 1 .. Len(s)
    BY <1>1, <1>5
  <2>2. QED
    BY <1>1, <1>2, <1>3, <2>1 DEF IncreasingSeq
<1>6. QED
  BY <1>4, <1>5

\* What the history remembers is closed, in order, and not younger than the
\* last candle; the recent buffer is its tail.
HistoryInv ==
  /\ IncreasingSeq(prior)
  /\ \A i \in 1 .. Len(prior) : lastOpen # None /\ prior[i] <= lastOpen
  /\ status = "running" => recent = LastN(prior, RecentCap)
  /\ NoLookahead

\* A context built on such a history looks neither ahead nor twice.
LEMMA ContextFits ==
  ASSUME NEW c \in Time, prior \in Seq(Time), IncreasingSeq(prior),
         \A i \in 1 .. Len(prior) : prior[i] < c,
         recent = LastN(prior, RecentCap), ctx' = StepContext(c)
  PROVE  NoLookahead'
<1> DEFINE L == Len(prior)
           v == Append(prior, c)
           r == LastN(v, RecentCap)
           p == LastN(prior, PriorCap)
<1>1. RecentCap \in Nat \ {0} /\ PriorCap \in Nat \ {0}
  BY StateMachineAssumption
<1>2. /\ ctx'.now = CloseOf(c) /\ ctx'.candle = c
      /\ ctx'.recent = r /\ ctx'.prior = p
  BY <1>1, LastNOfAppend DEF StepContext, PushRecent, PriorTuple
<1>3. /\ L \in Nat /\ v \in Seq(Time) /\ Len(v) = L + 1
      /\ \A i \in 1 .. L : v[i] = prior[i]
      /\ v[L + 1] = c
  BY LenProperties, AppendProperties
<1>4. /\ Len(r) \in Nat \ {0} /\ Len(r) <= L + 1
      /\ \A i \in 1 .. Len(r) : r[i] = v[L + 1 - Len(r) + i]
  <2>1. /\ Len(r) = IF Len(v) <= RecentCap THEN Len(v) ELSE RecentCap
        /\ \A i \in 1 .. Len(r) : r[i] = v[Len(v) - Len(r) + i]
    BY <1>1, <1>3, LastNElements
  <2>2. Len(v) = L + 1 /\ L \in Nat
    BY <1>3
  <2> HIDE DEF r, v, L
  <2>3. Len(r) \in Nat \ {0} /\ Len(r) <= L + 1
    BY <1>1, <2>1, <2>2
  <2>4. ASSUME NEW i \in 1 .. Len(r) PROVE r[i] = v[L + 1 - Len(r) + i]
    <3>1. Len(v) - Len(r) + i = L + 1 - Len(r) + i
      BY <2>2
    <3>2. r[i] = v[Len(v) - Len(r) + i]
      BY <2>1
    <3>3. QED
      BY <3>1, <3>2, Zenon
  <2>5. QED
    BY <2>3, <2>4
<1>5. /\ Len(p) \in Nat /\ Len(p) <= L
      /\ \A i \in 1 .. Len(p) : p[i] = prior[L - Len(p) + i]
  BY <1>1, LastNElements
<1>6. r[Len(r)] = c
  BY <1>3, <1>4
<1>7. IncreasingSeq(r)
  <2>1. IncreasingSeq(v)
    BY AppendIncreasing
  <2>2. QED
    BY <1>1, <1>3, <2>1, LastNIncreasing
<1>8. IncreasingSeq(p)
  BY <1>1, LastNIncreasing
<1>9. ASSUME NEW i \in 1 .. Len(p)
      PROVE  CloseOf(p[i]) < CloseOf(c)
  <2>1. L - Len(p) + i \in 1 .. L
    BY <1>3, <1>5
  <2>2. p[i] < c /\ p[i] \in Time
    BY <1>5, <2>1, ElementOfSeq
  <2>3. QED
    BY <2>2, ConstantFacts DEF CloseOf, Time
<1>10. ASSUME NEW i \in 1 .. Len(r) - 1, i <= Len(p)
       PROVE  r[Len(r) - i] = p[Len(p) - i + 1]
  <2>1. Len(r) - i \in 1 .. Len(r) /\ Len(p) - i + 1 \in 1 .. Len(p) /\ L + 1 - i \in 1 .. L
    BY <1>3, <1>4, <1>5, <1>10
  <2>2. r[Len(r) - i] = v[L + 1 - i]
    <3>1. L + 1 - Len(r) + (Len(r) - i) = L + 1 - i
      BY <1>3, <1>4
    <3>2. QED
      BY <1>4, <2>1, <3>1
  <2>3. p[Len(p) - i + 1] = prior[L + 1 - i]
    <3>1. L - Len(p) + (Len(p) - i + 1) = L + 1 - i
      BY <1>3, <1>5
    <3>2. QED
      BY <1>5, <2>1, <3>1
  <2>4. QED
    BY <1>3, <2>1, <2>2, <2>3
<1>11. QED
  BY <1>2, <1>4, <1>6, <1>7, <1>8, <1>9, <1>10 DEF NoLookahead

\* An accepted candle is younger than everything remembered.
LEMMA AcceptedIsYoungest ==
  ASSUME TypeOK, HistoryInv, NEW c \in Opens, Accepted(c)
  PROVE  /\ c \in Time /\ prior \in Seq(Time)
         /\ \A i \in 1 .. Len(prior) : prior[i] < c
<1>1. c \in Time /\ prior \in Seq(Time) /\ Opens \subseteq Time
  BY ConstantFacts DEF TypeOK
<1>2. ASSUME NEW i \in 1 .. Len(prior)
      PROVE  prior[i] < c
  <2>1. lastOpen # None /\ prior[i] <= lastOpen /\ lastOpen \in Time
    BY DEF HistoryInv, TypeOK
  <2>2. prior[i] \in Time
    BY <1>1, ElementOfSeq
  <2>3. lastOpen < c
    BY <2>1 DEF Accepted
  <2>4. QED
    BY <1>1, <2>1, <2>2, <2>3 DEF Time
<1>3. QED
  BY <1>1, <1>2

LEMMA HistoryStep ==
  ASSUME TypeOK, HistoryInv, NEW c \in Opens, OnCandleClose(c)
  PROVE  HistoryInv'
<1>0. status = "running"
  BY DEF OnCandleClose
<1>1. CASE RejectCandle(c)
  BY <1>1 DEF RejectCandle, machine, HistoryInv, NoLookahead, IncreasingSeq
<1>2. CASE FailBias(c)
  <2>1. c # None /\ \A i \in 1 .. Len(prior) : prior[i] <= c
    <3>1. \A i \in 1 .. Len(prior) : prior[i] < c /\ prior[i] \in Time
      BY <1>2, AcceptedIsYoungest, ElementOfSeq DEF FailBias
    <3>2. QED
      BY <1>2, <3>1, AcceptedIsYoungest, ConstantFacts DEF FailBias, Time
  <2>2. QED
    BY <1>2, <2>1 DEF FailBias, HistoryInv, NoLookahead, IncreasingSeq
<1>3. CASE Prepare(c)
  <2>1. /\ c \in Time /\ prior \in Seq(Time) /\ c # None
        /\ \A i \in 1 .. Len(prior) : prior[i] < c
    BY <1>3, AcceptedIsYoungest, ConstantFacts DEF Prepare
  <2>2. \A i \in 1 .. Len(prior) : prior[i] <= c
    <3>1. \A i \in 1 .. Len(prior) : prior[i] \in Time
      BY <2>1, ElementOfSeq
    <3>2. QED
      BY <2>1, <3>1 DEF Time
  <2>3. NoLookahead'
    BY <1>0, <1>3, <2>1, ContextFits DEF HistoryInv, Prepare
  <2>4. lastOpen' = c /\ recent' = PushRecent(c)
    BY <1>3 DEF Prepare
  <2>5. CASE FailPolicy(c)
    BY <2>1, <2>2, <2>3, <2>4, <2>5 DEF FailPolicy, HistoryInv, IncreasingSeq
  <2>6. CASE Advance(c)
    <3>1. prior' = Append(prior, c)
      BY <2>6 DEF Advance
    <3>2. IncreasingSeq(prior')
      <4>1. IncreasingSeq(Append(prior, c))
        BY <2>1, AppendIncreasing DEF HistoryInv
      <4>2. QED
        BY <3>1, <4>1 DEF IncreasingSeq
    <3>3. \A i \in 1 .. Len(prior') : lastOpen' # None /\ prior'[i] <= lastOpen'
      <4>1. /\ Len(prior) \in Nat /\ Len(prior') = Len(prior) + 1
            /\ \A i \in 1 .. Len(prior) : prior'[i] = prior[i]
            /\ prior'[Len(prior) + 1] = c
        BY <2>1, <3>1, LenProperties, AppendProperties
      <4>2. c <= c
        BY <2>1 DEF Time
      <4>3. QED
        BY <2>1, <2>2, <2>4, <4>1, <4>2
    <3>4. recent' = LastN(prior', RecentCap)
      BY <1>0, <2>1, <2>4, <3>1, LastNOfAppend, StateMachineAssumption
         DEF HistoryInv, PushRecent
    <3>5. QED
      BY <2>3, <3>2, <3>3, <3>4 DEF HistoryInv
  <2>7. QED
    BY <1>1, <1>2, <2>5, <2>6 DEF OnCandleClose, WarmUpStep, EvaluatedStep
<1>4. QED
  BY <1>1, <1>2, <1>3 DEF OnCandleClose, FailPolicy, WarmUpStep, EvaluatedStep

(***************************************************************************)
(* At every step the strategy modules see closed candles only, in order,   *)
(* the two histories fitting together, whatever candles are fed and        *)
(* whichever of them are refused.                                          *)
(***************************************************************************)
THEOREM NeverLooksAhead == Spec => []NoLookahead
<1>1. ASSUME Init PROVE HistoryInv
  <2>1. prior = <<>> /\ recent = <<>> /\ Len(prior) = 0 /\ ctx = NoContext
    BY <1>1 DEF Init
  <2>2. LastN(<<>>, RecentCap) = <<>>
    BY StateMachineAssumption DEF LastN
  <2>3. QED
    BY <2>1, <2>2 DEF HistoryInv, NoLookahead, IncreasingSeq
<1>2. ASSUME TypeOK, HistoryInv, [Next]_vars
      PROVE  HistoryInv'
  <2>1. CASE Next
    BY <1>2, <2>1, HistoryStep DEF Next
  <2>2. CASE UNCHANGED vars
    BY <1>2, <2>2 DEF vars, machine, HistoryInv, NoLookahead, IncreasingSeq
  <2>3. QED
    BY <1>2, <2>1, <2>2
<1>3. HistoryInv => NoLookahead
  BY DEF HistoryInv
<1>4. QED
  BY TypeCorrect, <1>1, <1>2, <1>3, PTL DEF Spec

=============================================================================
