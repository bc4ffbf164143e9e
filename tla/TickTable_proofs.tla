-------------------------- MODULE TickTable_proofs --------------------------
(***************************************************************************)
(* The two tables of one copy of ticks, for every copy, every resolution   *)
(* of the stamps and every quote.  The inductive invariant says that the   *)
(* ticks are in the order of time and that each table, once made, is the   *)
(* table of the ticks as they still are; what the tables have to do with   *)
(* each other is arithmetic on the stamps and the order of the rows.       *)
(***************************************************************************)
EXTENDS TickTable, FiniteSetTheorems, SequenceTheorems, WellFoundedInduction, TLAPS

---------------------------------------------------------------------------
(* Division.                                                               *)

LEMMA Division ==
  ASSUME NEW a \in Nat, NEW b \in Nat \ {0}
  PROVE  a \div b \in Nat /\ a % b \in 0 .. b - 1 /\ a = b * (a \div b) + (a % b)
OBVIOUS

LEMMA DivisionUnique ==
  ASSUME NEW b \in Nat \ {0}, NEW q \in Nat, NEW r \in 0 .. b - 1
  PROVE  (b * q + r) \div b = q
OBVIOUS

LEMMA TimesOrder ==
  ASSUME NEW a \in Nat, NEW b \in Nat, NEW m \in Nat, a <= b
  PROVE  m * a <= m * b
OBVIOUS

LEMMA DivisionOrder ==
  ASSUME NEW a \in Nat, NEW b \in Nat, NEW p \in Nat \ {0}, a <= b
  PROVE  a \div p <= b \div p
<1> DEFINE q == a \div p
           t == b \div p
<1>1. /\ q \in Nat /\ a % p \in 0 .. p - 1 /\ a = p * q + (a % p)
      /\ t \in Nat /\ b % p \in 0 .. p - 1 /\ b = p * t + (b % p)
  BY Division
<1> HIDE DEF q, t
<1>2. SUFFICES ASSUME t + 1 <= q PROVE FALSE
  BY <1>1 DEF q, t
<1>3. p * (t + 1) <= p * q
  BY <1>1, <1>2, TimesOrder
<1>4. p * (t + 1) = p * t + p
  BY <1>1
<1>5. p * q \in Nat /\ p * t \in Nat
  BY <1>1
<1>6. QED
  BY <1>1, <1>3, <1>4, <1>5

\* A stamp splits where its milliseconds and its remainder meet.
LEMMA StampLess ==
  ASSUME NEW a \in Nat, NEW b \in Nat, NEW m \in Nat \ {0},
         NEW r \in 0 .. m - 1, NEW s \in 0 .. m - 1, a < b
  PROVE  (a * m) + r < (b * m) + s
<1>1. m * (a + 1) <= m * b
  BY TimesOrder
<1>2. m * (a + 1) = a * m + m /\ m * b = b * m /\ a * m \in Nat /\ b * m \in Nat
  OBVIOUS
<1>3. QED
  BY <1>1, <1>2

LEMMA StampSecond ==
  ASSUME NEW a \in Nat, NEW m \in Nat \ {0}, NEW p \in Nat \ {0}, NEW r \in 0 .. m - 1
  PROVE  ((a * m) + r) \div (m * p) = a \div p
<1> DEFINE q == a \div p
           t == a % p
<1>1. q \in Nat /\ t \in 0 .. p - 1 /\ a = p * q + t
  BY Division
<1> HIDE DEF q, t
<1>2. a * m = (m * p) * q + m * t
  BY <1>1
<1>3. m * t + r \in 0 .. (m * p) - 1
  <2>1. m * t <= m * (p - 1)
    BY <1>1, TimesOrder
  <2>2. m * (p - 1) = (m * p) - m /\ m * t \in Nat /\ m * p \in Nat
    BY <1>1
  <2>3. QED
    BY <2>1, <2>2
<1>4. m * p \in Nat \ {0}
  OBVIOUS
<1>5. ((m * p) * q + (m * t + r)) \div (m * p) = q
  BY <1>1, <1>3, <1>4, DivisionUnique
<1>6. (a * m) + r = (m * p) * q + (m * t + r)
  <2>1. (m * p) * q \in Nat /\ m * t \in Nat
    BY <1>1
  <2>2. QED
    BY <1>2, <2>1
<1>7. QED
  BY <1>5, <1>6 DEF q

---------------------------------------------------------------------------
(* The least and the greatest element.                                     *)

LEMMA MinIs ==
  ASSUME NEW S \in SUBSET Int, NEW x \in S, \A y \in S : x <= y
  PROVE  Min(S) = x
<1>1. Min(S) \in S /\ \A y \in S : Min(S) <= y
  <2>1. \E z \in S : \A y \in S : z <= y
    OBVIOUS
  <2>2. QED
    BY <2>1, Zenon DEF Min
<1>2. Min(S) \in Int /\ x \in Int /\ Min(S) <= x /\ x <= Min(S)
  BY <1>1, Zenon
<1>3. QED
  BY <1>2

LEMMA MaxIs ==
  ASSUME NEW S \in SUBSET Int, NEW x \in S, \A y \in S : x >= y
  PROVE  Max(S) = x
<1>1. Max(S) \in S /\ \A y \in S : Max(S) >= y
  <2>1. \E z \in S : \A y \in S : z >= y
    OBVIOUS
  <2>2. QED
    BY <2>1, Zenon DEF Max
<1>2. Max(S) \in Int /\ x \in Int /\ Max(S) >= x /\ x >= Max(S)
  BY <1>1, Zenon
<1>3. QED
  BY <1>2

LEMMA LeastExists ==
  ASSUME NEW S \in SUBSET Nat, S # {}
  PROVE  \E x \in S : \A y \in S : x <= y
<1>1. \E x \in S : \A y \in S : <<y, x>> \notin OpToRel(<, Nat)
  BY WFMin, NatLessThanWellFounded, Zenon
<1>2. PICK x \in S : \A y \in S : ~(y < x)
  BY <1>1, Zenon DEF OpToRel
<1>3. QED
  BY <1>2

LEMMA GreatestExists ==
  ASSUME NEW n \in Nat, NEW S \in SUBSET (1 .. n), S # {}
  PROVE  \E x \in S : \A y \in S : x >= y
<1> DEFINE T == {n - x : x \in S}
<1>1. T \in SUBSET Nat /\ T # {}
  OBVIOUS
<1>2. \E t \in T : \A u \in T : t <= u
  <2> HIDE DEF T
  <2>1. QED
    BY <1>1, LeastExists
<1>3. PICK t \in T : \A u \in T : t <= u
  BY <1>2
<1>4. PICK x \in S : t = n - x
  BY <1>3
<1>5. \A y \in S : n - x <= n - y
  BY <1>3, <1>4
<1>6. QED
  BY <1>5

---------------------------------------------------------------------------
(* The inductive invariant.                                                *)

TicksInOrder ==
  /\ ticks \in Seq([msc : Milliseconds, quote : Quotes])
  /\ \A i, j \in DOMAIN ticks : i < j => ticks[i].msc <= ticks[j].msc

RowTicks == {i \in DOMAIN ticks : IsRow(i)}
Series   == {i \in DOMAIN ticks : InSeries(i)}

\* The order in which the rows stand.
Sorted(order) ==
  /\ order \in SetToSeqs(RowTicks)
  /\ \A m, n \in DOMAIN order : m < n => Stamp(order[m]) <= Stamp(order[n])

RowsInOrder(order) == Sorted(order) /\ rows = [n \in DOMAIN order |-> Row(order[n])]

BarsMade ==
  bars = [s \in {SecondOf(i) : i \in Series} |-> Bar({i \in Series : SecondOf(i) = s})]

TInv ==
  /\ hasMsc \in BOOLEAN
  /\ TicksInOrder
  /\ rows # NotMade => phase = "copied" /\ \E order : RowsInOrder(order)
  /\ bars # NotMade => phase = "copied" /\ BarsMade

---------------------------------------------------------------------------
(* Stamps.                                                                 *)

LEMMA TickFacts ==
  ASSUME TicksInOrder
  PROVE  /\ Len(ticks) \in Nat /\ DOMAIN ticks = 1 .. Len(ticks)
         /\ \A i \in DOMAIN ticks : ticks[i].msc \in Nat /\ ticks[i].quote \in Quotes
<1>1. Len(ticks) \in Nat /\ DOMAIN ticks = 1 .. Len(ticks)
  BY LenProperties DEF TicksInOrder
<1>2. \A i \in DOMAIN ticks : ticks[i] \in [msc : Milliseconds, quote : Quotes]
  BY <1>1, ElementOfSeq DEF TicksInOrder
<1>3. Milliseconds \subseteq Nat
  BY TickAssumption
<1>4. QED
  BY <1>1, <1>2, <1>3

LEMMA MscFacts ==
  ASSUME TicksInOrder, hasMsc \in BOOLEAN
  PROVE  /\ \A i \in DOMAIN ticks : MscOf(i) \in Nat
         /\ \A i, j \in DOMAIN ticks : i < j => MscOf(i) <= MscOf(j)
<1>1. MsPerSecond \in Nat \ {0}
  BY TickAssumption
<1>2. \A i \in DOMAIN ticks : ticks[i].msc \in Nat
  BY TickFacts
<1>3. CASE hasMsc
  BY <1>2, <1>3 DEF MscOf, TicksInOrder
<1>4. CASE ~hasMsc
  <2>1. \A i \in DOMAIN ticks : ticks[i].msc \div MsPerSecond \in Nat
    BY <1>1, <1>2, Division
  <2>2. \A i \in DOMAIN ticks : MscOf(i) = (ticks[i].msc \div MsPerSecond) * MsPerSecond
    BY <1>4 DEF MscOf
  <2>3. ASSUME NEW i \in DOMAIN ticks PROVE MscOf(i) \in Nat
    BY <1>1, <2>1, <2>2
  <2>4. ASSUME NEW i \in DOMAIN ticks, NEW j \in DOMAIN ticks, i < j
        PROVE  MscOf(i) <= MscOf(j)
    <3> DEFINE a == ticks[i].msc \div MsPerSecond
               b == ticks[j].msc \div MsPerSecond
    <3>1. ticks[i].msc <= ticks[j].msc
      BY <2>4 DEF TicksInOrder
    <3>2. a <= b
      BY <1>1, <1>2, <3>1, DivisionOrder
    <3>3. a \in Nat /\ b \in Nat /\ MscOf(i) = a * MsPerSecond /\ MscOf(j) = b * MsPerSecond
      BY <2>1, <2>2
    <3> HIDE DEF a, b
    <3>4. MsPerSecond * a <= MsPerSecond * b
      BY <1>1, <3>2, <3>3, TimesOrder
    <3>5. MsPerSecond * a = a * MsPerSecond /\ MsPerSecond * b = b * MsPerSecond
      BY <1>1, <3>3
    <3>6. QED
      BY <3>3, <3>4, <3>5
  <2>5. QED
    BY <2>3, <2>4
<1>5. QED
  BY <1>3, <1>4

\* A later tick has a later stamp, but where a wrap parts the two.
LEMMA StampOrder ==
  ASSUME TicksInOrder, hasMsc \in BOOLEAN,
         NEW i \in DOMAIN ticks, NEW j \in DOMAIN ticks, i < j, ~Parted(i, j)
  PROVE  Stamp(i) < Stamp(j) /\ Stamp(i) \in Nat /\ Stamp(j) \in Nat
<1> DEFINE a == MscOf(i)
           b == MscOf(j)
           r == (i - 1) % Million
           s == (j - 1) % Million
<1>1. a \in Nat /\ b \in Nat /\ a <= b
  BY MscFacts
<1>2. Million \in Nat \ {0}
  BY TickAssumption
<1>3. i - 1 \in Nat /\ j - 1 \in Nat
  BY TickFacts
<1>4. /\ r \in 0 .. Million - 1 /\ i - 1 = Million * ((i - 1) \div Million) + r
      /\ s \in 0 .. Million - 1 /\ j - 1 = Million * ((j - 1) \div Million) + s
  BY <1>2, <1>3, Division
<1>5. Stamp(i) = (a * Million) + r /\ Stamp(j) = (b * Million) + s
  BY DEF Stamp
<1>6. a = b => (i - 1) \div Million = (j - 1) \div Million
  BY DEF Parted
<1>7. (i - 1) \div Million \in Nat /\ (j - 1) \div Million \in Nat
  BY <1>2, <1>3, Division
<1> HIDE DEF a, b, r, s
<1>8. CASE a = b
  <2>1. r < s
    <3> DEFINE q == Million * ((i - 1) \div Million)
    <3>1. i - 1 = q + r /\ j - 1 = q + s /\ q \in Nat
      BY <1>2, <1>4, <1>6, <1>7, <1>8
    <3> HIDE DEF q
    <3>2. i \in Nat /\ j \in Nat /\ r \in Nat /\ s \in Nat
      BY <1>4, TickFacts
    <3>3. QED
      BY <3>1, <3>2
  <2>2. a * Million \in Nat
    BY <1>1, <1>2
  <2>3. QED
    BY <1>4, <1>5, <1>8, <2>1, <2>2
<1>9. CASE a < b
  <2>1. (a * Million) + r < (b * Million) + s
    BY <1>1, <1>2, <1>4, <1>9, StampLess
  <2>2. a * Million \in Nat /\ b * Million \in Nat
    BY <1>1, <1>2
  <2>3. QED
    BY <1>4, <1>5, <2>1, <2>2
<1>10. QED
  BY <1>1, <1>8, <1>9

---------------------------------------------------------------------------
(* The order of the rows.                                                  *)

\* The rows are all ticks that can be one, each once.
LEMMA OrderFacts ==
  ASSUME TicksInOrder, NEW order \in SetToSeqs(RowTicks)
  PROVE  /\ \E n \in Nat : DOMAIN order = 1 .. n
         /\ \A m \in DOMAIN order : order[m] \in RowTicks
         /\ \A m, n \in DOMAIN order : m # n => order[m] # order[n]
         /\ \A i \in RowTicks : \E n \in DOMAIN order : order[n] = i
<1> DEFINE D == 1 .. Cardinality(RowTicks)
<1>1. IsFiniteSet(RowTicks) /\ Cardinality(RowTicks) \in Nat
  <2>1. IsFiniteSet(1 .. Len(ticks))
    BY TickFacts, FS_Interval
  <2>2. RowTicks \subseteq 1 .. Len(ticks)
    BY TickFacts DEF RowTicks
  <2>3. QED
    BY <2>1, <2>2, FS_Subset, FS_CardinalityType
<1>2. order \in [D -> RowTicks] /\ \A m, n \in D : m # n => order[m] # order[n]
  BY Zenon DEF SetToSeqs
<1>3. IsFiniteSet(D) /\ Cardinality(D) = Cardinality(RowTicks)
  BY <1>1, FS_Interval
<1>4. order \in Injection(D, RowTicks)
  BY <1>2, Zenon DEF Injection, IsInjective
<1>5. order \in Surjection(D, RowTicks)
  BY <1>1, <1>3, <1>4, FS_Injection
<1>6. \A i \in RowTicks : \E n \in D : order[n] = i
  BY <1>5, Zenon DEF Surjection
<1>7. DOMAIN order = D
  BY <1>2, Zenon
<1>8. QED
  BY <1>1, <1>2, <1>6, <1>7

\* Where no wrap parts two rows they stand in the order of their ticks.
LEMMA RowsTrue ==
  ASSUME TicksInOrder, hasMsc \in BOOLEAN, NEW order, Sorted(order),
         NEW m \in DOMAIN order, NEW n \in DOMAIN order, m < n,
         ~Parted(order[m], order[n])
  PROVE  order[m] < order[n] /\ Stamp(order[m]) < Stamp(order[n])
<1> DEFINE i == order[m]
           j == order[n]
<1>1. /\ \A k \in DOMAIN order : order[k] \in RowTicks
      /\ \A k, l \in DOMAIN order : k # l => order[k] # order[l]
      /\ \E N \in Nat : DOMAIN order = 1 .. N
  BY OrderFacts DEF Sorted
<1>2. i \in DOMAIN ticks /\ j \in DOMAIN ticks
  BY <1>1 DEF RowTicks
<1>3. i \in Nat /\ j \in Nat
  BY <1>2, TickFacts
<1>4. m # n
  BY <1>1
<1>5. i # j
  BY <1>1, <1>4, Zenon
<1>6. Stamp(i) <= Stamp(j)
  BY Zenon DEF Sorted
<1>7. ~Parted(i, j) /\ ~Parted(j, i)
  BY DEF Parted
<1> HIDE DEF i, j
<1>8. CASE j < i
  <2>1. Stamp(j) < Stamp(i) /\ Stamp(i) \in Nat /\ Stamp(j) \in Nat
    BY <1>2, <1>7, <1>8, StampOrder
  <2>2. QED
    BY <1>6, <2>1
<1>9. CASE i < j
  <2>1. Stamp(i) < Stamp(j)
    BY <1>2, <1>7, <1>9, StampOrder
  <2>2. QED
    BY <1>9, <2>1 DEF i, j
<1>10. QED
  BY <1>3, <1>5, <1>8, <1>9

LEMMA RowAt ==
  ASSUME NEW order, RowsInOrder(order)
  PROVE  /\ DOMAIN rows = DOMAIN order
         /\ \A n \in DOMAIN order :
              /\ rows[n].tick = order[n]
              /\ rows[n].at = Stamp(order[n])
              /\ rows[n].close = Mid(ticks[order[n]].quote)
BY DEF RowsInOrder, Row

LEMMA SequenceTrue ==
  ASSUME TInv
  PROVE  TrueSequence
<1> SUFFICES ASSUME rows # NotMade,
                    NEW m \in DOMAIN rows, NEW n \in DOMAIN rows,
                    m < n, ~Parted(rows[m].tick, rows[n].tick)
             PROVE  rows[m].tick < rows[n].tick /\ rows[m].at < rows[n].at
  BY DEF TrueSequence
<1>1. PICK order : RowsInOrder(order)
  BY DEF TInv
<1>2. /\ m \in DOMAIN order /\ n \in DOMAIN order
      /\ rows[m].tick = order[m] /\ rows[n].tick = order[n]
      /\ rows[m].at = Stamp(order[m]) /\ rows[n].at = Stamp(order[n])
  BY <1>1, RowAt
<1>3. ~Parted(order[m], order[n])
  BY <1>2
<1>4. order[m] < order[n] /\ Stamp(order[m]) < Stamp(order[n])
  BY <1>1, <1>2, <1>3, RowsTrue DEF RowsInOrder, TInv
<1>5. QED
  BY <1>2, <1>4

---------------------------------------------------------------------------
(* The two tables.                                                         *)

\* A tick can be a row exactly if it has a midpoint: then the missing one of
\* its quotes is the last price.
LEMMA RowsAreSeries ==
  ASSUME TicksInOrder
  PROVE  RowTicks = Series
<1>1. SUFFICES ASSUME NEW i \in DOMAIN ticks PROVE IsRow(i) <=> InSeries(i)
  BY DEF RowTicks, Series
<1> DEFINE q == ticks[i].quote
<1>2. /\ q.bid \in Int \cup {NoPrice} /\ q.ask \in Int \cup {NoPrice}
      /\ NoPrice \notin Int
  BY TickFacts, TickAssumption
<1>3. IsRow(i) <=> NoPrice # High(q) /\ NoPrice # Low(q)
  BY DEF IsRow
<1>4. InSeries(i) <=> Mid(q) # NoPrice
  BY DEF InSeries
<1> HIDE DEF q
<1>5. CASE q.bid # NoPrice /\ q.ask # NoPrice
  <2>1. Mid(q) = (q.bid + q.ask) \div 2
    BY <1>5 DEF Mid
  <2>2. (q.bid + q.ask) \div 2 \in Int
    BY <1>2, <1>5
  <2>3. QED
    BY <1>2, <1>3, <1>4, <1>5, <2>1, <2>2 DEF High, Low
<1>6. CASE q.bid = NoPrice \/ q.ask = NoPrice
  BY <1>3, <1>4, <1>6 DEF High, Low
<1>7. QED
  BY <1>5, <1>6

LEMMA SecondOfStamp ==
  ASSUME TicksInOrder, hasMsc \in BOOLEAN, NEW i \in DOMAIN ticks
  PROVE  Stamp(i) \div (Million * MsPerSecond) = SecondOf(i)
<1>1. /\ MscOf(i) \in Nat /\ i - 1 \in Nat
      /\ Million \in Nat \ {0} /\ MsPerSecond \in Nat \ {0}
  BY MscFacts, TickFacts, TickAssumption
<1>2. (i - 1) % Million \in 0 .. Million - 1
  BY <1>1, Division
<1>3. QED
  BY <1>1, <1>2, StampSecond DEF Stamp, SecondOf

SecondRows(s) == {n \in DOMAIN rows : rows[n].at \div (Million * MsPerSecond) = s}

Group(s) == {i \in Series : SecondOf(i) = s}

\* The rows of a second are the ticks of its group.
LEMMA RowsOfSecond ==
  ASSUME TInv, NEW order, RowsInOrder(order), NEW s
  PROVE  /\ SecondRows(s) \subseteq DOMAIN order
         /\ \A n \in SecondRows(s) : order[n] \in Group(s)
         /\ \A i \in Group(s) : \E n \in SecondRows(s) : order[n] = i
         /\ Group(s) = {order[n] : n \in SecondRows(s)}
<1>1. /\ \A n \in DOMAIN order : order[n] \in Series
      /\ \A i \in Series : \E n \in DOMAIN order : order[n] = i
  BY OrderFacts, RowsAreSeries DEF RowsInOrder, Sorted, TInv
<1>2. DOMAIN rows = DOMAIN order /\ \A n \in DOMAIN order : rows[n].at = Stamp(order[n])
  BY RowAt
<1>3. \A i \in Series : Stamp(i) \div (Million * MsPerSecond) = SecondOf(i)
  BY SecondOfStamp DEF Series, TInv
<1>4. \A n \in DOMAIN order : n \in SecondRows(s) <=> SecondOf(order[n]) = s
  BY <1>1, <1>2, <1>3, Zenon DEF SecondRows
<1>5. SecondRows(s) \subseteq DOMAIN order
  BY <1>2, Zenon DEF SecondRows
<1>6. \A n \in SecondRows(s) : order[n] \in Group(s)
  BY <1>1, <1>4, <1>5, Zenon DEF Group
<1>7. \A i \in Group(s) : \E n \in SecondRows(s) : order[n] = i
  BY <1>1, <1>4, Zenon DEF Group
<1>8. QED
  BY <1>5, <1>6, <1>7

\* Where no wrap parts them, the first row is the first tick and the last row
\* the last.
LEMMA EndsOfSecond ==
  ASSUME TInv, NEW order, RowsInOrder(order), NEW s, Group(s) # {},
         \A m, n \in SecondRows(s) : ~Parted(order[m], order[n])
  PROVE  /\ Min(SecondRows(s)) \in DOMAIN order /\ order[Min(SecondRows(s))] = Min(Group(s))
         /\ Max(SecondRows(s)) \in DOMAIN order /\ order[Max(SecondRows(s))] = Max(Group(s))
<1> DEFINE within == SecondRows(s)
           group  == Group(s)
<1>1. /\ within \subseteq DOMAIN order
      /\ \A n \in within : order[n] \in group
      /\ \A i \in group : \E n \in within : order[n] = i
  BY RowsOfSecond
<1>2. PICK N \in Nat : DOMAIN order = 1 .. N
  BY OrderFacts DEF RowsInOrder, Sorted, TInv
<1>3. within \in SUBSET (1 .. N) /\ within \in SUBSET Nat /\ within \in SUBSET Int
      /\ within # {}
  BY <1>1, <1>2
<1>4. group \in SUBSET Int
  BY TickFacts DEF Group, Series, TInv
<1>5. ASSUME NEW m \in within, NEW n \in within, m < n PROVE order[m] < order[n]
  BY <1>1, <1>5, RowsTrue DEF RowsInOrder, TInv
<1>6. ASSUME NEW m \in within, NEW n \in within, m <= n PROVE order[m] <= order[n]
  <2>1. order[m] \in Int /\ order[n] \in Int /\ m \in Int /\ n \in Int
    BY <1>1, <1>3, <1>4
  <2>2. CASE m = n
    BY <2>1, <2>2
  <2>3. CASE m < n
    BY <1>5, <2>1, <2>3
  <2>4. QED
    BY <1>6, <2>1, <2>2, <2>3
<1> HIDE DEF within, group
<1>7. order[Min(within)] = Min(group) /\ Min(within) \in DOMAIN order
  <2>1. PICK first \in within : \A n \in within : first <= n
    BY <1>3, LeastExists
  <2>2. Min(within) = first
    BY <1>3, <2>1, MinIs
  <2>3. order[first] \in group /\ \A i \in group : order[first] <= i
    BY <1>1, <1>6, <2>1
  <2>4. Min(group) = order[first]
    BY <1>4, <2>3, MinIs
  <2>5. QED
    BY <1>1, <2>2, <2>4
<1>8. order[Max(within)] = Max(group) /\ Max(within) \in DOMAIN order
  <2>1. PICK last \in within : \A n \in within : last >= n
    BY <1>2, <1>3, GreatestExists
  <2>2. Max(within) = last
    BY <1>3, <2>1, MaxIs
  <2>3. \A n \in within : n <= last
    BY <1>3, <2>1
  <2>4. order[last] \in group /\ \A i \in group : i <= order[last]
    BY <1>1, <1>6, <2>3
  <2>5. \A i \in group : order[last] >= i
    BY <1>4, <2>4
  <2>6. Max(group) = order[last]
    BY <1>4, <2>4, <2>5, MaxIs
  <2>7. QED
    BY <1>1, <2>2, <2>6
<1>9. QED
  BY <1>7, <1>8 DEF within, group

LEMMA TablesAgree ==
  ASSUME TInv
  PROVE  OneSecondAgrees
<1> SUFFICES ASSUME rows # NotMade, bars # NotMade PROVE OneSecondAgrees
  BY DEF OneSecondAgrees
<1> DEFINE Seconds == {SecondOf(i) : i \in Series}
           Closes(s) == {rows[n].close : n \in SecondRows(s)}
           Mids(s) == {Mid(ticks[i].quote) : i \in Group(s)}
<1>1. PICK order : RowsInOrder(order)
  BY DEF TInv
<1>2. /\ DOMAIN bars = Seconds
      /\ \A s \in Seconds : bars[s] = Bar(Group(s))
  BY Zenon DEF TInv, BarsMade, Group
<1>3. /\ DOMAIN rows = DOMAIN order
      /\ \A n \in DOMAIN order :
           /\ rows[n].tick = order[n]
           /\ rows[n].at = Stamp(order[n])
           /\ rows[n].close = Mid(ticks[order[n]].quote)
  BY <1>1, RowAt
<1>4. Seconds = {rows[n].at \div (Million * MsPerSecond) : n \in DOMAIN rows}
  <2>1. /\ \A n \in DOMAIN order : order[n] \in Series
        /\ \A i \in Series : \E n \in DOMAIN order : order[n] = i
    BY <1>1, OrderFacts, RowsAreSeries DEF RowsInOrder, Sorted, TInv
  <2>2. \A i \in Series : Stamp(i) \div (Million * MsPerSecond) = SecondOf(i)
    BY SecondOfStamp DEF Series, TInv
  <2>3. \A n \in DOMAIN rows : rows[n].at \div (Million * MsPerSecond) = SecondOf(order[n])
    BY <1>3, <2>1, <2>2, Zenon
  <2>4. QED
    BY <1>3, <2>1, <2>3
<1>5. ASSUME NEW s \in Seconds
      PROVE  /\ bars[s].high = Max(Closes(s)) /\ bars[s].low = Min(Closes(s))
             /\ (\A m, n \in SecondRows(s) : ~Parted(rows[m].tick, rows[n].tick)) =>
                  /\ bars[s].open = rows[Min(SecondRows(s))].close
                  /\ bars[s].close = rows[Max(SecondRows(s))].close
  <2>1. /\ SecondRows(s) \subseteq DOMAIN order
        /\ \A n \in SecondRows(s) : order[n] \in Group(s)
        /\ \A i \in Group(s) : \E n \in SecondRows(s) : order[n] = i
    BY <1>1, RowsOfSecond
  <2>2. Closes(s) = Mids(s)
    BY <1>3, <2>1
  <2>3. /\ bars[s].open = Mid(ticks[Min(Group(s))].quote)
        /\ bars[s].high = Max(Mids(s)) /\ bars[s].low = Min(Mids(s))
        /\ bars[s].close = Mid(ticks[Max(Group(s))].quote)
    <3>1. bars[s] = [open |-> Mid(ticks[Min(Group(s))].quote), high |-> Max(Mids(s)),
                     low |-> Min(Mids(s)), close |-> Mid(ticks[Max(Group(s))].quote)]
      BY <1>2, <1>5, Zenon DEF Bar
    <3> HIDE DEF Mids
    <3>2. QED
      BY <3>1
  <2>4. Group(s) # {}
    BY <1>5 DEF Group
  <2>5. ASSUME \A m, n \in SecondRows(s) : ~Parted(rows[m].tick, rows[n].tick)
        PROVE  /\ bars[s].open = rows[Min(SecondRows(s))].close
               /\ bars[s].close = rows[Max(SecondRows(s))].close
    <3>1. \A m, n \in SecondRows(s) : ~Parted(order[m], order[n])
      BY <1>3, <2>1, <2>5
    <3>2. /\ Min(SecondRows(s)) \in DOMAIN order /\ order[Min(SecondRows(s))] = Min(Group(s))
          /\ Max(SecondRows(s)) \in DOMAIN order /\ order[Max(SecondRows(s))] = Max(Group(s))
      BY <1>1, <2>4, <3>1, EndsOfSecond
    <3>3. QED
      BY <1>3, <2>3, <3>2
  <2>6. QED
    BY <2>2, <2>3, <2>5
<1> HIDE DEF Seconds
<1>6. QED
  BY <1>2, <1>4, <1>5 DEF OneSecondAgrees, SecondRows

---------------------------------------------------------------------------
(* The steps.                                                              *)

LEMMA ArrivalStep ==
  ASSUME TInv, TickArrives
  PROVE  TInv'
<1>1. PICK msc \in Milliseconds, q \in Quotes :
        /\ ticks # <<>> => Last(ticks).msc <= msc
        /\ ticks' = Append(ticks, [msc |-> msc, quote |-> q])
  BY DEF TickArrives
<1> DEFINE e == [msc |-> msc, quote |-> q]
           Tick == [msc : Milliseconds, quote : Quotes]
<1>2. ticks \in Seq(Tick) /\ e \in Tick /\ Len(ticks) \in Nat /\ DOMAIN ticks = 1 .. Len(ticks)
  BY TickFacts DEF TInv, TicksInOrder
<1>3. /\ ticks' \in Seq(Tick) /\ Len(ticks') = Len(ticks) + 1
      /\ DOMAIN ticks' = 1 .. Len(ticks) + 1
      /\ \A i \in 1 .. Len(ticks) : ticks'[i] = ticks[i]
      /\ ticks'[Len(ticks) + 1] = e
  BY <1>1, <1>2, AppendProperties
<1>4. \A i \in 1 .. Len(ticks) : ticks[i].msc <= msc
  <2>1. SUFFICES ASSUME NEW i \in 1 .. Len(ticks) PROVE ticks[i].msc <= msc
    OBVIOUS
  <2>2. ticks # <<>> /\ Len(ticks) \in DOMAIN ticks /\ i \in DOMAIN ticks
    BY <1>2, <2>1, EmptySeq
  <2>3. ticks[Len(ticks)].msc <= msc
    BY <1>1, <2>2 DEF Last
  <2>4. /\ ticks[i].msc \in Nat /\ ticks[Len(ticks)].msc \in Nat /\ msc \in Nat
    BY <2>2, TickFacts, TickAssumption DEF TInv
  <2>5. i = Len(ticks) \/ ticks[i].msc <= ticks[Len(ticks)].msc
    BY <1>2, <2>1, <2>2 DEF TInv, TicksInOrder
  <2>6. QED
    BY <2>3, <2>4, <2>5
<1>5. TicksInOrder'
  <2>1. SUFFICES ASSUME NEW i \in DOMAIN ticks', NEW j \in DOMAIN ticks', i < j
                 PROVE  ticks'[i].msc <= ticks'[j].msc
    BY <1>3 DEF TicksInOrder
  <2>2. CASE j <= Len(ticks)
    BY <1>2, <1>3, <2>1, <2>2 DEF TInv, TicksInOrder
  <2>3. CASE j = Len(ticks) + 1
    <3>1. i \in 1 .. Len(ticks) /\ ticks'[j].msc = msc /\ ticks'[i] = ticks[i]
      BY <1>2, <1>3, <2>1, <2>3
    <3>2. QED
      BY <1>4, <3>1
  <2>4. QED
    BY <1>2, <1>3, <2>1, <2>2, <2>3
<1>6. rows = NotMade /\ bars = NotMade /\ UNCHANGED <<hasMsc, rows, bars>>
  BY DEF TInv, TickArrives
<1>7. QED
  BY <1>5, <1>6 DEF TInv

\* Tables of the same ticks are the same.
LEMMA SameTicks ==
  ASSUME UNCHANGED <<ticks, hasMsc>>
  PROVE  /\ TicksInOrder' = TicksInOrder
         /\ rows' = rows => \A order : RowsInOrder(order)' = RowsInOrder(order)
         /\ bars' = bars => BarsMade' = BarsMade
<1>1. \A i : /\ MscOf(i)' = MscOf(i) /\ Stamp(i)' = Stamp(i) /\ SecondOf(i)' = SecondOf(i)
             /\ Row(i)' = Row(i) /\ IsRow(i)' = IsRow(i) /\ InSeries(i)' = InSeries(i)
  BY DEF MscOf, Stamp, SecondOf, Row, IsRow, InSeries
<1>2. TicksInOrder' = TicksInOrder
  BY DEF TicksInOrder
<1>3. \A order : Sorted(order)' = Sorted(order)
  BY <1>1 DEF Sorted, RowTicks
<1>4. ASSUME rows' = rows, NEW order PROVE RowsInOrder(order)' = RowsInOrder(order)
  BY <1>1, <1>3, <1>4 DEF RowsInOrder
<1>5. ASSUME bars' = bars PROVE BarsMade' = BarsMade
  <2>1. Series' = Series
    BY <1>1 DEF Series
  <2>2. \A g : Bar(g)' = Bar(g)
    BY DEF Bar
  <2> DEFINE table == [s \in {SecondOf(i) : i \in Series} |->
                         Bar({i \in Series : SecondOf(i) = s})]
  <2>3. table' = table
    BY <1>1, <2>1, <2>2
  <2>4. QED
    BY <1>5, <2>3, Zenon DEF BarsMade
<1>6. QED
  BY <1>2, <1>4, <1>5

LEMMA TableStep ==
  ASSUME TInv, CopyTicks \/ ToIntrabar \/ ToSeconds \/ UNCHANGED tickVars
  PROVE  TInv'
<1>1. CASE CopyTicks
  <2>1. rows = NotMade /\ bars = NotMade /\ UNCHANGED <<hasMsc, rows, bars>>
    BY <1>1 DEF TInv, CopyTicks
  <2>2. CASE ticks' = <<>>
    <3>1. <<>> \in Seq([msc : Milliseconds, quote : Quotes]) /\ DOMAIN <<>> = {}
      BY EmptySeq
    <3>2. QED
      BY <2>1, <2>2, <3>1 DEF TInv, TicksInOrder
  <2>3. CASE ticks' = ticks
    BY <2>1, <2>3 DEF TInv, TicksInOrder
  <2>4. QED
    BY <1>1, <2>2, <2>3 DEF CopyTicks
<1>2. CASE ToIntrabar
  <2>1. phase = "copied" /\ phase' = "copied" /\ UNCHANGED <<ticks, hasMsc, bars>>
    BY <1>2 DEF ToIntrabar
  <2>2. \E order : Sorted(order) /\ rows' = [n \in DOMAIN order |-> Row(order[n])]
    BY <1>2, Zenon DEF ToIntrabar, Sorted, RowTicks
  <2>3. \A order : Sorted(order)' = Sorted(order)
                   /\ [n \in DOMAIN order |-> Row(order[n])]' = [n \in DOMAIN order |-> Row(order[n])]
    BY <2>1 DEF Sorted, RowTicks, IsRow, Row, Stamp, MscOf
  <2>4. \E order : RowsInOrder(order)'
    <3>1. PICK order : Sorted(order) /\ rows' = [n \in DOMAIN order |-> Row(order[n])]
      BY <2>2
    <3>2. Sorted(order)' /\ rows' = [n \in DOMAIN order |-> Row(order[n])]'
      BY <2>3, <3>1
    <3>3. RowsInOrder(order)'
      BY <3>2 DEF RowsInOrder
    <3>4. QED
      BY <3>3
  <2>5. TicksInOrder' /\ (bars' # NotMade => BarsMade')
    BY <2>1, SameTicks DEF TInv
  <2>6. QED
    BY <2>1, <2>4, <2>5 DEF TInv
<1>3. CASE ToSeconds
  <2>1. phase = "copied" /\ phase' = "copied" /\ UNCHANGED <<ticks, hasMsc, rows>>
    BY <1>3 DEF ToSeconds
  <2>2. bars' = [s \in {SecondOf(i) : i \in Series} |-> Bar({i \in Series : SecondOf(i) = s})]
    BY <1>3, Zenon DEF ToSeconds, Series
  <2>3. BarsMade'
    BY <2>1, <2>2 DEF BarsMade, Series, InSeries, Bar, SecondOf, MscOf
  <2>4. TicksInOrder' /\ (rows' # NotMade => \E order : RowsInOrder(order)')
    BY <2>1, SameTicks DEF TInv
  <2>5. QED
    BY <2>1, <2>3, <2>4 DEF TInv
<1>4. CASE UNCHANGED tickVars
  <2>1. UNCHANGED <<ticks, hasMsc, phase, rows, bars>>
    BY <1>4 DEF tickVars
  <2>2. QED
    BY <2>1, SameTicks DEF TInv
<1>5. QED
  BY <1>1, <1>2, <1>3, <1>4

LEMMA TableInvariant == TickSpec => []TInv
<1>1. TickInit => TInv
  <2>1. <<>> \in Seq([msc : Milliseconds, quote : Quotes]) /\ DOMAIN <<>> = {}
    BY EmptySeq
  <2>2. QED
    BY <2>1 DEF TickInit, TInv, TicksInOrder
<1>2. TInv /\ [TickNext]_tickVars => TInv'
  BY ArrivalStep, TableStep DEF TickNext
<1>3. QED
  BY <1>1, <1>2, PTL DEF TickSpec

(***************************************************************************)
(* The intrabar rows are the true sequence of the ticks, each at a time of *)
(* its own, but for a millisecond that a wrap of the index parts: for      *)
(* every copy, and whatever order the sort leaves equal stamps in.         *)
(***************************************************************************)
THEOREM RowsAreTrueSequence == TickSpec => []TrueSequence
BY TableInvariant, SequenceTrue, PTL

(***************************************************************************)
(* The bars are those of the intrabar rows: same seconds, same extremes,   *)
(* and the same ends where no wrap parts the second.                       *)
(***************************************************************************)
THEOREM TablesTellOneStory == TickSpec => []OneSecondAgrees
BY TableInvariant, TablesAgree, PTL

=============================================================================
