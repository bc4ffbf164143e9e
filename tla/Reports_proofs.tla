--------------------------- MODULE Reports_proofs ---------------------------
(***************************************************************************)
(* The one-pass drawdown is the deepest one, for every log: the loop       *)
(* invariant says that peak is the highest point of the curve so far.      *)
(* verify_realised_r reports a match as long as the roundings of the RR    *)
(* column fit in its tolerance.  run_full_breakdown's tables add up, and   *)
(* the three programs agree on every log but for the rows they treat       *)
(* differently: what each has summed is a sum over a set of rows of the    *)
(* table, of which the first section states the laws.                      *)
(***************************************************************************)
EXTENDS Reports, SequenceTheorems, FiniteSetTheorems, TLAPS

---------------------------------------------------------------------------
(* Sums over a finite set of indices.                                      *)
Pick(s) == CHOOSE x \in s : TRUE

IsPartialSum(g, f, S) ==
  g = [s \in SUBSET S |-> IF s = {} THEN 0 ELSE f[Pick(s)] + g[s \ {Pick(s)}]]

PartialSum(f, S) == CHOOSE g : IsPartialSum(g, f, S)

LEMMA SumIsPartialSum ==
  ASSUME NEW f, NEW S
  PROVE  SumFunctionOnSet(f, S) = PartialSum(f, S)[S]
BY Zenon DEF SumFunctionOnSet, FoldFunctionOnSet, MapThenFoldSet, PartialSum, IsPartialSum, Pick

LEMMA PickIn == ASSUME NEW s, s # {} PROVE Pick(s) \in s
BY DEF Pick

\* Nothing but smaller subsets is left when a property fails at a minimal one.
LEMMA MinimalSubset ==
  ASSUME NEW S, IsFiniteSet(S), NEW T \in SUBSET SUBSET S, T # {}
  PROVE  \E s \in T : \A u \in T : u \subseteq s => u = s
<1>1. IsWellFoundedOn(StrictSubsetOrdering(S), SUBSET S)
  BY FS_StrictSubsetOrderingWellFounded, FS_FiniteSubsetsOfFinite
<1>2. \E s \in T : \A u \in T : <<u, s>> \notin StrictSubsetOrdering(S)
  BY <1>1, WFMin, Zenon
<1>3. QED
  BY <1>2, Zenon DEF StrictSubsetOrdering


\* What the recursion says at one set.
LEMMA PartialSumAt ==
  ASSUME NEW g, NEW f, NEW S, IsPartialSum(g, f, S), NEW s \in SUBSET S
  PROVE  /\ s = {} => g[s] = 0
         /\ s # {} => g[s] = f[Pick(s)] + g[s \ {Pick(s)}]
<1>1. g[s] = IF s = {} THEN 0 ELSE f[Pick(s)] + g[s \ {Pick(s)}]
  BY Zenon DEF IsPartialSum
<1>2. QED
  BY <1>1

LEMMA PartialSumsAgree ==
  ASSUME NEW f, NEW S, IsFiniteSet(S), NEW T \in SUBSET S,
         NEW g, IsPartialSum(g, f, S), NEW h, IsPartialSum(h, f, T)
  PROVE  g[T] = h[T]
<1> DEFINE Wrong == {s \in SUBSET T : g[s] # h[s]}
<1>1. SUFFICES Wrong = {}
  BY <1>1, Zenon
<1>2. SUFFICES ASSUME Wrong # {} PROVE FALSE
  OBVIOUS
<1>3. IsFiniteSet(T) /\ Wrong \in SUBSET SUBSET T
  BY FS_Subset, Zenon
<1>4. \E s \in Wrong : \A u \in Wrong : u \subseteq s => u = s
  <2> HIDE DEF Wrong
  <2>1. QED
    BY <1>2, <1>3, MinimalSubset
<1>5. PICK s \in Wrong : \A u \in Wrong : u \subseteq s => u = s
  BY <1>4, Zenon
<1>6. s # {}
  <2>1. {} \in SUBSET T /\ {} \in SUBSET S
    OBVIOUS
  <2>2. g[{}] = 0 /\ h[{}] = 0
    BY <2>1, PartialSumAt, Zenon
  <2>3. QED
    BY <2>2, Zenon
<1>7. Pick(s) \in s /\ s \in SUBSET T /\ s \in SUBSET S
  BY <1>6, PickIn, Zenon
<1>8. g[s \ {Pick(s)}] = h[s \ {Pick(s)}]
  <2>1. s \ {Pick(s)} \subseteq s /\ s \ {Pick(s)} # s
    BY <1>7
  <2>2. s \ {Pick(s)} \in SUBSET T
    BY <1>7
  <2>3. s \ {Pick(s)} \notin Wrong
    BY <1>5, <2>1, Zenon
  <2>4. QED
    BY <2>2, <2>3, Zenon
<1>9. g[s] = h[s]
  <2>1. g[s] = f[Pick(s)] + g[s \ {Pick(s)}]
    BY <1>6, <1>7, PartialSumAt, ZenonT(60)
  <2>2. h[s] = f[Pick(s)] + h[s \ {Pick(s)}]
    BY <1>6, <1>7, PartialSumAt, ZenonT(60)
  <2>3. QED
    BY <1>8, <2>1, <2>2, Zenon
<1>10. QED
  BY <1>9, Zenon

\* The recursion defines a function on the subsets of every finite set.
LEMMA PartialSumExists ==
  ASSUME NEW f, NEW S, IsFiniteSet(S)
  PROVE  IsPartialSum(PartialSum(f, S), f, S)
<1> DEFINE Undefined == {T \in SUBSET S : ~IsPartialSum(PartialSum(f, T), f, T)}
<1>1. SUFFICES ASSUME Undefined # {} PROVE FALSE
  BY <1>1, Zenon
<1>2. Undefined \in SUBSET SUBSET S
  BY Zenon
<1>3. \E T \in Undefined : \A u \in Undefined : u \subseteq T => u = T
  <2> HIDE DEF Undefined
  <2>1. QED
    BY <1>1, <1>2, MinimalSubset
<1>4. PICK T \in Undefined : \A u \in Undefined : u \subseteq T => u = T
  BY <1>3, Zenon
<1>5. T \in SUBSET S /\ IsFiniteSet(T)
  BY <1>4, FS_Subset, Zenon
<1>6. ASSUME NEW u \in SUBSET T, u # T
      PROVE  IsPartialSum(PartialSum(f, u), f, u) /\ IsFiniteSet(u)
  <2>1. u \in SUBSET S /\ u \notin Undefined
    BY <1>4, <1>5, <1>6, Zenon
  <2>2. QED
    BY <1>5, <2>1, FS_Subset, Zenon
<1> DEFINE Rest(s) == s \ {Pick(s)}
           g == [s \in SUBSET T |-> IF s = {} THEN 0
                                    ELSE f[Pick(s)] + PartialSum(f, Rest(s))[Rest(s)]]
<1>7. ASSUME NEW s \in SUBSET T, s # {}
      PROVE  g[Rest(s)] = PartialSum(f, Rest(s))[Rest(s)]
  <2> DEFINE u == Rest(s)
  <2>1. Pick(s) \in s
    BY <1>7, PickIn, Zenon
  <2>2. u \in SUBSET T /\ u # T
    BY <2>1
  <2>3. IsPartialSum(PartialSum(f, u), f, u) /\ IsFiniteSet(u) /\ u \in SUBSET u
    BY <1>6, <2>2, Zenon
  <2>4. CASE u = {}
    <3>1. g[u] = 0
      BY <2>2, <2>4
    <3>2. PartialSum(f, u)[u] = 0
      BY <2>3, <2>4, PartialSumAt, Zenon
    <3>3. QED
      BY <3>1, <3>2
  <2>5. CASE u # {}
    <3> DEFINE v == Rest(u)
    <3> HIDE DEF u
    <3>1. Pick(u) \in u
      BY <2>5, PickIn, Zenon
    <3> HIDE DEF g
    <3>2. v = u \ {Pick(u)}
      BY Zenon
    <3> HIDE DEF v, Rest
    <3>3. v \in SUBSET u /\ v \in SUBSET T /\ v # T
      BY <2>2, <3>1, <3>2
    <3>4. g[u] = f[Pick(u)] + PartialSum(f, v)[v]
      BY <2>2, <2>5 DEF g, v, Rest
    <3>5. PartialSum(f, u)[u] = f[Pick(u)] + PartialSum(f, u)[v]
      BY <2>3, <2>5, <3>2, PartialSumAt, ZenonT(60)
    <3>6. IsPartialSum(PartialSum(f, v), f, v)
      BY <1>6, <3>3, Zenon
    <3>7. PartialSum(f, u)[v] = PartialSum(f, v)[v]
      BY <2>3, <3>3, <3>6, PartialSumsAgree
    <3>8. QED
      BY <3>4, <3>5, <3>7, Zenon DEF u
  <2>6. QED
    BY <2>4, <2>5, Zenon
<1>8. \A s \in SUBSET T :
        (IF s = {} THEN 0 ELSE f[Pick(s)] + PartialSum(f, Rest(s))[Rest(s)])
          = (IF s = {} THEN 0 ELSE f[Pick(s)] + g[Rest(s)])
  <2> HIDE DEF g
  <2>1. QED
    BY <1>7, Zenon
<1>9. g = [s \in SUBSET T |-> IF s = {} THEN 0 ELSE f[Pick(s)] + g[Rest(s)]]
  <2> DEFINE e(s) == IF s = {} THEN 0 ELSE f[Pick(s)] + PartialSum(f, Rest(s))[Rest(s)]
             d(s) == IF s = {} THEN 0 ELSE f[Pick(s)] + g[Rest(s)]
  <2>1. \A s \in SUBSET T : e(s) = d(s)
    BY <1>8, Zenon
  <2>2. g = [s \in SUBSET T |-> e(s)]
    BY Zenon
  <2> HIDE DEF e, d
  <2>3. [s \in SUBSET T |-> e(s)] = [s \in SUBSET T |-> d(s)]
    BY <2>1, Zenon
  <2>4. g = [s \in SUBSET T |-> d(s)]
    BY <2>2, <2>3, Zenon
  <2>5. QED
    BY <2>4, Zenon DEF d
<1>10. IsPartialSum(g, f, T)
  <2> HIDE DEF g
  <2>1. QED
    BY <1>9, Zenon DEF IsPartialSum
<1>11. IsPartialSum(PartialSum(f, T), f, T)
  BY <1>10, Zenon DEF PartialSum
<1>12. QED
  BY <1>4, <1>11, Zenon

LEMMA SumUnfolds ==
  ASSUME NEW f, NEW S, IsFiniteSet(S)
  PROVE  /\ S = {} => SumFunctionOnSet(f, S) = 0
         /\ S # {} => SumFunctionOnSet(f, S) = f[Pick(S)] + SumFunctionOnSet(f, S \ {Pick(S)})
<1> DEFINE R == S \ {Pick(S)}
<1>1. IsFiniteSet(R) /\ R \in SUBSET S /\ S \in SUBSET S
  BY FS_Subset
<1>2. R = S \ {Pick(S)}
  OBVIOUS
<1> HIDE DEF R
<1>3. IsPartialSum(PartialSum(f, S), f, S) /\ IsPartialSum(PartialSum(f, R), f, R)
  BY <1>1, PartialSumExists
<1>4. PartialSum(f, S)[R] = PartialSum(f, R)[R]
  BY <1>1, <1>3, PartialSumsAgree
<1>5. /\ S = {} => PartialSum(f, S)[S] = 0
      /\ S # {} => PartialSum(f, S)[S] = f[Pick(S)] + PartialSum(f, S)[R]
  BY <1>1, <1>2, <1>3, PartialSumAt, ZenonT(60)
<1>6. QED
  BY <1>2, <1>4, <1>5, SumIsPartialSum, Zenon

\* Any term may be taken out of a sum of integers first.
LEMMA SumTakeOut ==
  ASSUME NEW f, NEW S, IsFiniteSet(S), \A i \in S : f[i] \in Int
  PROVE  /\ SumFunctionOnSet(f, S) \in Int
         /\ \A x \in S : SumFunctionOnSet(f, S) = f[x] + SumFunctionOnSet(f, S \ {x})
<1> DEFINE Sum(s) == SumFunctionOnSet(f, s)
           Law(s) == Sum(s) \in Int /\ \A x \in s : Sum(s) = f[x] + Sum(s \ {x})
           Broken == {s \in SUBSET S : ~Law(s)}
<1>1. SUFFICES ASSUME Broken # {} PROVE FALSE
  <2>1. S \in SUBSET S
    OBVIOUS
  <2>2. QED
    BY <1>1, <2>1, Zenon
<1>2. Broken \in SUBSET SUBSET S
  BY Zenon
<1>3. \E s \in Broken : \A u \in Broken : u \subseteq s => u = s
  <2> HIDE DEF Broken
  <2>1. QED
    BY <1>1, <1>2, MinimalSubset
<1>4. PICK s \in Broken : \A u \in Broken : u \subseteq s => u = s
  BY <1>3, Zenon
<1>5. s \in SUBSET S /\ IsFiniteSet(s) /\ ~Law(s)
  BY <1>4, FS_Subset, Zenon
<1>6. ASSUME NEW x \in s PROVE Law(s \ {x})
  <2>1. s \ {x} \in SUBSET S /\ s \ {x} \subseteq s /\ s \ {x} # s
    BY <1>5
  <2>2. QED
    BY <1>4, <2>1, Zenon
<1> HIDE DEF Broken
<1>7. s # {}
  <2>1. SUFFICES ASSUME s = {} PROVE FALSE
    OBVIOUS
  <2>2. Sum(s) = 0
    BY <1>5, <2>1, SumUnfolds, Zenon
  <2>3. Law(s)
    <3> HIDE DEF Sum
    <3>1. QED
      BY <2>1, <2>2
  <2>4. QED
    BY <1>5, <2>3, Zenon
<1> DEFINE c == Pick(s)
<1>8. c \in s /\ f[c] \in Int
  BY <1>5, <1>7, PickIn
<1>9. Sum(s) = f[c] + Sum(s \ {c})
  BY <1>5, <1>7, SumUnfolds, Zenon
<1> HIDE DEF c
<1>10. Sum(s \ {c}) \in Int
  BY <1>6, <1>8, Zenon
<1>11. Sum(s) \in Int
  <2> HIDE DEF Sum
  <2>1. QED
    BY <1>8, <1>9, <1>10
<1>12. ASSUME NEW x \in s PROVE Sum(s) = f[x] + Sum(s \ {x})
  <2>1. CASE x = c
    BY <1>9, <2>1, Zenon
  <2>2. CASE x # c
    <3> DEFINE r == s \ {c, x}
    <3>1. r = (s \ {c}) \ {x} /\ r = (s \ {x}) \ {c} /\ x \in s \ {c} /\ c \in s \ {x}
      BY <1>8, <2>2
    <3> HIDE DEF r
    <3>2. Sum(s \ {c}) = f[x] + Sum(r)
      BY <1>6, <1>8, <3>1, Zenon
    <3>3. Sum(s \ {x}) = f[c] + Sum(r)
      BY <1>6, <3>1, Zenon
    <3>4. Sum(r) \in Int
      <4>1. Law(s \ {x}) /\ Law(s \ {c})
        BY <1>6, <1>8, Zenon
      <4>2. r \in SUBSET S /\ r \subseteq s /\ r # s
        BY <1>5, <1>8, <3>1
      <4>3. Law(r)
        BY <1>4, <4>2, Zenon DEF Broken
      <4>4. QED
        BY <4>3, Zenon
    <3>5. f[x] \in Int
      BY <1>5
    <3> HIDE DEF Sum
    <3>6. QED
      BY <1>8, <1>9, <3>2, <3>3, <3>4, <3>5
  <2>3. QED
    BY <2>1, <2>2, Zenon
<1>13. QED
  BY <1>5, <1>11, <1>12, Zenon

\* Only the terms count.
LEMMA SumSameTerms ==
  ASSUME NEW f, NEW g, NEW S, \A i \in S : f[i] = g[i]
  PROVE  SumFunctionOnSet(f, S) = SumFunctionOnSet(g, S)
<1>1. ASSUME NEW h
      PROVE  IsPartialSum(h, f, S) <=> IsPartialSum(h, g, S)
  <2> DEFINE d(s) == IF s = {} THEN 0 ELSE f[Pick(s)] + h[s \ {Pick(s)}]
             e(s) == IF s = {} THEN 0 ELSE g[Pick(s)] + h[s \ {Pick(s)}]
  <2>1. \A s \in SUBSET S : d(s) = e(s)
    <3>1. \A s \in SUBSET S : s # {} => f[Pick(s)] = g[Pick(s)]
      BY PickIn
    <3>2. QED
      BY <3>1, Zenon
  <2> HIDE DEF d, e
  <2>2. [s \in SUBSET S |-> d(s)] = [s \in SUBSET S |-> e(s)]
    BY <2>1, Zenon
  <2>3. QED
    BY <2>2, Zenon DEF IsPartialSum, d, e
<1>2. PartialSum(f, S) = PartialSum(g, S)
  BY <1>1, Zenon DEF PartialSum
<1>3. QED
  BY <1>2, SumIsPartialSum, Zenon

\* The sum over nothing, and over one index more.
LEMMA SumOfNothing ==
  ASSUME NEW f, DOMAIN f = {}
  PROVE  SumFunction(f) = 0
BY SumUnfolds, FS_EmptySet, Zenon DEF SumFunction

LEMMA SumOfFinite ==
  ASSUME NEW f, IsFiniteSet(DOMAIN f), \A i \in DOMAIN f : f[i] \in Int
  PROVE  SumFunction(f) \in Int
BY SumTakeOut DEF SumFunction

LEMMA SumOfOneMore ==
  ASSUME NEW f, NEW g, NEW x, IsFiniteSet(DOMAIN f), x \notin DOMAIN f,
         DOMAIN g = DOMAIN f \cup {x}, \A i \in DOMAIN f : g[i] = f[i] /\ f[i] \in Int,
         g[x] \in Int
  PROVE  /\ SumFunction(f) \in Int /\ SumFunction(g) \in Int
         /\ SumFunction(g) = SumFunction(f) + g[x]
<1>1. IsFiniteSet(DOMAIN g) /\ DOMAIN g \ {x} = DOMAIN f /\ x \in DOMAIN g
  BY FS_AddElement
<1>2. \A i \in DOMAIN g : g[i] \in Int
  OBVIOUS
<1>3. SumFunctionOnSet(g, DOMAIN f) = SumFunctionOnSet(f, DOMAIN f)
  BY SumSameTerms
<1>4. SumFunctionOnSet(g, DOMAIN g) = g[x] + SumFunctionOnSet(g, DOMAIN f)
  BY <1>1, <1>2, SumTakeOut
<1>5. SumFunctionOnSet(f, DOMAIN f) \in Int /\ SumFunctionOnSet(g, DOMAIN g) \in Int
  BY <1>1, <1>2, SumTakeOut
<1>6. QED
  BY <1>3, <1>4, <1>5 DEF SumFunction

\* One term changes, and the sum by as much.
LEMMA SumOneChanged ==
  ASSUME NEW K, IsFiniteSet(K), NEW f, DOMAIN f = K, NEW g, DOMAIN g = K, NEW x \in K,
         \A k \in K : f[k] \in Int /\ g[k] \in Int, \A k \in K \ {x} : g[k] = f[k]
  PROVE  SumFunction(f) \in Int /\ SumFunction(g) = SumFunction(f) + (g[x] - f[x])
<1> DEFINE R == K \ {x}
<1>1. IsFiniteSet(R) /\ R \subseteq K
  BY FS_Subset
<1>2. SumFunctionOnSet(f, K) = f[x] + SumFunctionOnSet(f, R) /\ SumFunctionOnSet(f, K) \in Int
  BY SumTakeOut
<1>3. SumFunctionOnSet(g, K) = g[x] + SumFunctionOnSet(g, R)
  BY SumTakeOut
<1>4. SumFunctionOnSet(f, R) \in Int
  <2>1. \A i \in R : f[i] \in Int
    OBVIOUS
  <2> HIDE DEF R
  <2>2. QED
    BY <1>1, <2>1, SumTakeOut
<1>5. SumFunctionOnSet(g, R) = SumFunctionOnSet(f, R)
  BY SumSameTerms
<1>6. SumFunction(f) = SumFunctionOnSet(f, K) /\ SumFunction(g) = SumFunctionOnSet(g, K)
  BY DEF SumFunction
<1> HIDE DEF R
<1>7. QED
  BY <1>2, <1>3, <1>4, <1>5, <1>6

LEMMA SumOfZeros ==
  ASSUME NEW f, IsFiniteSet(DOMAIN f), \A k \in DOMAIN f : f[k] = 0
  PROVE  SumFunction(f) = 0
<1> DEFINE Sum(s) == SumFunctionOnSet(f, s)
           Wrong == {s \in SUBSET (DOMAIN f) : Sum(s) # 0}
<1>1. SUFFICES ASSUME Wrong # {} PROVE FALSE
  <2>1. DOMAIN f \notin Wrong => Sum(DOMAIN f) = 0
    BY Zenon
  <2>2. QED
    BY <1>1, <2>1, Zenon DEF SumFunction
<1>2. Wrong \in SUBSET SUBSET (DOMAIN f)
  BY Zenon
<1>3. \E s \in Wrong : \A u \in Wrong : u \subseteq s => u = s
  <2> HIDE DEF Wrong
  <2>1. QED
    BY <1>1, <1>2, MinimalSubset
<1>4. PICK s \in Wrong : \A u \in Wrong : u \subseteq s => u = s
  BY <1>3, Zenon
<1>5. s \in SUBSET (DOMAIN f) /\ IsFiniteSet(s) /\ Sum(s) # 0
  BY <1>4, FS_Subset, Zenon
<1>6. s # {}
  BY <1>5, SumUnfolds, Zenon
<1>7. Pick(s) \in s /\ f[Pick(s)] = 0
  BY <1>5, <1>6, PickIn
<1>8. Sum(s) = f[Pick(s)] + Sum(s \ {Pick(s)})
  BY <1>5, <1>6, SumUnfolds, Zenon
<1>9. Sum(s \ {Pick(s)}) = 0
  <2>1. s \ {Pick(s)} \subseteq s /\ s \ {Pick(s)} # s /\ s \ {Pick(s)} \in SUBSET (DOMAIN f)
    BY <1>5, <1>7
  <2>2. s \ {Pick(s)} \notin Wrong
    BY <1>4, <2>1, Zenon
  <2>3. QED
    BY <2>1, <2>2, Zenon
<1> HIDE DEF Sum
<1>10. QED
  BY <1>5, <1>7, <1>8, <1>9

---------------------------------------------------------------------------
(* max_drawdown_r alone.                                                   *)

\* peak is reached at peakAt and nothing before or after it is higher.
PeakIsHighest ==
  /\ peakAt \in 0 .. done /\ peak = Equity(peakAt)
  /\ \A a \in 0 .. done : Equity(a) <= peak

Counters == maxDD \in Nat /\ peak \in Int /\ cum \in Int

NotYetSorted == ~sorted => done = 0

Chronological ==
  sorted => \A a, b \in 1 .. Len(rows) : a < b => rows[a].exit <= rows[b].exit

IInv ==
  /\ TypeOK /\ Counters /\ NotYetSorted /\ Chronological
  /\ PeakIsHighest
  /\ DrawdownIsDeepest
  /\ ReportIsConsistent

LEMMA RealisedType ==
  ASSUME NEW row \in LogRow
  PROVE  Realised(row) \in Int
<1>1. RR(row) \in Int /\ One \in Int
  BY LogAssumption DEF RR, LogRow
<1>2. Risk(row) \in Int
  BY DEF Risk, LogRow
<1>3. \A m, n \in Int : m * n \in Int /\ -n \in Int
  OBVIOUS
<1>4. QED
  BY <1>1, <1>2, <1>3 DEF Realised

LEMMA InitIInv ==
  ASSUME Init
  PROVE  IInv
<1>1. rows \in Seq(LogRow) /\ Len(rows) \in Nat
  BY DrawdownAssumption DEF Init
<1>2. /\ done = 0 /\ cum = 0 /\ sorted = FALSE /\ equity = <<>>
      /\ peak = 0 /\ peakAt = 0 /\ maxDD = 0
  BY DEF Init
<1>3. equity \in Seq(Int) /\ Len(equity) = 0
  BY <1>2
<1>4. Equity(0) = 0
  BY DEF Equity, Level
<1>5. TypeOK
  <2>1. \A k \in 1 .. done : FALSE
    BY <1>2
  <2>2. cum = Equity(done)
    BY <1>2, <1>4
  <2>3. QED
    <3>1. sorted \in BOOLEAN /\ done \in 0 .. Len(rows) /\ Len(equity) = done
      <4>1. sorted \in BOOLEAN
        BY <1>2
      <4>2. done \in 0 .. Len(rows)
        BY <1>1, <1>2
      <4>3. QED
        BY <1>2, <1>3, <4>1, <4>2
    <3>2. \A k \in 1 .. done : Equity(k) = Equity(k - 1) + Realised(rows[k])
      BY <2>1
    <3>3. QED
      BY <1>1, <1>3, <2>2, <3>1, <3>2 DEF TypeOK
<1>6. PeakIsHighest /\ DrawdownIsDeepest
  <2>1. \A a \in 0 .. done : a = 0
    BY <1>2
  <2>2. QED
    BY <1>2, <1>4, <2>1 DEF PeakIsHighest, DrawdownIsDeepest
<1>7. Counters /\ NotYetSorted /\ Chronological /\ ReportIsConsistent
  BY <1>2 DEF Counters, NotYetSorted, Chronological, ReportIsConsistent
<1>8. QED
  BY <1>5, <1>6, <1>7 DEF IInv

LEMMA SortStep ==
  ASSUME IInv, Sort
  PROVE  IInv'
<1>1. PICK p \in [1 .. Len(rows) -> 1 .. Len(rows)] :
        /\ \A a, b \in 1 .. Len(rows) : a < b => Before(p[a], p[b])
        /\ rows' = [r \in 1 .. Len(rows) |-> rows[p[r]]]
  BY DEF Sort
<1>2. rows \in Seq(LogRow) /\ Len(rows) \in Nat /\ done = 0
  BY DEF IInv, TypeOK, NotYetSorted, Sort
<1>3. \A r \in 1 .. Len(rows) : rows[p[r]] \in LogRow
  BY <1>1, <1>2
<1>4. rows' \in Seq(LogRow) /\ Len(rows') = Len(rows)
  BY <1>1, <1>2, <1>3
<1>5. Chronological'
  <2>1. ASSUME NEW a \in 1 .. Len(rows'), NEW b \in 1 .. Len(rows'), a < b
        PROVE  rows'[a].exit <= rows'[b].exit
    <3>1. /\ rows'[a] = rows[p[a]] /\ rows'[b] = rows[p[b]]
          /\ rows[p[a]] \in LogRow /\ rows[p[b]] \in LogRow
      BY <1>1, <1>3, <1>4, <2>1
    <3>2. Before(p[a], p[b])
      BY <1>1, <1>4, <2>1
    <3>3. QED
      BY <3>1, <3>2 DEF Before, LogRow
  <2>2. QED
    BY <2>1 DEF Chronological
<1>6. TypeOK'
  BY <1>2, <1>4 DEF IInv, TypeOK, Sort, best, Equity, Level
<1>7. QED
  BY <1>2, <1>5, <1>6
     DEF Sort, best, IInv, Counters, NotYetSorted, PeakIsHighest, DrawdownIsDeepest,
         ReportIsConsistent, Equity, Level

\* One row more leaves the curve behind it as it was.
LEMMA CurveGrows ==
  ASSUME IInv, Accumulate
  PROVE  /\ done \in Nat /\ done' = done + 1 /\ done' \in 0 .. Len(rows)
         /\ cum' \in Int /\ cum' = cum + Realised(rows[done'])
         /\ equity' \in Seq(Int) /\ Len(equity') = done'
         /\ \A k \in 0 .. done : Level(equity', k) = Level(equity, k) /\ Level(equity, k) \in Int
         /\ Level(equity', done') = cum' /\ Level(equity, done) = cum
<1>1. /\ rows \in Seq(LogRow) /\ done \in 0 .. Len(rows) /\ done < Len(rows)
      /\ equity \in Seq(Int) /\ Len(equity) = done /\ Len(rows) \in Nat
      /\ cum \in Int /\ cum = Level(equity, done)
  BY DEF IInv, TypeOK, Counters, Accumulate, Equity
<1>2. rows[done + 1] \in LogRow /\ done' = done + 1 /\ done' \in 0 .. Len(rows)
  BY <1>1 DEF Accumulate
<1>3. cum' = cum + Realised(rows[done']) /\ cum' \in Int
  BY <1>1, <1>2, RealisedType DEF Accumulate, NextRow
<1>4. equity' = Append(equity, cum')
  BY DEF Accumulate
<1>5. equity' \in Seq(Int) /\ Len(equity') = done' /\ equity'[done'] = cum'
  BY <1>1, <1>2, <1>3, <1>4
<1>6. \A k \in 1 .. done : equity'[k] = equity[k] /\ equity[k] \in Int
  BY <1>1, <1>3, <1>4
<1>7. QED
  BY <1>1, <1>2, <1>3, <1>5, <1>6 DEF Level

LEMMA AccumulateStep ==
  ASSUME IInv, Accumulate
  PROVE  IInv'
<1>1. /\ done \in Nat /\ done' = done + 1 /\ done' \in 0 .. Len(rows)
      /\ cum' \in Int /\ cum' = cum + Realised(rows[done'])
      /\ equity' \in Seq(Int) /\ Len(equity') = done'
      /\ \A k \in 0 .. done : Level(equity', k) = Level(equity, k) /\ Level(equity, k) \in Int
      /\ Level(equity', done') = cum' /\ Level(equity, done) = cum
  BY CurveGrows
<1>2. rows' = rows /\ sorted' = sorted /\ sorted
  BY DEF Accumulate
<1>3. peak \in Int /\ maxDD \in Nat
  BY DEF IInv, Counters
<1>4. TypeOK'
  <2>1. \A k \in 1 .. done' : Level(equity', k) = Level(equity', k - 1) + Realised(rows[k])
    <3>1. ASSUME NEW k \in 1 .. done'
          PROVE  Level(equity', k) = Level(equity', k - 1) + Realised(rows[k])
      <4>1. CASE k = done'
        BY <1>1, <4>1
      <4>2. CASE k # done'
        <5>1. k \in 1 .. done /\ k \in 0 .. done /\ k - 1 \in 0 .. done
          BY <1>1, <4>2
        <5>2. Level(equity, k) = Level(equity, k - 1) + Realised(rows[k])
          BY <5>1 DEF IInv, TypeOK, Equity
        <5>3. QED
          BY <1>1, <5>1, <5>2
      <4>3. QED
        BY <4>1, <4>2
    <3>2. QED
      BY <3>1
  <2>2. rows \in Seq(LogRow) /\ sorted \in BOOLEAN
    BY DEF IInv, TypeOK
  <2>3. QED
    BY <1>1, <1>2, <2>1, <2>2 DEF TypeOK, Equity
<1>5. PeakIsHighest' /\ peak' \in Int /\ peak <= peak' /\ cum' <= peak'
  <2>1. CASE cum' > peak /\ peak' = cum' /\ peakAt' = done + 1
    <3>1. peakAt' = done' /\ peakAt' \in 0 .. done' /\ peak' = Level(equity', peakAt')
      BY <1>1, <2>1
    <3>2. ASSUME NEW a \in 0 .. done' PROVE Level(equity', a) <= peak'
      BY <1>1, <1>3, <2>1 DEF IInv, PeakIsHighest, Equity
    <3>3. QED
      BY <1>1, <1>3, <2>1, <3>1, <3>2 DEF PeakIsHighest, Equity
  <2>2. CASE cum' <= peak /\ UNCHANGED <<peak, peakAt>>
    <3>1. peakAt \in 0 .. done /\ peak = Level(equity, peakAt)
      BY DEF IInv, PeakIsHighest, Equity
    <3>2. peakAt' \in 0 .. done' /\ peak' = Level(equity', peakAt)
      BY <1>1, <2>2, <3>1
    <3>3. ASSUME NEW a \in 0 .. done' PROVE Level(equity', a) <= peak'
      BY <1>1, <1>3, <2>2 DEF IInv, PeakIsHighest, Equity
    <3>4. QED
      BY <1>3, <2>2, <3>2, <3>3 DEF PeakIsHighest, Equity
  <2>3. QED
    BY <2>1, <2>2 DEF Accumulate, RaisePeak
<1>6. maxDD' \in Nat /\ maxDD <= maxDD' /\ peak' - cum' <= maxDD'
  BY <1>1, <1>3, <1>5 DEF Accumulate, TakeDeepest, best
<1>7. DrawdownIsDeepest'
  <2>1. ASSUME NEW a \in 0 .. done', NEW b \in 0 .. done', a <= b
        PROVE  Level(equity', a) - Level(equity', b) <= maxDD'
    <3>1. CASE b = done'
      <4>1. Level(equity', a) <= peak' /\ Level(equity', b) = cum'
        BY <1>1, <1>5, <3>1 DEF PeakIsHighest, Equity
      <4>2. Level(equity', a) \in Int
        BY <1>1
      <4>3. QED
        BY <1>1, <1>5, <1>6, <4>1, <4>2
    <3>2. CASE b # done'
      <4>1. a \in 0 .. done /\ b \in 0 .. done
        BY <1>1, <2>1, <3>2
      <4>2. Level(equity, a) - Level(equity, b) <= maxDD
        BY <2>1, <4>1 DEF IInv, DrawdownIsDeepest, Equity
      <4>3. QED
        BY <1>1, <1>3, <1>6, <4>1, <4>2
    <3>3. QED
      BY <3>1, <3>2
  <2>2. QED
    BY <2>1 DEF DrawdownIsDeepest, Equity
<1>8. ReportIsConsistent'
  <2>1. CASE UNCHANGED best
    <3>1. CASE maxDD > 0
      <4>1. /\ ddPeakAt \in 0 .. done /\ troughAt \in 1 .. done /\ ddPeakAt < troughAt
            /\ ddPeak = Level(equity, ddPeakAt) /\ trough = Level(equity, troughAt)
            /\ maxDD = ddPeak - trough
        BY <3>1 DEF IInv, ReportIsConsistent, Equity
      <4>2. troughAt \in 0 .. done
        BY <4>1, <1>1
      <4>3. Level(equity', ddPeakAt) = ddPeak /\ Level(equity', troughAt) = trough
        BY <1>1, <4>1, <4>2
      <4>4. QED
        BY <1>1, <2>1, <4>1, <4>3 DEF ReportIsConsistent, best, Equity
    <3>2. CASE ~(maxDD > 0)
      BY <2>1, <3>2 DEF ReportIsConsistent, best
    <3>3. QED
      BY <3>1, <3>2
  <2>2. CASE /\ peak' - cum' > maxDD
             /\ maxDD' = peak' - cum'
             /\ ddPeakAt' = peakAt' /\ ddPeak' = peak'
             /\ troughAt' = done + 1 /\ trough' = cum'
    <3>1. peakAt' \in 0 .. done' /\ peak' = Level(equity', peakAt')
      BY <1>5 DEF PeakIsHighest, Equity
    <3>2. peak' # cum'
      BY <1>1, <1>3, <1>5, <2>2
    <3>3. peakAt' # done'
      BY <1>1, <3>1, <3>2
    <3>4. peakAt' < done' /\ troughAt' = done' /\ troughAt' \in 1 .. done'
      BY <1>1, <2>2, <3>1, <3>3
    <3>5. QED
      BY <1>1, <2>2, <3>1, <3>4 DEF ReportIsConsistent, Equity
  <2>3. QED
    BY <2>1, <2>2 DEF Accumulate, TakeDeepest
<1>9. Chronological' /\ NotYetSorted'
  BY <1>2 DEF IInv, Chronological, NotYetSorted
<1>10. QED
  BY <1>1, <1>4, <1>5, <1>6, <1>7, <1>8, <1>9 DEF IInv, Counters

LEMMA IInvInductive == IInv /\ [Next]_vars => IInv'
<1>1. CASE IInv /\ Next
  BY <1>1, SortStep, AccumulateStep DEF Next
<1>2. CASE IInv /\ UNCHANGED vars
  BY <1>2 DEF vars, best, IInv, TypeOK, Counters, NotYetSorted, Chronological, PeakIsHighest,
              DrawdownIsDeepest, ReportIsConsistent, Equity
<1>3. QED
  BY <1>1, <1>2

LEMMA DrawdownInvariant == Spec => []IInv
<1>1. Init => IInv
  BY InitIInv
<1>2. QED
  BY <1>1, IInvInductive, PTL DEF Spec

(***************************************************************************)
(* Type correctness: the curve is the running sum of the rows.             *)
(***************************************************************************)
THEOREM CurveIsRunningSum == Spec => []TypeOK
<1>1. IInv => TypeOK
  BY DEF IInv
<1>2. QED
  BY DrawdownInvariant, <1>1, PTL

(***************************************************************************)
(* Whatever the log, what the tool prints is the deepest drawdown.         *)
(***************************************************************************)
THEOREM DrawdownCorrect == Spec => []DrawdownIsDeepest
<1>1. IInv => DrawdownIsDeepest
  BY DEF IInv
<1>2. QED
  BY DrawdownInvariant, <1>1, PTL

(***************************************************************************)
(* The peak and the trough it prints belong to that drawdown.              *)
(***************************************************************************)
THEOREM EndPointsCorrect == Spec => []ReportIsConsistent
<1>1. IInv => ReportIsConsistent
  BY DEF IInv
<1>2. QED
  BY DrawdownInvariant, <1>1, PTL

\* What the first k of the rows realise.
SumTo(rs, k) == SumFunction([i \in 1 .. k |-> Realised(rs[i])])

LEMMA SumToGrows ==
  ASSUME NEW rs \in Seq(LogRow), NEW k \in Nat, k + 1 \in 1 .. Len(rs)
  PROVE  SumTo(rs, k + 1) = SumTo(rs, k) + Realised(rs[k + 1])
<1> DEFINE f == [i \in 1 .. k |-> Realised(rs[i])]
           g == [i \in 1 .. k + 1 |-> Realised(rs[i])]
           x == k + 1
<1>1. \A i \in 1 .. k + 1 : Realised(rs[i]) \in Int
  <2>1. ASSUME NEW i \in 1 .. k + 1 PROVE rs[i] \in LogRow
    OBVIOUS
  <2>2. QED
    BY <2>1, RealisedType
<1>2. /\ DOMAIN f = 1 .. k /\ DOMAIN g = (1 .. k) \cup {x} /\ x \notin 1 .. k
      /\ \A i \in 1 .. k : g[i] = f[i] /\ f[i] \in Int
      /\ g[x] = Realised(rs[x]) /\ g[x] \in Int
  BY <1>1
<1>3. IsFiniteSet(1 .. k)
  BY FS_Interval
<1> HIDE DEF f, g, x
<1>4. SumFunction(g) = SumFunction(f) + g[x]
  BY <1>2, <1>3, SumOfOneMore
<1>5. SumTo(rs, x) = SumTo(rs, k) + Realised(rs[x])
  BY <1>2, <1>4 DEF SumTo, f, g, x
<1>6. QED
  BY <1>5 DEF x

LEMMA SumToNothing ==
  ASSUME NEW rs
  PROVE  SumTo(rs, 0) = 0
<1> DEFINE f == [i \in 1 .. 0 |-> Realised(rs[i])]
<1>1. DOMAIN f = {}
  OBVIOUS
<1> HIDE DEF f
<1>2. SumFunction(f) = 0
  BY <1>1, SumOfNothing
<1>3. QED
  BY <1>2 DEF SumTo, f

\* The curve is what the rows before each point realise; until it falls there
\* is nothing to report.
CurveInv ==
  /\ \A k \in 0 .. done : Equity(k) = SumTo(rows, k)
  /\ maxDD = 0 => ddPeakAt = 0 /\ troughAt = 0

LEMMA CurveStart ==
  ASSUME done = 0, maxDD = 0, ddPeakAt = 0, troughAt = 0
  PROVE  CurveInv
<1>1. Equity(0) = 0
  BY DEF Equity, Level
<1>2. \A k \in 0 .. done : k = 0
  OBVIOUS
<1>3. QED
  BY <1>1, <1>2, SumToNothing DEF CurveInv

LEMMA CurveStep ==
  ASSUME IInv, CurveInv, [Next]_vars
  PROVE  CurveInv'
<1>1. CASE Sort
  <2>1. /\ done' = 0 /\ equity' = equity
        /\ maxDD' = maxDD /\ ddPeakAt' = ddPeakAt /\ troughAt' = troughAt
    BY <1>1 DEF IInv, NotYetSorted, Sort, best
  <2>2. Level(equity', 0) = 0
    BY DEF Level
  <2>3. \A k \in 0 .. done' : k = 0
    BY <2>1
  <2>4. QED
    BY <2>1, <2>2, <2>3, SumToNothing DEF CurveInv, Equity
<1>2. CASE Accumulate
  <2>1. /\ done \in Nat /\ done' = done + 1 /\ done' \in 0 .. Len(rows)
        /\ cum' = cum + Realised(rows[done'])
        /\ \A k \in 0 .. done : Level(equity', k) = Level(equity, k)
        /\ Level(equity', done') = cum' /\ Level(equity, done) = cum
    BY <1>2, CurveGrows
  <2>2. rows' = rows /\ rows \in Seq(LogRow) /\ Len(rows) \in Nat
    BY <1>2 DEF Accumulate, IInv, TypeOK
  <2>3. ASSUME NEW k \in 0 .. done' PROVE Level(equity', k) = SumTo(rows, k)
    <3>1. CASE k = done'
      <4>1. done + 1 \in 1 .. Len(rows)
        BY <2>1, <2>2
      <4>2. SumTo(rows, done + 1) = SumTo(rows, done) + Realised(rows[done + 1])
        BY <2>1, <2>2, <4>1, SumToGrows
      <4>3. cum = SumTo(rows, done)
        BY <2>1 DEF CurveInv, Equity
      <4>4. QED
        BY <2>1, <3>1, <4>2, <4>3, Zenon
    <3>2. CASE k # done'
      <4>1. k \in 0 .. done
        BY <2>1, <3>2
      <4>2. QED
        BY <2>1, <4>1 DEF CurveInv, Equity
    <3>3. QED
      BY <3>1, <3>2
  <2>4. maxDD' = 0 => ddPeakAt' = 0 /\ troughAt' = 0
    <3>1. maxDD \in Nat
      BY DEF IInv, Counters
    <3>2. peak' \in Int /\ cum' \in Int
      <4>1. IInv'
        BY <1>2, AccumulateStep
      <4>2. QED
        BY <4>1 DEF IInv, Counters
    <3>3. \/ maxDD' > maxDD
          \/ UNCHANGED best
      BY <1>2, <3>1, <3>2 DEF Accumulate, TakeDeepest
    <3>4. QED
      BY <3>1, <3>3 DEF CurveInv, best
  <2>5. QED
    BY <2>2, <2>3, <2>4 DEF CurveInv, Equity
<1>3. CASE UNCHANGED vars
  BY <1>3 DEF vars, best, CurveInv, Equity
<1>4. QED
  BY <1>1, <1>2, <1>3 DEF Next

\* A row that closes alone has exactly the rows before it, and itself, closed by then.
LEMMA ClosedByItsTime ==
  ASSUME IInv, NEW k \in 1 .. done, ClosesAlone(k)
  PROVE  ClosedBy(rows[k].exit) = 1 .. k
<1>1. /\ rows \in Seq(LogRow) /\ Len(rows) \in Nat /\ done \in 0 .. Len(rows)
      /\ k \in 1 .. Len(rows) /\ sorted
  BY DEF IInv, TypeOK, NotYetSorted
<1>2. \A i \in 1 .. Len(rows) : rows[i].exit \in Int
  <2>1. \A i \in 1 .. Len(rows) : rows[i] \in LogRow
    BY <1>1
  <2>2. QED
    BY <2>1 DEF LogRow
<1>3. \A a, b \in 1 .. Len(rows) : a < b => rows[a].exit <= rows[b].exit
  BY <1>1 DEF IInv, Chronological
<1>4. ASSUME NEW i \in 1 .. Len(rows)
      PROVE  rows[i].exit <= rows[k].exit <=> i <= k
  <2>1. CASE i < k
    BY <1>1, <1>3, <2>1
  <2>2. CASE i = k
    BY <1>1, <1>2, <2>2
  <2>3. CASE i > k
    <3>1. rows[k].exit <= rows[i].exit /\ rows[i].exit # rows[k].exit
      BY <1>1, <1>3, <2>3 DEF ClosesAlone
    <3>2. QED
      BY <1>1, <1>2, <2>3, <3>1
  <2>4. QED
    BY <1>1, <2>1, <2>2, <2>3
<1>5. QED
  BY <1>1, <1>4 DEF ClosedBy

LEMMA DatedShown ==
  ASSUME IInv, CurveInv
  PROVE  ReportIsDated
<1>1. ASSUME NEW k \in 0 .. done, NEW amount, amount = Equity(k)
      PROVE  HasItsTime(k, amount)
  <2>1. SUFFICES ASSUME k > 0, ClosesAlone(k)
                 PROVE  amount = SumFunction([i \in ClosedBy(rows[k].exit) |-> Realised(rows[i])])
    BY DEF HasItsTime
  <2>2. done \in Nat /\ k \in 1 .. done
    BY <2>1 DEF IInv, TypeOK
  <2>3. ClosedBy(rows[k].exit) = 1 .. k
    BY <2>1, <2>2, ClosedByItsTime
  <2>4. amount = SumTo(rows, k)
    BY <1>1 DEF CurveInv
  <2>5. QED
    BY <2>3, <2>4, Zenon DEF SumTo
<1>2. CASE maxDD > 0
  <2>1. /\ ddPeakAt \in 0 .. done /\ troughAt \in 0 .. done
        /\ ddPeak = Equity(ddPeakAt) /\ trough = Equity(troughAt)
    BY <1>2 DEF IInv, ReportIsConsistent
  <2>2. QED
    BY <1>1, <2>1, Zenon DEF ReportIsDated
<1>3. CASE ~(maxDD > 0)
  <2>1. maxDD = 0
    BY <1>3 DEF IInv, Counters
  <2>2. QED
    BY <2>1 DEF CurveInv, ReportIsDated, HasItsTime
<1>4. QED
  BY <1>2, <1>3

(***************************************************************************)
(* The peak and the trough it prints are the R of all trades closed by the *)
(* times printed with them, in whatever order the log has its rows, and    *)
(* only a trade that closed at that very moment can blur them.             *)
(***************************************************************************)
THEOREM DrawdownIsDated == Spec => []ReportIsDated
<1>1. Init => CurveInv
  BY CurveStart DEF Init
<1>2. IInv /\ CurveInv /\ [Next]_vars => CurveInv'
  BY CurveStep
<1>3. IInv /\ CurveInv => ReportIsDated
  BY DatedShown
<1>4. QED
  BY DrawdownInvariant, <1>1, <1>2, <1>3, PTL DEF Spec

---------------------------------------------------------------------------
(* The three programs.                                                     *)

(***************************************************************************)
(* Among the other reports the drawdown tool takes its own steps only:     *)
(* what holds of Spec holds of ReportsSpec.                                *)
(***************************************************************************)
THEOREM ReportsRunDrawdown == ReportsSpec => Spec
<1>1. ReportsInit => Init
  BY DEF ReportsInit
<1>2. [ReportsNext]_reportsVars => [Next]_vars
  BY DEF ReportsNext, reportsVars
<1>3. QED
  BY <1>1, <1>2, PTL DEF ReportsSpec, Spec

LEMMA DivType ==
  ASSUME NEW a \in Int, NEW b \in Int, b > 0
  PROVE  a \div b \in Int
OBVIOUS

LEMMA RTypes ==
  ASSUME NEW row \in Row, Readable(row)
  PROVE  FromRR(row) \in Int /\ FromPoints(row) \in Int
<1>1. row.rr \in Int /\ row.risk \in Int /\ One \in Int
  BY LogAssumption DEF Row, Number, Readable
<1>2. Stake(row) \in Int
  BY <1>1 DEF Stake
<1>3. \A m, n \in Int : m * n \in Int /\ -n \in Int
  OBVIOUS
<1>4. FromRR(row) \in Int
  BY <1>1, <1>2, <1>3 DEF FromRR
<1>5. Priced(row) => (One * row.points) \div Distance(row) \in Int
  <2>1. SUFFICES ASSUME Priced(row) PROVE (One * row.points) \div Distance(row) \in Int
    OBVIOUS
  <2>2. row.points \in Int /\ row.price \in Int /\ row.stop \in Int
    BY <2>1 DEF Priced, Row, Number
  <2>3. Distance(row) \in Int /\ Distance(row) > 0
    BY <2>1, <2>2 DEF Distance, Priced
  <2>4. One * row.points \in Int
    BY <1>1, <1>3, <2>2
  <2>5. QED
    BY <2>3, <2>4, DivType
<1>6. QED
  BY <1>4, <1>5 DEF FromPoints

VerifierType ==
  /\ table \in Seq(Row) /\ read \in 0 .. Len(table)
  /\ wins \in Nat /\ fromRR \in Int /\ fromPoints \in Int

\* A faithful win moves the two sums apart by half a rounding at most.
Drift == fromRR - fromPoints

RoundedInv ==
  /\ VerifierType
  /\ (\A i \in 1 .. read : Faithful(table[i])) =>
       2 * Drift <= wins * Grid /\ -(wins * Grid) <= 2 * Drift

LEMMA RowRead ==
  ASSUME VerifierType, AtRow, UNCHANGED table
  PROVE  /\ read' = read + 1 /\ read' \in 1 .. Len(table) /\ table[read'] \in Row
         /\ (\A i \in 1 .. read : Faithful(table[i]))'
              => (\A i \in 1 .. read : Faithful(table[i])) /\ Faithful(table[read'])
<1>1. read' = read + 1 /\ read \in Nat /\ read < Len(table) /\ Len(table) \in Nat
  BY DEF AtRow, VerifierType
<1>2. read' \in 1 .. Len(table)
  BY <1>1
<1>3. table[read'] \in Row
  BY <1>2, ElementOfSeq DEF VerifierType
<1>4. 1 .. read' = (1 .. read) \cup {read'}
  BY <1>1
<1>5. (\A i \in 1 .. read : Faithful(table[i]))' <=> \A i \in 1 .. read' : Faithful(table[i])
  OBVIOUS
<1>6. QED
  BY <1>1, <1>2, <1>3, <1>4, <1>5

LEMMA WinStep ==
  ASSUME RoundedInv, CountWin, UNCHANGED table
  PROVE  RoundedInv'
<1> DEFINE row == table[read']
<1>1. VerifierType /\ AtRow /\ Readable(row) /\ row.outcome = "win" /\ Count(row) /\ wins' = wins + 1
  BY DEF RoundedInv, CountWin
<1>2. row \in Row /\ FromRR(row) \in Int /\ FromPoints(row) \in Int
  BY <1>1, RowRead, RTypes
<1>3. VerifierType'
  BY <1>1, <1>2, RowRead DEF VerifierType, Count
<1>4. ASSUME (\A i \in 1 .. read : Faithful(table[i]))'
      PROVE  (2 * Drift <= wins * Grid /\ -(wins * Grid) <= 2 * Drift)'
  <2>1. 2 * Drift <= wins * Grid /\ -(wins * Grid) <= 2 * Drift /\ Faithful(row)
    BY <1>1, <1>4, RowRead DEF RoundedInv
  <2>2. row.rr \in Int /\ Stake(row) = 1 /\ 2 * (row.rr - FromPoints(row)) \in -Grid .. Grid
    BY <1>1, <1>2, <2>1 DEF Faithful, Readable, Row, Number
  <2>3. FromRR(row) = row.rr
    BY <1>1, <2>2 DEF FromRR
  <2>4. Drift' = Drift + (row.rr - FromPoints(row)) /\ Drift \in Int
    BY <1>1, <1>2, <2>2, <2>3 DEF Drift, Count, VerifierType
  <2>5. /\ wins' * Grid = wins * Grid + Grid
        /\ wins * Grid \in Int /\ Grid \in Int
    BY <1>1, LogAssumption DEF VerifierType
  <2>6. ASSUME NEW d \in Int, NEW e \in Int, NEW b \in Int, NEW g \in Int,
               2 * d <= b, -b <= 2 * d, 2 * e \in -g .. g
        PROVE  2 * (d + e) <= b + g /\ -(b + g) <= 2 * (d + e)
    BY <2>6
  <2>7. row.rr - FromPoints(row) \in Int
    BY <1>2, <2>2
  <2>8. QED
    BY <2>1, <2>2, <2>4, <2>5, <2>6, <2>7
<1>5. QED
  BY <1>3, <1>4 DEF RoundedInv

LEMMA OtherRowStep ==
  ASSUME RoundedInv, SkipRow \/ CountLoss, UNCHANGED table
  PROVE  RoundedInv'
<1> DEFINE row == table[read']
<1>1. VerifierType /\ AtRow /\ UNCHANGED wins
  BY DEF RoundedInv, SkipRow, CountLoss
<1>2. VerifierType' /\ Drift' = Drift
  <2>1. CASE SkipRow
    BY <1>1, <2>1, RowRead DEF VerifierType, Drift, SkipRow
  <2>2. CASE CountLoss
    <3>1. Readable(row) /\ row.outcome = "loss" /\ Count(row) /\ row \in Row
      BY <1>1, <2>2, RowRead DEF CountLoss
    <3>2. FromPoints(row) = FromRR(row) /\ FromRR(row) \in Int
      BY <3>1, RTypes DEF FromPoints
    <3>3. QED
      BY <1>1, <3>1, <3>2, RowRead DEF VerifierType, Count, Drift
  <2>3. QED
    BY <2>1, <2>2
<1>3. (\A i \in 1 .. read : Faithful(table[i]))' => \A i \in 1 .. read : Faithful(table[i])
  BY <1>1, RowRead
<1>4. QED
  BY <1>1, <1>2, <1>3 DEF RoundedInv

(***************************************************************************)
(* Wins of one R whose RR is their points' but for the rounding match, as  *)
(* long as their number keeps the roundings within the tolerance: for      *)
(* every table, unit, rounding and tolerance.                              *)
(***************************************************************************)
THEOREM RoundingsMatch == ReportsSpec => []MatchWithinRounding
<1>1. ReportsInit => RoundedInv
  <2>1. SUFFICES ASSUME ReportsInit PROVE RoundedInv
    OBVIOUS
  <2>2. table \in Seq(Row) /\ Len(table) \in Nat
    BY <2>1, ReportsAssumption DEF ReportsInit
  <2>3. read = 0 /\ wins = 0 /\ fromRR = 0 /\ fromPoints = 0
    BY <2>1 DEF ReportsInit
  <2>4. wins * Grid = 0
    BY <2>3, LogAssumption
  <2>5. QED
    BY <2>2, <2>3, <2>4 DEF RoundedInv, VerifierType, Drift
<1>2. RoundedInv /\ [ReportsNext]_reportsVars => RoundedInv'
  <2>1. SUFFICES ASSUME RoundedInv, [ReportsNext]_reportsVars PROVE RoundedInv'
    OBVIOUS
  <2>2. UNCHANGED table
    BY <2>1 DEF ReportsNext, reportsVars
  <2>3. CASE UNCHANGED <<read, wins, fromRR, fromPoints>>
    <3>1. (\A i \in 1 .. read : Faithful(table[i]))' <=> \A i \in 1 .. read : Faithful(table[i])
      BY <2>2, <2>3
    <3>2. QED
      BY <2>1, <2>2, <2>3, <3>1 DEF RoundedInv, VerifierType, Drift
  <2>4. CASE Verify
    BY <2>1, <2>2, <2>3, <2>4, WinStep, OtherRowStep DEF Verify, PrintReport
  <2>5. QED
    BY <2>1, <2>3, <2>4 DEF ReportsNext, reportsVars, verifier
<1>3. RoundedInv => MatchWithinRounding
  <2>1. SUFFICES ASSUME RoundedInv, \A i \in 1 .. read : Faithful(table[i]),
                        wins * Grid <= 2 * Tolerance
                 PROVE  Match
    BY DEF MatchWithinRounding
  <2>2. /\ Drift \in Int /\ wins * Grid \in Int /\ Tolerance \in Nat
        /\ 2 * Drift <= wins * Grid /\ -(wins * Grid) <= 2 * Drift
    BY <2>1, LogAssumption, ReportsAssumption DEF RoundedInv, VerifierType, Drift
  <2>3. Drift \in -Tolerance .. Tolerance
    BY <2>1, <2>2
  <2>4. QED
    BY <2>3 DEF Match, Drift
<1>4. QED
  BY <1>1, <1>2, <1>3, PTL DEF ReportsSpec

---------------------------------------------------------------------------
(* Sums over the rows of a table.                                          *)

CumulativeOf(t, In) == SumFunction([i \in In |-> Realised(Columns(t[i]))])
VerifiedOf(t, In)   == SumFunction([i \in In |-> FromRR(t[i])])
RealisedIn(t, In)   == SumFunction([i \in In |-> RealisedOf(t[i])])
RiskIn(t, In)       == SumFunction([i \in In |-> RiskOf(t[i])])

\* Each of these sums is an integer and grows by the row it gains.
LEMMA CumulativeGrows ==
  ASSUME NEW t, NEW In, IsFiniteSet(In), NEW x, x \notin In,
         \A i \in In \cup {x} : Realised(Columns(t[i])) \in Int
  PROVE  CumulativeOf(t, In) \in Int /\ CumulativeOf(t, In \cup {x}) = CumulativeOf(t, In) + Realised(Columns(t[x]))
<1> DEFINE f == [i \in In |-> Realised(Columns(t[i]))]
           g == [i \in In \cup {x} |-> Realised(Columns(t[i]))]
<1>1. /\ DOMAIN f = In /\ DOMAIN g = In \cup {x} /\ g[x] \in Int /\ g[x] = Realised(Columns(t[x]))
      /\ \A i \in In : g[i] = f[i] /\ f[i] \in Int
  BY Zenon
<1> HIDE DEF f, g
<1>2. /\ IsFiniteSet(DOMAIN f) /\ x \notin DOMAIN f /\ DOMAIN g = DOMAIN f \cup {x}
      /\ \A i \in DOMAIN f : g[i] = f[i] /\ f[i] \in Int
      /\ g[x] \in Int
  BY <1>1
<1>3. SumFunction(f) \in Int /\ SumFunction(g) = SumFunction(f) + g[x]
  BY <1>2, SumOfOneMore, Zenon
<1>4. QED
  BY <1>1, <1>3, Zenon DEF f, g, CumulativeOf

LEMMA VerifiedGrows ==
  ASSUME NEW t, NEW In, IsFiniteSet(In), NEW x, x \notin In,
         \A i \in In \cup {x} : FromRR(t[i]) \in Int
  PROVE  VerifiedOf(t, In) \in Int /\ VerifiedOf(t, In \cup {x}) = VerifiedOf(t, In) + FromRR(t[x])
<1> DEFINE f == [i \in In |-> FromRR(t[i])]
           g == [i \in In \cup {x} |-> FromRR(t[i])]
<1>1. /\ DOMAIN f = In /\ DOMAIN g = In \cup {x} /\ g[x] \in Int /\ g[x] = FromRR(t[x])
      /\ \A i \in In : g[i] = f[i] /\ f[i] \in Int
  BY Zenon
<1> HIDE DEF f, g
<1>2. /\ IsFiniteSet(DOMAIN f) /\ x \notin DOMAIN f /\ DOMAIN g = DOMAIN f \cup {x}
      /\ \A i \in DOMAIN f : g[i] = f[i] /\ f[i] \in Int
      /\ g[x] \in Int
  BY <1>1
<1>3. SumFunction(f) \in Int /\ SumFunction(g) = SumFunction(f) + g[x]
  BY <1>2, SumOfOneMore, Zenon
<1>4. QED
  BY <1>1, <1>3, Zenon DEF f, g, VerifiedOf

LEMMA RealisedGrows ==
  ASSUME NEW t, NEW In, IsFiniteSet(In), NEW x, x \notin In,
         \A i \in In \cup {x} : RealisedOf(t[i]) \in Int
  PROVE  RealisedIn(t, In) \in Int /\ RealisedIn(t, In \cup {x}) = RealisedIn(t, In) + RealisedOf(t[x])
<1> DEFINE f == [i \in In |-> RealisedOf(t[i])]
           g == [i \in In \cup {x} |-> RealisedOf(t[i])]
<1>1. /\ DOMAIN f = In /\ DOMAIN g = In \cup {x} /\ g[x] \in Int /\ g[x] = RealisedOf(t[x])
      /\ \A i \in In : g[i] = f[i] /\ f[i] \in Int
  BY Zenon
<1> HIDE DEF f, g
<1>2. /\ IsFiniteSet(DOMAIN f) /\ x \notin DOMAIN f /\ DOMAIN g = DOMAIN f \cup {x}
      /\ \A i \in DOMAIN f : g[i] = f[i] /\ f[i] \in Int
      /\ g[x] \in Int
  BY <1>1
<1>3. SumFunction(f) \in Int /\ SumFunction(g) = SumFunction(f) + g[x]
  BY <1>2, SumOfOneMore, Zenon
<1>4. QED
  BY <1>1, <1>3, Zenon DEF f, g, RealisedIn

LEMMA RiskGrows ==
  ASSUME NEW t, NEW In, IsFiniteSet(In), NEW x, x \notin In,
         \A i \in In \cup {x} : RiskOf(t[i]) \in Int
  PROVE  RiskIn(t, In) \in Int /\ RiskIn(t, In \cup {x}) = RiskIn(t, In) + RiskOf(t[x])
<1> DEFINE f == [i \in In |-> RiskOf(t[i])]
           g == [i \in In \cup {x} |-> RiskOf(t[i])]
<1>1. /\ DOMAIN f = In /\ DOMAIN g = In \cup {x} /\ g[x] \in Int /\ g[x] = RiskOf(t[x])
      /\ \A i \in In : g[i] = f[i] /\ f[i] \in Int
  BY Zenon
<1> HIDE DEF f, g
<1>2. /\ IsFiniteSet(DOMAIN f) /\ x \notin DOMAIN f /\ DOMAIN g = DOMAIN f \cup {x}
      /\ \A i \in DOMAIN f : g[i] = f[i] /\ f[i] \in Int
      /\ g[x] \in Int
  BY <1>1
<1>3. SumFunction(f) \in Int /\ SumFunction(g) = SumFunction(f) + g[x]
  BY <1>2, SumOfOneMore, Zenon
<1>4. QED
  BY <1>1, <1>3, Zenon DEF f, g, RiskIn

LEMMA SumsOfNothing ==
  ASSUME NEW t
  PROVE  CumulativeOf(t, {}) = 0 /\ VerifiedOf(t, {}) = 0 /\ RealisedIn(t, {}) = 0 /\ RiskIn(t, {}) = 0
<1>1. ASSUME NEW f, DOMAIN f = {} PROVE SumFunction(f) = 0
  BY <1>1, SumOfNothing, Zenon
<1>2. QED
  BY <1>1, Zenon DEF CumulativeOf, VerifiedOf, RealisedIn, RiskIn

\* How the three programs treat one row.
LEMMA RowAgrees ==
  ASSUME NEW row \in Row
  PROVE  /\ Columns(row) \in LogRow /\ Realised(Columns(row)) \in Int /\ RiskOf(row) \in Int
         /\ Listed(row) => /\ RealisedOf(row) \in Int
                           /\ RealisedOf(row) = Realised(Columns(row))
         /\ ~Listed(row) => Realised(Columns(row)) =
              IF row.outcome = "win" THEN 0 ELSE -(One * RiskOf(row))
         /\ Readable(row) => /\ Listed(row) /\ FromRR(row) = RealisedOf(row)
                             /\ FromRR(row) \in Int
<1>1. /\ row.outcome \in STRING /\ row.exit \in Int
      /\ row.rr \in Int \cup {NoNumber} /\ row.risk \in Int \cup {NoNumber}
  BY DEF Row, Number
<1>2. Columns(row) \in LogRow
  BY <1>1 DEF Columns, LogRow
<1>3. /\ RR(Columns(row)) = IF row.rr = NoNumber THEN 0 ELSE row.rr
      /\ Risk(Columns(row)) = RiskOf(row)
      /\ RiskOf(row) \in Int
      /\ Readable(row) => Stake(row) = RiskOf(row)
  BY <1>1 DEF Columns, RR, Risk, RiskOf, Stake, Readable
<1>4. Realised(Columns(row)) = IF row.outcome = "win" THEN RR(Columns(row)) * RiskOf(row)
                               ELSE -(One * RiskOf(row))
  BY <1>3 DEF Realised, Columns
<1>5. Realised(Columns(row)) \in Int
  BY <1>2, RealisedType
<1>6. ~Listed(row) /\ row.outcome = "win" => Realised(Columns(row)) = 0
  BY <1>3, <1>4 DEF Listed
<1>7. Listed(row) => RealisedOf(row) = Realised(Columns(row))
  BY <1>3, <1>4 DEF Listed, RealisedOf
<1>8. Readable(row) => Listed(row) /\ FromRR(row) = RealisedOf(row)
  BY <1>3 DEF Readable, Listed, FromRR, RealisedOf
<1>9. QED
  BY <1>2, <1>3, <1>4, <1>5, <1>6, <1>7, <1>8, Zenon

---------------------------------------------------------------------------
(* run_full_breakdown, row by row.                                         *)

Line == [w : Nat, l : Nat, r : Int]

Wins(t, In) == {i \in In : t[i].outcome = "win"}

\* Trades, of a table that is named.
Holds(t, line, In) ==
  /\ line.w = Cardinality(Wins(t, In))
  /\ line.w + line.l = Cardinality(In)
  /\ line.r = RealisedIn(t, In)

LEMMA LineGrows ==
  ASSUME NEW t, NEW In, IsFiniteSet(In), NEW x, x \notin In,
         \A i \in In \cup {x} : t[i] \in Row /\ Listed(t[i]),
         NEW line \in Line, Holds(t, line, In)
  PROVE  Plus(line, t[x]) \in Line /\ Holds(t, Plus(line, t[x]), In \cup {x})
<1> DEFINE new == Plus(line, t[x])
<1>1. line.w \in Nat /\ line.l \in Nat /\ line.r \in Int
  BY DEF Line
<1>2. \A i \in In \cup {x} : RealisedOf(t[i]) \in Int
  BY RowAgrees
<1>3. RealisedIn(t, In \cup {x}) = RealisedIn(t, In) + RealisedOf(t[x])
  BY <1>2, RealisedGrows
<1>4. Cardinality(In \cup {x}) = Cardinality(In) + 1
  BY FS_AddElement
<1>5. Wins(t, In \cup {x}) = IF t[x].outcome = "win" THEN Wins(t, In) \cup {x} ELSE Wins(t, In)
  BY DEF Wins
<1>6. IsFiniteSet(Wins(t, In)) /\ x \notin Wins(t, In)
  BY FS_Subset DEF Wins
<1>7. Cardinality(Wins(t, In \cup {x})) = Cardinality(Wins(t, In)) + IF t[x].outcome = "win" THEN 1 ELSE 0
  <2>1. Cardinality(Wins(t, In)) \in Nat
    BY <1>6, FS_CardinalityType
  <2>2. Cardinality(Wins(t, In) \cup {x}) = Cardinality(Wins(t, In)) + 1
    BY <1>6, FS_AddElement
  <2>3. QED
    BY <1>5, <2>1, <2>2
<1>8. /\ new.w = IF t[x].outcome = "win" THEN line.w + 1 ELSE line.w
      /\ new.l = IF t[x].outcome = "win" THEN line.l ELSE line.l + 1
      /\ new.r = line.r + RealisedOf(t[x])
  BY DEF Plus
<1>9. new \in Line
  <2>1. RealisedOf(t[x]) \in Int
    BY <1>2
  <2>2. QED
    BY <1>1, <2>1 DEF Plus, Line
<1> HIDE DEF new
<1>10. Holds(t, new, In \cup {x})
  <2>1. /\ line.w = Cardinality(Wins(t, In)) /\ line.w + line.l = Cardinality(In)
        /\ line.r = RealisedIn(t, In)
    BY DEF Holds
  <2>2. new.w = Cardinality(Wins(t, In \cup {x})) /\ new.w + new.l = Cardinality(In \cup {x})
    BY <1>1, <1>4, <1>7, <1>8, <2>1
  <2>3. new.r = RealisedIn(t, In \cup {x})
    BY <1>3, <1>8, <2>1
  <2>4. QED
    BY <2>2, <2>3 DEF Holds
<1>11. QED
  BY <1>9, <1>10, Zenon DEF new

LEMMA NothingHeld ==
  ASSUME NEW t
  PROVE  NoTrades \in Line /\ Holds(t, NoTrades, {})
<1>1. Wins(t, {}) = {}
  BY DEF Wins
<1>2. QED
  BY <1>1, SumsOfNothing, FS_EmptySet DEF NoTrades, Line, Holds

CountedIn(t, n) == {i \in 1 .. n : Listed(t[i])}
OnDay(t, n, d)  == {i \in CountedIn(t, n) : EntryOf(t[i]).day = d}
InHour(t, n, h) == {i \in CountedIn(t, n) : EntryOf(t[i]).hour = h}

\* The three tables hold the first n rows.
BrokenDown(t, n, day, hour, total) ==
  /\ t \in Seq(Row) /\ n \in 0 .. Len(t)
  /\ day \in [Days -> Line] /\ hour \in [Hours -> Line] /\ total \in Line
  /\ \A d \in Days : Holds(t, day[d], OnDay(t, n, d))
  /\ \A h \in Hours : Holds(t, hour[h], InHour(t, n, h))
  /\ Holds(t, total, CountedIn(t, n))

LEMMA CountedGrows ==
  ASSUME NEW t \in Seq(Row), NEW n \in Nat, n < Len(t)
  PROVE  /\ n + 1 \in 1 .. Len(t) /\ n + 1 \notin 1 .. n /\ t[n + 1] \in Row
         /\ IsFiniteSet(1 .. n) /\ 1 .. n + 1 = (1 .. n) \cup {n + 1}
         /\ \A i \in 1 .. n + 1 : t[i] \in Row
         /\ IsFiniteSet(CountedIn(t, n)) /\ CountedIn(t, n) \subseteq 1 .. n
         /\ CountedIn(t, n + 1) = IF Listed(t[n + 1]) THEN CountedIn(t, n) \cup {n + 1}
                                  ELSE CountedIn(t, n)
<1>1. n + 1 \in 1 .. Len(t) /\ n + 1 \notin 1 .. n /\ 1 .. n + 1 = (1 .. n) \cup {n + 1}
  OBVIOUS
<1>2. \A i \in 1 .. n + 1 : t[i] \in Row
  BY ElementOfSeq
<1>3. IsFiniteSet(1 .. n) /\ CountedIn(t, n) \subseteq 1 .. n
  BY FS_Interval DEF CountedIn
<1>4. IsFiniteSet(CountedIn(t, n))
  BY <1>3, FS_Subset
<1>5. CountedIn(t, n + 1) = IF Listed(t[n + 1]) THEN CountedIn(t, n) \cup {n + 1}
                            ELSE CountedIn(t, n)
  BY <1>1, Zenon DEF CountedIn
<1>6. n + 1 \in 1 .. n + 1
  OBVIOUS
<1>7. QED
  BY <1>1, <1>2, <1>3, <1>4, <1>5, <1>6, Zenon

LEMMA EntryType ==
  ASSUME NEW row \in Row
  PROVE  EntryOf(row).day \in Days /\ EntryOf(row).hour \in Hours
<1>1. row.entry \in [day : Days, hour : Hours] \cup {NoStamp}
  BY DEF Row
<1>2. QED
  BY <1>1 DEF EntryOf, Days, Hours

LEMMA BrokenDownGrows ==
  ASSUME NEW t, NEW n, NEW day, NEW hour, NEW total, BrokenDown(t, n, day, hour, total), n < Len(t),
         NEW d2, NEW h2, NEW t2,
         IF Listed(t[n + 1])
         THEN /\ d2 = [day EXCEPT ![EntryOf(t[n + 1]).day] = Plus(@, t[n + 1])]
              /\ h2 = [hour EXCEPT ![EntryOf(t[n + 1]).hour] = Plus(@, t[n + 1])]
              /\ t2 = Plus(total, t[n + 1])
         ELSE d2 = day /\ h2 = hour /\ t2 = total
  PROVE  BrokenDown(t, n + 1, d2, h2, t2)
<1> DEFINE x == n + 1
           row == t[x]
<1>1. /\ t \in Seq(Row) /\ Len(t) \in Nat /\ n \in 0 .. Len(t) /\ n \in Nat /\ x \in 0 .. Len(t)
      /\ day \in [Days -> Line] /\ hour \in [Hours -> Line] /\ total \in Line
  BY DEF BrokenDown
<1>2. /\ \A d \in Days : Holds(t, day[d], OnDay(t, n, d))
      /\ \A h \in Hours : Holds(t, hour[h], InHour(t, n, h))
      /\ Holds(t, total, CountedIn(t, n))
  BY DEF BrokenDown
<1>3. /\ x \notin 1 .. n /\ row \in Row /\ IsFiniteSet(CountedIn(t, n)) /\ CountedIn(t, n) \subseteq 1 .. n
      /\ \A i \in 1 .. x : t[i] \in Row
      /\ CountedIn(t, x) = IF Listed(row) THEN CountedIn(t, n) \cup {x} ELSE CountedIn(t, n)
  BY <1>1, CountedGrows
<1>4. \A i \in CountedIn(t, n) : t[i] \in Row /\ Listed(t[i])
  BY <1>1, <1>3 DEF CountedIn
<1> HIDE DEF x
<1>5. CASE ~Listed(row)
  <2>1. CountedIn(t, x) = CountedIn(t, n) /\ d2 = day /\ h2 = hour /\ t2 = total
    BY <1>3, <1>5 DEF x
  <2>2. /\ \A d \in Days : OnDay(t, x, d) = OnDay(t, n, d)
        /\ \A h \in Hours : InHour(t, x, h) = InHour(t, n, h)
    BY <2>1, Zenon DEF OnDay, InHour
  <2>3. QED
    BY <1>1, <1>2, <2>1, <2>2, Zenon DEF BrokenDown, x
<1>6. CASE Listed(row)
  <2>1. /\ CountedIn(t, x) = CountedIn(t, n) \cup {x} /\ x \notin CountedIn(t, n)
        /\ d2 = [day EXCEPT ![EntryOf(row).day] = Plus(@, row)]
        /\ h2 = [hour EXCEPT ![EntryOf(row).hour] = Plus(@, row)]
        /\ t2 = Plus(total, row)
    BY <1>3, <1>6 DEF x
  <2>2. EntryOf(row).day \in Days /\ EntryOf(row).hour \in Hours
    BY <1>3, EntryType
  <2> HIDE DEF row
  <2>3. ASSUME NEW In \in SUBSET CountedIn(t, n), NEW line \in Line, Holds(t, line, In)
        PROVE  Plus(line, row) \in Line /\ Holds(t, Plus(line, row), In \cup {x})
    <3>1. IsFiniteSet(In) /\ x \notin In
      BY <1>3, <2>1, FS_Subset
    <3>2. \A i \in In \cup {x} : t[i] \in Row /\ Listed(t[i])
      BY <1>3, <1>4, <1>6 DEF row
    <3>3. QED
      BY <2>3, <3>1, <3>2, LineGrows DEF row
  <2>4. t2 \in Line /\ Holds(t, t2, CountedIn(t, x))
    <3>1. CountedIn(t, n) \in SUBSET CountedIn(t, n)
      OBVIOUS
    <3>2. Plus(total, row) \in Line /\ Holds(t, Plus(total, row), CountedIn(t, n) \cup {x})
      BY <1>1, <1>2, <2>3, <3>1, Zenon
    <3>3. QED
      BY <2>1, <3>2, Zenon
  <2>5. d2 \in [Days -> Line] /\ \A d \in Days : Holds(t, d2[d], OnDay(t, x, d))
    <3>1. ASSUME NEW d \in Days
          PROVE  d2[d] \in Line /\ Holds(t, d2[d], OnDay(t, x, d))
      <4>1. day[d] \in Line /\ Holds(t, day[d], OnDay(t, n, d)) /\ OnDay(t, n, d) \in SUBSET CountedIn(t, n)
        BY <1>1, <1>2, Zenon DEF OnDay
      <4>2. CASE d = EntryOf(row).day
        <5>1. OnDay(t, x, d) = OnDay(t, n, d) \cup {x} /\ d2[d] = Plus(day[d], row)
          BY <1>1, <2>1, <2>2, <4>2 DEF OnDay, row
        <5>2. QED
          BY <2>3, <4>1, <5>1, Zenon
      <4>3. CASE d # EntryOf(row).day
        <5>1. OnDay(t, x, d) = OnDay(t, n, d) /\ d2[d] = day[d]
          BY <1>1, <2>1, <2>2, <4>3 DEF OnDay, row
        <5>2. QED
          BY <4>1, <5>1, Zenon
      <4>4. QED
        BY <4>2, <4>3
    <3>2. d2 = [d \in Days |-> d2[d]]
      BY <1>1, <2>1
    <3>3. QED
      BY <3>1, <3>2, Zenon
  <2>6. h2 \in [Hours -> Line] /\ \A h \in Hours : Holds(t, h2[h], InHour(t, x, h))
    <3>1. ASSUME NEW h \in Hours
          PROVE  h2[h] \in Line /\ Holds(t, h2[h], InHour(t, x, h))
      <4>1. hour[h] \in Line /\ Holds(t, hour[h], InHour(t, n, h)) /\ InHour(t, n, h) \in SUBSET CountedIn(t, n)
        BY <1>1, <1>2, Zenon DEF InHour
      <4>2. CASE h = EntryOf(row).hour
        <5>1. InHour(t, x, h) = InHour(t, n, h) \cup {x} /\ h2[h] = Plus(hour[h], row)
          BY <1>1, <2>1, <2>2, <4>2 DEF InHour, row
        <5>2. QED
          BY <2>3, <4>1, <5>1, Zenon
      <4>3. CASE h # EntryOf(row).hour
        <5>1. InHour(t, x, h) = InHour(t, n, h) /\ h2[h] = hour[h]
          BY <1>1, <2>1, <2>2, <4>3 DEF InHour, row
        <5>2. QED
          BY <4>1, <5>1, Zenon
      <4>4. QED
        BY <4>2, <4>3
    <3>2. h2 = [h \in Hours |-> h2[h]]
      BY <1>1, <2>1
    <3>3. QED
      BY <3>1, <3>2, Zenon
  <2>7. QED
    BY <1>1, <2>4, <2>5, <2>6, Zenon DEF BrokenDown, x
<1>7. QED
  BY <1>5, <1>6


\* The lines of a breakdown add up to its last one.
Column(K, lines, c) == [k \in K |-> lines[k][c]]

SumsUp(K, lines, total) ==
  \A c \in {"w", "l", "r"} : SumFunction(Column(K, lines, c)) = total[c]

LEMMA PlusAdds ==
  ASSUME NEW line \in Line, NEW other \in Line, NEW row, RealisedOf(row) \in Int,
         NEW c \in {"w", "l", "r"}
  PROVE  /\ line[c] \in Int /\ Plus(line, row)[c] \in Int /\ other[c] \in Int
         /\ Plus(line, row)[c] - line[c] = Plus(other, row)[c] - other[c]
BY DEF Line, Plus

LEMMA ColumnGrows ==
  ASSUME NEW K, IsFiniteSet(K), NEW lines \in [K -> Line], NEW total \in Line,
         NEW k \in K, NEW row, RealisedOf(row) \in Int, NEW new,
         new[k] = Plus(lines[k], row), \A j \in K \ {k} : new[j] = lines[j], NEW c \in {"w", "l", "r"},
         SumFunction(Column(K, lines, c)) = total[c]
  PROVE  SumFunction(Column(K, new, c)) = Plus(total, row)[c]
<1> DEFINE f == Column(K, lines, c)
           g == Column(K, new, c)
<1>1. \A j \in K : lines[j] \in Line
  OBVIOUS
<1>2. /\ lines[k][c] \in Int /\ new[k][c] \in Int /\ total[c] \in Int
      /\ new[k][c] - lines[k][c] = Plus(total, row)[c] - total[c]
      /\ Plus(total, row)[c] \in Int
  BY <1>1, PlusAdds
<1>3. \A j \in K : lines[j][c] \in Int
  BY <1>1, PlusAdds
<1>4. /\ DOMAIN f = K /\ DOMAIN g = K
      /\ \A j \in K : f[j] \in Int /\ g[j] \in Int
      /\ \A j \in K \ {k} : g[j] = f[j]
      /\ f[k] = lines[k][c] /\ g[k] = new[k][c] /\ SumFunction(f) = total[c]
  BY <1>2, <1>3 DEF Column
<1> HIDE DEF f, g
<1>5. SumFunction(g) = SumFunction(f) + (g[k] - f[k])
  <2>1. IsFiniteSet(K) /\ DOMAIN f = K /\ DOMAIN g = K /\ k \in K
    BY <1>4
  <2>2. \A j \in K : f[j] \in Int /\ g[j] \in Int
    BY <1>4
  <2>3. \A j \in K \ {k} : g[j] = f[j]
    BY <1>4
  <2>4. QED
    BY ONLY <2>1, <2>2, <2>3, SumOneChanged
<1>6. SumFunction(g) = Plus(total, row)[c]
  BY <1>2, <1>4, <1>5
<1>7. QED
  BY <1>6 DEF g

LEMMA SumsUpGrows ==
  ASSUME NEW K, IsFiniteSet(K), NEW lines \in [K -> Line], NEW total \in Line,
         NEW k \in K, NEW row, RealisedOf(row) \in Int, SumsUp(K, lines, total)
  PROVE  SumsUp(K, [lines EXCEPT ![k] = Plus(@, row)], Plus(total, row))
<1> DEFINE new == [lines EXCEPT ![k] = Plus(@, row)]
<1>1. new[k] = Plus(lines[k], row) /\ \A j \in K \ {k} : new[j] = lines[j]
  OBVIOUS
<1> HIDE DEF new
<1>2. ASSUME NEW c \in {"w", "l", "r"}
      PROVE  SumFunction(Column(K, new, c)) = Plus(total, row)[c]
  <2>1. SumFunction(Column(K, lines, c)) = total[c]
    BY Zenon DEF SumsUp
  <2>2. IsFiniteSet(K) /\ lines \in [K -> Line] /\ total \in Line /\ k \in K
    OBVIOUS
  <2>3. RealisedOf(row) \in Int /\ c \in {"w", "l", "r"}
    OBVIOUS
  <2>4. QED
    BY ONLY <1>1, <2>1, <2>2, <2>3, ColumnGrows
<1>3. SumsUp(K, new, Plus(total, row))
  BY <1>2, Zenon DEF SumsUp
<1>4. QED
  BY <1>3, Zenon DEF new

LEMMA NothingSumsUp ==
  ASSUME NEW K, IsFiniteSet(K), NEW lines, \A k \in K : lines[k] = NoTrades
  PROVE  SumsUp(K, lines, NoTrades)
<1>1. ASSUME NEW c \in {"w", "l", "r"}
      PROVE  SumFunction(Column(K, lines, c)) = NoTrades[c]
  <2> DEFINE f == Column(K, lines, c)
  <2>1. NoTrades[c] = 0
    BY DEF NoTrades
  <2>2. DOMAIN f = K /\ \A k \in K : f[k] = 0
    BY <2>1 DEF Column
  <2> HIDE DEF f
  <2>3. SumFunction(f) = 0
    BY <2>2, SumOfZeros
  <2>4. QED
    BY <2>1, <2>3 DEF f
<1>2. QED
  BY <1>1, Zenon DEF SumsUp

LEMMA DaysAndHours == IsFiniteSet(Days) /\ IsFiniteSet(Hours)
<1>1. 0 \in Int /\ 6 \in Int /\ 23 \in Int
  OBVIOUS
<1>2. IsFiniteSet(0 .. 6) /\ IsFiniteSet(0 .. 23)
  BY <1>1, FS_Interval, Zenon
<1>3. QED
  BY <1>2 DEF Days, Hours

\* Every counted row is in one line of each table; where its time of entry can
\* be read, in that of its day and that of its hour.
BreakdownInv ==
  /\ BrokenDown(table, tallied, byDay, byHour, summary)
  /\ SumsUp(Days, byDay, summary) /\ SumsUp(Hours, byHour, summary)

LEMMA BreakdownAddsUp == BreakdownInv => BreakdownsAddUp
<1>1. SUFFICES ASSUME BreakdownInv PROVE BreakdownsAddUp
  OBVIOUS
<1>2. ASSUME NEW line, NEW In
      PROVE  Holds(table, line, In) => Trades(line, In)
  BY Zenon DEF Holds, Wins, Trades, RealisedIn
<1>3. Counted = CountedIn(table, tallied)
  BY Zenon DEF Counted, CountedIn
<1>4. /\ \A d \in Days : Trades(byDay[d], OnDay(table, tallied, d))
      /\ \A h \in Hours : Trades(byHour[h], InHour(table, tallied, h))
      /\ Trades(summary, Counted)
  BY <1>1, <1>2, <1>3, Zenon DEF BreakdownInv, BrokenDown
<1>5. ASSUME \A i \in Counted : table[i].entry # NoStamp
      PROVE  /\ \A d \in Days : OnDay(table, tallied, d) = EnteredOn(d)
             /\ \A h \in Hours : InHour(table, tallied, h) = EnteredAt(h)
  <2>1. \A i \in Counted : EntryOf(table[i]) = table[i].entry
    BY <1>5, Zenon DEF EntryOf
  <2>2. ASSUME NEW d PROVE OnDay(table, tallied, d) = EnteredOn(d)
    BY <1>3, <1>5, <2>1 DEF OnDay, EnteredOn
  <2>3. ASSUME NEW h PROVE InHour(table, tallied, h) = EnteredAt(h)
    BY <1>3, <1>5, <2>1 DEF InHour, EnteredAt
  <2>4. QED
    BY <2>2, <2>3
<1>6. /\ DOMAIN summary = {"w", "l", "r"} /\ DOMAIN byDay = Days /\ DOMAIN byHour = Hours
  BY <1>1 DEF BreakdownInv, BrokenDown, Line
<1>7. AddUp(byDay) /\ AddUp(byHour)
  BY <1>1, <1>6, Zenon DEF BreakdownInv, SumsUp, AddUp, Column
<1>8. QED
  BY <1>4, <1>5, <1>7, Zenon DEF BreakdownsAddUp

LEMMA InitBreakdown == ReportsInit => BreakdownInv
<1>1. SUFFICES ASSUME ReportsInit PROVE BreakdownInv
  OBVIOUS
<1>2. /\ table \in Seq(Row) /\ tallied = 0 /\ summary = NoTrades
      /\ byDay = [d \in Days |-> NoTrades] /\ byHour = [h \in Hours |-> NoTrades]
  BY <1>1, ReportsAssumption DEF ReportsInit
<1>3. tallied \in 0 .. Len(table) /\ 1 .. tallied = {}
  BY <1>2
<1>4. CountedIn(table, tallied) = {}
  BY <1>3 DEF CountedIn
<1>5. /\ \A d \in Days : OnDay(table, tallied, d) = {}
      /\ \A h \in Hours : InHour(table, tallied, h) = {}
  BY <1>4 DEF OnDay, InHour
<1>6. NoTrades \in Line /\ Holds(table, NoTrades, {})
  BY NothingHeld
<1>7. /\ byDay \in [Days -> Line] /\ \A d \in Days : byDay[d] = NoTrades
      /\ byHour \in [Hours -> Line] /\ \A h \in Hours : byHour[h] = NoTrades
  BY <1>2, <1>6
<1>8. BrokenDown(table, tallied, byDay, byHour, summary)
  BY <1>2, <1>3, <1>4, <1>5, <1>6, <1>7, Zenon DEF BrokenDown
<1>9. SumsUp(Days, byDay, summary) /\ SumsUp(Hours, byHour, summary)
  BY <1>2, <1>7, DaysAndHours, NothingSumsUp
<1>10. QED
  BY <1>8, <1>9 DEF BreakdownInv

LEMMA TallyBreaksDown ==
  ASSUME BreakdownInv, TallyRow, UNCHANGED table
  PROVE  BreakdownInv'
<1>1. tallied < Len(table) /\ tallied' = tallied + 1 /\ table' = table
  BY DEF TallyRow
<1>2. IF Listed(table[tallied + 1])
      THEN /\ byDay' = [byDay EXCEPT ![EntryOf(table[tallied + 1]).day] = Plus(@, table[tallied + 1])]
           /\ byHour' = [byHour EXCEPT ![EntryOf(table[tallied + 1]).hour] = Plus(@, table[tallied + 1])]
           /\ summary' = Plus(summary, table[tallied + 1])
      ELSE byDay' = byDay /\ byHour' = byHour /\ summary' = summary
  BY <1>1 DEF TallyRow, Tally
<1>3. BrokenDown(table, tallied + 1, byDay', byHour', summary')
  BY <1>1, <1>2, BrokenDownGrows DEF BreakdownInv
<1>4. /\ SumsUp(Days, byDay, summary) /\ SumsUp(Hours, byHour, summary)
      /\ byDay \in [Days -> Line] /\ byHour \in [Hours -> Line] /\ summary \in Line
      /\ table \in Seq(Row) /\ tallied \in Nat
  BY DEF BreakdownInv, BrokenDown
<1>5. SumsUp(Days, byDay', summary') /\ SumsUp(Hours, byHour', summary')
  <2> DEFINE row == table[tallied + 1]
  <2>1. CASE ~Listed(row)
    BY <1>2, <1>4, <2>1
  <2>2. CASE Listed(row)
    <3>1. row \in Row
      BY <1>1, <1>4, CountedGrows
    <3>2. RealisedOf(row) \in Int /\ EntryOf(row).day \in Days /\ EntryOf(row).hour \in Hours
      BY <2>2, <3>1, RowAgrees, EntryType
    <3>3. /\ byDay' = [byDay EXCEPT ![EntryOf(row).day] = Plus(@, row)]
          /\ byHour' = [byHour EXCEPT ![EntryOf(row).hour] = Plus(@, row)]
          /\ summary' = Plus(summary, row)
      BY <1>2, <2>2
    <3> HIDE DEF row
    <3>4. SumsUp(Days, byDay', summary')
      BY <1>4, <3>2, <3>3, DaysAndHours, SumsUpGrows, Zenon
    <3>5. SumsUp(Hours, byHour', summary')
      BY <1>4, <3>2, <3>3, DaysAndHours, SumsUpGrows, Zenon
    <3>6. QED
      BY <3>4, <3>5
  <2>3. QED
    BY <2>1, <2>2
<1>6. QED
  BY <1>1, <1>3, <1>5 DEF BreakdownInv

(***************************************************************************)
(* For every log the two breakdowns add up to the totals, and where all    *)
(* times of entry can be read, each line has the trades of its day or hour.*)
(***************************************************************************)
THEOREM BreakdownsCorrect == ReportsSpec => []BreakdownsAddUp
<1>1. BreakdownInv /\ [ReportsNext]_reportsVars => BreakdownInv'
  <2>1. SUFFICES ASSUME BreakdownInv, [ReportsNext]_reportsVars PROVE BreakdownInv'
    OBVIOUS
  <2>2. CASE UNCHANGED <<table, breakdown>>
    <3>1. table' = table /\ tallied' = tallied /\ byDay' = byDay /\ byHour' = byHour /\ summary' = summary
      BY <2>2 DEF breakdown
    <3>2. QED
      BY <2>1, <3>1 DEF BreakdownInv
  <2>3. CASE TallyRow /\ UNCHANGED table
    BY <2>1, <2>3, TallyBreaksDown
  <2>4. QED
    BY <2>1, <2>2, <2>3 DEF ReportsNext, reportsVars
<1>2. QED
  BY <1>1, InitBreakdown, BreakdownAddsUp, PTL DEF ReportsSpec

---------------------------------------------------------------------------
(* The three programs and one another.                                     *)

ReadableIn(t, n) == {i \in 1 .. n : Readable(t[i])}
SkippedIn(t, n)  == {i \in 1 .. n : ~Listed(t[i]) /\ t[i].outcome # "win"}
NoRiskIn(t, n)   == {i \in 1 .. n : Listed(t[i]) /\ ~Readable(t[i])}

LEMMA SubsetsGrow ==
  ASSUME NEW t \in Seq(Row), NEW n \in Nat, n < Len(t)
  PROVE  /\ IsFiniteSet(ReadableIn(t, n)) /\ IsFiniteSet(SkippedIn(t, n)) /\ IsFiniteSet(NoRiskIn(t, n))
         /\ n + 1 \notin ReadableIn(t, n) /\ n + 1 \notin SkippedIn(t, n) /\ n + 1 \notin NoRiskIn(t, n)
         /\ ReadableIn(t, n + 1) = IF Readable(t[n + 1]) THEN ReadableIn(t, n) \cup {n + 1}
                                   ELSE ReadableIn(t, n)
         /\ SkippedIn(t, n + 1) = IF ~Listed(t[n + 1]) /\ t[n + 1].outcome # "win"
                                  THEN SkippedIn(t, n) \cup {n + 1} ELSE SkippedIn(t, n)
         /\ NoRiskIn(t, n + 1) = IF Listed(t[n + 1]) /\ ~Readable(t[n + 1])
                                 THEN NoRiskIn(t, n) \cup {n + 1} ELSE NoRiskIn(t, n)
<1>1. 1 .. n + 1 = (1 .. n) \cup {n + 1} /\ n + 1 \notin 1 .. n /\ IsFiniteSet(1 .. n)
  BY CountedGrows
<1>2. /\ ReadableIn(t, n) \subseteq 1 .. n /\ SkippedIn(t, n) \subseteq 1 .. n
      /\ NoRiskIn(t, n) \subseteq 1 .. n
  BY DEF ReadableIn, SkippedIn, NoRiskIn
<1>3. IsFiniteSet(ReadableIn(t, n)) /\ IsFiniteSet(SkippedIn(t, n)) /\ IsFiniteSet(NoRiskIn(t, n))
  BY <1>1, <1>2, FS_Subset
<1>4. ReadableIn(t, n + 1) = IF Readable(t[n + 1]) THEN ReadableIn(t, n) \cup {n + 1}
                             ELSE ReadableIn(t, n)
  BY <1>1, Zenon DEF ReadableIn
<1>5. SkippedIn(t, n + 1) = IF ~Listed(t[n + 1]) /\ t[n + 1].outcome # "win"
                            THEN SkippedIn(t, n) \cup {n + 1} ELSE SkippedIn(t, n)
  BY <1>1, Zenon DEF SkippedIn
<1>6. NoRiskIn(t, n + 1) = IF Listed(t[n + 1]) /\ ~Readable(t[n + 1])
                           THEN NoRiskIn(t, n) \cup {n + 1} ELSE NoRiskIn(t, n)
  BY <1>1, Zenon DEF NoRiskIn
<1>7. QED
  BY <1>1, <1>2, <1>3, <1>4, <1>5, <1>6

\* One row more in each of the sums the three programs make.
LEMMA SumsOfRowsGrow ==
  ASSUME NEW t \in Seq(Row), NEW n \in Nat, n < Len(t)
  PROVE  /\ CumulativeOf(t, 1 .. n) \in Int
         /\ CumulativeOf(t, 1 .. n + 1) = CumulativeOf(t, 1 .. n) + Realised(Columns(t[n + 1]))
         /\ VerifiedOf(t, ReadableIn(t, n)) \in Int
         /\ VerifiedOf(t, ReadableIn(t, n + 1)) = VerifiedOf(t, ReadableIn(t, n))
              + IF Readable(t[n + 1]) THEN FromRR(t[n + 1]) ELSE 0
         /\ RealisedIn(t, NoRiskIn(t, n)) \in Int
         /\ RealisedIn(t, NoRiskIn(t, n + 1)) = RealisedIn(t, NoRiskIn(t, n))
              + IF Listed(t[n + 1]) /\ ~Readable(t[n + 1]) THEN RealisedOf(t[n + 1]) ELSE 0
         /\ RiskIn(t, SkippedIn(t, n)) \in Int
         /\ RiskIn(t, SkippedIn(t, n + 1)) = RiskIn(t, SkippedIn(t, n))
              + IF ~Listed(t[n + 1]) /\ t[n + 1].outcome # "win" THEN RiskOf(t[n + 1]) ELSE 0
         /\ Cardinality(ReadableIn(t, n)) \in Nat
         /\ Cardinality(ReadableIn(t, n + 1)) = Cardinality(ReadableIn(t, n))
              + IF Readable(t[n + 1]) THEN 1 ELSE 0
         /\ Cardinality(NoRiskIn(t, n)) \in Nat
         /\ Cardinality(NoRiskIn(t, n + 1)) = Cardinality(NoRiskIn(t, n))
              + IF Listed(t[n + 1]) /\ ~Readable(t[n + 1]) THEN 1 ELSE 0
<1> DEFINE x == n + 1
           A == ReadableIn(t, n)
           B == SkippedIn(t, n)
           C == NoRiskIn(t, n)
<1>1. /\ 1 .. x = (1 .. n) \cup {x} /\ x \notin 1 .. n /\ IsFiniteSet(1 .. n)
      /\ \A i \in (1 .. n) \cup {x} : t[i] \in Row
  BY CountedGrows
<1>2. /\ IsFiniteSet(A) /\ IsFiniteSet(B) /\ IsFiniteSet(C)
      /\ x \notin A /\ x \notin B /\ x \notin C
      /\ ReadableIn(t, x) = IF Readable(t[x]) THEN A \cup {x} ELSE A
      /\ SkippedIn(t, x) = IF ~Listed(t[x]) /\ t[x].outcome # "win" THEN B \cup {x} ELSE B
      /\ NoRiskIn(t, x) = IF Listed(t[x]) /\ ~Readable(t[x]) THEN C \cup {x} ELSE C
  BY SubsetsGrow
<1>3. /\ \A i \in A : t[i] \in Row /\ Readable(t[i])
      /\ \A i \in B : t[i] \in Row
      /\ \A i \in C : t[i] \in Row /\ Listed(t[i])
  BY <1>1 DEF ReadableIn, SkippedIn, NoRiskIn
<1>4. t[x] \in Row /\ t[x] \in Row
  BY <1>1
<1> HIDE DEF x, A, B, C
<1>5. CumulativeOf(t, 1 .. n) \in Int /\ CumulativeOf(t, (1 .. n) \cup {x}) = CumulativeOf(t, 1 .. n) + Realised(Columns(t[x]))
  <2>1. \A i \in (1 .. n) \cup {x} : Realised(Columns(t[i])) \in Int
    BY <1>1, RowAgrees
  <2>2. QED
    BY <1>1, <2>1, CumulativeGrows
<1>6. /\ VerifiedOf(t, A) \in Int
      /\ Readable(t[x]) => VerifiedOf(t, A \cup {x}) = VerifiedOf(t, A) + FromRR(t[x])
  <2>1. \A i \in A : FromRR(t[i]) \in Int
    BY <1>3, RowAgrees
  <2>2. VerifiedOf(t, A) \in Int
    BY <1>2, <2>1, SumOfFinite DEF VerifiedOf
  <2>3. ASSUME Readable(t[x]) PROVE VerifiedOf(t, A \cup {x}) = VerifiedOf(t, A) + FromRR(t[x])
    <3>1. \A i \in A \cup {x} : FromRR(t[i]) \in Int
      BY <1>4, <2>1, <2>3, RowAgrees
    <3>2. QED
      BY <1>2, <3>1, VerifiedGrows
  <2>4. QED
    BY <2>2, <2>3
<1>7. /\ RealisedIn(t, C) \in Int
      /\ Listed(t[x]) => RealisedIn(t, C \cup {x}) = RealisedIn(t, C) + RealisedOf(t[x])
  <2>1. \A i \in C : RealisedOf(t[i]) \in Int
    BY <1>3, RowAgrees
  <2>2. RealisedIn(t, C) \in Int
    BY <1>2, <2>1, SumOfFinite DEF RealisedIn
  <2>3. ASSUME Listed(t[x]) PROVE RealisedIn(t, C \cup {x}) = RealisedIn(t, C) + RealisedOf(t[x])
    <3>1. \A i \in C \cup {x} : RealisedOf(t[i]) \in Int
      BY <1>4, <2>1, <2>3, RowAgrees
    <3>2. QED
      BY <1>2, <3>1, RealisedGrows
  <2>4. QED
    BY <2>2, <2>3
<1>8. RiskIn(t, B) \in Int /\ RiskIn(t, B \cup {x}) = RiskIn(t, B) + RiskOf(t[x])
  <2>1. \A i \in B \cup {x} : RiskOf(t[i]) \in Int
    BY <1>3, <1>4, RowAgrees
  <2>2. QED
    BY <1>2, <2>1, RiskGrows
<1>9. /\ Cardinality(A) \in Nat /\ Cardinality(A \cup {x}) = Cardinality(A) + 1
      /\ Cardinality(C) \in Nat /\ Cardinality(C \cup {x}) = Cardinality(C) + 1
  BY <1>2, FS_CardinalityType, FS_AddElement
<1>10. /\ CumulativeOf(t, 1 .. x) = CumulativeOf(t, 1 .. n) + Realised(Columns(t[x]))
       /\ VerifiedOf(t, ReadableIn(t, x)) = VerifiedOf(t, A) + IF Readable(t[x]) THEN FromRR(t[x]) ELSE 0
       /\ RealisedIn(t, NoRiskIn(t, x)) = RealisedIn(t, C)
            + IF Listed(t[x]) /\ ~Readable(t[x]) THEN RealisedOf(t[x]) ELSE 0
       /\ RiskIn(t, SkippedIn(t, x)) = RiskIn(t, B)
            + IF ~Listed(t[x]) /\ t[x].outcome # "win" THEN RiskOf(t[x]) ELSE 0
       /\ Cardinality(ReadableIn(t, x)) = Cardinality(A) + IF Readable(t[x]) THEN 1 ELSE 0
       /\ Cardinality(NoRiskIn(t, x)) = Cardinality(C) + IF Listed(t[x]) /\ ~Readable(t[x]) THEN 1 ELSE 0
  <2>1. CumulativeOf(t, 1 .. x) = CumulativeOf(t, 1 .. n) + Realised(Columns(t[x]))
    BY <1>1, <1>5, Zenon
  <2>2. VerifiedOf(t, ReadableIn(t, x)) = VerifiedOf(t, A) + IF Readable(t[x]) THEN FromRR(t[x]) ELSE 0
    <3>1. CASE Readable(t[x])
      BY <1>2, <1>6, <3>1
    <3>2. CASE ~Readable(t[x])
      BY <1>2, <1>6, <3>2
    <3>3. QED
      BY <3>1, <3>2
  <2>3. RealisedIn(t, NoRiskIn(t, x)) = RealisedIn(t, C)
            + IF Listed(t[x]) /\ ~Readable(t[x]) THEN RealisedOf(t[x]) ELSE 0
    <3>1. CASE Listed(t[x]) /\ ~Readable(t[x])
      BY <1>2, <1>7, <3>1
    <3>2. CASE ~(Listed(t[x]) /\ ~Readable(t[x]))
      BY <1>2, <1>7, <3>2
    <3>3. QED
      BY <3>1, <3>2
  <2>4. RiskIn(t, SkippedIn(t, x)) = RiskIn(t, B)
            + IF ~Listed(t[x]) /\ t[x].outcome # "win" THEN RiskOf(t[x]) ELSE 0
    <3>1. CASE ~Listed(t[x]) /\ t[x].outcome # "win"
      BY <1>2, <1>8, <3>1
    <3>2. CASE ~(~Listed(t[x]) /\ t[x].outcome # "win")
      BY <1>2, <1>8, <3>2
    <3>3. QED
      BY <3>1, <3>2
  <2>5. Cardinality(ReadableIn(t, x)) = Cardinality(A) + IF Readable(t[x]) THEN 1 ELSE 0
    BY <1>2, <1>9
  <2>6. Cardinality(NoRiskIn(t, x)) = Cardinality(C) + IF Listed(t[x]) /\ ~Readable(t[x]) THEN 1 ELSE 0
    BY <1>2, <1>9
  <2>7. QED
    BY <2>1, <2>2, <2>3, <2>4, <2>5, <2>6, Zenon
<1>11. QED
  BY <1>5, <1>6, <1>7, <1>8, <1>9, <1>10, Zenon DEF x, A, B, C


\* run_full_breakdown has what the others would have of the same rows.
TallyRelated ==
  /\ table \in Seq(Row) /\ tallied \in 0 .. Len(table) /\ summary \in Line
  /\ summary.r - CumulativeOf(table, 1 .. tallied) = One * RiskIn(table, SkippedIn(table, tallied))
  /\ summary.r - VerifiedOf(table, ReadableIn(table, tallied))
       = RealisedIn(table, NoRiskIn(table, tallied))
  /\ summary.w + summary.l
       = Cardinality(ReadableIn(table, tallied)) + Cardinality(NoRiskIn(table, tallied))

LEMMA PlusValues ==
  ASSUME NEW line \in Line, NEW row, RealisedOf(row) \in Int
  PROVE  /\ Plus(line, row) \in Line
         /\ Plus(line, row).r = line.r + RealisedOf(row)
         /\ Plus(line, row).w + Plus(line, row).l = line.w + line.l + 1
BY DEF Plus, Line

LEMMA TallyKeepsRelation ==
  ASSUME TallyRelated, TallyRow, UNCHANGED table
  PROVE  TallyRelated'
<1> DEFINE n == tallied
           row == table[n + 1]
           cu == CumulativeOf(table, 1 .. n)
           ve == VerifiedOf(table, ReadableIn(table, n))
           no == RealisedIn(table, NoRiskIn(table, n))
           sk == RiskIn(table, SkippedIn(table, n))
           a == Cardinality(ReadableIn(table, n))
           c == Cardinality(NoRiskIn(table, n))
<1>1. /\ table \in Seq(Row) /\ n \in Nat /\ n < Len(table) /\ tallied' = n + 1 /\ table' = table
      /\ Len(table) \in Nat /\ n + 1 \in 0 .. Len(table)
  BY DEF TallyRelated, TallyRow
<1>2. /\ cu \in Int /\ ve \in Int /\ no \in Int /\ sk \in Int /\ a \in Nat /\ c \in Nat
      /\ CumulativeOf(table, 1 .. n + 1) = cu + Realised(Columns(row))
      /\ VerifiedOf(table, ReadableIn(table, n + 1)) = ve + IF Readable(row) THEN FromRR(row) ELSE 0
      /\ RealisedIn(table, NoRiskIn(table, n + 1))
           = no + IF Listed(row) /\ ~Readable(row) THEN RealisedOf(row) ELSE 0
      /\ RiskIn(table, SkippedIn(table, n + 1))
           = sk + IF ~Listed(row) /\ row.outcome # "win" THEN RiskOf(row) ELSE 0
      /\ Cardinality(ReadableIn(table, n + 1)) = a + IF Readable(row) THEN 1 ELSE 0
      /\ Cardinality(NoRiskIn(table, n + 1)) = c + IF Listed(row) /\ ~Readable(row) THEN 1 ELSE 0
  BY <1>1, SumsOfRowsGrow, Zenon
<1>3. /\ summary \in Line
      /\ summary.r - cu = One * sk /\ summary.r - ve = no /\ summary.w + summary.l = a + c
  BY DEF TallyRelated
<1>4. row \in Row
  BY <1>1, ElementOfSeq
<1>5. IF Listed(row) THEN summary' = Plus(summary, row) ELSE summary' = summary
  BY <1>1 DEF TallyRow, Tally
<1>6. summary.r \in Int /\ summary.w \in Nat /\ summary.l \in Nat /\ One \in Int
  BY <1>3, LogAssumption DEF Line
<1> HIDE DEF row, cu, ve, no, sk, a, c
<1> DEFINE cu2 == cu + Realised(Columns(row))
           ve2 == ve + IF Readable(row) THEN FromRR(row) ELSE 0
           no2 == no + IF Listed(row) /\ ~Readable(row) THEN RealisedOf(row) ELSE 0
           sk2 == sk + IF ~Listed(row) /\ row.outcome # "win" THEN RiskOf(row) ELSE 0
           a2 == a + IF Readable(row) THEN 1 ELSE 0
           c2 == c + IF Listed(row) /\ ~Readable(row) THEN 1 ELSE 0
           Good == /\ summary' \in Line
                   /\ summary'.r - cu2 = One * sk2 /\ summary'.r - ve2 = no2
                   /\ summary'.w + summary'.l = a2 + c2
<1>7. ASSUME Listed(row) PROVE Good
  <2>1. /\ summary' = Plus(summary, row) /\ RealisedOf(row) \in Int
        /\ RealisedOf(row) = Realised(Columns(row))
        /\ Readable(row) => FromRR(row) = RealisedOf(row)
    BY <1>4, <1>5, <1>7, RowAgrees
  <2>2. /\ summary' \in Line /\ summary'.r = summary.r + RealisedOf(row)
        /\ summary'.w + summary'.l = summary.w + summary.l + 1
    BY <1>3, <2>1, PlusValues
  <2>3. cu2 = cu + RealisedOf(row) /\ sk2 = sk
    BY <1>2, <1>7, <2>1
  <2>4. ve2 + no2 = ve + no + RealisedOf(row) /\ ve2 \in Int /\ no2 \in Int
    <3>1. CASE Readable(row)
      BY <1>2, <1>7, <2>1, <3>1
    <3>2. CASE ~Readable(row)
      BY <1>2, <1>7, <2>1, <3>2
    <3>3. QED
      BY <3>1, <3>2
  <2>5. a2 + c2 = a + c + 1
    BY <1>2, <1>7
  <2> HIDE DEF cu2, sk2, ve2, no2, a2, c2
  <2>6. summary'.r - cu2 = One * sk2
    BY <1>2, <1>3, <1>6, <2>1, <2>2, <2>3
  <2>7. summary'.r - ve2 = no2
    <3>1. ASSUME NEW s \in Int, NEW v \in Int, NEW m \in Int, NEW d \in Int,
                 NEW v2 \in Int, NEW m2 \in Int, s - v = m, v2 + m2 = v + m + d
          PROVE  (s + d) - v2 = m2
      BY <3>1
    <3>2. QED
      <4>1. summary.r \in Int /\ ve \in Int /\ no \in Int /\ RealisedOf(row) \in Int
        BY <1>2, <1>6, <2>1
      <4>2. ve2 \in Int /\ no2 \in Int /\ summary.r - ve = no /\ ve2 + no2 = ve + no + RealisedOf(row)
        BY <1>3, <2>4
      <4>3. (summary.r + RealisedOf(row)) - ve2 = no2
        BY <4>1, <4>2, <3>1
      <4>4. QED
        BY <4>3, <2>2
  <2>8. summary'.w + summary'.l = a2 + c2
    BY <1>2, <1>3, <1>6, <2>2, <2>5
  <2>9. QED
    BY <2>2, <2>6, <2>7, <2>8
<1>8. ASSUME ~Listed(row) PROVE Good
  <2>1. /\ summary' = summary /\ ~Readable(row) /\ RiskOf(row) \in Int
        /\ Realised(Columns(row)) = IF row.outcome = "win" THEN 0 ELSE -(One * RiskOf(row))
    BY <1>4, <1>5, <1>8, RowAgrees
  <2>2. ve2 = ve /\ no2 = no /\ a2 = a /\ c2 = c
    BY <1>2, <1>8, <2>1
  <2>3. summary.r - cu2 = One * sk2
    <3>1. CASE row.outcome = "win"
      BY <1>2, <1>3, <1>6, <1>8, <2>1, <3>1
    <3>2. CASE row.outcome # "win"
      <4>1. cu2 = cu - One * RiskOf(row) /\ sk2 = sk + RiskOf(row)
        BY <1>2, <1>6, <1>8, <2>1, <3>2
      <4>2. One * (sk + RiskOf(row)) = One * sk + One * RiskOf(row)
        BY <1>2, <1>6, <2>1
      <4>3. One * RiskOf(row) \in Int /\ One * sk \in Int
        BY <1>2, <1>6, <2>1
      <4> HIDE DEF cu2, sk2
      <4>4. QED
        BY SMTT(40), <1>2, <1>3, <1>6, <4>1, <4>2, <4>3
    <3>3. QED
      BY <3>1, <3>2
  <2> HIDE DEF cu2, sk2, ve2, no2, a2, c2
  <2>4. QED
    BY <1>3, <2>1, <2>2, <2>3
<1>9. Good
  BY <1>7, <1>8
<1>10. TallyRelated' <=>
         /\ table \in Seq(Row) /\ n + 1 \in 0 .. Len(table) /\ summary' \in Line
         /\ summary'.r - CumulativeOf(table, 1 .. n + 1) = One * RiskIn(table, SkippedIn(table, n + 1))
         /\ summary'.r - VerifiedOf(table, ReadableIn(table, n + 1))
              = RealisedIn(table, NoRiskIn(table, n + 1))
         /\ summary'.w + summary'.l
              = Cardinality(ReadableIn(table, n + 1)) + Cardinality(NoRiskIn(table, n + 1))
  BY <1>1, Zenon DEF TallyRelated
<1>11. QED
  BY <1>1, <1>2, <1>9, <1>10, Zenon

\* verify_realised_r has counted the readable rows among those it has read.
VerifyRelated ==
  /\ table \in Seq(Row) /\ read \in 0 .. Len(table) /\ wins \in Nat /\ losses \in Nat
  /\ fromRR = VerifiedOf(table, ReadableIn(table, read))
  /\ wins + losses = Cardinality(ReadableIn(table, read))
  /\ phase # "reading" => read = Len(table)

LEMMA VerifyKeepsRelation ==
  ASSUME VerifyRelated, Verify, UNCHANGED table
  PROVE  VerifyRelated'
<1>1. /\ table \in Seq(Row) /\ table' = table /\ read \in 0 .. Len(table) /\ Len(table) \in Nat
      /\ wins \in Nat /\ losses \in Nat
      /\ fromRR = VerifiedOf(table, ReadableIn(table, read))
      /\ wins + losses = Cardinality(ReadableIn(table, read))
  BY DEF VerifyRelated
<1>2. CASE PrintReport
  BY <1>1, <1>2 DEF PrintReport, VerifyRelated
<1>3. CASE SkipRow \/ CountWin \/ CountLoss
  <2> DEFINE row == table[read + 1]
             v2 == VerifiedOf(table, ReadableIn(table, read + 1))
             c2 == Cardinality(ReadableIn(table, read + 1))
  <2>1. /\ phase = "reading" /\ read < Len(table) /\ read' = read + 1 /\ phase' = phase
        /\ read \in Nat /\ read + 1 \in 0 .. Len(table)
    BY <1>1, <1>3 DEF SkipRow, CountWin, CountLoss, AtRow
  <2>2. /\ v2 = VerifiedOf(table, ReadableIn(table, read)) + IF Readable(row) THEN FromRR(row) ELSE 0
        /\ c2 = Cardinality(ReadableIn(table, read)) + IF Readable(row) THEN 1 ELSE 0
        /\ VerifiedOf(table, ReadableIn(table, read)) \in Int
    BY <1>1, <2>1, SumsOfRowsGrow, Zenon
  <2>3. /\ SkipRow => ~Readable(row) /\ fromRR' = fromRR /\ wins' = wins /\ losses' = losses
        /\ CountWin => Readable(row) /\ fromRR' = fromRR + FromRR(row) /\ wins' = wins + 1 /\ losses' = losses
        /\ CountLoss => Readable(row) /\ fromRR' = fromRR + FromRR(row) /\ losses' = losses + 1 /\ wins' = wins
    BY <2>1 DEF SkipRow, CountWin, CountLoss, Count
  <2> HIDE DEF row, v2, c2
  <2>4. wins' \in Nat /\ losses' \in Nat /\ fromRR' = v2 /\ wins' + losses' = c2
    <3>1. CASE SkipRow
      BY <1>1, <2>2, <2>3, <3>1
    <3>2. CASE CountWin
      BY <1>1, <2>2, <2>3, <3>2
    <3>3. CASE CountLoss
      BY <1>1, <2>2, <2>3, <3>3
    <3>4. QED
      BY <1>3, <3>1, <3>2, <3>3
  <2>5. QED
    BY <1>1, <2>1, <2>4 DEF VerifyRelated, v2, c2
<1>4. QED
  BY <1>2, <1>3 DEF Verify

\* The rows of t in the order p, and the first k of them accumulated in c.
Ordered(t, p, rs, k, c) ==
  /\ rs = [i \in 1 .. Len(t) |-> Columns(t[p[i]])]
  /\ c = CumulativeOf(t, {p[i] : i \in 1 .. k})

\* What max_drawdown_r has accumulated is rows of the table, each once.
DrawRelated ==
  /\ table \in Seq(Row) /\ Len(rows) = Len(table)
  /\ ~sorted => rows = [i \in 1 .. Len(table) |-> Columns(table[i])] /\ cum = 0 /\ done = 0
  /\ sorted => \E p \in Injection(1 .. Len(table), 1 .. Len(table)) :
                 Ordered(table, p, rows, done, cum)
  /\ read > 0 \/ phase # "reading" => sorted /\ done = Len(table)

LEMMA SortKeepsRelation ==
  ASSUME DrawRelated, Sort, UNCHANGED <<table, verifier>>
  PROVE  DrawRelated'
<1> DEFINE n == Len(table)
<1>1. /\ table \in Seq(Row) /\ Len(rows) = n /\ n \in Nat /\ table' = table
      /\ rows = [i \in 1 .. n |-> Columns(table[i])] /\ cum = 0 /\ done = 0
      /\ ~(read > 0 \/ phase # "reading")
      /\ read' = read /\ phase' = phase /\ sorted' = TRUE /\ cum' = cum /\ done' = done
  BY DEF DrawRelated, Sort, verifier
<1>2. PICK p \in [1 .. n -> 1 .. n] :
        /\ \A a, b \in 1 .. n : a < b => Before(p[a], p[b])
        /\ rows' = [i \in 1 .. n |-> rows[p[i]]]
  BY <1>1 DEF Sort
<1> HIDE DEF n
<1>3. \A i \in 1 .. n : rows[i] \in LogRow
  BY <1>1, RowAgrees, ElementOfSeq DEF n
<1>4. p \in Injection(1 .. n, 1 .. n)
  <2>1. ASSUME NEW a \in 1 .. n, NEW b \in 1 .. n, a < b PROVE p[a] # p[b]
    <3>1. Before(p[a], p[b]) /\ p[a] \in 1 .. n /\ rows[p[a]].exit \in Int
      BY <1>2, <1>3, <2>1 DEF LogRow
    <3>2. QED
      BY <1>1, <3>1 DEF Before
  <2>2. \A a, b \in 1 .. n : p[a] = p[b] => a = b
    BY <1>1, <2>1
  <2>3. QED
    BY <1>2, <2>2 DEF Injection, IsInjective
<1>5. rows' = [i \in 1 .. n |-> Columns(table[p[i]])]
  BY <1>1, <1>2
<1>6. {p[i] : i \in 1 .. done} = {}
  BY <1>1
<1>7. cum' = CumulativeOf(table, {p[i] : i \in 1 .. done'})
  BY <1>1, <1>6, SumsOfNothing
<1>8. Len(rows') = n
  BY <1>1, <1>5
<1>9. Ordered(table', p, rows', done', cum')
  BY <1>1, <1>5, <1>7 DEF Ordered, n
<1>10. QED
  BY <1>1, <1>4, <1>8, <1>9 DEF DrawRelated, n

LEMMA AccumulateKeepsRelation ==
  ASSUME IInv, DrawRelated, Accumulate, UNCHANGED <<table, verifier>>
  PROVE  DrawRelated'
<1> DEFINE n == Len(table)
<1>1. /\ table \in Seq(Row) /\ Len(rows) = n /\ n \in Nat /\ table' = table
      /\ ~(read > 0 \/ phase # "reading")
      /\ read' = read /\ phase' = phase /\ sorted /\ sorted' = sorted /\ rows' = rows
  BY DEF DrawRelated, Accumulate, verifier
<1>2. PICK p \in Injection(1 .. n, 1 .. n) :
        /\ rows = [i \in 1 .. n |-> Columns(table[p[i]])]
        /\ cum = CumulativeOf(table, {p[i] : i \in 1 .. done})
  BY <1>1, Zenon DEF DrawRelated, Ordered
<1>3. done \in Nat /\ done' = done + 1 /\ done' \in 1 .. n /\ cum' = cum + Realised(rows[done'])
  BY <1>1, CurveGrows
<1> HIDE DEF n
<1>4. /\ p \in [1 .. n -> 1 .. n] /\ \A a, b \in 1 .. n : p[a] = p[b] => a = b
  BY <1>2 DEF Injection, IsInjective
<1> DEFINE In == {p[i] : i \in 1 .. done}
           x == p[done']
<1>5. {p[i] : i \in 1 .. done'} = In \cup {x} /\ In \subseteq 1 .. n /\ x \in 1 .. n
  <2>1. 1 .. done' = (1 .. done) \cup {done'} /\ 1 .. done \subseteq 1 .. n
    BY <1>1, <1>3
  <2>2. QED
    BY <1>3, <1>4, <2>1
<1>6. x \notin In
  <2>1. \A i \in 1 .. done : i \in 1 .. n /\ i # done'
    BY <1>1, <1>3
  <2>2. QED
    BY <1>3, <1>4, <2>1
<1>7. IsFiniteSet(In)
  <2>1. IsFiniteSet(1 .. n)
    BY <1>1, FS_Interval
  <2> HIDE DEF In
  <2>2. QED
    BY <1>5, <2>1, FS_Subset
<1> HIDE DEF In, x
<1>8. \A i \in In \cup {x} : Realised(Columns(table[i])) \in Int
  <2>1. \A i \in 1 .. n : table[i] \in Row
    BY <1>1, ElementOfSeq DEF n
  <2>2. QED
    BY <1>5, <2>1, RowAgrees
<1>9. CumulativeOf(table, In \cup {x}) = CumulativeOf(table, In) + Realised(Columns(table[x]))
  BY <1>6, <1>7, <1>8, CumulativeGrows
<1>10. rows[done'] = Columns(table[x])
  BY <1>2, <1>3 DEF x
<1>11. cum' = CumulativeOf(table, {p[i] : i \in 1 .. done'})
  BY <1>2, <1>3, <1>5, <1>9, <1>10 DEF In
<1>12. Ordered(table', p, rows', done', cum')
  BY <1>1, <1>2, <1>11, Zenon DEF Ordered, n
<1>13. QED
  BY <1>1, <1>2, <1>12 DEF DrawRelated, n

ReportsInv ==
  /\ IInv /\ DrawRelated /\ VerifyRelated /\ TallyRelated

LEMMA InitReportsInv == ReportsInit => ReportsInv
<1>1. SUFFICES ASSUME ReportsInit PROVE ReportsInv
  OBVIOUS
<1>2. /\ table \in Seq(Row) /\ Len(table) \in Nat
      /\ rows = [i \in 1 .. Len(table) |-> Columns(table[i])] /\ Init
      /\ phase = "reading" /\ read = 0
      /\ wins = 0 /\ losses = 0 /\ fromRR = 0
      /\ tallied = 0 /\ summary = NoTrades
  BY <1>1, ReportsAssumption DEF ReportsInit
<1>3. IInv
  BY <1>2, InitIInv
<1>4. DrawRelated
  <2>1. sorted = FALSE /\ cum = 0 /\ done = 0
    BY <1>2 DEF Init
  <2>2. Len(rows) = Len(table)
    BY <1>2
  <2>3. QED
    BY <1>2, <2>1, <2>2 DEF DrawRelated
<1>5. /\ 1 .. 0 = {} /\ ReadableIn(table, 0) = {} /\ SkippedIn(table, 0) = {}
      /\ NoRiskIn(table, 0) = {}
  BY DEF ReadableIn, SkippedIn, NoRiskIn
<1>6. /\ CumulativeOf(table, {}) = 0 /\ VerifiedOf(table, {}) = 0
      /\ RealisedIn(table, {}) = 0 /\ RiskIn(table, {}) = 0 /\ Cardinality({}) = 0
  BY SumsOfNothing, FS_EmptySet
<1>7. VerifyRelated
  BY <1>2, <1>5, <1>6 DEF VerifyRelated
<1>8. TallyRelated
  <2>1. summary \in Line /\ summary.r = 0 /\ summary.w = 0 /\ summary.l = 0
    BY <1>2 DEF NoTrades, Line
  <2>2. One * 0 = 0
    BY LogAssumption
  <2>3. tallied \in 0 .. Len(table)
    BY <1>2
  <2>4. /\ CumulativeOf(table, 1 .. tallied) = 0 /\ RiskIn(table, SkippedIn(table, tallied)) = 0
        /\ VerifiedOf(table, ReadableIn(table, tallied)) = 0
        /\ RealisedIn(table, NoRiskIn(table, tallied)) = 0
        /\ Cardinality(ReadableIn(table, tallied)) = 0 /\ Cardinality(NoRiskIn(table, tallied)) = 0
    BY <1>2, <1>5, <1>6
  <2>5. QED
    BY <1>2, <2>1, <2>2, <2>3, <2>4 DEF TallyRelated
<1>9. QED
  BY <1>3, <1>4, <1>7, <1>8 DEF ReportsInv

LEMMA ReportsInvInductive == ReportsInv /\ [ReportsNext]_reportsVars => ReportsInv'
<1>1. SUFFICES ASSUME ReportsInv, [ReportsNext]_reportsVars PROVE ReportsInv'
  OBVIOUS
<1>2. IInv /\ DrawRelated /\ VerifyRelated /\ TallyRelated
  BY <1>1 DEF ReportsInv
<1>3. CASE Next /\ UNCHANGED <<table, verifier, breakdown>>
  <2>1. IInv'
    BY <1>2, <1>3, IInvInductive
  <2>2. DrawRelated'
    BY <1>2, <1>3, SortKeepsRelation, AccumulateKeepsRelation DEF Next
  <2>3. VerifyRelated' /\ TallyRelated'
    BY <1>2, <1>3, Zenon DEF VerifyRelated, TallyRelated, verifier, breakdown
  <2>4. QED
    BY <2>1, <2>2, <2>3 DEF ReportsInv
<1>4. CASE sorted /\ done = Len(rows) /\ Verify /\ UNCHANGED <<table, vars, breakdown>>
  <2>1. IInv'
    BY <1>2, <1>4, IInvInductive
  <2>2. VerifyRelated'
    BY <1>2, <1>4, VerifyKeepsRelation
  <2>3. DrawRelated'
    <3>1. UNCHANGED <<table, rows, sorted, done, cum>> /\ sorted /\ done = Len(rows)
      BY <1>4 DEF vars
    <3>2. QED
      BY <1>2, <3>1 DEF DrawRelated
  <2>4. TallyRelated'
    BY <1>2, <1>4, Zenon DEF TallyRelated, breakdown
  <2>5. QED
    BY <2>1, <2>2, <2>3, <2>4 DEF ReportsInv
<1>5. CASE phase # "reading" /\ TallyRow /\ UNCHANGED <<table, vars, verifier>>
  <2>1. IInv'
    BY <1>2, <1>5, IInvInductive
  <2>2. TallyRelated'
    BY <1>2, <1>5, TallyKeepsRelation
  <2>3. DrawRelated' /\ VerifyRelated'
    <3>1. UNCHANGED <<table, rows, sorted, done, cum, phase, read, wins, losses, fromRR>>
      BY <1>5 DEF vars, verifier
    <3>2. QED
      BY <1>2, <3>1, Zenon DEF DrawRelated, VerifyRelated
  <2>4. QED
    BY <2>1, <2>2, <2>3 DEF ReportsInv
<1>6. CASE UNCHANGED reportsVars
  <2>1. IInv'
    BY <1>2, <1>6, IInvInductive DEF reportsVars
  <2>2. UNCHANGED <<table, rows, sorted, done, cum, phase, read, wins, losses, fromRR, tallied, summary>>
    BY <1>6 DEF reportsVars, vars, verifier, breakdown
  <2>3. QED
    BY <1>2, <2>1, <2>2, Zenon DEF ReportsInv, DrawRelated, VerifyRelated, TallyRelated
<1>7. QED
  BY <1>1, <1>3, <1>4, <1>5, <1>6 DEF ReportsNext

(***************************************************************************)
(* The three programs report the same realised R of every log, but for the *)
(* rows they treat differently.                                            *)
(***************************************************************************)
THEOREM ReportsAgree == ReportsSpec => []ToolsAgree
<1>1. ReportsInv => ToolsAgree
  <2>1. SUFFICES ASSUME ReportsInv, AllRead PROVE ToolsAgree
    BY DEF ToolsAgree
  <2> DEFINE n == Len(table)
  <2>2. /\ phase # "reading" /\ tallied = n /\ n \in Nat /\ read = n /\ sorted /\ done = n
    BY <2>1 DEF AllRead, ReportsInv, TallyRelated, VerifyRelated, DrawRelated
  <2>3. cum = CumulativeOf(table, 1 .. n)
    <3>1. PICK p \in Injection(1 .. n, 1 .. n) : cum = CumulativeOf(table, {p[i] : i \in 1 .. n})
      BY <2>1, <2>2, Zenon DEF ReportsInv, DrawRelated, Ordered
    <3>2. IsFiniteSet(1 .. n)
      BY <2>2, FS_Interval
    <3>3. p \in Surjection(1 .. n, 1 .. n)
      BY <3>2, FS_Injection
    <3>4. {p[i] : i \in 1 .. n} = 1 .. n
      BY <3>3 DEF Surjection
    <3>5. QED
      BY <3>1, <3>4
  <2>4. /\ summary.r - cum = One * RiskIn(table, SkippedIn(table, n))
        /\ summary.r - fromRR = RealisedIn(table, NoRiskIn(table, n))
        /\ summary.w + summary.l = wins + losses + Cardinality(NoRiskIn(table, n))
    BY <2>1, <2>2, <2>3 DEF ReportsInv, TallyRelated, VerifyRelated
  <2> HIDE DEF n
  <2>5. QED
    BY <2>4, Zenon DEF ToolsAgree, RiskIn, RealisedIn, SkippedIn, NoRiskIn, n
<1>2. QED
  BY <1>1, InitReportsInv, ReportsInvInductive, PTL DEF ReportsSpec

=============================================================================
