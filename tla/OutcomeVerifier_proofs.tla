----------------------- MODULE OutcomeVerifier_proofs -----------------------
(***************************************************************************)
(* What a report of the outcome verifier means, and what its silence does, *)
(* for every candle file and log: the scan stops at the first candle of    *)
(* the trade that touches either price.                                    *)
(***************************************************************************)
EXTENDS OutcomeVerifier, FiniteSetTheorems, SequenceTheorems, TLAPS

\* No candle scanned so far belongs to the trade and touches a price of it.
ScanInv ==
  phase = "scan" =>
    /\ ~slFirst /\ ~exitOK
    /\ \A j \in 1 .. pos : j \in Path(trade) =>
         ~Touches(m5[j], trade.sl) /\ ~Touches(m5[j], trade.tp1)

\* What the two flags say when the scan is over.
JudgeInv ==
  phase = "judge" =>
    /\ slFirst => StopBefore(trade)
    /\ exitOK => ExitHasTarget(trade)

\* The trade being checked counts as one of the checked ones only afterwards.
RowInv ==
  phase \in {"scan", "judge"} =>
    row \in 1 .. Len(log) /\ row \notin checked /\ Cardinality(checked) < Limit

IInv ==
  /\ TypeOK /\ RowInv /\ ScanInv /\ JudgeInv
  /\ NoFalseAlarm /\ CleanWinIsExplained

LEMMA FileTypes ==
  ASSUME TypeOK
  PROVE  /\ m5 \in Seq(Candle) /\ Len(m5) \in Nat /\ \A i \in 1 .. Len(m5) : m5[i] \in Candle
         /\ log \in Seq(Trade) /\ Len(log) \in Nat /\ \A r \in 1 .. Len(log) : log[r] \in Trade
<1>1. m5 \in Seq(Candle) /\ log \in Seq(Trade)
  BY VerifierAssumption DEF TypeOK
<1>2. QED
  BY <1>1, ElementOfSeq, LenProperties

LEMMA CheckedFinite ==
  ASSUME TypeOK
  PROVE  IsFiniteSet(checked) /\ Cardinality(checked) \in Nat
<1>1. row \in Int /\ checked \subseteq 1 .. row
  BY FileTypes DEF TypeOK
<1>2. IsFiniteSet(1 .. row)
  BY <1>1, FS_Interval
<1>3. QED
  BY <1>1, <1>2, FS_Subset, FS_CardinalityType

\* Steps of the scan leave the log, the file and what is checked alone.
Quiet == UNCHANGED <<m5, log, row, checked>>

LEMMA VerdictsKept ==
  ASSUME UNCHANGED <<m5, log, issues, checked>>, NoFalseAlarm, CleanWinIsExplained
  PROVE  NoFalseAlarm' /\ CleanWinIsExplained'
BY DEF NoFalseAlarm, CleanWinIsExplained, ExitHasTarget, StopBefore, Path, Touches, LastsAWhile

LEMMA RowsStep ==
  ASSUME IInv, NextRow \/ Report
  PROVE  IInv'
<1> USE DEF IInv
<1>1. UNCHANGED <<m5, log, issues, checked>> /\ phase = "rows"
  BY DEF NextRow, Report
<1>2. NoFalseAlarm' /\ CleanWinIsExplained'
  BY <1>1, VerdictsKept
<1>3. /\ Len(log) \in Nat /\ Len(m5) \in Nat /\ row \in 0 .. Len(log)
      /\ issues \subseteq 1 .. row /\ checked \subseteq 1 .. row
  BY FileTypes DEF TypeOK
<1>4. CASE NextRow
  <2>1. /\ row' = row + 1 /\ row < Len(log) /\ Cardinality(checked) < Limit
        /\ phase' \in {"scan", "rows"} /\ pos' = 0 /\ slFirst' = FALSE /\ exitOK' = FALSE
    BY <1>4 DEF NextRow
  <2>2. row' \in 1 .. Len(log) /\ row' \notin checked
    BY <1>3, <2>1
  <2>3. issues \subseteq 1 .. row' /\ checked \subseteq 1 .. row'
    BY <1>3, <2>1
  <2>4. TypeOK'
    <3>1. slFirst' \in BOOLEAN /\ exitOK' \in BOOLEAN
      BY <2>1
    <3>2. row' \in 0 .. Len(log) /\ pos' \in 0 .. Len(m5)
      BY <1>3, <2>1
    <3>3. QED
      BY <1>1, <2>1, <2>3, <3>1, <3>2 DEF TypeOK
  <2>5. RowInv' /\ ScanInv' /\ JudgeInv'
    BY <1>1, <2>1, <2>2 DEF RowInv, ScanInv, JudgeInv
  <2>6. QED
    BY <1>2, <2>4, <2>5
<1>5. CASE Report
  <2>1. phase' = "reported" /\ UNCHANGED <<row, pos, slFirst, exitOK>>
    BY <1>5 DEF Report, scan
  <2>2. QED
    BY <1>1, <1>2, <2>1 DEF TypeOK, RowInv, ScanInv, JudgeInv
<1>6. QED
  BY <1>4, <1>5

LEMMA SkipStep ==
  ASSUME IInv, SkipCandle \/ Crash
  PROVE  IInv'
<1> USE DEF IInv
<1>1. UNCHANGED <<m5, log, row, slFirst, exitOK, issues, checked>> /\ phase = "scan" /\ pos < Len(m5)
  BY DEF SkipCandle, Crash, InTrade, Comparable, Reading, scan
<1>2. NoFalseAlarm' /\ CleanWinIsExplained'
  BY <1>1, VerdictsKept
<1>3. row \in 1 .. Len(log) /\ pos \in 0 .. Len(m5) /\ Len(m5) \in Nat
  BY <1>1, FileTypes DEF RowInv, TypeOK
<1>4. CASE Crash
  <2>1. phase' = "crashed" /\ pos' = pos
    BY <1>4 DEF Crash, scan
  <2>2. QED
    BY <1>1, <1>2, <2>1 DEF TypeOK, RowInv, ScanInv, JudgeInv
<1>5. CASE SkipCandle
  <2>1. pos' = pos + 1 /\ phase' = phase
    BY <1>5 DEF SkipCandle
  <2>2. pos' \in 1 .. Len(m5)
    BY <1>1, <1>3, <2>1
  <2>3. pos' \in Path(trade) => ~Touches(m5[pos'], trade.sl) /\ ~Touches(m5[pos'], trade.tp1)
    <3>1. candle = m5[pos'] /\ m5[pos'].close \in Nat
      BY <2>1, <2>2, FileTypes DEF candle, Candle
    <3>2. CASE InTrade /\ ~Touches(candle, trade.sl) /\ ~Touches(candle, trade.tp1)
      BY <3>1, <3>2
    <3>3. CASE Comparable /\ candle.close <= trade.entry
      <4>1. trade.entry \in Nat
        BY <1>3, <3>3, FileTypes DEF Comparable, trade, Trade
      <4>2. ~(m5[pos'].close > trade.entry)
        BY <3>1, <3>3, <4>1
      <4>3. QED
        BY <4>2 DEF Path
    <3>4. QED
      BY <1>5, <3>2, <3>3 DEF SkipCandle
  <2>4. 1 .. pos' = (1 .. pos) \cup {pos'}
    BY <1>3, <2>1
  <2>5. trade' = trade /\ Path(trade)' = Path(trade)
    BY <1>1 DEF trade, Path
  <2>6. ScanInv'
    BY <1>1, <2>1, <2>3, <2>4, <2>5 DEF ScanInv, Touches
  <2>7. TypeOK' /\ RowInv' /\ JudgeInv'
    BY <1>1, <2>1, <2>2 DEF TypeOK, RowInv, JudgeInv
  <2>8. QED
    BY <1>2, <2>6, <2>7
<1>6. QED
  BY <1>4, <1>5

LEMMA StopStep ==
  ASSUME IInv, StopTouched
  PROVE  IInv'
<1> USE DEF IInv
<1> DEFINE n == pos + 1
<1>1. /\ UNCHANGED <<m5, log, row, pos, exitOK, checked>> /\ phase = "scan" /\ pos < Len(m5)
      /\ phase' = "judge" /\ slFirst' = TRUE
      /\ issues' \in {issues, issues \cup {row}}
  BY DEF StopTouched, InTrade, Comparable, Reading
<1>2. row \in 1 .. Len(log) /\ pos \in 0 .. Len(m5) /\ Len(m5) \in Nat /\ ~exitOK /\ row \notin checked
  BY <1>1, FileTypes DEF RowInv, TypeOK, ScanInv
<1>3. n \in 1 .. Len(m5)
  BY <1>1, <1>2
<1>4. n \in Path(trade) /\ Touches(m5[n], trade.sl)
  BY <1>3 DEF StopTouched, InTrade, Path, candle
<1>5. \A j \in Path(trade) : j < n => j \in 1 .. pos
  BY <1>2 DEF Path
<1>6. StopBefore(trade)
  BY <1>1, <1>4, <1>5 DEF StopBefore, ScanInv
<1>7. trade' = trade /\ StopBefore(trade)' = StopBefore(trade)
  BY <1>1 DEF trade, StopBefore, Path, Touches
<1>8. ScanInv' /\ JudgeInv' /\ RowInv'
  BY <1>1, <1>2, <1>6, <1>7 DEF ScanInv, JudgeInv, RowInv
<1>9. TypeOK'
  BY <1>1, <1>2 DEF TypeOK
<1>10. NoFalseAlarm'
  <2>1. SUFFICES ASSUME NEW r \in issues' PROVE (~(ExitHasTarget(log[r]) /\ ~StopBefore(log[r])))'
    BY DEF NoFalseAlarm
  <2>2. CASE r \in issues
    BY <1>1, <2>2 DEF NoFalseAlarm, ExitHasTarget, StopBefore, Path, Touches
  <2>3. CASE r = row
    BY <1>6, <1>7, <1>1, <2>3 DEF trade
  <2>4. QED
    BY <1>1, <2>1, <2>2, <2>3
<1>11. CleanWinIsExplained'
  <2>1. checked' \ issues' \subseteq checked \ issues
    BY <1>1
  <2>2. QED
    BY <1>1, <2>1 DEF CleanWinIsExplained, ExitHasTarget, StopBefore, Path, Touches, LastsAWhile
<1>12. QED
  BY <1>8, <1>9, <1>10, <1>11

LEMMA TargetStep ==
  ASSUME IInv, TargetTouched \/ EndOfTrade
  PROVE  IInv'
<1> USE DEF IInv
<1>1. /\ UNCHANGED <<m5, log, row, pos, slFirst, issues, checked>>
      /\ phase = "scan" /\ phase' = "judge"
  BY DEF TargetTouched, EndOfTrade, InTrade, Comparable, Reading, scan
<1>2. NoFalseAlarm' /\ CleanWinIsExplained'
  BY <1>1, VerdictsKept
<1>3. row \in 1 .. Len(log) /\ pos \in 0 .. Len(m5) /\ Len(m5) \in Nat /\ ~slFirst /\ ~exitOK
  BY <1>1, FileTypes DEF RowInv, TypeOK, ScanInv
<1>4. exitOK' \in BOOLEAN /\ (exitOK' => ExitHasTarget(trade))
  <2>1. CASE EndOfTrade
    <3>1. exitOK' = exitOK /\ exitOK \in BOOLEAN
      BY <2>1 DEF EndOfTrade, scan, TypeOK
    <3>2. QED
      BY <1>3, <3>1
  <2>2. CASE TargetTouched
    <3>1. pos + 1 \in 1 .. Len(m5)
      BY <1>3, <2>2 DEF TargetTouched, InTrade, Comparable, Reading
    <3>2. pos + 1 \in Path(trade) /\ Touches(m5[pos + 1], trade.tp1)
      BY <2>2, <3>1 DEF TargetTouched, InTrade, Path, candle
    <3>3. exitOK' = (m5[pos + 1].close = trade.exit)
      BY <2>2 DEF TargetTouched, candle
    <3>4. QED
      BY <3>2, <3>3 DEF ExitHasTarget
  <2>3. QED
    BY <2>1, <2>2
<1>5. trade' = trade /\ ExitHasTarget(trade)' = ExitHasTarget(trade)
  BY <1>1 DEF trade, ExitHasTarget, Path, Touches
<1>6. ScanInv' /\ JudgeInv' /\ RowInv'
  BY <1>1, <1>3, <1>4, <1>5 DEF ScanInv, JudgeInv, RowInv
<1>7. TypeOK'
  BY <1>1, <1>4 DEF TypeOK
<1>8. QED
  BY <1>2, <1>6, <1>7

LEMMA JudgeStep ==
  ASSUME IInv, Judge
  PROVE  IInv'
<1> USE DEF IInv
<1>1. /\ UNCHANGED <<m5, log, row, pos, slFirst, exitOK>> /\ phase = "judge" /\ phase' = "rows"
      /\ checked' = checked \cup {row}
      /\ issues' = IF Suspect THEN issues \cup {row} ELSE issues
  BY DEF Judge, scan
<1>2. row \in 1 .. Len(log) /\ row \notin checked /\ Cardinality(checked) < Limit
  BY <1>1 DEF RowInv
<1>3. Cardinality(checked') <= Limit
  <2>1. Cardinality(checked') = Cardinality(checked) + 1
    BY <1>1, <1>2, CheckedFinite, FS_AddElement
  <2>2. QED
    BY <1>2, <2>1, CheckedFinite, VerifierAssumption
<1>4. TypeOK'
  <2>1. row \in 1 .. row
    BY <1>2, FileTypes
  <2>2. issues' \subseteq 1 .. row /\ checked' \subseteq 1 .. row
    BY <1>1, <2>1 DEF TypeOK
  <2>3. QED
    BY <1>1, <1>3, <2>2 DEF TypeOK
<1>5. ScanInv' /\ JudgeInv' /\ RowInv'
  BY <1>1 DEF ScanInv, JudgeInv, RowInv
<1>6. \A r : ExitHasTarget(log[r])' = ExitHasTarget(log[r]) /\ StopBefore(log[r])' = StopBefore(log[r])
  BY <1>1 DEF ExitHasTarget, StopBefore, Path, Touches
<1>7. NoFalseAlarm'
  <2>1. Suspect => ~ExitHasTarget(trade)
    BY DEF Suspect, TargetInExitCandle, ExitHasTarget, Path
  <2>2. SUFFICES ASSUME NEW r \in issues' PROVE ~(ExitHasTarget(log[r]) /\ ~StopBefore(log[r]))
    BY <1>1, <1>6 DEF NoFalseAlarm
  <2>3. CASE r \in issues
    BY <2>3 DEF NoFalseAlarm
  <2>4. CASE Suspect /\ r = row
    BY <2>1, <2>4 DEF trade
  <2>5. QED
    BY <1>1, <2>2, <2>3, <2>4
<1>8. CleanWinIsExplained'
  <2>1. SUFFICES ASSUME NEW r \in checked' \ issues', log[r].outcome = "win", LastsAWhile(log[r])
                 PROVE  ExitHasTarget(log[r]) \/ StopBefore(log[r])
    BY <1>1, <1>6 DEF CleanWinIsExplained, LastsAWhile
  <2>2. CASE r \in checked
    BY <1>1, <2>1, <2>2 DEF CleanWinIsExplained
  <2>3. CASE r = row
    <3>1. ~Suspect /\ trade.outcome = "win" /\ LastsAWhile(trade)
      BY <1>1, <2>1, <2>3 DEF trade
    <3>2. CASE slFirst
      BY <1>1, <2>3, <3>2 DEF JudgeInv, trade
    <3>3. CASE exitOK
      BY <1>1, <2>3, <3>3 DEF JudgeInv, trade
    <3>4. CASE TargetInExitCandle
      <4>1. PICK i \in 1 .. Len(m5) : m5[i].close = trade.exit /\ Touches(m5[i], trade.tp1)
        BY <3>4 DEF TargetInExitCandle
      <4>2. trade.entry \in Nat /\ trade.exit \in Nat /\ trade.entry < trade.exit
        BY <1>2, <3>1, FileTypes DEF LastsAWhile, trade, Trade
      <4>3. i \in Path(trade)
        BY <4>1, <4>2 DEF Path
      <4>4. QED
        BY <2>3, <4>1, <4>3 DEF ExitHasTarget, trade
    <3>5. QED
      BY <3>1, <3>2, <3>3, <3>4 DEF Suspect
  <2>4. QED
    BY <1>1, <2>1, <2>2, <2>3
<1>9. QED
  BY <1>4, <1>5, <1>7, <1>8

LEMMA InitIInv == Init => IInv
<1> SUFFICES ASSUME Init PROVE IInv
  OBVIOUS
<1>1. /\ m5 \in M5Files /\ log \in Logs /\ phase = "rows" /\ row = 0 /\ pos = 0
      /\ slFirst = FALSE /\ exitOK = FALSE /\ issues = {} /\ checked = {}
  BY DEF Init
<1>2. Len(m5) \in Nat /\ Len(log) \in Nat
  BY <1>1, VerifierAssumption, LenProperties
<1>3. Cardinality(checked) = 0
  BY <1>1, FS_EmptySet
<1>4. TypeOK
  <2>1. slFirst \in BOOLEAN /\ exitOK \in BOOLEAN
    BY <1>1
  <2>2. row \in 0 .. Len(log) /\ pos \in 0 .. Len(m5) /\ Cardinality(checked) <= Limit
    BY <1>1, <1>2, <1>3, VerifierAssumption
  <2>3. QED
    BY <1>1, <2>1, <2>2 DEF TypeOK
<1>5. RowInv /\ ScanInv /\ JudgeInv /\ NoFalseAlarm /\ CleanWinIsExplained
  BY <1>1 DEF RowInv, ScanInv, JudgeInv, NoFalseAlarm, CleanWinIsExplained
<1>6. QED
  BY <1>4, <1>5 DEF IInv

LEMMA StutterStep ==
  ASSUME IInv, UNCHANGED vars
  PROVE  IInv'
<1>1. UNCHANGED <<m5, log, phase, row, pos, slFirst, exitOK, issues, checked>>
  BY DEF vars, scan
<1>2. NoFalseAlarm' /\ CleanWinIsExplained'
  BY <1>1, VerdictsKept DEF IInv
<1>3. TypeOK' /\ RowInv'
  BY <1>1 DEF IInv, TypeOK, RowInv
<1>4. trade' = trade /\ Path(trade)' = Path(trade)
      /\ StopBefore(trade)' = StopBefore(trade) /\ ExitHasTarget(trade)' = ExitHasTarget(trade)
  BY <1>1 DEF trade, Path, StopBefore, ExitHasTarget, Touches
<1>5. ScanInv' /\ JudgeInv'
  BY <1>1, <1>4 DEF IInv, ScanInv, JudgeInv, Touches
<1>6. QED
  BY <1>2, <1>3, <1>5 DEF IInv

LEMMA VerifierInvariant == Spec => []IInv
<1>1. IInv /\ [Next]_vars => IInv'
  BY RowsStep, SkipStep, StopStep, TargetStep, JudgeStep, StutterStep DEF Next
<1>2. QED
  BY InitIInv, <1>1, PTL DEF Spec

(***************************************************************************)
(* Type correctness, with the limit on the trades that are checked.        *)
(***************************************************************************)
THEOREM TypeCorrect == Spec => []TypeOK
<1>1. IInv => TypeOK
  BY DEF IInv
<1>2. QED
  BY VerifierInvariant, <1>1, PTL

(***************************************************************************)
(* A win with its target in the exit candle and no earlier stop is never   *)
(* reported, whatever the candles and the other trades of the log.         *)
(***************************************************************************)
THEOREM AlarmsAreMeant == Spec => []NoFalseAlarm
<1>1. IInv => NoFalseAlarm
  BY DEF IInv
<1>2. QED
  BY VerifierInvariant, <1>1, PTL

(***************************************************************************)
(* A win that lasts and is not reported has its target in the exit candle, *)
(* or touched its stop first.                                              *)
(***************************************************************************)
THEOREM SilenceIsExplained == Spec => []CleanWinIsExplained
<1>1. IInv => CleanWinIsExplained
  BY DEF IInv
<1>2. QED
  BY VerifierInvariant, <1>1, PTL

=============================================================================
