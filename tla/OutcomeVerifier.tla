-------------------------- MODULE OutcomeVerifier --------------------------
(***************************************************************************)
(* tools/verify_outcomes_against_m5.py: the logged outcomes of trades are  *)
(* checked against the M5 candles they were simulated on, one scan of the  *)
(* candles for each trade.                                                 *)
(*                                                                         *)
(* A log row that is too short or has an unparsable price is skipped with  *)
(* no effect and is not in the log; NoTime is a time stamp parse_ts gives  *)
(* up on, which the scan then compares with a time.                        *)
(***************************************************************************)
EXTENDS Integers, Sequences, FiniteSets

CONSTANTS
  M5Files,   \* candle files: sequences of [close, low, high]
  Logs,      \* logs: sequences of trades
  Limit,     \* trades checked at most, 20 in the code
  NoTime

Candle == [close : Nat, low : Nat, high : Nat]
Trade  == [entry : Nat \cup {NoTime}, exit : Nat \cup {NoTime}, sl : Nat, tp1 : Nat,
           outcome : STRING]

\* The files are ones that the data adapter accepts.
ASSUME VerifierAssumption ==
  /\ Limit \in Nat \ {0}
  /\ NoTime \notin Nat
  /\ M5Files \subseteq Seq(Candle) /\ Logs \subseteq Seq(Trade)
  /\ \A m5 \in M5Files : m5 # <<>> /\ \A i \in 1 .. Len(m5) - 1 : m5[i].close < m5[i + 1].close

VARIABLES
  m5, log,
  phase,      \* "rows", "scan", "judge", "reported" or "crashed"
  row,        \* rows of the log taken up so far; the last is being checked
  pos,        \* candles of its scan so far
  slFirst,    \* sl_hit_first
  exitOK,     \* exit_candle_ok
  issues,     \* rows with an entry in errors
  checked     \* history: rows whose check is complete

scan == <<pos, slFirst, exitOK>>
vars == <<m5, log, phase, row, scan, issues, checked>>

Init ==
  /\ m5 \in M5Files /\ log \in Logs
  /\ phase = "rows"
  /\ row = 0
  /\ pos = 0 /\ slFirst = FALSE /\ exitOK = FALSE
  /\ issues = {} /\ checked = {}

---------------------------------------------------------------------------

trade  == log[row]
candle == m5[pos + 1]

Touches(c, price) == c.low <= price /\ price <= c.high

NextRow_unlimited ==
  /\ phase = "rows" /\ row < Len(log)
  /\ row' = row + 1
  /\ phase' = IF log[row + 1].outcome \in {"win", "loss"} THEN "scan" ELSE "rows"
  /\ pos' = 0 /\ slFirst' = FALSE /\ exitOK' = FALSE
  /\ UNCHANGED <<m5, log, issues, checked>>

NextRow ==
  /\ phase = "rows" /\ row < Len(log) /\ Cardinality(checked) < Limit
  /\ row' = row + 1
  /\ phase' = IF log[row + 1].outcome \in {"win", "loss"} THEN "scan" ELSE "rows"
  /\ pos' = 0 /\ slFirst' = FALSE /\ exitOK' = FALSE
  /\ UNCHANGED <<m5, log, issues, checked>>

Report ==
  /\ phase = "rows" /\ (row = Len(log) \/ Cardinality(checked) >= Limit)
  /\ phase' = "reported"
  /\ UNCHANGED <<m5, log, row, scan, issues, checked>>

Reading == phase = "scan" /\ pos < Len(m5)

\* None is compared with a datetime.
Crash ==
  /\ Reading
  /\ \/ trade.entry = NoTime
     \/ trade.entry # NoTime /\ candle.close > trade.entry /\ trade.exit = NoTime
  /\ phase' = "crashed"
  /\ UNCHANGED <<m5, log, row, scan, issues, checked>>

Comparable ==
  /\ Reading /\ trade.entry # NoTime
  /\ candle.close > trade.entry => trade.exit # NoTime

\* The candle closes after the entry and not after the exit.
InTrade == Comparable /\ candle.close > trade.entry /\ candle.close <= trade.exit

SkipCandle ==
  /\ \/ Comparable /\ candle.close <= trade.entry
     \/ InTrade /\ ~Touches(candle, trade.sl) /\ ~Touches(candle, trade.tp1)
  /\ pos' = pos + 1
  /\ UNCHANGED <<m5, log, phase, row, slFirst, exitOK, issues, checked>>

\* The stop, perhaps together with the target: on a win only the latter is
\* an issue.
StopTouched ==
  /\ InTrade /\ Touches(candle, trade.sl)
  /\ slFirst' = TRUE
  /\ phase' = "judge"
  /\ issues' = IF Touches(candle, trade.tp1) /\ trade.outcome = "win"
               THEN issues \cup {row} ELSE issues
  /\ UNCHANGED <<m5, log, row, pos, exitOK, checked>>

TargetTouched_anyCandle ==
  /\ InTrade /\ Touches(candle, trade.tp1) /\ ~Touches(candle, trade.sl)
  /\ exitOK' = TRUE
  /\ phase' = "judge"
  /\ UNCHANGED <<m5, log, row, pos, slFirst, issues, checked>>

TargetTouched ==
  /\ InTrade /\ Touches(candle, trade.tp1) /\ ~Touches(candle, trade.sl)
  /\ exitOK' = (candle.close = trade.exit)
  /\ phase' = "judge"
  /\ UNCHANGED <<m5, log, row, pos, slFirst, issues, checked>>

\* A candle closes after the exit, or there are no more.
EndOfTrade ==
  /\ \/ phase = "scan" /\ pos = Len(m5)
     \/ Comparable /\ candle.close > trade.entry /\ candle.close > trade.exit
  /\ phase' = "judge"
  /\ UNCHANGED <<m5, log, row, scan, issues, checked>>

\* The second look, at the candle that closes at the exit.
TargetInExitCandle ==
  \E i \in 1 .. Len(m5) : m5[i].close = trade.exit /\ Touches(m5[i], trade.tp1)

Suspect_noSecondLook == trade.outcome = "win" /\ ~slFirst /\ ~exitOK

Suspect == trade.outcome = "win" /\ ~slFirst /\ ~exitOK /\ ~TargetInExitCandle

Judge ==
  /\ phase = "judge"
  /\ issues' = IF Suspect THEN issues \cup {row} ELSE issues
  /\ checked' = checked \cup {row}
  /\ phase' = "rows"
  /\ UNCHANGED <<m5, log, row, scan>>

Next ==
  \/ NextRow \/ Report
  \/ Crash \/ SkipCandle \/ StopTouched \/ TargetTouched \/ EndOfTrade
  \/ Judge

Spec == Init /\ [][Next]_vars

---------------------------------------------------------------------------
(* Properties, against the path of a trade: the candles that close after   *)
(* its entry and not after its exit.                                       *)

Path(t) == {i \in 1 .. Len(m5) : m5[i].close > t.entry /\ m5[i].close <= t.exit}

ExitHasTarget(t) ==
  \E i \in Path(t) : m5[i].close = t.exit /\ Touches(m5[i], t.tp1)

StopBefore(t) ==
  \E i \in Path(t) :
    /\ Touches(m5[i], t.sl)
    /\ \A j \in Path(t) : j < i => ~Touches(m5[j], t.tp1)

LastsAWhile(t) == NoTime \notin {t.entry, t.exit} /\ t.entry < t.exit

\* Shape of the state; only rows already taken up are checked or reported.
TypeOK ==
  /\ m5 \in M5Files /\ log \in Logs
  /\ phase \in {"rows", "scan", "judge", "reported", "crashed"}
  /\ row \in 0 .. Len(log) /\ pos \in 0 .. Len(m5)
  /\ slFirst \in BOOLEAN /\ exitOK \in BOOLEAN
  /\ issues \subseteq 1 .. row /\ checked \subseteq 1 .. row
  /\ Cardinality(checked) <= Limit

(* No false alarm: a win that reached its target in its exit candle, with   *)
(* no touch of the stop at or before the first touch of the target, is      *)
(* never reported.                                                          *)
NoFalseAlarm ==
  \A r \in issues : ~(ExitHasTarget(log[r]) /\ ~StopBefore(log[r]))

(* What a clean check does show: a win without a report either has its      *)
(* target in the exit candle, or touched its stop first.  That needs an     *)
(* exit later than the entry: of any other win the second look sees a       *)
(* candle that is not in its path.                                          *)
CleanWinIsExplained ==
  \A r \in checked \ issues :
    log[r].outcome = "win" /\ LastsAWhile(log[r]) =>
      ExitHasTarget(log[r]) \/ StopBefore(log[r])

(* What the closing message says: when all checked trades are reported      *)
(* clean, wins have the target in range and there is "no SL-first".         *)
NoStopFirst ==
  phase = "reported" /\ issues = {} =>
    \A r \in checked :
      log[r].outcome = "win" => ExitHasTarget(log[r]) /\ ~StopBefore(log[r])

=============================================================================
