------------------------------- MODULE Engine -------------------------------
(***************************************************************************)
(* The replay loop: the data adapter (contract 5) feeds the execution      *)
(* state machine (contract 6) one closed candle at a time.                 *)
(*                                                                         *)
(* The repository's text of run() ends before its loop, so the loop is     *)
(* external: the adapter is built before the machine sees a candle, every  *)
(* candle goes through on_candle_close before the next is asked for, and   *)
(* the run ends with the EOF event or with the first exception.            *)
(***************************************************************************)
EXTENDS ExecutionStateMachine

CONSTANTS Inputs, BadRow, MissingFile, NoPaths   \* see DataAdapter

VARIABLES input, phase, fileNo, stream, index, eofEmitted, returned

Adapter == INSTANCE DataAdapter WITH OpenTimes <- Opens

ASSUME EngineAssumption ==
  /\ BadRow \notin Opens
  /\ MissingFile \notin Seq(Adapter!Row)
  /\ NoPaths \notin Seq(Adapter!File)
  /\ \A in \in Inputs : \A tf \in Adapter!Timeframes :
       in.paths[tf] \in Seq(Adapter!File) \cup {NoPaths}

reader     == <<input, phase, fileNo, stream, index, eofEmitted, returned>>
engineVars == <<vars, reader>>

EngineInit == Init /\ Adapter!Init

Load == Adapter!Construct /\ UNCHANGED vars

\* status = "running" is the guard of on_candle_close: it has not raised yet.
ProcessCandle ==
  /\ Adapter!EmitCandle
  /\ OnCandleClose(stream["M5"][index'])

ReachEOF ==
  /\ status = "running"
  /\ Adapter!EmitEOF
  /\ UNCHANGED vars

EngineNext == Load \/ ProcessCandle \/ ReachEOF

EngineSpec == EngineInit /\ [][EngineNext]_engineVars

\* One thread runs the constructor and then the loop, neither of which waits
\* for anything.
FairEngineSpec ==
  EngineSpec /\ WF_engineVars(Load) /\ WF_engineVars(ProcessCandle \/ ReachEOF)

---------------------------------------------------------------------------
(* Properties.                                                             *)

(* The checks of the two contracts fit together: a candle that the adapter  *)
(* let through, from whatever files, is never refused by the cadence        *)
(* guardrail (the only failure that leaves the last open time as it was).   *)
CadenceHolds == [][status' = "failed" => lastOpen' # lastOpen]_engineVars

\* The context shows the spokes exactly the tails of the history.
HistorySoFar ==
  LET delivered == Adapter!Delivered
      before    == SubSeq(delivered, 1, index - 1)
  IN  /\ prior = delivered /\ stepIndex = index
      /\ recent = LastN(delivered, RecentCap)
      /\ index > 0 => ctx.recent = recent /\ ctx.prior = LastN(before, PriorCap)

(* While the run goes on, every candle that was delivered has been taken    *)
(* into the history once and in order, across weekend resets and the start  *)
(* of the evaluation.  A run that gets as far as the EOF event has not      *)
(* failed, and has taken in every row of every M5 file.                     *)
HistoryIsDelivered ==
  /\ status = "running" => HistorySoFar
  /\ eofEmitted => status = "running" /\ prior = Adapter!RowsOf("M5")

(* A run on finite files ends: refused, failed, or with every candle done.  *)
RunEnds ==
  <>(\/ phase = "refused"
     \/ status = "failed"
     \/ eofEmitted /\ stepIndex = Len(stream["M5"]))

=============================================================================
