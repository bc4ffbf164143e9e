---------------------------- MODULE Engine_proofs ----------------------------
(***************************************************************************)
(* For every set of input files and every snapshot: the adapter's checks   *)
(* imply what the state machine's cadence guardrail asks for.              *)
(***************************************************************************)
EXTENDS Engine, ExecutionStateMachine_proofs

AP == INSTANCE DataAdapter_proofs WITH OpenTimes <- Opens

\* The adapter's part of the composition keeps the adapter's invariant.
LEMMA AdapterStep ==
  ASSUME AP!IInv, AP!LoadingWellFormed, AP!LoadedSoFar, [AP!Next]_(AP!vars)
  PROVE  AP!IInv' /\ AP!LoadingWellFormed' /\ AP!LoadedSoFar'
<1>1. AP!AdapterAssumption
  BY EngineAssumption, StateMachineAssumption DEF AP!AdapterAssumption, Time, AP!Row, AP!File, AP!Timeframes,
         Adapter!Row, Adapter!File, Adapter!Timeframes
<1>2. QED
  BY <1>1, AP!StepPreservesIInv, AP!LoadedStep

LEMMA SameConstruct == Adapter!Construct => AP!Construct
BY DEF Adapter!Construct, AP!Construct, Adapter!RefuseInput, AP!RefuseInput,
       Adapter!StartLoading, AP!StartLoading, Adapter!LoadFile, AP!LoadFile,
       Adapter!RefuseFile, AP!RefuseFile, Adapter!FinishM5, AP!FinishM5,
       Adapter!FinishH1, AP!FinishH1, Adapter!Refuse, AP!Refuse,
       Adapter!WellFormed, AP!WellFormed, Adapter!Timeframes, AP!Timeframes,
       Adapter!Paths, AP!Paths, Adapter!NextFile, AP!NextFile, Adapter!Usable, AP!Usable,
       Adapter!Readable, AP!Readable, Adapter!Joins, AP!Joins, Adapter!LastOf, AP!LastOf,
       Adapter!StrictlyIncreasing, AP!StrictlyIncreasing

LEMMA SameNextEvent ==
  /\ Adapter!EmitCandle => AP!EmitCandle
  /\ Adapter!EmitEOF => AP!EmitEOF
BY DEF Adapter!EmitCandle, AP!EmitCandle, Adapter!EmitEOF, AP!EmitEOF, Adapter!loaded,
       AP!loaded

---------------------------------------------------------------------------
(* The inductive invariant: the machine is as far as the adapter.          *)

Delivered == SubSeq(stream["M5"], 1, index)

\* Only a machine that was fed can have failed.
FailedIsReady ==
  status \in {"running", "failed"} /\ (status = "failed" => phase = "ready")

LastOpenIsLast ==
  status = "running" => lastOpen = IF index = 0 THEN None ELSE stream["M5"][index]

TakenIn == status = "running" => HistorySoFar

\* The loop asks for the next event only while no step has raised.
EndedRunning == eofEmitted => status = "running"

EInv ==
  /\ AP!IInv /\ AP!LoadingWellFormed /\ AP!LoadedSoFar
  /\ EndedRunning
  /\ FailedIsReady
  /\ LastOpenIsLast
  /\ TakenIn

LEMMA HistoryUnfolded ==
  TakenIn <=>
    (status = "running" =>
       /\ prior = Delivered /\ stepIndex = index
       /\ recent = LastN(Delivered, RecentCap)
       /\ index > 0 => /\ ctx.recent = recent
                       /\ ctx.prior = LastN(SubSeq(Delivered, 1, index - 1), PriorCap))
BY DEF TakenIn, HistorySoFar, Delivered, Adapter!Delivered

\* Delivering one more candle extends what was delivered by it.
LEMMA DeliveredGrows ==
  ASSUME AP!IInv, AP!EmitCandle
  PROVE  /\ index \in Nat /\ index' = index + 1 /\ stream' = stream
         /\ stream["M5"][index'] \in Opens
         /\ Delivered \in Seq(Opens)
         /\ Delivered' = Append(Delivered, stream["M5"][index'])
         /\ SubSeq(Delivered', 1, index' - 1) = Delivered
         /\ index > 0 => stream["M5"][index] < stream["M5"][index']
<1> DEFINE m5 == stream["M5"]
           n == index + 1
<1>1. /\ m5 \in Seq(Opens) /\ Len(m5) \in Nat /\ index \in 0 .. Len(m5)
      /\ n \in 1 .. Len(m5) /\ stream' = stream /\ index' = n
  BY LenProperties DEF AP!IInv, AP!TypeOK, AP!EmitCandle, AP!loaded, AP!Timeframes
<1>2. \A i \in 1 .. Len(m5) : m5[i] \in Opens
  BY <1>1, ElementOfSeq
<1>3. /\ Delivered \in Seq(Opens) /\ Len(Delivered) = index
      /\ \A i \in 1 .. index : Delivered[i] = m5[i]
  BY <1>1, <1>2, SubSeqProperties DEF Delivered
<1>4. Delivered' = SubSeq(m5, 1, n)
  BY <1>1 DEF Delivered
<1>5. /\ SubSeq(m5, 1, n) \in Seq(Opens) /\ Len(SubSeq(m5, 1, n)) = n
      /\ \A i \in 1 .. n : SubSeq(m5, 1, n)[i] = m5[i]
  BY <1>1, <1>2, SubSeqProperties
<1>6. SubSeq(m5, 1, n) = Append(Delivered, m5[n])
  <2>1. /\ Append(Delivered, m5[n]) \in Seq(Opens) /\ Len(Append(Delivered, m5[n])) = n
        /\ \A i \in 1 .. n : Append(Delivered, m5[n])[i] = IF i = n THEN m5[n] ELSE Delivered[i]
    BY <1>1, <1>2, <1>3, AppendProperties
  <2>2. \A i \in 1 .. n : Append(Delivered, m5[n])[i] = m5[i]
    BY <1>1, <1>3, <2>1
  <2>3. QED
    BY <1>5, <2>1, <2>2, SeqEqual
<1>7. SubSeq(SubSeq(m5, 1, n), 1, index) = Delivered
  <2> DEFINE d == SubSeq(m5, 1, n)
  <2>1. \A i \in 1 .. index : d[i] \in Opens
    BY <1>1, <1>2, <1>5
  <2>2. /\ SubSeq(d, 1, index) \in Seq(Opens) /\ Len(SubSeq(d, 1, index)) = index
        /\ \A i \in 1 .. index : SubSeq(d, 1, index)[i] = d[i]
    BY <1>1, <2>1, SubSeqProperties
  <2>3. \A i \in 1 .. index : SubSeq(d, 1, index)[i] = Delivered[i]
    BY <1>1, <1>3, <1>5, <2>2
  <2>4. QED
    BY <1>3, <2>2, <2>3, SeqEqual
<1>8. ASSUME index > 0 PROVE m5[index] < m5[n]
  <2>1. index \in 1 .. Len(m5) - 1
    BY <1>1, <1>8
  <2>2. QED
    BY <2>1 DEF AP!IInv, AP!Chronological, AP!StrictlyIncreasing, AP!Timeframes
<1>9. index \in Nat /\ stream["M5"][index'] \in Opens
  BY <1>1, <1>2
<1>10. Delivered' = Append(Delivered, stream["M5"][index'])
  BY <1>1, <1>4, <1>6
<1>11. SubSeq(Delivered', 1, index' - 1) = Delivered
  <2>1. index' - 1 = index
    BY <1>1
  <2>2. QED
    BY <1>4, <1>7, <2>1
<1>12. QED
  BY <1>1, <1>3, <1>8, <1>9, <1>10, <1>11

\* What the adapter delivers next, the cadence guardrail accepts.
LEMMA NextIsAccepted ==
  ASSUME EInv, AP!EmitCandle, status = "running"
  PROVE  Accepted(stream["M5"][index'])
<1>1. lastOpen # None => index > 0 /\ lastOpen = stream["M5"][index]
  BY DeliveredGrows DEF EInv, LastOpenIsLast
<1>2. CASE lastOpen = None
  BY <1>2 DEF Accepted
<1>3. CASE lastOpen # None
  <2>1. stream["M5"][index] < stream["M5"][index'] /\ lastOpen = stream["M5"][index]
    BY <1>1, <1>3, DeliveredGrows DEF EInv
  <2>2. stream["M5"][index'] \in Nat /\ stream["M5"][index] \in Nat
    <3>1. /\ index \in 1 .. Len(stream["M5"]) /\ stream["M5"] \in Seq(Opens)
      BY <1>1, <1>3, LenProperties DEF EInv, AP!IInv, AP!TypeOK, AP!Timeframes
    <3>2. stream["M5"][index] \in Opens /\ stream["M5"][index'] \in Opens
      BY <3>1, ElementOfSeq, DeliveredGrows DEF EInv
    <3>3. Opens \subseteq Nat
      BY StateMachineAssumption DEF Time
    <3>4. QED
      BY <3>2, <3>3
  <2>3. QED
    BY <2>1, <2>2 DEF Accepted
<1>4. QED
  BY <1>2, <1>3

LEMMA ProcessStep ==
  ASSUME EInv, ProcessCandle
  PROVE  /\ FailedIsReady' /\ LastOpenIsLast' /\ TakenIn'
         /\ status' = "failed" => lastOpen' # lastOpen
<1> DEFINE c == stream["M5"][index']
<1>1. AP!EmitCandle /\ OnCandleClose(c) /\ status = "running"
  BY SameNextEvent DEF ProcessCandle, OnCandleClose
<1>2. Accepted(c)
  BY <1>1, NextIsAccepted
<1>3. phase = "ready" /\ phase' = "ready"
  BY <1>1 DEF AP!EmitCandle, AP!loaded
<1>4. /\ index \in Nat /\ index' = index + 1 /\ stream' = stream
      /\ c \in Opens /\ Delivered \in Seq(Opens) /\ Delivered' = Append(Delivered, c)
      /\ SubSeq(Delivered', 1, index' - 1) = Delivered
  BY <1>1, DeliveredGrows DEF EInv
<1>5. c # None /\ c \in Nat /\ c # lastOpen
  <2>1. c \in Nat /\ None \notin Int
    BY <1>4, StateMachineAssumption DEF Time
  <2>2. lastOpen # None => c > lastOpen /\ lastOpen \in Nat
    <3>1. lastOpen # None => lastOpen = stream["M5"][index] /\ index > 0
      BY <1>1, <1>4 DEF EInv, LastOpenIsLast
    <3>2. index > 0 => stream["M5"][index] \in Opens
      <4>1. stream["M5"] \in Seq(Opens) /\ index \in 0 .. Len(stream["M5"])
        BY DEF EInv, AP!IInv, AP!TypeOK, AP!Timeframes
      <4>2. QED
        BY <1>4, <4>1, ElementOfSeq
    <3>3. QED
      BY <1>2, <3>1, <3>2, StateMachineAssumption DEF Accepted, Time
  <2>3. QED
    BY <2>1, <2>2
<1>6. CASE FailBias(c) \/ FailPolicy(c)
  <2>1. status' = "failed" /\ lastOpen' = c
    BY <1>6 DEF FailBias, FailPolicy, Prepare
  <2>2. QED
    BY <1>3, <1>5, <2>1 DEF FailedIsReady, LastOpenIsLast, TakenIn
<1>7. CASE WarmUpStep(c) \/ EvaluatedStep(c)
  <2>1. /\ status' = "running" /\ lastOpen' = c
        /\ recent' = PushRecent(c) /\ ctx' = StepContext(c)
        /\ prior' = Append(prior, c) /\ stepIndex' = stepIndex + 1
    BY <1>1, <1>7 DEF WarmUpStep, EvaluatedStep, Prepare, Advance
  <2>2. /\ prior = Delivered /\ stepIndex = index
        /\ recent = LastN(Delivered, RecentCap)
    BY <1>1, HistoryUnfolded DEF EInv
  <2>3. prior' = Delivered' /\ stepIndex' = index'
    BY <1>4, <2>1, <2>2
  <2>4. recent' = LastN(Delivered', RecentCap)
    <3>1. LastN(Append(LastN(Delivered, RecentCap), c), RecentCap)
            = LastN(Append(Delivered, c), RecentCap)
      BY <1>4, LastNOfAppend, StateMachineAssumption
    <3>2. QED
      BY <1>4, <2>1, <2>2, <3>1 DEF PushRecent
  <2>5. /\ ctx'.recent = recent'
        /\ ctx'.prior = LastN(SubSeq(Delivered', 1, index' - 1), PriorCap)
    BY <1>4, <2>1, <2>2 DEF StepContext, PriorTuple
  <2>6. TakenIn'
    BY <2>3, <2>4, <2>5 DEF TakenIn, HistorySoFar, Delivered, Adapter!Delivered
  <2>7. LastOpenIsLast'
    BY <1>4, <2>1 DEF LastOpenIsLast
  <2>8. QED
    BY <1>3, <2>1, <2>6, <2>7 DEF FailedIsReady
<1>8. QED
  BY <1>1, <1>2, <1>6, <1>7 DEF OnCandleClose, RejectCandle

LEMMA LoadStep ==
  ASSUME EInv, Load
  PROVE  FailedIsReady' /\ LastOpenIsLast' /\ TakenIn'
<1>1. AP!Construct /\ UNCHANGED vars
  BY SameConstruct DEF Load
<1>2. index = 0 /\ index' = 0 /\ phase # "ready"
  BY <1>1 DEF EInv, AP!IInv, AP!ReadingAfterLoading, AP!Construct, AP!RefuseInput,
              AP!StartLoading, AP!LoadFile, AP!RefuseFile, AP!FinishM5, AP!FinishH1,
              AP!Refuse, AP!Timeframes
<1>3. /\ UNCHANGED <<status, lastOpen, prior, stepIndex, recent, ctx>>
      /\ status = "running"
  BY <1>1, <1>2 DEF vars, machine, EInv, FailedIsReady
<1>4. Delivered = <<>> /\ Delivered' = <<>>
  BY <1>2, SubSeqEmpty DEF Delivered
<1>5. /\ prior = Delivered /\ stepIndex = index /\ recent = LastN(Delivered, RecentCap)
  BY <1>3, HistoryUnfolded DEF EInv
<1>6. TakenIn'
  <2>1. /\ prior' = Delivered' /\ stepIndex' = index'
        /\ recent' = LastN(Delivered', RecentCap)
    BY <1>2, <1>3, <1>4, <1>5
  <2>2. ~(index' > 0)
    BY <1>2
  <2>3. QED
    BY <2>1, <2>2 DEF TakenIn, HistorySoFar, Delivered, Adapter!Delivered
<1>7. QED
  BY <1>2, <1>3, <1>6 DEF EInv, FailedIsReady, LastOpenIsLast

LEMMA EndedStep ==
  ASSUME EInv, [EngineNext]_engineVars
  PROVE  EndedRunning'
<1>1. CASE Load
  <2>1. AP!Construct /\ UNCHANGED vars
    BY <1>1, SameConstruct DEF Load
  <2>2. eofEmitted' = eofEmitted /\ status' = status
    BY <2>1 DEF vars, AP!Construct, AP!RefuseInput, AP!StartLoading, AP!LoadFile,
                AP!RefuseFile, AP!FinishM5, AP!FinishH1, AP!Refuse
  <2>3. QED
    BY <2>2 DEF EInv, EndedRunning
<1>2. CASE ProcessCandle
  <2>1. ~eofEmitted /\ eofEmitted' = eofEmitted
    BY <1>2 DEF ProcessCandle, Adapter!EmitCandle
  <2>2. QED
    BY <2>1 DEF EndedRunning
<1>3. CASE ReachEOF
  BY <1>3 DEF ReachEOF, vars, EndedRunning
<1>4. CASE UNCHANGED engineVars
  BY <1>4 DEF engineVars, vars, reader, EInv, EndedRunning
<1>5. QED
  BY <1>1, <1>2, <1>3, <1>4 DEF EngineNext

LEMMA EngineStep ==
  ASSUME EInv, [EngineNext]_engineVars
  PROVE  EInv' /\ (status' = "failed" => lastOpen' # lastOpen \/ UNCHANGED engineVars)
<1>1. [AP!Next]_(AP!vars)
  <2>1. CASE Load
    BY <2>1, SameConstruct DEF Load, AP!Next
  <2>2. CASE ProcessCandle \/ ReachEOF
    BY <2>2, SameNextEvent DEF ProcessCandle, ReachEOF, AP!Next, AP!NextEvent
  <2>3. CASE UNCHANGED engineVars
    BY <2>3 DEF engineVars, reader, AP!vars, AP!loaded
  <2>4. QED
    BY <2>1, <2>2, <2>3 DEF EngineNext
<1>2. AP!IInv' /\ AP!LoadingWellFormed' /\ AP!LoadedSoFar'
  BY <1>1, AdapterStep DEF EInv
<1>3. EndedRunning'
  BY EndedStep
<1>4. CASE ProcessCandle
  BY <1>2, <1>4, <1>3, ProcessStep DEF EInv
<1>5. CASE Load
  <2>1. status' = "running"
    <3>1. phase # "ready" /\ status' = status
      BY <1>5, SameConstruct
         DEF Load, vars, AP!Construct, AP!RefuseInput, AP!StartLoading, AP!LoadFile,
             AP!RefuseFile, AP!FinishM5, AP!FinishH1, AP!Timeframes
    <3>2. QED
      BY <3>1 DEF EInv, FailedIsReady
  <2>2. QED
    BY <1>2, <1>5, <1>3, <2>1, LoadStep DEF EInv
<1>6. CASE ReachEOF
  <2>1. /\ status = "running" /\ UNCHANGED vars
        /\ UNCHANGED <<phase, stream, index>>
    BY <1>6, SameNextEvent DEF ReachEOF, AP!EmitEOF, AP!loaded
  <2>2. FailedIsReady' /\ LastOpenIsLast' /\ TakenIn' /\ status' = "running"
    BY <2>1 DEF vars, machine, EInv, FailedIsReady, LastOpenIsLast, TakenIn,
                HistorySoFar, Adapter!Delivered
  <2>3. QED
    BY <1>2, <1>3, <2>2 DEF EInv
<1>7. CASE UNCHANGED engineVars
  <2>1. FailedIsReady' /\ LastOpenIsLast' /\ TakenIn'
    BY <1>7 DEF engineVars, reader, vars, machine, EInv, FailedIsReady, LastOpenIsLast,
                TakenIn, HistorySoFar, Adapter!Delivered
  <2>2. QED
    BY <1>2, <1>7, <1>3, <2>1 DEF EInv
<1>8. QED
  BY <1>4, <1>5, <1>6, <1>7 DEF EngineNext

LEMMA EngineStart == EngineInit => EInv
<1> SUFFICES ASSUME EngineInit PROVE EInv
  OBVIOUS
<1>1. AP!Init
  BY DEF EngineInit, Adapter!Init, AP!Init, Adapter!Timeframes, AP!Timeframes
<1>2. AP!IInv /\ AP!LoadingWellFormed /\ AP!LoadedSoFar
  <2>1. AP!AdapterAssumption
    BY EngineAssumption, StateMachineAssumption
       DEF AP!AdapterAssumption, Time, AP!Row, AP!File, AP!Timeframes,
           Adapter!Row, Adapter!File, Adapter!Timeframes
  <2>2. QED
    BY <1>1, <2>1, AP!InitIInv DEF AP!Init, AP!LoadedSoFar, AP!Timeframes
<1>3. /\ index = 0 /\ status = "running" /\ lastOpen = None /\ prior = <<>>
      /\ recent = <<>> /\ stepIndex = 0
  BY <1>1 DEF EngineInit, Init, AP!Init
<1>4. Delivered = <<>>
  BY <1>3, SubSeqEmpty DEF Delivered
<1>5. LastN(<<>>, RecentCap) = <<>>
  BY StateMachineAssumption DEF LastN
<1>6. TakenIn
  BY <1>3, <1>4, <1>5, HistoryUnfolded
<1>7. QED
  BY <1>1, <1>2, <1>3, <1>6 DEF EInv, FailedIsReady, LastOpenIsLast, EndedRunning, AP!Init

(***************************************************************************)
(* Whatever the files hold, no candle that the adapter delivers is refused *)
(* by the cadence guardrail of the state machine.                          *)
(***************************************************************************)
THEOREM CadenceNeverBroken == EngineSpec => CadenceHolds
<1>1. EInv /\ [EngineNext]_engineVars => [status' = "failed" => lastOpen' # lastOpen]_engineVars
  BY EngineStep
<1>2. EInv /\ [EngineNext]_engineVars => EInv'
  BY EngineStep
<1>3. QED
  BY EngineStart, <1>1, <1>2, PTL DEF EngineSpec, CadenceHolds

LEMMA SameRows == Adapter!RowsOf("M5") = AP!RowsOf("M5")
<1> DEFINE files == input.paths["M5"]
<1>1. Adapter!RowsUpTo(files) = AP!RowsUpTo(files)
  BY DEF Adapter!RowsUpTo, AP!RowsUpTo
<1>2. QED
  BY <1>1 DEF Adapter!RowsOf, AP!RowsOf

LEMMA EndIsEverything == EInv => HistoryIsDelivered
<1> SUFFICES ASSUME EInv, eofEmitted PROVE prior = Adapter!RowsOf("M5")
  BY DEF EInv, TakenIn, EndedRunning, HistoryIsDelivered
<1> DEFINE m5 == stream["M5"]
<1>1. status = "running"
  BY DEF EInv, EndedRunning
<1>2. phase = "ready" /\ index = Len(m5)
  BY DEF EInv, AP!IInv, AP!ReadingAfterLoading, AP!EOFIsLast
<1>3. m5 = AP!RowsOf("M5")
  BY <1>2 DEF EInv, AP!LoadedSoFar
<1>4. prior = SubSeq(m5, 1, Len(m5))
  BY <1>1, <1>2, HistoryUnfolded DEF EInv, Delivered
<1>5. m5 \in Seq(Opens)
  BY DEF EInv, AP!IInv, AP!TypeOK, AP!Timeframes
<1>6. SubSeq(m5, 1, Len(m5)) = m5
  <2>1. Len(m5) \in Nat /\ \A i \in 1 .. Len(m5) : m5[i] \in Opens
    BY <1>5, LenProperties, ElementOfSeq
  <2>2. /\ SubSeq(m5, 1, Len(m5)) \in Seq(Opens) /\ Len(SubSeq(m5, 1, Len(m5))) = Len(m5)
        /\ \A i \in 1 .. Len(m5) : SubSeq(m5, 1, Len(m5))[i] = m5[i]
    BY <2>1, SubSeqProperties
  <2>3. QED
    BY <1>5, <2>2, SeqEqual
<1>7. QED
  BY <1>3, <1>4, <1>6, SameRows

(***************************************************************************)
(* The history the spokes see is exactly what the adapter has delivered,   *)
(* and a run that gets to the EOF event has taken in every row of every    *)
(* M5 file: between the two components no candle is lost, doubled or       *)
(* taken out of order, however the rows are spread over files.             *)
(***************************************************************************)
THEOREM HistoryComplete == EngineSpec => []HistoryIsDelivered
<1>1. EInv /\ [EngineNext]_engineVars => EInv'
  BY EngineStep
<1>2. QED
  BY EngineStart, EndIsEverything, <1>1, PTL DEF EngineSpec

---------------------------------------------------------------------------
(* The composition implements each of its components.                      *)

(***************************************************************************)
(* The loop drives the adapter as the adapter's own specification says:    *)
(* constructed once, asked for one event at a time, never past its EOF.    *)
(***************************************************************************)
THEOREM EngineIsAdapter == EngineSpec => AP!Spec
<1>1. EngineInit => AP!Init
  BY DEF EngineInit, Adapter!Init, AP!Init, Adapter!Timeframes, AP!Timeframes
<1>2. [EngineNext]_engineVars => [AP!Next]_(AP!vars)
  <2>1. Load => AP!Next
    BY SameConstruct DEF Load, AP!Next
  <2>2. ProcessCandle \/ ReachEOF => AP!Next
    BY SameNextEvent DEF ProcessCandle, ReachEOF, AP!Next, AP!NextEvent
  <2>3. UNCHANGED engineVars => UNCHANGED AP!vars
    BY DEF engineVars, reader, AP!vars, AP!loaded
  <2>4. QED
    BY <2>1, <2>2, <2>3 DEF EngineNext
<1>3. QED
  BY <1>1, <1>2, PTL DEF EngineSpec, AP!Spec

(***************************************************************************)
(* A candle that comes from files is one of the candles the state machine  *)
(* was specified for: everything proved of the machine alone holds in the  *)
(* replay loop.                                                            *)
(***************************************************************************)
THEOREM EngineIsMachine == EngineSpec => Spec
<1>1. EngineInit => Init
  BY DEF EngineInit
<1>2. EInv /\ [EngineNext]_engineVars => [Next]_vars
  <2>1. ASSUME EInv, ProcessCandle PROVE Next
    <3>1. stream["M5"][index'] \in Opens
      BY <2>1, SameNextEvent, DeliveredGrows DEF EInv, ProcessCandle
    <3>2. QED
      BY <2>1, <3>1 DEF ProcessCandle, Next
  <2>2. Load \/ ReachEOF => UNCHANGED vars
    BY DEF Load, ReachEOF
  <2>3. UNCHANGED engineVars => UNCHANGED vars
    BY DEF engineVars
  <2>4. QED
    BY <2>1, <2>2, <2>3 DEF EngineNext
<1>3. EInv /\ [EngineNext]_engineVars => EInv'
  BY EngineStep
<1>4. QED
  BY EngineStart, <1>1, <1>2, <1>3, PTL DEF EngineSpec, Spec

(***************************************************************************)
(* In a replay of any files, under any snapshot, the open trades keep to   *)
(* the policy's cap, agree with their copies and their log information,    *)
(* do not live through a weekend, and the spokes never see the future.     *)
(***************************************************************************)
THEOREM ReplayIsSafe ==
  EngineSpec =>
    [](TypeOK /\ ViewsInSync /\ AtMostCap /\ PendingMatchesOpen /\ WeekendFlat /\ NoLookahead)
BY EngineIsMachine, TypeCorrect, ViewsAlwaysInSync, CapRespected, PendingAlwaysMatches,
   FlatOverTheWeekend, NeverLooksAhead, PTL

=============================================================================
