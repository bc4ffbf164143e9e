------------------------- MODULE DataAdapter_proofs -------------------------
(***************************************************************************)
(* For every set of input files: the loaded streams are strictly           *)
(* chronological, and what the reader of next_event sees is a candle       *)
(* stream (CandleStream) with one end.                                     *)
(***************************************************************************)
EXTENDS DataAdapter, SequenceTheorems, WellFoundedInduction, TLAPS

\* The reading side has not begun before the adapter is ready.
ReadingAfterLoading ==
  phase # "ready" => index = 0 /\ ~eofEmitted /\ returned = "NOTHING"

IInv == TypeOK /\ ReadingAfterLoading /\ Chronological /\ EOFIsLast

LEMMA FileType ==
  ASSUME TypeOK, phase \in Timeframes, WellFormed(input), fileNo < Len(Paths),
         Usable(NextFile)
  PROVE  NextFile \in Seq(OpenTimes)
<1>1. Paths \in Seq(File)
  BY AdapterAssumption DEF TypeOK, WellFormed, Paths
<1>2. NextFile \in File
  BY <1>1, ElementOfSeq DEF TypeOK, NextFile
<1>3. NextFile \in Seq(Row) /\ \A i \in 1 .. Len(NextFile) : NextFile[i] # BadRow
  BY <1>2 DEF Usable, Readable, File
<1>4. \A i \in 1 .. Len(NextFile) : NextFile[i] \in OpenTimes
  BY <1>3, ElementOfSeq DEF Row
<1>5. QED
  BY <1>3, <1>4, SeqDef, LenProperties

\* Joining two strictly increasing sequences keeps the order if the seam does.
LEMMA JoinIncreasing ==
  ASSUME NEW s \in Seq(OpenTimes), NEW t \in Seq(OpenTimes),
         StrictlyIncreasing(s), StrictlyIncreasing(t), Joins(s, t)
  PROVE  StrictlyIncreasing(s \o t)
<1>1. /\ s \o t \in Seq(OpenTimes)
      /\ Len(s \o t) = Len(s) + Len(t)
      /\ Len(s) \in Nat /\ Len(t) \in Nat
      /\ \A i \in 1 .. Len(s) + Len(t) :
           (s \o t)[i] = IF i <= Len(s) THEN s[i] ELSE t[i - Len(s)]
  BY ConcatProperties, LenProperties
<1>2. SUFFICES ASSUME NEW i \in 1 .. Len(s) + Len(t) - 1
               PROVE  (s \o t)[i] < (s \o t)[i + 1]
  BY <1>1 DEF StrictlyIncreasing
<1>3. CASE i + 1 <= Len(s)
  BY <1>1, <1>3 DEF StrictlyIncreasing
<1>4. CASE i = Len(s)
  <2>1. s # <<>> /\ t # <<>>
    BY <1>1, <1>4, EmptySeq
  <2>2. (s \o t)[i] = LastOf(s) /\ (s \o t)[i + 1] = t[1]
    BY <1>1, <1>4 DEF LastOf
  <2>3. t[1] \in Nat /\ LastOf(s) \in Nat
    <3>1. Len(s) \in 1 .. Len(s) /\ 1 \in 1 .. Len(t)
      BY <1>1, <1>4
    <3>2. t[1] \in OpenTimes /\ s[Len(s)] \in OpenTimes
      BY <3>1, ElementOfSeq
    <3>3. OpenTimes \subseteq Nat
      BY AdapterAssumption
    <3>4. QED
      BY <3>2, <3>3 DEF LastOf
  <2>4. QED
    BY <2>1, <2>2, <2>3 DEF Joins
<1>5. CASE i > Len(s)
  <2>1. (s \o t)[i] = t[i - Len(s)] /\ (s \o t)[i + 1] = t[(i - Len(s)) + 1]
    BY <1>1, <1>5
  <2>2. i - Len(s) \in 1 .. Len(t) - 1
    BY <1>1, <1>5
  <2>3. QED
    BY <2>1, <2>2 DEF StrictlyIncreasing
<1>6. QED
  BY <1>1, <1>3, <1>4, <1>5

\* A snapshot that is loading was found well formed.
LoadingWellFormed == phase \in Timeframes => WellFormed(input)

LEMMA LoadStep ==
  ASSUME IInv, LoadingWellFormed, LoadFile
  PROVE  IInv'
<1> USE DEF IInv
<1>1. NextFile \in Seq(OpenTimes) /\ stream[phase] \in Seq(OpenTimes)
  BY FileType DEF LoadFile, LoadingWellFormed, TypeOK
<1>2. stream[phase] \o NextFile \in Seq(OpenTimes)
  BY <1>1, ConcatProperties
<1>3. /\ stream' \in [Timeframes -> Seq(OpenTimes)]
      /\ \A tf \in Timeframes : stream'[tf] = IF tf = phase THEN stream[phase] \o NextFile
                                             ELSE stream[tf]
  BY <1>2 DEF LoadFile, TypeOK
<1>4. StrictlyIncreasing(stream[phase] \o NextFile)
  BY <1>1, JoinIncreasing DEF LoadFile, Usable, Readable, Chronological
<1>5. Chronological'
  BY <1>3, <1>4 DEF Chronological
<1>6. index = 0 /\ ~eofEmitted /\ returned = "NOTHING" /\ phase # "ready"
  BY DEF LoadFile, ReadingAfterLoading, Timeframes
<1>7. Len(stream'["M5"]) \in Nat
  BY <1>3, LenProperties DEF Timeframes
<1>8. TypeOK'
  BY <1>3, <1>6, <1>7 DEF LoadFile, TypeOK
<1>9. QED
  BY <1>5, <1>6, <1>8 DEF LoadFile, ReadingAfterLoading, EOFIsLast

LEMMA StepPreservesIInv ==
  ASSUME IInv, LoadingWellFormed, [Next]_vars
  PROVE  IInv' /\ LoadingWellFormed'
<1> USE DEF IInv
<1>1. Len(stream["M5"]) \in Nat
  BY LenProperties DEF TypeOK, Timeframes
<1>2. CASE LoadFile
  BY <1>2, LoadStep DEF LoadFile, LoadingWellFormed, WellFormed
<1>3. CASE RefuseInput \/ StartLoading \/ RefuseFile \/ FinishM5 \/ FinishH1
  <2>1. UNCHANGED <<input, stream, index, eofEmitted, returned>> /\ phase # "ready"
    BY <1>3 DEF RefuseInput, StartLoading, RefuseFile, FinishM5, FinishH1, Refuse, Timeframes
  <2>2. /\ phase' \in {"M5", "H1", "refused", "ready"}
        /\ fileNo' \in Nat
    BY <1>3 DEF RefuseInput, StartLoading, RefuseFile, FinishM5, FinishH1, Refuse, TypeOK
  <2>3. TypeOK'
    BY <2>1, <2>2 DEF TypeOK, Timeframes
  <2>4. LoadingWellFormed'
    BY <1>3, <2>1 DEF RefuseInput, StartLoading, RefuseFile, FinishM5, FinishH1, Refuse,
                      LoadingWellFormed, Timeframes, WellFormed
  <2>5. ReadingAfterLoading' /\ Chronological' /\ EOFIsLast'
    BY <2>1 DEF ReadingAfterLoading, Chronological, EOFIsLast
  <2>6. QED
    BY <2>3, <2>4, <2>5
<1>4. CASE EmitCandle
  BY <1>1, <1>4 DEF EmitCandle, loaded, TypeOK, ReadingAfterLoading, Chronological,
                    EOFIsLast, LoadingWellFormed, WellFormed
<1>5. CASE EmitEOF
  BY <1>1, <1>5 DEF EmitEOF, loaded, TypeOK, ReadingAfterLoading, Chronological,
                    EOFIsLast, LoadingWellFormed, WellFormed
<1>6. CASE RaiseAfterEOF
  BY <1>6 DEF RaiseAfterEOF, loaded, TypeOK, ReadingAfterLoading, Chronological,
              EOFIsLast, LoadingWellFormed, WellFormed
<1>7. CASE UNCHANGED vars
  BY <1>7 DEF vars, loaded, TypeOK, ReadingAfterLoading, Chronological,
              EOFIsLast, LoadingWellFormed, WellFormed
<1>8. QED
  BY <1>2, <1>3, <1>4, <1>5, <1>6, <1>7 DEF Next, Construct, NextEvent

LEMMA InitIInv == Init => IInv /\ LoadingWellFormed
<1> SUFFICES ASSUME Init PROVE IInv /\ LoadingWellFormed
  OBVIOUS
<1>1. <<>> \in Seq(OpenTimes) /\ Len(<<>>) = 0
  BY EmptySeq
<1>2. \A tf \in Timeframes : stream[tf] = <<>>
  BY DEF Init
<1>3. Chronological
  BY <1>1, <1>2 DEF Chronological, StrictlyIncreasing
<1>4. stream \in [Timeframes -> Seq(OpenTimes)]
  BY <1>1 DEF Init
<1>5. Len(stream["M5"]) = 0
  BY <1>1, <1>2 DEF Timeframes
<1>6. TypeOK
  <2>1. index \in 0 .. Len(stream["M5"])
    BY <1>5 DEF Init
  <2>2. /\ phase \in {"new", "ready", "refused"} \cup Timeframes
        /\ returned \in {"NOTHING", "CANDLE", "EOF", "RAISED"}
        /\ fileNo \in Nat /\ input \in Inputs /\ eofEmitted \in BOOLEAN
    BY DEF Init
  <2>3. QED
    BY <1>4, <2>1, <2>2 DEF TypeOK
<1>7. QED
  BY <1>3, <1>6 DEF Init, IInv, ReadingAfterLoading, EOFIsLast, LoadingWellFormed, Timeframes

LEMMA AdapterInvariant == Spec => []IInv
BY InitIInv, StepPreservesIInv, PTL DEF Spec

(***************************************************************************)
(* The loader's checks are enough: whatever the files hold, both streams   *)
(* are strictly chronological.                                             *)
(***************************************************************************)
THEOREM AdapterSafety == Spec => []Chronological
<1>1. IInv => Chronological
  BY DEF IInv
<1>2. QED
  BY AdapterInvariant, <1>1, PTL

(***************************************************************************)
(* The pointer stays in range, and EOF comes after every candle.           *)
(***************************************************************************)
THEOREM EOFAfterAll == Spec => [](TypeOK /\ EOFIsLast)
<1>1. IInv => TypeOK /\ EOFIsLast
  BY DEF IInv
<1>2. QED
  BY AdapterInvariant, <1>1, PTL

---------------------------------------------------------------------------
(* Nothing is skipped at a file boundary.                                  *)

\* The recursion of RowsUpTo, cut off after m files.
IsRows(g, paths, m) ==
  g = [n \in 0 .. m |-> IF n = 0 THEN <<>> ELSE g[n - 1] \o paths[n]]

Rows(paths, m) == CHOOSE g : IsRows(g, paths, m)

\* It defines a function: the least number of files for which it did not would
\* be one more than a number for which it did.
LEMMA RowsExist ==
  ASSUME NEW paths, NEW m \in Nat
  PROVE  IsRows(Rows(paths, m), paths, m)
<1> DEFINE Undefined == {k \in Nat : ~IsRows(Rows(paths, k), paths, k)}
<1>1. SUFFICES ASSUME Undefined # {} PROVE FALSE
  BY <1>1, Zenon
<1>2. \E k \in Undefined : \A j \in Undefined : <<j, k>> \notin OpToRel(<, Nat)
  <2> HIDE DEF Undefined
  <2>1. Undefined \subseteq Nat
    BY DEF Undefined
  <2>2. QED
    BY <1>1, <2>1, WFMin, NatLessThanWellFounded, Zenon
<1>3. PICK k \in Undefined : \A j \in Undefined : <<j, k>> \notin OpToRel(<, Nat)
  BY <1>2, Zenon
<1>4. k \in Nat /\ ~IsRows(Rows(paths, k), paths, k)
  BY <1>3, Zenon
<1>5. \A g : ~IsRows(g, paths, k)
  BY <1>4, Zenon DEF Rows
<1>6. CASE k = 0
  <2> DEFINE g == [n \in 0 .. 0 |-> <<>>]
  <2>1. g = [n \in 0 .. 0 |-> IF n = 0 THEN <<>> ELSE g[n - 1] \o paths[n]]
    OBVIOUS
  <2>2. QED
    BY <1>5, <1>6, <2>1, Zenon DEF IsRows
<1>7. CASE k # 0
  <2> DEFINE f == Rows(paths, k - 1)
             g == [n \in 0 .. k |-> IF n < k THEN f[n] ELSE f[k - 1] \o paths[k]]
             h == [n \in 0 .. k |-> IF n = 0 THEN <<>> ELSE g[n - 1] \o paths[n]]
  <2>1. k - 1 \in Nat /\ k - 1 < k
    BY <1>4, <1>7
  <2>2. <<k - 1, k>> \in OpToRel(<, Nat)
    BY <1>4, <2>1, Zenon DEF OpToRel
  <2>3. IsRows(f, paths, k - 1)
    BY <1>3, <2>1, <2>2, Zenon
  <2>4. f = [n \in 0 .. k - 1 |-> IF n = 0 THEN <<>> ELSE f[n - 1] \o paths[n]]
    BY <2>3, Zenon DEF IsRows
  <2> HIDE DEF f
  <2>5. \A n \in 0 .. k - 1 : f[n] = IF n = 0 THEN <<>> ELSE f[n - 1] \o paths[n]
    BY <2>4, Zenon
  <2>6. ASSUME NEW n \in 0 .. k PROVE g[n] = h[n]
    <3>1. CASE n = 0
      BY <1>4, <1>7, <2>5, <3>1
    <3>2. CASE n # 0 /\ n < k
      <4>1. n \in 0 .. k - 1 /\ n - 1 \in 0 .. k /\ n - 1 < k
        BY <1>4, <3>2
      <4>2. g[n] = f[n] /\ g[n - 1] = f[n - 1]
        BY <3>2, <4>1
      <4>3. f[n] = f[n - 1] \o paths[n]
        BY <2>5, <3>2, <4>1, Zenon
      <4>4. h[n] = g[n - 1] \o paths[n]
        BY <3>2, Zenon
      <4>5. QED
        BY <4>2, <4>3, <4>4, Zenon
    <3>3. CASE n = k
      <4>1. g[k] = f[k - 1] \o paths[k] /\ g[k - 1] = f[k - 1]
        BY <1>4, <2>1
      <4>2. k \in 0 .. k
        BY <1>4
      <4>3. h[k] = g[k - 1] \o paths[k]
        BY <1>7, <4>2, Zenon
      <4>4. QED
        BY <3>3, <4>1, <4>3, Zenon
    <3>4. QED
      BY <1>4, <3>1, <3>2, <3>3
  <2>7. g = h
    BY <2>6, Zenon
  <2>8. IsRows(g, paths, k)
    BY <2>7, Zenon DEF IsRows
  <2>9. QED
    BY <1>5, <2>8, Zenon
<1>8. QED
  BY <1>6, <1>7

LEMMA RowsUpToAt ==
  ASSUME NEW paths, Len(paths) \in Nat
  PROVE  /\ RowsUpTo(paths)[0] = <<>>
         /\ \A n \in 0 .. Len(paths) - 1 :
              RowsUpTo(paths)[n + 1] = RowsUpTo(paths)[n] \o paths[n + 1]
<1> DEFINE f == RowsUpTo(paths)
<1>1. f = Rows(paths, Len(paths))
  BY Zenon DEF RowsUpTo, Rows, IsRows
<1>2. IsRows(f, paths, Len(paths))
  BY <1>1, RowsExist, Zenon
<1>3. f = [n \in 0 .. Len(paths) |-> IF n = 0 THEN <<>> ELSE f[n - 1] \o paths[n]]
  BY <1>2, Zenon DEF IsRows
<1> HIDE DEF f
<1>4. \A n \in 0 .. Len(paths) : f[n] = IF n = 0 THEN <<>> ELSE f[n - 1] \o paths[n]
  BY <1>3, Zenon
<1>5. f[0] = <<>>
  BY <1>4
<1>6. ASSUME NEW n \in 0 .. Len(paths) - 1 PROVE f[n + 1] = f[n] \o paths[n + 1]
  <2>1. n + 1 \in 0 .. Len(paths) /\ n + 1 # 0 /\ (n + 1) - 1 = n
    OBVIOUS
  <2>2. QED
    BY <1>4, <2>1, Zenon
<1>7. QED
  BY <1>5, <1>6, Zenon DEF f

\* What has been loaded at every phase of the construction.
LoadedSoFar ==
  /\ phase \in Timeframes =>
       fileNo \in 0 .. Len(Paths) /\ stream[phase] = RowsUpTo(Paths)[fileNo]
  /\ phase = "new" => fileNo = 0 /\ stream["M5"] = <<>>
  /\ phase \in {"new", "M5"} => stream["H1"] = <<>>
  /\ phase \in {"H1", "ready"} => stream["M5"] = RowsOf("M5")
  /\ phase = "ready" => stream["H1"] = RowsOf("H1")

LEMMA PathsAreSequences ==
  ASSUME TypeOK, WellFormed(input), NEW tf \in Timeframes
  PROVE  Len(input.paths[tf]) \in Nat
<1>1. input.paths[tf] \in Seq(File)
  BY AdapterAssumption DEF TypeOK, WellFormed
<1>2. QED
  BY <1>1, LenProperties

LEMMA LoadedStep ==
  ASSUME IInv, LoadingWellFormed, LoadedSoFar, [Next]_vars
  PROVE  LoadedSoFar'
<1>1. CASE RefuseInput \/ RefuseFile
  BY <1>1 DEF RefuseInput, RefuseFile, Refuse, LoadedSoFar, Timeframes
<1>2. CASE StartLoading
  <2>1. /\ phase = "new" /\ phase' = "M5" /\ fileNo' = 0 /\ stream' = stream /\ input' = input
        /\ WellFormed(input)
    BY <1>2 DEF StartLoading, LoadedSoFar
  <2>2. Len(input.paths["M5"]) \in Nat
    BY <2>1, PathsAreSequences DEF IInv, Timeframes
  <2>3. Paths' = input.paths["M5"]
    BY <2>1 DEF Paths
  <2>4. RowsUpTo(Paths)'[fileNo'] = <<>>
    BY <2>1, <2>2, <2>3, RowsUpToAt
  <2>5. stream'["M5"] = <<>> /\ stream'["H1"] = <<>>
    BY <2>1 DEF LoadedSoFar
  <2>6. QED
    BY <2>1, <2>2, <2>3, <2>4, <2>5 DEF LoadedSoFar
<1>3. CASE LoadFile
  <2>1. /\ phase \in Timeframes /\ phase' = phase /\ input' = input
        /\ fileNo' = fileNo + 1 /\ fileNo < Len(Paths)
        /\ stream' = [stream EXCEPT ![phase] = @ \o NextFile]
    BY <1>3 DEF LoadFile
  <2>2. Len(Paths) \in Nat
    BY <2>1, PathsAreSequences DEF IInv, LoadingWellFormed, Paths
  <2>3. fileNo \in 0 .. Len(Paths) - 1 /\ stream[phase] = RowsUpTo(Paths)[fileNo]
    BY <2>1, <2>2 DEF LoadedSoFar
  <2>4. RowsUpTo(Paths)[fileNo + 1] = RowsUpTo(Paths)[fileNo] \o Paths[fileNo + 1]
    BY <2>2, <2>3, RowsUpToAt
  <2>5. DOMAIN stream = Timeframes
    BY DEF IInv, TypeOK
  <2>6. stream'[phase] = stream[phase] \o NextFile
    BY <2>1, <2>5
  <2>7. stream'[phase] = RowsUpTo(Paths)[fileNo + 1]
    BY <2>3, <2>4, <2>6, Zenon DEF NextFile
  <2>8. Paths' = Paths
    BY <2>1 DEF Paths
  <2>9. fileNo' \in 0 .. Len(Paths)' /\ stream'[phase'] = RowsUpTo(Paths)'[fileNo']
    BY <2>1, <2>2, <2>3, <2>7, <2>8
  <2>10. \A tf \in Timeframes \ {phase} : stream'[tf] = stream[tf]
    BY <2>1, <2>5
  <2>11. phase' = "M5" => stream'["H1"] = <<>>
    BY <2>1, <2>10 DEF LoadedSoFar, Timeframes
  <2>12. phase' = "H1" => stream'["M5"] = RowsOf("M5")'
    BY <2>1, <2>10 DEF LoadedSoFar, Timeframes, RowsOf
  <2>13. QED
    BY <2>1, <2>9, <2>11, <2>12 DEF LoadedSoFar, Timeframes
<1>4. CASE FinishM5
  <2>1. /\ phase = "M5" /\ fileNo = Len(Paths) /\ phase' = "H1" /\ fileNo' = 0
        /\ stream' = stream /\ input' = input
    BY <1>4 DEF FinishM5
  <2>2. stream["M5"] = RowsOf("M5")
    BY <2>1, Zenon DEF LoadedSoFar, RowsOf, Paths, Timeframes
  <2>3. Len(input.paths["H1"]) \in Nat
    BY <2>1, PathsAreSequences DEF IInv, LoadingWellFormed, Timeframes
  <2>4. Paths' = input.paths["H1"]
    BY <2>1 DEF Paths
  <2>5. RowsUpTo(Paths)'[fileNo'] = <<>> /\ stream'["H1"] = <<>>
    <3>1. RowsUpTo(input.paths["H1"])[0] = <<>>
      BY <2>3, RowsUpToAt
    <3>2. QED
      BY <2>1, <2>4, <3>1 DEF LoadedSoFar
  <2>6. stream'["M5"] = RowsOf("M5")'
    BY <2>1, <2>2 DEF RowsOf
  <2>7. QED
    BY <2>1, <2>3, <2>4, <2>5, <2>6 DEF LoadedSoFar
<1>5. CASE FinishH1
  <2>1. /\ phase = "H1" /\ fileNo = Len(Paths) /\ phase' \in {"refused", "ready"}
        /\ stream' = stream /\ input' = input
    BY <1>5 DEF FinishH1
  <2>2. stream["H1"] = RowsOf("H1") /\ stream["M5"] = RowsOf("M5")
    BY <2>1, Zenon DEF LoadedSoFar, RowsOf, Paths, Timeframes
  <2>3. stream'["H1"] = RowsOf("H1")' /\ stream'["M5"] = RowsOf("M5")'
    BY <2>1, <2>2 DEF RowsOf
  <2>4. phase' \notin Timeframes /\ phase' \notin {"new", "M5"}
    BY <2>1 DEF Timeframes
  <2>5. QED
    BY <2>3, <2>4 DEF LoadedSoFar
<1>6. CASE NextEvent \/ UNCHANGED vars
  <2>1. UNCHANGED <<input, phase, fileNo, stream>>
    BY <1>6 DEF NextEvent, EmitCandle, EmitEOF, RaiseAfterEOF, vars, loaded
  <2>2. Paths' = Paths /\ RowsOf("M5")' = RowsOf("M5") /\ RowsOf("H1")' = RowsOf("H1")
    BY <2>1 DEF Paths, RowsOf
  <2>3. QED
    BY <2>1, <2>2 DEF LoadedSoFar
<1>7. QED
  BY <1>1, <1>2, <1>3, <1>4, <1>5, <1>6 DEF Next, Construct

(***************************************************************************)
(* An adapter that was constructed holds every row of every file, in       *)
(* order: for every number of files, of any length, the empty ones too.    *)
(***************************************************************************)
THEOREM NothingSkipped == Spec => []LoadComplete
<1>1. Init => LoadedSoFar
  BY DEF Init, LoadedSoFar, Timeframes
<1>2. LoadedSoFar => LoadComplete
  BY DEF LoadedSoFar, LoadComplete, Timeframes
<1>3. QED
  BY <1>1, <1>2, InitIInv, StepPreservesIInv, LoadedStep, PTL DEF Spec

---------------------------------------------------------------------------
(* Refinement.                                                             *)

LEMMA DeliverOne ==
  ASSUME IInv, EmitCandle
  PROVE  Abstract!Deliver
<1> DEFINE m5 == stream["M5"]
           n == index + 1
<1>1. /\ m5 \in Seq(OpenTimes) /\ Len(m5) \in Nat /\ index \in 0 .. Len(m5)
      /\ n \in 1 .. Len(m5) /\ stream' = stream /\ index' = n
  BY LenProperties DEF IInv, TypeOK, EmitCandle, loaded, Timeframes
<1>2. m5[n] \in OpenTimes /\ \A i \in 1 .. Len(m5) : m5[i] \in OpenTimes
  BY <1>1, ElementOfSeq
<1>3. /\ Delivered \in Seq(OpenTimes) /\ Len(Delivered) = index
      /\ \A i \in 1 .. index : Delivered[i] = m5[i]
  BY <1>1, <1>2, SubSeqProperties DEF Delivered
<1>4. Delivered' = Append(Delivered, m5[n])
  <2>1. Delivered' = SubSeq(m5, 1, n)
    BY <1>1 DEF Delivered
  <2>2. SubSeq(m5, 1, n) = SubSeq(m5, 1, n - 1) \o <<m5[n]>>
    BY <1>1, SubSeqRecursiveSecond
  <2>3. Append(Delivered, m5[n]) = Delivered \o <<m5[n]>>
    BY <1>2, <1>3, AppendIsConcat
  <2>4. n - 1 = index
    BY <1>1
  <2>5. QED
    BY <2>1, <2>2, <2>3, <2>4 DEF Delivered
<1>5. Delivered # <<>> => m5[n] > Delivered[Len(Delivered)]
  <2>1. SUFFICES ASSUME Delivered # <<>> PROVE m5[n] > m5[index]
    BY <1>1, <1>3, EmptySeq
  <2>2. index \in 1 .. Len(m5) - 1
    BY <1>1, <1>3, <2>1, EmptySeq
  <2>3. m5[index] < m5[index + 1]
    BY <2>2 DEF IInv, Chronological, StrictlyIncreasing, Timeframes
  <2>4. m5[index] \in Nat /\ m5[n] \in Nat
    <3>1. m5[index] \in OpenTimes /\ OpenTimes \subseteq Nat
      BY <1>2, <2>2, AdapterAssumption
    <3>2. QED
      BY <1>2, <3>1
  <2>5. QED
    BY <2>3, <2>4
<1>6. QED
  BY <1>2, <1>4, <1>5 DEF Abstract!Deliver, EmitCandle

(***************************************************************************)
(* The adapter implements the candle stream: every loading step is         *)
(* invisible, next_event delivers the next later candle or the one end.    *)
(***************************************************************************)
THEOREM AdapterIsStream == Spec => ImplementsStream
<1>1. Init => Abstract!Init
  <2>1. SUFFICES ASSUME Init PROVE Delivered = <<>> /\ eofEmitted = FALSE
    BY DEF Abstract!Init
  <2>2. SubSeq(stream["M5"], 1, 0) = <<>>
    BY SubSeqEmpty
  <2>3. QED
    BY <2>1, <2>2 DEF Init, Delivered
<1>2. IInv /\ [Next]_vars => [Abstract!Next]_<<Delivered, eofEmitted>>
  <2>1. SUFFICES ASSUME IInv, [Next]_vars
                 PROVE  \/ Abstract!Next
                        \/ Delivered' = Delivered /\ eofEmitted' = eofEmitted
    OBVIOUS
  <2>2. CASE EmitCandle
    BY <2>1, <2>2, DeliverOne DEF Abstract!Next
  <2>3. CASE EmitEOF
    BY <2>3 DEF EmitEOF, loaded, Delivered, Abstract!Next, Abstract!End
  <2>4. CASE RaiseAfterEOF \/ UNCHANGED vars
    BY <2>4 DEF RaiseAfterEOF, vars, loaded, Delivered
  <2>5. CASE Construct
    <3>1. index = 0 /\ index' = 0 /\ eofEmitted' = eofEmitted
      BY <2>1, <2>5
         DEF IInv, ReadingAfterLoading, Construct, RefuseInput, StartLoading, LoadFile,
             RefuseFile, FinishM5, FinishH1, Refuse, Timeframes
    <3>2. Delivered = <<>> /\ Delivered' = <<>>
      BY <3>1, SubSeqEmpty DEF Delivered
    <3>3. QED
      BY <3>1, <3>2
  <2>6. QED
    BY <2>1, <2>2, <2>3, <2>4, <2>5 DEF Next, NextEvent
<1>3. QED
  BY <1>1, <1>2, InitIInv, StepPreservesIInv, PTL DEF Spec, ImplementsStream, Abstract!Spec

=============================================================================
