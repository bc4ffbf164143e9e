------------------------ MODULE MandatorySink_proofs ------------------------
(***************************************************************************)
(* Durability of the mandatory logs for every number of rows and every     *)
(* placement of I/O errors and process death.                              *)
(***************************************************************************)
EXTENDS MandatorySink, TLAPS

\* Nothing is on disk that was not written; construction heads one file first.
Progress ==
  /\ life = "new" => \A f \in Files : written[f] = 0 /\ onDisk[f] = 0
  /\ life = "half" => /\ written["executed"] = 1 /\ onDisk["executed"] = 2
                      /\ written["blocked"] = 0 /\ onDisk["blocked"] = 0
  /\ closed => life \in {"ready", "gone"}

IInv ==
  /\ TypeOK
  /\ Progress
  /\ AckedDurable
  /\ ReadyHasHeaders
  /\ ClosedIsComplete

\* The rows only grow.
Grow == \A f \in Files : onDisk[f] <= onDisk'[f] /\ acked[f] \subseteq acked'[f]

RowsType ==
  /\ written' \in [Files -> 0 .. MaxRows]
  /\ onDisk' \in [Files -> Nat]
  /\ \A f \in Files : onDisk'[f] <= 2 * written'[f]
  /\ acked' \in [Files -> SUBSET Nat]

LEMMA AppendRowFacts ==
  ASSUME TypeOK, AckedDurable, NEW f \in Files, written[f] < MaxRows, AppendRow(f)
  PROVE  RowsType /\ Grow /\ AckedDurable'
<1> USE SinkAssumption DEF TypeOK
<1>1. /\ written[f] \in Nat /\ written[f] + 1 \in 0 .. MaxRows
      /\ 2 * (written[f] + 1) \in Nat /\ onDisk[f] \in Nat
      /\ onDisk[f] <= 2 * (written[f] + 1)
  OBVIOUS
<1>2. /\ written' = [written EXCEPT ![f] = written[f] + 1]
      /\ onDisk' = [onDisk EXCEPT ![f] = 2 * (written[f] + 1)]
      /\ acked' = [acked EXCEPT ![f] = acked[f] \cup {written[f] + 1}]
  BY DEF AppendRow
<1>3. RowsType
  BY <1>1, <1>2 DEF RowsType
<1>4. Grow
  BY <1>1, <1>2 DEF Grow
<1>5. ASSUME NEW g \in Files, NEW i \in acked'[g] PROVE 2 * i <= onDisk'[g]
  <2>1. CASE g = f /\ i = written[f] + 1
    BY <1>1, <1>2, <2>1
  <2>2. CASE i \in acked[g]
    <3>1. i \in Nat /\ 2 * i <= onDisk[g] /\ onDisk[g] \in Nat
      BY <2>2 DEF AckedDurable
    <3>2. onDisk[g] <= onDisk'[g] /\ onDisk'[g] \in Nat
      BY <1>3, <1>4 DEF Grow, RowsType
    <3>3. QED
      BY <3>1, <3>2
  <2>3. QED
    BY <1>2, <2>1, <2>2
<1>6. QED
  BY <1>3, <1>4, <1>5 DEF AckedDurable

\* More bytes of rows already written, or one unacknowledged row more.
LEMMA WriteFacts ==
  ASSUME TypeOK, AckedDurable, RowsType, Grow, acked' = acked
  PROVE  AckedDurable'
<1>1. ASSUME NEW g \in Files, NEW i \in acked[g] PROVE 2 * i <= onDisk'[g]
  <2>1. i \in Nat /\ 2 * i <= onDisk[g] /\ onDisk[g] \in Nat
    BY DEF AckedDurable, TypeOK
  <2>2. onDisk[g] <= onDisk'[g] /\ onDisk'[g] \in Nat
    BY DEF Grow, RowsType
  <2>3. QED
    BY <2>1, <2>2
<1>2. QED
  BY <1>1 DEF AckedDurable

LEMMA AppendFailsFacts ==
  ASSUME TypeOK, NEW f \in Files, written[f] < MaxRows, AppendFails(f)
  PROVE  RowsType /\ Grow
<1> USE SinkAssumption DEF TypeOK
<1>1. PICK n \in Partial(f, written[f] + 1) : onDisk' = [onDisk EXCEPT ![f] = n]
  BY DEF AppendFails
<1>2. n \in Nat /\ onDisk[f] <= n /\ n <= 2 * (written[f] + 1)
  BY <1>1 DEF Partial
<1>3. QED
  BY <1>1, <1>2 DEF AppendFails, RowsType, Grow

LEMMA FlushBothFacts ==
  ASSUME TypeOK, FlushBoth
  PROVE  RowsType /\ Grow /\ acked' = acked
BY SinkAssumption DEF TypeOK, FlushBoth, RowsType, Grow

LEMMA FlushFailsFacts ==
  ASSUME TypeOK, NEW f \in Files, FlushFails(f)
  PROVE  RowsType /\ Grow /\ acked' = acked
<1> USE SinkAssumption DEF TypeOK
<1>1. PICK n \in Partial(f, written[f]) :
        onDisk' = [g \in Files |-> IF g = f THEN n
                                   ELSE IF f = "blocked" THEN 2 * written[g] ELSE onDisk[g]]
  BY DEF FlushFails
<1>2. n \in Nat /\ onDisk[f] <= n /\ n <= 2 * written[f]
  BY <1>1 DEF Partial
<1>3. QED
  BY <1>1, <1>2 DEF FlushFails, RowsType, Grow

LEMMA ConstructStep ==
  ASSUME IInv, Construct
  PROVE  IInv' /\ Grow
<1> USE SinkAssumption DEF IInv
<1>1. ~closed /\ closed' = closed
  BY DEF Construct, Refuse, OpenExecuted, OpenBlocked, OpenSink, OpenFails, HeaderFails,
         Progress
<1>2. CASE Refuse \/ OpenFails
  BY <1>1, <1>2 DEF Refuse, OpenFails, rows, TypeOK, Progress, AckedDurable,
                    ReadyHasHeaders, ClosedIsComplete, Grow
<1>3. CASE OpenExecuted
  <2>1. written["executed"] = 0 /\ written["executed"] < MaxRows
    BY <1>3 DEF OpenExecuted, Progress, Files
  <2>2. RowsType /\ Grow /\ AckedDurable'
    BY <1>3, <2>1, AppendRowFacts DEF OpenExecuted, OpenSink, Files
  <2>3. TypeOK' /\ Progress'
    BY <1>1, <1>3, <2>1, <2>2
       DEF OpenExecuted, OpenSink, AppendRow, TypeOK, Progress, RowsType, Files
  <2>4. QED
    BY <1>1, <1>3, <2>2, <2>3 DEF OpenExecuted, ReadyHasHeaders, ClosedIsComplete
<1>4. CASE OpenBlocked
  <2>1. written["blocked"] = 0 /\ written["blocked"] < MaxRows
    BY <1>4 DEF OpenBlocked, Progress
  <2>2. RowsType /\ Grow /\ AckedDurable'
    BY <1>4, <2>1, AppendRowFacts DEF OpenBlocked, OpenSink, Files
  <2>3. onDisk'["blocked"] = 2 /\ onDisk'["executed"] = 2
    BY <1>4, <2>1 DEF OpenBlocked, OpenSink, AppendRow, TypeOK, Progress, Files
  <2>4. TypeOK' /\ Progress' /\ ReadyHasHeaders'
    BY <1>1, <1>4, <2>2, <2>3
       DEF OpenBlocked, OpenSink, AppendRow, TypeOK, Progress, RowsType, ReadyHasHeaders, Files
  <2>5. QED
    BY <1>1, <2>2, <2>4 DEF ClosedIsComplete
<1>5. CASE \E f \in Files : HeaderFails(f)
  <2>1. PICK f \in Files : HeaderFails(f)
    BY <1>5
  <2>2. PICK n \in 0 .. 2 : onDisk' = [onDisk EXCEPT ![f] = n]
    BY <2>1 DEF HeaderFails
  <2>3. written[f] = 0 /\ onDisk[f] = 0
    BY <2>1 DEF HeaderFails, Progress, Files
  <2>4. RowsType /\ Grow /\ acked' = acked
    BY <2>1, <2>2, <2>3 DEF HeaderFails, RowsType, Grow, TypeOK
  <2>5. AckedDurable'
    BY <2>4, WriteFacts
  <2>6. TypeOK' /\ Progress' /\ ReadyHasHeaders' /\ ClosedIsComplete'
    BY <1>1, <2>1, <2>4
       DEF HeaderFails, TypeOK, RowsType, Progress, ReadyHasHeaders, ClosedIsComplete
  <2>7. QED
    BY <2>4, <2>5, <2>6
<1>6. QED
  BY <1>2, <1>3, <1>4, <1>5 DEF Construct

\* A call on a constructed logger that changes rows, and leaves life alone.
LEMMA CallStep ==
  ASSUME IInv, life = "ready", life' = life, RowsType, Grow, AckedDurable',
         handle' \in [Files -> {"none", "open", "closed"}], closed' \in BOOLEAN,
         outcome' \in {"ok", "guardrail", "ValueError"},
         ClosedIsComplete'
  PROVE  IInv' /\ Grow
<1>1. ReadyHasHeaders'
  <2>1. ASSUME NEW f \in Files PROVE onDisk'[f] >= 2
    BY DEF IInv, ReadyHasHeaders, Grow, RowsType, TypeOK
  <2>2. QED
    BY <2>1 DEF ReadyHasHeaders
<1>2. TypeOK' /\ Progress'
  BY DEF IInv, TypeOK, Progress, RowsType
<1>3. QED
  BY <1>1, <1>2 DEF IInv

LEMMA NextStep ==
  ASSUME IInv, Next
  PROVE  IInv' /\ Grow
<1>1. TypeOK /\ AckedDurable
  BY DEF IInv
<1>2. CASE Construct
  BY <1>2, ConstructStep
<1>3. ASSUME NEW f \in Files, LogRow(f) PROVE IInv' /\ Grow
  <2>1. RowsType /\ Grow /\ AckedDurable'
    BY <1>1, <1>3, AppendRowFacts DEF LogRow
  <2>2. QED
    BY <1>1, <1>3, <2>1, CallStep DEF LogRow, AppendRow, ClosedIsComplete, TypeOK
<1>4. ASSUME NEW f \in Files, LogFails(f) PROVE IInv' /\ Grow
  <2>1. RowsType /\ Grow /\ acked' = acked
    BY <1>1, <1>4, AppendFailsFacts DEF LogFails, AppendFails
  <2>2. AckedDurable'
    BY <1>1, <2>1, WriteFacts
  <2>3. QED
    BY <1>1, <1>4, <2>1, <2>2, CallStep DEF LogFails, AppendFails, ClosedIsComplete, TypeOK
<1>5. ASSUME NEW f \in Files, FlushFails(f) PROVE IInv' /\ Grow
  <2>1. RowsType /\ Grow /\ AckedDurable'
    BY <1>1, <1>5, FlushFailsFacts, WriteFacts
  <2>2. QED
    BY <1>1, <1>5, <2>1, CallStep DEF FlushFails, ClosedIsComplete, TypeOK
<1>6. ASSUME NEW f \in Files, CloseFails(f) PROVE IInv' /\ Grow
  <2>1. RowsType /\ Grow /\ AckedDurable'
    BY <1>1, <1>6, FlushBothFacts, WriteFacts DEF CloseFails
  <2>2. QED
    BY <1>1, <1>6, <2>1, CallStep DEF CloseFails, ClosedIsComplete, TypeOK
<1>7. CASE CallRefused \/ CallOnClosedFile \/ CloseAgain
  <2>1. UNCHANGED <<life, handle, closed, written, onDisk, acked>>
        /\ outcome' \in {"ok", "guardrail", "ValueError"}
    BY <1>7 DEF CallRefused, CallOnClosedFile, CloseAgain, rows
  <2>2. QED
    BY <2>1 DEF IInv, TypeOK, Progress, AckedDurable, ReadyHasHeaders, ClosedIsComplete, Grow
<1>8. CASE Flush
  <2>1. RowsType /\ Grow /\ AckedDurable'
    BY <1>1, <1>8, FlushBothFacts, WriteFacts DEF Flush
  <2>2. QED
    BY <1>1, <1>8, <2>1, CallStep DEF Flush, ClosedIsComplete, TypeOK
<1>9. CASE Close
  <2>1. RowsType /\ Grow /\ AckedDurable'
    BY <1>1, <1>9, FlushBothFacts, WriteFacts DEF Close
  <2>2. ClosedIsComplete'
    BY <1>9 DEF Close, FlushBoth, ClosedIsComplete
  <2>3. QED
    BY <1>1, <1>9, <2>1, <2>2, CallStep DEF Close, TypeOK
<1>10. CASE ProcessEnds
  <2>1. RowsType /\ Grow /\ acked' = acked
    BY <1>1, <1>10, SinkAssumption DEF ProcessEnds, RowsType, Grow, TypeOK
  <2>2. AckedDurable'
    BY <1>1, <2>1, WriteFacts
  <2>3. ClosedIsComplete'
    BY <1>10 DEF IInv, ProcessEnds, ClosedIsComplete
  <2>4. TypeOK' /\ Progress' /\ ReadyHasHeaders'
    BY <1>1, <1>10, <2>1 DEF ProcessEnds, RowsType, TypeOK, Progress, ReadyHasHeaders
  <2>5. QED
    BY <2>1, <2>2, <2>3, <2>4 DEF IInv
<1>11. QED
  BY <1>2, <1>3, <1>4, <1>5, <1>6, <1>7, <1>8, <1>9, <1>10 DEF Next

LEMMA StutterStep ==
  ASSUME IInv, UNCHANGED vars
  PROVE  IInv' /\ Grow
BY DEF vars, rows, IInv, TypeOK, Progress, AckedDurable, ReadyHasHeaders,
       ClosedIsComplete, Grow

LEMMA InitIInv ==
  ASSUME Init
  PROVE  IInv
<1>1. /\ life = "new" /\ ~closed /\ closed \in BOOLEAN /\ outcome = "ok"
      /\ \A f \in Files : written[f] = 0 /\ onDisk[f] = 0 /\ acked[f] = {}
  BY DEF Init
<1>2. /\ handle \in [Files -> {"none", "open", "closed"}]
      /\ onDisk \in [Files -> Nat]
      /\ acked \in [Files -> SUBSET Nat]
  BY DEF Init
<1>3. written \in [Files -> 0 .. MaxRows]
  BY SinkAssumption DEF Init
<1>4. TypeOK
  BY <1>1, <1>2, <1>3 DEF TypeOK
<1>5. Progress
  BY <1>1 DEF Progress
<1>6. AckedDurable /\ ReadyHasHeaders /\ ClosedIsComplete
  BY <1>1 DEF AckedDurable, ReadyHasHeaders, ClosedIsComplete
<1>7. QED
  BY <1>4, <1>5, <1>6 DEF IInv

LEMMA SinkInvariant == Spec => []IInv
<1>1. IInv /\ [Next]_vars => IInv'
  BY NextStep, StutterStep
<1>2. QED
  BY InitIInv, <1>1, PTL DEF Spec

(***************************************************************************)
(* Type correctness: nothing is on disk that was not written.              *)
(***************************************************************************)
THEOREM TypeCorrect == Spec => []TypeOK
<1>1. IInv => TypeOK
  BY DEF IInv
<1>2. QED
  BY SinkInvariant, <1>1, PTL

(***************************************************************************)
(* A row that was reported as logged is whole on disk, whatever write,     *)
(* flush or close failed, and whenever the process ends.                   *)
(***************************************************************************)
THEOREM SinkSafety == Spec => []AckedDurable
<1>1. IInv => AckedDurable
  BY DEF IInv
<1>2. QED
  BY SinkInvariant, <1>1, PTL

(***************************************************************************)
(* A logger that was constructed has its two headers on disk.              *)
(***************************************************************************)
THEOREM HeadersFirst == Spec => []ReadyHasHeaders
<1>1. IInv => ReadyHasHeaders
  BY DEF IInv
<1>2. QED
  BY SinkInvariant, <1>1, PTL

(***************************************************************************)
(* A closed logger has nothing left to write.                              *)
(***************************************************************************)
THEOREM NothingLeftBehind == Spec => []ClosedIsComplete
<1>1. IInv => ClosedIsComplete
  BY DEF IInv
<1>2. QED
  BY SinkInvariant, <1>1, PTL

(***************************************************************************)
(* The logs only grow, and are final once close() has returned.            *)
(***************************************************************************)
THEOREM SinkAppendOnly == Spec => AppendOnly
<1>1. IInv /\ [Next]_vars => IInv'
  BY NextStep, StutterStep
<1>2. ASSUME IInv, Next, closed PROVE UNCHANGED <<rows, closed>>
  <2>1. CASE ProcessEnds
    <3>1. \A f \in Files : onDisk'[f] = onDisk[f]
      BY <1>2, <2>1 DEF IInv, ClosedIsComplete, ProcessEnds
    <3>2. onDisk' = onDisk
      BY <1>2, <2>1, <3>1 DEF IInv, TypeOK, ProcessEnds
    <3>3. QED
      BY <2>1, <3>2 DEF ProcessEnds, rows
  <2>2. CASE ~ProcessEnds
    BY <1>2, <2>2
       DEF IInv, Progress, Next, Construct, Refuse, OpenExecuted, OpenBlocked, OpenFails,
           HeaderFails, LogRow, LogFails, FlushFails, CloseFails, CallRefused,
           CallOnClosedFile, Flush, Close, CloseAgain, rows
  <2>3. QED
    BY <2>1, <2>2
<1>3. ASSUME IInv, [Next]_vars
      PROVE  [/\ \A f \in Files : onDisk[f] <= onDisk'[f] /\ acked[f] \subseteq acked'[f]
              /\ closed => UNCHANGED <<rows, closed>>]_vars
  BY <1>2, <1>3, NextStep DEF Grow
<1>4. QED
  BY InitIInv, <1>1, <1>3, PTL DEF Spec, AppendOnly

=============================================================================
