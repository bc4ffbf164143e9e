---------------------------- MODULE DataAdapter ----------------------------
(***************************************************************************)
(* Contract 5, CSVDataAdapter: the constructor loads the M5 files and then *)
(* the H1 files of the snapshot, one action per file; next_event then      *)
(* hands out the M5 candles in order, one EOF, and raises ever after.      *)
(*                                                                         *)
(* A candle is its open time.  A file is the sequence of its rows, a row   *)
(* the open time it parses to or BadRow (no time, unparsable, OHLC not     *)
(* finite or inconsistent); MissingFile also stands for a file without the *)
(* required columns, NoPaths for a csv_paths entry that is absent or is    *)
(* neither a string nor a list of strings.                                 *)
(***************************************************************************)
EXTENDS Integers, Sequences

CONSTANTS
  OpenTimes,     \* open times a row may parse to
  Inputs,        \* snapshots: adapter_type and csv_paths, by timeframe
  BadRow,
  MissingFile,
  NoPaths

Timeframes == {"M5", "H1"}
Row        == OpenTimes \cup {BadRow}
File       == Seq(Row) \cup {MissingFile}

ASSUME AdapterAssumption ==
  /\ OpenTimes \subseteq Nat /\ BadRow \notin OpenTimes
  /\ MissingFile \notin Seq(Row)
  /\ NoPaths \notin Seq(File)
  /\ \A in \in Inputs : \A tf \in Timeframes : in.paths[tf] \in Seq(File) \cup {NoPaths}

VARIABLES
  input,        \* resolved_config_snapshot
  phase,        \* "new", the timeframe being loaded, "ready" or "refused"
  fileNo,       \* files of that timeframe already loaded
  stream,       \* _m5 and _h1
  index,        \* _m5_index
  eofEmitted,   \* _eof_emitted
  returned      \* what the latest next_event gave: "CANDLE", "EOF" or "RAISED"

loaded == <<input, phase, fileNo, stream>>
vars   == <<loaded, index, eofEmitted, returned>>

Init ==
  /\ input \in Inputs
  /\ phase = "new"
  /\ fileNo = 0
  /\ stream = [tf \in Timeframes |-> <<>>]
  /\ index = 0
  /\ eofEmitted = FALSE
  /\ returned = "NOTHING"

---------------------------------------------------------------------------
(* Construction.                                                           *)

LastOf(s) == s[Len(s)]

StrictlyIncreasing(s) == \A i \in 1 .. Len(s) - 1 : s[i] < s[i + 1]

WellFormed(in) ==
  in.type = "CSV" /\ \A tf \in Timeframes : in.paths[tf] # NoPaths

Paths    == input.paths[phase]
NextFile == Paths[fileNo + 1]

\* _read_csv_candles accepts the file
Readable(file) ==
  /\ file # MissingFile
  /\ \A i \in 1 .. Len(file) : file[i] # BadRow
  /\ StrictlyIncreasing(file)

\* The check across files, against all that was loaded before; an equal open
\* time is a duplicate and is refused as well.
Joins_duplicateKept(all, file) ==
  all # <<>> /\ file # <<>> => file[1] >= LastOf(all)

Joins(all, file) == all # <<>> /\ file # <<>> => file[1] > LastOf(all)

Usable(file) == Readable(file) /\ Joins(stream[phase], file)

Refuse ==
  /\ phase' = "refused"
  /\ UNCHANGED <<input, fileNo, stream, index, eofEmitted, returned>>

RefuseInput == phase = "new" /\ ~WellFormed(input) /\ Refuse

StartLoading ==
  /\ phase = "new" /\ WellFormed(input)
  /\ phase' = "M5"
  /\ UNCHANGED <<input, fileNo, stream, index, eofEmitted, returned>>

LoadFile_replaces ==
  /\ phase \in Timeframes /\ fileNo < Len(Paths)
  /\ Usable(NextFile)
  /\ stream' = [stream EXCEPT ![phase] = NextFile]
  /\ fileNo' = fileNo + 1
  /\ UNCHANGED <<input, phase, index, eofEmitted, returned>>

LoadFile ==
  /\ phase \in Timeframes /\ fileNo < Len(Paths)
  /\ Usable(NextFile)
  /\ stream' = [stream EXCEPT ![phase] = @ \o NextFile]
  /\ fileNo' = fileNo + 1
  /\ UNCHANGED <<input, phase, index, eofEmitted, returned>>

RefuseFile ==
  /\ phase \in Timeframes /\ fileNo < Len(Paths)
  /\ ~Usable(NextFile)
  /\ Refuse

FinishM5 ==
  /\ phase = "M5" /\ fileNo = Len(Paths)
  /\ phase' = "H1" /\ fileNo' = 0
  /\ UNCHANGED <<input, stream, index, eofEmitted, returned>>

\* One of the two timeframes may be empty, not both.
FinishH1 ==
  /\ phase = "H1" /\ fileNo = Len(Paths)
  /\ phase' = IF \A tf \in Timeframes : stream[tf] = <<>> THEN "refused" ELSE "ready"
  /\ UNCHANGED <<input, fileNo, stream, index, eofEmitted, returned>>

Construct ==
  RefuseInput \/ StartLoading \/ LoadFile \/ RefuseFile \/ FinishM5 \/ FinishH1

---------------------------------------------------------------------------
(* next_event.                                                             *)

EmitCandle_pastEnd ==
  /\ phase = "ready" /\ ~eofEmitted /\ index <= Len(stream["M5"])
  /\ index' = index + 1
  /\ returned' = "CANDLE"
  /\ UNCHANGED <<loaded, eofEmitted>>

EmitCandle ==
  /\ phase = "ready" /\ ~eofEmitted /\ index < Len(stream["M5"])
  /\ index' = index + 1
  /\ returned' = "CANDLE"
  /\ UNCHANGED <<loaded, eofEmitted>>

EmitEOF_flagForgotten ==
  /\ phase = "ready" /\ ~eofEmitted /\ index >= Len(stream["M5"])
  /\ returned' = "EOF"
  /\ UNCHANGED <<loaded, index, eofEmitted>>

EmitEOF ==
  /\ phase = "ready" /\ ~eofEmitted /\ index >= Len(stream["M5"])
  /\ eofEmitted' = TRUE
  /\ returned' = "EOF"
  /\ UNCHANGED <<loaded, index>>

RaiseAfterEOF ==
  /\ phase = "ready" /\ eofEmitted
  /\ returned' = "RAISED"
  /\ UNCHANGED <<loaded, index, eofEmitted>>

NextEvent == EmitCandle \/ EmitEOF \/ RaiseAfterEOF

Next == Construct \/ NextEvent

Spec == Init /\ [][Next]_vars

\* The constructor runs to its end and the harness keeps asking for events.
FairSpec == Spec /\ WF_vars(Construct) /\ WF_vars(EmitCandle \/ EmitEOF)

---------------------------------------------------------------------------
(* Properties.                                                             *)

Delivered == SubSeq(stream["M5"], 1, index)

\* Shape of the state; the pointer never runs past the loaded candles.
TypeOK ==
  /\ input \in Inputs
  /\ phase \in {"new", "ready", "refused"} \cup Timeframes
  /\ fileNo \in Nat
  /\ stream \in [Timeframes -> Seq(OpenTimes)]
  /\ index \in 0 .. Len(stream["M5"])
  /\ eofEmitted \in BOOLEAN
  /\ returned \in {"NOTHING", "CANDLE", "EOF", "RAISED"}

(* However the rows are spread over files, also with empty files between    *)
(* them, both streams are strictly chronological: no duplicate, no overlap. *)
Chronological == \A tf \in Timeframes : StrictlyIncreasing(stream[tf])

(* EOF comes only when every candle was delivered, once, and the flag that  *)
(* forbids further events is up from then on.                               *)
EOFIsLast ==
  /\ returned \in {"EOF", "RAISED"} => eofEmitted
  /\ eofEmitted => index = Len(stream["M5"])

(* An adapter that was constructed holds every row of every file it was     *)
(* given, in order: nothing is skipped at a file boundary.                  *)
RowsUpTo(paths) ==
  LET upTo[n \in 0 .. Len(paths)] == IF n = 0 THEN <<>> ELSE upTo[n - 1] \o paths[n]
  IN  upTo

RowsOf(tf) == RowsUpTo(input.paths[tf])[Len(input.paths[tf])]

LoadComplete == phase = "ready" => \A tf \in Timeframes : stream[tf] = RowsOf(tf)

(* The reader sees an abstract candle stream.                               *)
Abstract == INSTANCE CandleStream WITH delivered <- Delivered, ended <- eofEmitted

ImplementsStream == Abstract!Spec

(* A constructed adapter reaches its EOF; construction ends.                *)
ReachesEOF == <>(phase = "refused" \/ eofEmitted)

=============================================================================
