--------------------------- MODULE MandatorySink ---------------------------
(***************************************************************************)
(* Contract 15, MandatorySinkLogger: the executed-trade log and the        *)
(* blocked-candidates log of one run, under I/O errors and process death.  *)
(*                                                                         *)
(* A call writes a row into the file object's buffer and flushes it.  A    *)
(* flush that raises has written some prefix of the buffer, and the rest   *)
(* stays in the buffer, where a later flush or the interpreter's exit may  *)
(* still write it.  Rows are counted, the header is row 1, and the bytes   *)
(* on disk are counted in half rows, so that a row may be torn: row i is   *)
(* whole on disk when 2*i <= onDisk.                                       *)
(***************************************************************************)
EXTENDS Integers

CONSTANT MaxRows   \* bound on the rows of a file, for model checking

ASSUME SinkAssumption == MaxRows \in Nat \ {0}

Files == {"executed", "blocked"}

VARIABLES
  life,      \* "new", "half" (one file open), "ready", "refused" or "gone"
  handle,    \* file objects: "none", "open" or "closed"
  closed,    \* _closed
  written,   \* rows handed to the csv writer, header included
  onDisk,    \* half rows in the file
  acked,     \* history: rows whose call returned normally
  outcome    \* of the latest call: "ok", "guardrail" or "ValueError"

rows == <<written, onDisk, acked>>
vars == <<life, handle, closed, rows, outcome>>

Init ==
  /\ life = "new"
  /\ handle = [f \in Files |-> "none"]
  /\ closed = FALSE
  /\ written = [f \in Files |-> 0]
  /\ onDisk = [f \in Files |-> 0]
  /\ acked = [f \in Files |-> {}]
  /\ outcome = "ok"

---------------------------------------------------------------------------
(* Flushing, the one place where bytes reach the disk.                     *)

\* Half rows on disk after a flush of n rows that raised.
Partial(f, n) == onDisk[f] .. 2 * n - 1

\* One row more, flushed, and the call returns.
AppendRow_unflushed(f) ==
  /\ written' = [written EXCEPT ![f] = @ + 1]
  /\ acked' = [acked EXCEPT ![f] = @ \cup {written[f] + 1}]
  /\ outcome' = "ok"
  /\ UNCHANGED onDisk

AppendRow(f) ==
  /\ written' = [written EXCEPT ![f] = @ + 1]
  /\ onDisk' = [onDisk EXCEPT ![f] = 2 * (written[f] + 1)]
  /\ acked' = [acked EXCEPT ![f] = @ \cup {written[f] + 1}]
  /\ outcome' = "ok"

\* The buffered row is forgotten, although part of it may be in the file.
AppendFails_forgotten(f) ==
  /\ \E n \in Partial(f, written[f] + 1) : onDisk' = [onDisk EXCEPT ![f] = n]
  /\ outcome' = "guardrail"
  /\ UNCHANGED <<written, acked>>

\* One row more in the buffer, and the flush raises.
AppendFails(f) ==
  /\ written' = [written EXCEPT ![f] = @ + 1]
  /\ \E n \in Partial(f, written[f] + 1) : onDisk' = [onDisk EXCEPT ![f] = n]
  /\ outcome' = "guardrail"
  /\ UNCHANGED acked

---------------------------------------------------------------------------
(* Construction: validate, create the directory, open and head both files. *)

Refuse ==
  /\ life = "new"
  /\ life' = "refused" /\ outcome' = "guardrail"
  /\ UNCHANGED <<handle, closed, rows>>

OpenSink(f) ==
  /\ handle' = [handle EXCEPT ![f] = "open"]
  /\ AppendRow(f)
  /\ UNCHANGED closed

OpenExecuted == life = "new"  /\ OpenSink("executed") /\ life' = "half"
OpenBlocked  == life = "half" /\ OpenSink("blocked")  /\ life' = "ready"

\* The file cannot be opened.
OpenFails ==
  /\ life \in {"new", "half"}
  /\ life' = "refused" /\ outcome' = "guardrail"
  /\ UNCHANGED <<handle, closed, rows>>

\* The header cannot be written: the file is closed, best effort, which may
\* still write it.  The first file, if this is the second, stays open until
\* the process ends.
HeaderFails(f) ==
  /\ life = (IF f = "executed" THEN "new" ELSE "half")
  /\ written' = [written EXCEPT ![f] = 1]
  /\ \E n \in 0 .. 2 : onDisk' = [onDisk EXCEPT ![f] = n]
  /\ handle' = [handle EXCEPT ![f] = "closed"]
  /\ life' = "refused" /\ outcome' = "guardrail"
  /\ UNCHANGED <<closed, acked>>

Construct ==
  \/ Refuse \/ OpenExecuted \/ OpenBlocked \/ OpenFails
  \/ \E f \in Files : HeaderFails(f)

---------------------------------------------------------------------------
(* log_executed_trade and log_blocked_candidate.                           *)

LogRow_afterClose(f) ==
  /\ life = "ready" /\ written[f] < MaxRows
  /\ AppendRow(f)
  /\ UNCHANGED <<life, handle, closed>>

LogRow(f) ==
  /\ life = "ready" /\ ~closed /\ handle[f] = "open" /\ written[f] < MaxRows
  /\ AppendRow(f)
  /\ UNCHANGED <<life, handle, closed>>

LogFails(f) ==
  /\ life = "ready" /\ ~closed /\ handle[f] = "open" /\ written[f] < MaxRows
  /\ AppendFails(f)
  /\ UNCHANGED <<life, handle, closed>>

\* Any method but close() after close(); csv.Error before the row is buffered.
CallRefused ==
  /\ life = "ready"
  /\ outcome' = "guardrail"
  /\ UNCHANGED <<life, handle, closed, rows>>

\* After a close() that failed half way, _closed is still down but a file
\* object is closed: the call raises ValueError, which no handler expects.
CallOnClosedFile ==
  /\ life = "ready" /\ ~closed
  /\ \E f \in Files : handle[f] = "closed"
  /\ outcome' = "ValueError"
  /\ UNCHANGED <<life, handle, closed, rows>>

---------------------------------------------------------------------------
(* flush and close.                                                        *)

AllOpen == \A f \in Files : handle[f] = "open"

FlushBoth == onDisk' = [f \in Files |-> 2 * written[f]] /\ UNCHANGED <<written, acked>>

Flush ==
  /\ life = "ready" /\ ~closed /\ AllOpen
  /\ FlushBoth
  /\ outcome' = "ok"
  /\ UNCHANGED <<life, handle, closed>>

\* flush(), or the flush at the start of close(), raises at the first or the
\* second file; the first is flushed first.
FlushFails(f) ==
  /\ life = "ready" /\ ~closed /\ AllOpen
  /\ onDisk[f] < 2 * written[f]
  /\ \E n \in Partial(f, written[f]) :
       onDisk' = [g \in Files |-> IF g = f THEN n
                                  ELSE IF f = "blocked" THEN 2 * written[g] ELSE onDisk[g]]
  /\ outcome' = "guardrail"
  /\ UNCHANGED <<life, handle, closed, written, acked>>

Close ==
  /\ life = "ready" /\ ~closed /\ AllOpen
  /\ FlushBoth
  /\ handle' = [f \in Files |-> "closed"]
  /\ closed' = TRUE
  /\ outcome' = "ok"
  /\ UNCHANGED life

CloseFails_flagFirst(f) ==
  /\ life = "ready" /\ ~closed /\ AllOpen
  /\ FlushBoth
  /\ handle' = IF f = "executed" THEN [handle EXCEPT !["executed"] = "closed"]
               ELSE [g \in Files |-> "closed"]
  /\ closed' = TRUE
  /\ outcome' = "guardrail"
  /\ UNCHANGED life

\* The flush succeeds and closing a file raises: its file object is closed all
\* the same, the later one is not touched, and _closed stays down.
CloseFails(f) ==
  /\ life = "ready" /\ ~closed /\ AllOpen
  /\ FlushBoth
  /\ handle' = IF f = "executed" THEN [handle EXCEPT !["executed"] = "closed"]
               ELSE [g \in Files |-> "closed"]
  /\ outcome' = "guardrail"
  /\ UNCHANGED <<life, closed>>

CloseAgain ==
  /\ life = "ready" /\ closed
  /\ outcome' = "ok"
  /\ UNCHANGED <<life, handle, closed, rows>>

\* The process ends or is killed: what is still buffered in an open file may
\* be written, in part or not at all.
ProcessEnds ==
  /\ life # "gone" /\ life' = "gone"
  /\ onDisk' \in [Files -> 0 .. 2 * MaxRows]
  /\ \A f \in Files :
       /\ onDisk[f] <= onDisk'[f] /\ onDisk'[f] <= 2 * written[f]
       /\ handle[f] # "open" => onDisk'[f] = onDisk[f]
  /\ handle' = [f \in Files |-> "closed"]
  /\ UNCHANGED <<closed, written, acked, outcome>>

Next ==
  \/ Construct
  \/ \E f \in Files : LogRow(f) \/ LogFails(f) \/ FlushFails(f) \/ CloseFails(f)
  \/ CallRefused \/ CallOnClosedFile \/ Flush \/ Close \/ CloseAgain
  \/ ProcessEnds

Spec == Init /\ [][Next]_vars

---------------------------------------------------------------------------
(* Properties.                                                             *)

\* Shape of the state; no more bytes on disk than were ever written.
TypeOK ==
  /\ life \in {"new", "half", "ready", "refused", "gone"}
  /\ handle \in [Files -> {"none", "open", "closed"}]
  /\ closed \in BOOLEAN
  /\ written \in [Files -> 0 .. MaxRows]
  /\ onDisk \in [Files -> Nat]
  /\ \A f \in Files : onDisk[f] <= 2 * written[f]
  /\ acked \in [Files -> SUBSET Nat]
  /\ outcome \in {"ok", "guardrail", "ValueError"}

(* A row whose call returned is whole on disk and stays there, whatever      *)
(* fails or dies afterwards, and however many calls failed before it.       *)
AckedDurable == \A f \in Files : \A i \in acked[f] : 2 * i <= onDisk[f]

(* A logger that was constructed has both headers on disk: no trade can be  *)
(* logged into a file without one.                                          *)
ReadyHasHeaders == life = "ready" => \A f \in Files : onDisk[f] >= 2

(* Once close() has returned, both files are closed and hold every row ever *)
(* written, also the rows whose own call had failed.                        *)
ClosedIsComplete ==
  closed => \A f \in Files : handle[f] = "closed" /\ onDisk[f] = 2 * written[f]

(* The logs only grow, and do not change at all once close() has returned.  *)
AppendOnly ==
  [][/\ \A f \in Files : onDisk[f] <= onDisk'[f] /\ acked[f] \subseteq acked'[f]
     /\ closed => UNCHANGED <<rows, closed>>]_vars

=============================================================================
