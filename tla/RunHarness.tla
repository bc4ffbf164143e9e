----------------------------- MODULE RunHarness -----------------------------
(***************************************************************************)
(* Contract 0, run(): from the request to the candle loop, with the        *)
(* command line's choice of the output root before it, contracts 1 and 4,  *)
(* and the files the loggers of contracts 15 and 16 open in the run        *)
(* directory.                                                              *)
(*                                                                         *)
(* A run directory is named by a fresh uuid, so a run shares it with no    *)
(* other; it is the history of the opens in it, all of which truncate.     *)
(* Roots and time stamps are compared as the tokens they normalise to.     *)
(* The configuration file may be edited between its two readings.          *)
(* run() is cut off in the repository after the bias timeline is built:    *)
(* when the audit header is written, and the loop, are external.           *)
(***************************************************************************)
EXTENDS ConfigResolver, Integers, Sequences

CONSTANTS
  Requests,      \* run requests, with the --out_root option
  Sources,       \* contents the configuration file may have
  Loadable,      \* csv_paths a data adapter can be built from
  HasM5,         \* those of them with an M5 candle
  Timestamps,    \* texts datetime.fromisoformat accepts
  BaseNames,     \* base names files of a run directory may have
  SinkNames,     \* diagnostic_sinks_enabled to the base names of its entries, in order
  NoSnapshot

MandatoryLogs == <<"executed_trade_log.csv", "blocked_candidates_log.csv">>
AuditHeader   == "audit_header.json"

FirstM5Close == "first M5 close"

ASSUME HarnessAssumption ==
  /\ HasM5 \subseteq Loadable /\ Loadable \subseteq Objects
  /\ FirstM5Close \in Timestamps /\ Timestamps \cap Falsy = {}
  /\ \A r \in Requests : r.wellFormed => r.adapterType # "null"
  /\ {MandatoryLogs[1], MandatoryLogs[2], AuditHeader} \subseteq BaseNames
  /\ \A v \in DOMAIN SinkNames : SinkNames[v] \in Seq(BaseNames)

VARIABLES
  pc,         \* the step of the run that is next
  request,
  source,     \* the configuration file on disk
  root,       \* run_output_root, as run() is called with it
  snapshot,
  start,      \* evaluation_start_timestamp after both sources are consulted
  data,       \* the csv_paths the adapter has loaded
  opens,      \* the run directory: the files opened for writing in it, in order
  error       \* "none", "guardrail", or "other" for any other exception

vars == <<pc, request, source, root, snapshot, start, data, opens, error>>

Init ==
  /\ request \in Requests
  /\ source \in Sources
  /\ pc = "cli"
  /\ root = "null"
  /\ snapshot = NoSnapshot
  /\ start = "null"
  /\ data = "null"
  /\ opens = <<>>
  /\ error = "none"

Goto(step) == pc' = step /\ UNCHANGED error

Fail(kind) == pc' = "refused" /\ error' = kind

---------------------------------------------------------------------------
(* The environment and the command line.                                   *)

Envelope == [base |-> request.base, source |-> source, overrides |-> request.overrides]

\* Later edits are not read by this run.
EditConfig ==
  /\ pc \in {"cli", "requested", "identified"}
  /\ source' \in Sources
  /\ UNCHANGED <<pc, request, root, snapshot, start, data, opens, error>>

\* _get_run_output_root resolves the configuration unless it is told the root.
ChooseRoot ==
  /\ pc = "cli"
  /\ LET configured == Get(Snapshot(Envelope), "run_output_root") IN
     \/ /\ request.outRoot # "null"
        /\ root' = request.outRoot
        /\ Goto("requested")
     \/ /\ request.outRoot = "null" /\ Accepted(Envelope) /\ configured \notin {"null", ""}
        /\ root' = configured
        /\ Goto("requested")
     \/ /\ request.outRoot = "null" /\ ~Accepted(Envelope)
        /\ Fail("guardrail") /\ UNCHANGED root
     \/ /\ request.outRoot = "null" /\ Accepted(Envelope) /\ configured \in {"null", ""}
        /\ Fail("other") /\ UNCHANGED root
  /\ UNCHANGED <<request, source, snapshot, start, data, opens>>

---------------------------------------------------------------------------
(* run(), steps 1 to 4: identity, configuration, agreement.                *)

\* _validate_run_request
RequestValid == request.wellFormed /\ request.mode \in Modes \cup {"live"}

\* Contract 1: the identity of a run needs a root; its name is fresh.
IdentityCreated == root # "" /\ request.mode \in Modes \cup {"live"}

ValidateRequest ==
  /\ pc = "requested"
  /\ IF RequestValid /\ IdentityCreated THEN Goto("identified") ELSE Fail("guardrail")
  /\ UNCHANGED <<request, source, root, snapshot, start, data, opens>>

ResolveConfig ==
  /\ pc = "identified"
  /\ \/ Accepted(Envelope) /\ snapshot' = Snapshot(Envelope) /\ Goto("resolved")
     \/ ~Accepted(Envelope) /\ Fail("guardrail") /\ UNCHANGED snapshot
  /\ UNCHANGED <<request, source, root, start, data, opens>>

\* One control from two sources: they agree, unless one is silent.
SameControl(asked, configured) ==
  asked = "null" \/ configured = "null" \/ asked = configured

BoundariesAgree(snap) ==
  /\ SameControl(request.start, Get(snap, "evaluation_start_timestamp"))
  /\ SameControl(request.end, Get(snap, "evaluation_end_timestamp"))

RootAgrees_unchecked(snap) == Get(snap, "run_output_root") \notin {"null", ""}

RootAgrees(snap) ==
  /\ Get(snap, "run_output_root") \notin {"null", ""}
  /\ Get(snap, "run_output_root") = root

Agree(snap) ==
  /\ SameControl(request.mode, Get(snap, "execution_mode"))
  /\ SameControl(request.adapterType, Get(snap, "adapter_type"))
  /\ BoundariesAgree(snap)
  /\ RootAgrees(snap)

\* _resolve_evaluation_timestamps
StartOf(snap) ==
  IF request.start # "null" THEN request.start ELSE Get(snap, "evaluation_start_timestamp")

EndOf(snap) ==
  IF request.end # "null" THEN request.end ELSE Get(snap, "evaluation_end_timestamp")

CheckControls ==
  /\ pc = "resolved"
  /\ IF Agree(snapshot) THEN Goto("agreed") /\ start' = StartOf(snapshot)
     ELSE Fail("guardrail") /\ UNCHANGED start
  /\ UNCHANGED <<request, source, root, snapshot, data, opens>>

---------------------------------------------------------------------------
(* Steps 5 and 6: loggers, adapter, the start of the evaluation.           *)

\* Each name in turn is opened with "w", whoever opened it before.
Opened(names, writer) ==
  opens \o [i \in 1 .. Len(names) |-> [file |-> names[i], by |-> writer]]

\* An exception on the way: the names up to some place have been opened.
OpenedInPart(names, writer) ==
  \E n \in 0 .. Len(names) : opens' = Opened(SubSeq(names, 1, n), writer)

\* The executed log is opened first; a file whose header fails stays behind.
OpenMandatory ==
  /\ pc = "agreed"
  /\ \/ opens' = Opened(MandatoryLogs, "mandatory") /\ Goto("logging")
     \/ OpenedInPart(MandatoryLogs, "mandatory") /\ Fail("guardrail")
  /\ UNCHANGED <<request, source, root, snapshot, start, data>>

\* Only a list of sinks counts; its entries need not be different.
Sinks(snap) ==
  IF /\ snap["diagnostics_enabled"] = "true"
     /\ Get(snap, "diagnostic_sinks_enabled") \in DOMAIN SinkNames
  THEN SinkNames[Get(snap, "diagnostic_sinks_enabled")] ELSE <<>>

\* Every entry of the list, whatever file it names; an OSError of an open is
\* not turned into a guardrail violation.
OpenDiagnostics ==
  /\ pc = "logging"
  /\ \/ opens' = Opened(Sinks(snapshot), "diagnostic") /\ Goto("diagnosing")
     \/ /\ Sinks(snapshot) # <<>>
        /\ OpenedInPart(Sinks(snapshot), "diagnostic")
        /\ Fail("other")
  /\ UNCHANGED <<request, source, root, snapshot, start, data>>

\* The request's adapter_params are laid over the snapshot.
AdapterConfig == Over(request.params, snapshot)

BuildAdapter ==
  /\ pc = "diagnosing"
  /\ IF /\ Get(AdapterConfig, "adapter_type") = "CSV"
        /\ Get(AdapterConfig, "csv_paths") \in Loadable
     THEN Goto("adapted") /\ data' = Get(AdapterConfig, "csv_paths")
     ELSE Fail("guardrail") /\ UNCHANGED data
  /\ UNCHANGED <<request, source, root, snapshot, start, opens>>

\* Contract 4's context: which modes end by themselves.
IsFinite == request.mode \in FiniteModes

\* A finite run without a start is to begin at the first M5 close.
DefaultApplies == IsFinite /\ start = "null"

NoDefault == DefaultApplies /\ data \notin HasM5

SettledStart == IF DefaultApplies /\ ~NoDefault THEN FirstM5Close ELSE start

ParsesOK_startOnly == SettledStart \in Falsy \cup Timestamps

\* Both boundaries are parsed before a missing start is refused.
ParsesOK ==
  /\ SettledStart \in Falsy \cup Timestamps
  /\ EndOf(snapshot) \in Falsy \cup Timestamps

SettleStart ==
  /\ pc = "adapted"
  /\ start' = SettledStart
  /\ \/ ~NoDefault /\ ParsesOK /\ SettledStart \notin Falsy /\ Goto("settled")
     \/ ~NoDefault /\ ~ParsesOK /\ Fail("other")
     \/ (NoDefault \/ (ParsesOK /\ SettledStart \in Falsy)) /\ Fail("guardrail")
  /\ UNCHANGED <<request, source, root, snapshot, data, opens>>

---------------------------------------------------------------------------
(* The audit header; when it is called is external.                        *)

HeaderAbsent_unchecked == TRUE

HeaderAbsent == \A i \in DOMAIN opens : opens[i].file # AuditHeader

\* _write_audit_header: never over an existing file; a write that fails may
\* leave a part of the header behind.
WriteAuditHeader ==
  /\ pc = "settled"
  /\ \/ /\ HeaderAbsent
        /\ opens' = Opened(<<AuditHeader>>, "audit")
        /\ Goto("audited")
     \/ /\ HeaderAbsent
        /\ OpenedInPart(<<AuditHeader>>, "audit")
        /\ Fail("guardrail")
     \/ /\ ~HeaderAbsent
        /\ Fail("guardrail") /\ UNCHANGED opens
  /\ UNCHANGED <<request, source, root, snapshot, start, data>>

Next ==
  \/ EditConfig \/ ChooseRoot
  \/ ValidateRequest \/ ResolveConfig \/ CheckControls
  \/ OpenMandatory \/ OpenDiagnostics \/ BuildAdapter \/ SettleStart
  \/ WriteAuditHeader

Spec == Init /\ [][Next]_vars

---------------------------------------------------------------------------
(* Properties.                                                             *)

Steps == {"cli", "requested", "identified", "resolved", "agreed", "logging", "diagnosing",
          "adapted", "settled", "audited", "refused"}

\* Shape of the state; a snapshot has every default and no key but allowed ones.
TypeOK ==
  /\ pc \in Steps
  /\ request \in Requests /\ source \in Sources
  /\ snapshot # NoSnapshot =>
       DOMAIN Defaults \subseteq DOMAIN snapshot /\ DOMAIN snapshot \subseteq AllowedKeys
  /\ data \in Loadable \cup {"null"}
  /\ opens \in Seq([file : BaseNames, by : {"mandatory", "diagnostic", "audit"}])
  /\ error \in {"none", "guardrail", "other"} /\ (error # "none" <=> pc = "refused")

(* Nothing is written for a run whose request, command line and              *)
(* configuration disagree about mode, adapter, root or boundaries, although *)
(* the root was chosen from an earlier reading of a file that may have been *)
(* edited since.                                                            *)
NothingWrittenUntilAgreed ==
  opens # <<>> =>
    /\ snapshot["execution_mode"] = request.mode
    /\ request.adapterType = "CSV"
    /\ snapshot["run_output_root"] = root
    /\ SameControl(request.start, Get(snapshot, "evaluation_start_timestamp"))
    /\ SameControl(request.end, Get(snapshot, "evaluation_end_timestamp"))

(* The snapshot a run goes by resolves to itself: given as configuration    *)
(* over the same base preset, without overrides, it is accepted and gives   *)
(* the hash that the audit header records.                                  *)
SnapshotReproduces ==
  snapshot # NoSnapshot =>
    LET again == [base |-> request.base, source |-> snapshot, overrides |-> <<>>]
    IN  Accepted(again) /\ Snapshot(again) = snapshot

(* A run that gets as far as its audit header evaluates from one settled,   *)
(* parsable start, the one that every source that names a start gives.      *)
StartIsSettled ==
  pc \in {"settled", "audited"} =>
    /\ start \in Timestamps
    /\ Get(snapshot, "evaluation_start_timestamp") \in {start, "null"}
    /\ request.start \in {start, "null"}
    /\ EndOf(snapshot) \in Timestamps \cup Falsy

(* The start at the first M5 close, for a finite run that omits its start,  *)
(* is never taken: such a run has been refused by the resolver long before. *)
DefaultStartIsDead == pc = "adapted" => ~DefaultApplies

(* Neither a log of contract 15 nor the audit header is ever opened over a  *)
(* file that is there; only an entry of the configured list of sinks can    *)
(* be.  Where that list names every file once, and no log of contract 15,   *)
(* no file of the run directory is opened twice.                            *)
FilesKeptApart ==
  LET sinks == Sinks(snapshot)
      NamedOnce == \A i, j \in DOMAIN sinks : i < j => sinks[i] # sinks[j]
      NamesNoLog == \A i \in DOMAIN sinks, m \in DOMAIN MandatoryLogs :
                      sinks[i] # MandatoryLogs[m]
  IN  \A i, j \in DOMAIN opens :
        i < j /\ opens[i].file = opens[j].file =>
          /\ opens[j].by = "diagnostic"
          /\ ~(NamedOnce /\ NamesNoLog)

(* As README.md has it, mandatory audit sinks and diagnostic sinks are      *)
(* separate: no diagnostic sink is opened over a mandatory log.             *)
SinksAreSeparate ==
  \A i, j \in DOMAIN opens :
    opens[i].by = "mandatory" /\ opens[j].by = "diagnostic" => opens[i].file # opens[j].file

=============================================================================
