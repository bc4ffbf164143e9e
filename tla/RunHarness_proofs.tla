-------------------------- MODULE RunHarness_proofs --------------------------
(***************************************************************************)
(* The resolver reproduces its snapshots, and the steps of run() keep      *)
(* order: nothing is written before the sources agree, the default start   *)
(* is dead code, a file is opened again only by a diagnostic sink.         *)
(* For every request, every content of the configuration file              *)
(* and every I/O failure.  And a match of the run-config verifier means    *)
(* what it says, for every command line.                                   *)
(***************************************************************************)
EXTENDS RunConfigVerifier, TLAPS

---------------------------------------------------------------------------
(* The resolver.                                                           *)

LEMMA FreezeFacts ==
  ASSUME NEW v
  PROVE  /\ Freeze(Freeze(v)) = Freeze(v)
         /\ v \in Falsy <=> Freeze(v) \in Falsy
         /\ v \in Objects <=> Freeze(v) \in Objects
         /\ v \in Modes \cup Booleans \cup Verbosities \cup PositiveInts \cup {"null", "CSV"}
              => Freeze(v) = v
<1>1. CASE v \in DOMAIN Frozen
  BY <1>1, ResolverAssumption DEF Freeze
<1>2. CASE v \notin DOMAIN Frozen
  BY <1>2 DEF Freeze
<1>3. QED
  BY <1>1, <1>2

LEMMA SnapshotGet ==
  ASSUME NEW env, NEW k
  PROVE  /\ DOMAIN Snapshot(env) = DOMAIN Merged(env)
         /\ Get(Snapshot(env), k) = Freeze(Get(Merged(env), k))
         /\ k \in DOMAIN Merged(env) => Snapshot(env)[k] = Freeze(Merged(env)[k])
<1>1. Freeze("null") = "null"
  BY FreezeFacts
<1>2. QED
  BY <1>1 DEF Snapshot, Get

\* What validation asks for is not undone by freezing.
LEMMA FrozenStaysValid ==
  ASSUME NEW env, Valid(Merged(env))
  PROVE  Valid(Snapshot(env))
<1>1. \A k \in DOMAIN Defaults : k \in DOMAIN Merged(env)
  BY DEF Merged, Over
<1>2. /\ "diagnostics_enabled" \in DOMAIN Defaults
      /\ "diagnostic_verbosity" \in DOMAIN Defaults
      /\ "max_open_positions" \in DOMAIN Defaults
  BY DEF Defaults
<1>3. \A k : Get(Snapshot(env), k) = Freeze(Get(Merged(env), k))
  BY SnapshotGet
<1>4. /\ Get(Snapshot(env), "execution_mode") \in Modes
      /\ Get(Snapshot(env), "execution_mode") = Get(Merged(env), "execution_mode")
      /\ Get(Snapshot(env), "adapter_type") = "CSV"
      /\ Get(Snapshot(env), "csv_paths") \in Objects
  BY <1>3, FreezeFacts DEF Valid
<1>5. /\ Snapshot(env)["diagnostics_enabled"] \in Booleans
      /\ Snapshot(env)["diagnostic_verbosity"] \in Verbosities
      /\ Snapshot(env)["max_open_positions"] \in PositiveInts
  BY <1>1, <1>2, SnapshotGet, FreezeFacts DEF Valid
<1>6. /\ "execution_mode" \in DOMAIN Merged(env) /\ "execution_mode" \in DOMAIN Snapshot(env)
      /\ Snapshot(env)["execution_mode"] = Merged(env)["execution_mode"]
  <2>1. "null" \notin Modes
    BY DEF Modes, FiniteModes
  <2>2. QED
    BY <1>4, <2>1, SnapshotGet DEF Get
<1>7. Snapshot(env)["execution_mode"] \in FiniteModes =>
        /\ Get(Snapshot(env), "evaluation_start_timestamp") \notin Falsy
        /\ Get(Snapshot(env), "evaluation_end_timestamp") \notin Falsy
  BY <1>3, <1>6, FreezeFacts DEF Valid
<1>8. QED
  BY <1>4, <1>5, <1>7 DEF Valid

\* Nothing below a snapshot shows through it.
LEMMA OverSnapshot ==
  ASSUME NEW env, NEW again,
         again = [base |-> env.base, source |-> Snapshot(env), overrides |-> <<>>]
  PROVE  Merged(again) = Snapshot(env)
<1> DEFINE S == Snapshot(env)
<1>1. /\ again.base = env.base /\ again.source = S /\ again.overrides = <<>>
      /\ DOMAIN <<>> = {}
  OBVIOUS
<1>2. DOMAIN S = DOMAIN Given(env) \cup DOMAIN Defaults
  BY DEF Snapshot, Merged, Over
<1>3. DOMAIN env.base \subseteq DOMAIN Given(env)
  BY DEF Given, Over
<1>4. Over(S, env.base) = [k \in DOMAIN S |-> S[k]]
  BY <1>2, <1>3 DEF Over
<1>5. Given(again) = [k \in DOMAIN S |-> S[k]]
  BY <1>1, <1>4 DEF Given, Over
<1>6. Merged(again) = [k \in DOMAIN S |-> S[k]]
  BY <1>2, <1>5 DEF Merged, Over
<1>7. S = [k \in DOMAIN S |-> S[k]]
  BY DEF Snapshot
<1>8. QED
  BY <1>6, <1>7

\* Resolving a snapshot again accepts it and gives it back.
LEMMA SnapshotAgain ==
  ASSUME NEW env, Accepted(env), NEW again,
         again = [base |-> env.base, source |-> Snapshot(env), overrides |-> <<>>]
  PROVE  Accepted(again) /\ Snapshot(again) = Snapshot(env)
<1>1. Merged(again) = Snapshot(env)
  BY OverSnapshot
<1>2. Snapshot(again) = Snapshot(env)
  <2>1. \A k \in DOMAIN Snapshot(env) : Freeze(Snapshot(env)[k]) = Snapshot(env)[k]
    BY FreezeFacts, SnapshotGet
  <2>2. Snapshot(again) = [k \in DOMAIN Snapshot(env) |-> Snapshot(env)[k]]
    BY <1>1, <2>1 DEF Snapshot
  <2>3. QED
    BY <2>2 DEF Snapshot
<1>3. Valid(Merged(again))
  BY <1>1, FrozenStaysValid DEF Accepted
<1>4. Layers(again) = {env.base, Snapshot(env), <<>>}
  BY DEF Layers
<1>5. KeysAllowed(again)
  <2>1. DOMAIN env.base \subseteq AllowedKeys /\ DOMAIN <<>> \subseteq AllowedKeys
    BY DEF Accepted, KeysAllowed, Layers
  <2>2. DOMAIN Given(env) \subseteq AllowedKeys
    BY DEF Accepted, KeysAllowed, Layers, Given, Over
  <2>3. DOMAIN Defaults \subseteq AllowedKeys
    BY DEF Defaults, AllowedKeys
  <2>4. DOMAIN Snapshot(env) \subseteq AllowedKeys
    BY <2>2, <2>3 DEF Snapshot, Merged, Over
  <2>5. QED
    BY <1>4, <2>1, <2>4 DEF KeysAllowed
<1>6. QED
  BY <1>2, <1>3, <1>5 DEF Accepted

LEMMA SnapshotStep ==
  ASSUME SnapshotReproduces, [Next]_vars
  PROVE  SnapshotReproduces'
<1>1. UNCHANGED request
  BY DEF Next, vars, EditConfig, ChooseRoot, ValidateRequest, ResolveConfig,
              CheckControls, OpenMandatory, OpenDiagnostics, BuildAdapter, SettleStart,
              WriteAuditHeader
<1>2. CASE UNCHANGED snapshot
  BY <1>1, <1>2 DEF SnapshotReproduces
<1>3. CASE Accepted(Envelope) /\ snapshot' = Snapshot(Envelope)
  <2>1. Envelope.base = request.base
    BY DEF Envelope
  <2>2. QED
    BY <1>1, <1>3, <2>1, SnapshotAgain DEF SnapshotReproduces
<1>4. QED
  BY <1>2, <1>3
     DEF Next, vars, EditConfig, ChooseRoot, ValidateRequest, ResolveConfig,
         CheckControls, OpenMandatory, OpenDiagnostics, BuildAdapter, SettleStart,
         WriteAuditHeader

(***************************************************************************)
(* Every snapshot a run goes by resolves to itself, over the same base     *)
(* preset: the hash in the audit header can be reproduced from it.         *)
(***************************************************************************)
THEOREM SnapshotsReproduce == Spec => []SnapshotReproduces
<1>1. Init => SnapshotReproduces
  BY DEF Init, SnapshotReproduces
<1>2. SnapshotReproduces /\ [Next]_vars => SnapshotReproduces'
  BY SnapshotStep
<1>3. QED
  BY <1>1, <1>2, PTL DEF Spec

---------------------------------------------------------------------------
(* The steps of run(): what is known at each of them.                      *)

Unwritten == {"cli", "requested", "identified", "resolved", "agreed"}
Writing   == {"logging", "diagnosing", "adapted", "settled", "audited"}
Agreed    == {"agreed"} \cup Writing

Writers   == {"mandatory", "diagnostic", "audit"}
OpensType == opens \in Seq([file : BaseNames, by : Writers])

NothingYet == pc \in Unwritten => opens = <<>>

\* The request passed its validation, and the snapshot the resolver's.
Validated ==
  /\ pc \in {"identified", "resolved"} \cup Agreed => request.wellFormed /\ request.mode # "null"
  /\ pc \in {"resolved"} \cup Agreed => Valid(snapshot)

SourcesAgree == pc \in Agreed => Agree(snapshot)

StartChosen ==
  pc \in {"agreed", "logging", "diagnosing", "adapted"} => start = StartOf(snapshot)

\* The opens so far: of m mandatory logs, then of d entries of the list of
\* sinks, then of the header, which is nobody else's.
Laid(m, d, a) ==
  /\ Len(opens) = m + d + a
  /\ \A i \in 1 .. m : opens[i] = [file |-> MandatoryLogs[i], by |-> "mandatory"]
  /\ \A i \in 1 .. d : opens[m + i] = [file |-> Sinks(snapshot)[i], by |-> "diagnostic"]
  /\ a = 1 => /\ opens[m + d + 1] = [file |-> AuditHeader, by |-> "audit"]
              /\ \A i \in 1 .. m + d : opens[i].file # AuditHeader

\* How far the opens have come at each step.
LaidSoFar ==
  \E m \in 0 .. 2, d \in 0 .. Len(Sinks(snapshot)), a \in 0 .. 1 :
    /\ Laid(m, d, a)
    /\ pc \in Unwritten => m = 0
    /\ pc \in Writing => m = 2
    /\ pc \in Unwritten \cup {"logging"} => d = 0
    /\ pc \in Unwritten \cup {"logging", "diagnosing", "adapted", "settled"} => a = 0

IInv ==
  /\ request \in Requests
  /\ OpensType /\ NothingYet
  /\ Validated /\ SourcesAgree /\ StartChosen
  /\ NothingWrittenUntilAgreed
  /\ LaidSoFar

LEMMA SinksAreNames ==
  ASSUME NEW s
  PROVE  Sinks(s) \in Seq(BaseNames)
<1>1. <<>> \in Seq(BaseNames)
  OBVIOUS
<1>2. QED
  BY <1>1, HarnessAssumption DEF Sinks

LEMMA LogsAreNames ==
  /\ MandatoryLogs \in Seq(BaseNames) /\ Len(MandatoryLogs) = 2
  /\ DOMAIN MandatoryLogs = 1 .. 2 /\ MandatoryLogs[1] # MandatoryLogs[2]
<1>1. /\ MandatoryLogs[1] = "executed_trade_log.csv"
      /\ MandatoryLogs[2] = "blocked_candidates_log.csv"
  BY DEF MandatoryLogs
<1>2. "executed_trade_log.csv" \in BaseNames /\ "blocked_candidates_log.csv" \in BaseNames
  BY <1>1, HarnessAssumption
<1>3. MandatoryLogs \in Seq(BaseNames) /\ Len(MandatoryLogs) = 2
  BY <1>2 DEF MandatoryLogs
<1>4. QED
  BY <1>1, <1>3

LEMMA HeaderIsAName ==
  <<AuditHeader>> \in Seq(BaseNames) /\ Len(<<AuditHeader>>) = 1 /\ <<AuditHeader>>[1] = AuditHeader
<1>1. AuditHeader \in BaseNames
  BY HarnessAssumption
<1>2. QED
  BY <1>1

\* Agreement is what a written file may be taken to show.
LEMMA AgreementShows ==
  ASSUME NEW s, request \in Requests, request.wellFormed, request.mode # "null",
         Valid(s), Agree(s)
  PROVE  /\ s["execution_mode"] = request.mode
         /\ request.adapterType = "CSV"
         /\ s["run_output_root"] = root
         /\ SameControl(request.start, Get(s, "evaluation_start_timestamp"))
         /\ SameControl(request.end, Get(s, "evaluation_end_timestamp"))
<1>1. Get(s, "execution_mode") \in Modes /\ Get(s, "adapter_type") = "CSV"
  BY DEF Valid
<1>2. "null" \notin Modes /\ "null" # "CSV" /\ request.adapterType # "null"
  BY HarnessAssumption DEF Modes, FiniteModes
<1>3. s["execution_mode"] = request.mode
  BY <1>1, <1>2 DEF Agree, SameControl, Get
<1>4. request.adapterType = "CSV"
  BY <1>1, <1>2 DEF Agree, SameControl
<1>5. s["run_output_root"] = root
  BY DEF Agree, RootAgrees, Get
<1>6. QED
  BY <1>3, <1>4, <1>5 DEF Agree, BoundariesAgree

LEMMA AgreedShows ==
  ASSUME IInv, pc \in Agreed, UNCHANGED <<request, root, snapshot>>
  PROVE  NothingWrittenUntilAgreed'
<1>1. request.wellFormed /\ request.mode # "null" /\ Valid(snapshot) /\ Agree(snapshot)
  BY DEF IInv, Validated, SourcesAgree
<1>2. request \in Requests
  BY DEF IInv
<1>3. QED
  BY <1>1, <1>2, AgreementShows DEF NothingWrittenUntilAgreed

\* The first n of the names are opened.
Grown(names, w, n) ==
  /\ opens' \in Seq([file : BaseNames, by : Writers])
  /\ Len(opens') = Len(opens) + n
  /\ \A i \in 1 .. Len(opens) : opens'[i] = opens[i]
  /\ \A i \in 1 .. n : opens'[Len(opens) + i] = [file |-> names[i], by |-> w]

LEMMA JoinedSeq ==
  ASSUME NEW S, NEW s \in Seq(S), NEW t \in Seq(S)
  PROVE  /\ s \o t \in Seq(S) /\ Len(s \o t) = Len(s) + Len(t)
         /\ \A i \in 1 .. Len(s) : (s \o t)[i] = s[i]
         /\ \A i \in 1 .. Len(t) : (s \o t)[Len(s) + i] = t[i]
OBVIOUS

LEMMA OpenedGrows ==
  ASSUME OpensType, NEW names \in Seq(BaseNames), NEW w \in Writers,
         opens' = Opened(names, w)
  PROVE  Grown(names, w, Len(names))
<1> DEFINE added == [i \in 1 .. Len(names) |-> [file |-> names[i], by |-> w]]
<1>1. Len(names) \in Nat /\ \A i \in 1 .. Len(names) : names[i] \in BaseNames
  OBVIOUS
<1>2. \A i \in 1 .. Len(names) : [file |-> names[i], by |-> w] \in [file : BaseNames, by : Writers]
  BY <1>1
<1>3. added \in Seq([file : BaseNames, by : Writers]) /\ Len(added) = Len(names)
  BY <1>1, <1>2
<1>4. \A i \in 1 .. Len(names) : added[i] = [file |-> names[i], by |-> w]
  OBVIOUS
<1>5. opens' = opens \o added
  BY DEF Opened
<1> HIDE DEF added
<1>6. opens \in Seq([file : BaseNames, by : Writers])
  BY DEF OpensType
<1>7. /\ opens \o added \in Seq([file : BaseNames, by : Writers])
      /\ Len(opens \o added) = Len(opens) + Len(added)
      /\ \A i \in 1 .. Len(opens) : (opens \o added)[i] = opens[i]
      /\ \A i \in 1 .. Len(added) : (opens \o added)[Len(opens) + i] = added[i]
  <2> DEFINE Opens == [file : BaseNames, by : Writers]
  <2>1. opens \in Seq(Opens) /\ added \in Seq(Opens)
    BY <1>3, <1>6
  <2> HIDE DEF Opens
  <2>2. /\ opens \o added \in Seq(Opens) /\ Len(opens \o added) = Len(opens) + Len(added)
        /\ \A i \in 1 .. Len(opens) : (opens \o added)[i] = opens[i]
        /\ \A i \in 1 .. Len(added) : (opens \o added)[Len(opens) + i] = added[i]
    BY <2>1, JoinedSeq
  <2>3. QED
    BY <2>2 DEF Opens
<1>8. /\ opens' \in Seq([file : BaseNames, by : Writers])
      /\ Len(opens') = Len(opens) + Len(names)
      /\ \A i \in 1 .. Len(opens) : opens'[i] = opens[i]
      /\ \A i \in 1 .. Len(names) : opens'[Len(opens) + i] = added[i]
  BY <1>3, <1>5, <1>7, Zenon
<1>9. QED
  BY <1>4, <1>8 DEF Grown

LEMMA InPartGrows ==
  ASSUME OpensType, NEW names \in Seq(BaseNames), NEW w \in Writers, OpenedInPart(names, w)
  PROVE  \E n \in 0 .. Len(names) : Grown(names, w, n)
<1>1. PICK n \in 0 .. Len(names) : opens' = Opened(SubSeq(names, 1, n), w)
  BY DEF OpenedInPart
<1>2. /\ SubSeq(names, 1, n) \in Seq(BaseNames) /\ Len(SubSeq(names, 1, n)) = n
      /\ \A i \in 1 .. n : SubSeq(names, 1, n)[i] = names[i]
  OBVIOUS
<1>3. Grown(SubSeq(names, 1, n), w, n)
  BY <1>1, <1>2, OpenedGrows
<1>4. QED
  BY <1>2, <1>3 DEF Grown

\* The steps before anything is written leave the files alone.
LEMMA QuietStep ==
  ASSUME IInv, EditConfig \/ ChooseRoot \/ ValidateRequest \/ ResolveConfig \/ CheckControls
  PROVE  IInv'
<1> USE DEF IInv
<1>1. pc \in Unwritten /\ UNCHANGED <<opens, request>>
  BY DEF EditConfig, ChooseRoot, ValidateRequest, ResolveConfig, CheckControls, Unwritten
<1>2. opens = <<>> /\ opens' = <<>>
  BY <1>1 DEF NothingYet
<1>3. OpensType' /\ NothingYet' /\ NothingWrittenUntilAgreed'
  BY <1>2 DEF OpensType, NothingYet, NothingWrittenUntilAgreed
<1>4. LaidSoFar'
  <2>1. pc' \notin Writing
    BY DEF EditConfig, ChooseRoot, ValidateRequest, ResolveConfig, CheckControls,
           Goto, Fail, Writing
  <2>2. Laid(0, 0, 0)'
    BY <1>2 DEF Laid
  <2>3. 0 \in 0 .. Len(Sinks(snapshot)')
    BY SinksAreNames
  <2>4. QED
    BY <2>1, <2>2, <2>3 DEF LaidSoFar
<1>5. Validated' /\ SourcesAgree' /\ StartChosen'
  <2> USE DEF Goto, Fail, Agreed, Writing, Validated, SourcesAgree, StartChosen
  <2>1. CASE EditConfig
    BY <2>1 DEF EditConfig
  <2>2. CASE ChooseRoot
    BY <2>2 DEF ChooseRoot
  <2>3. CASE ValidateRequest
    <3>1. "null" \notin Modes \cup {"live"}
      BY DEF Modes, FiniteModes
    <3>2. QED
      BY <2>3, <3>1 DEF ValidateRequest, RequestValid
  <2>4. CASE ResolveConfig
    <3>1. pc = "identified" /\ (pc' = "refused" \/ (pc' = "resolved" /\ Valid(snapshot')))
      BY <2>4, FrozenStaysValid DEF ResolveConfig, Accepted
    <3>2. UNCHANGED request
      BY <1>1
    <3>3. QED
      BY <3>1, <3>2
  <2>5. CASE CheckControls
    <3>1. /\ pc = "resolved" /\ UNCHANGED <<request, root, snapshot>>
          /\ \/ pc' = "refused"
             \/ pc' = "agreed" /\ Agree(snapshot) /\ start' = StartOf(snapshot)
      BY <2>5 DEF CheckControls
    <3>2. Agree(snapshot) => Agree(snapshot)'
      BY <3>1 DEF Agree, SameControl, BoundariesAgree, RootAgrees
    <3>3. StartOf(snapshot)' = StartOf(snapshot)
      BY <3>1 DEF StartOf
    <3>4. QED
      BY <3>1, <3>2, <3>3
  <2>6. QED
    BY <2>1, <2>2, <2>3, <2>4, <2>5
<1>6. QED
  BY <1>1, <1>3, <1>4, <1>5

\* The steps after it keep what has been agreed.
LEMMA AgreementKept ==
  ASSUME IInv, pc \in Agreed, pc' \in Writing \cup {"refused"},
         UNCHANGED <<request, root, snapshot>>
  PROVE  Validated' /\ SourcesAgree' /\ NothingWrittenUntilAgreed' /\ NothingYet'
<1>1. Agree(snapshot)' <=> Agree(snapshot)
  BY DEF Agree, SameControl, BoundariesAgree, RootAgrees
<1>2. NothingWrittenUntilAgreed'
  BY AgreedShows
<1>3. Validated' /\ SourcesAgree'
  BY <1>1 DEF IInv, Validated, SourcesAgree, Agreed, Writing
<1>4. NothingYet'
  BY DEF NothingYet, Unwritten, Writing
<1>5. QED
  BY <1>2, <1>3, <1>4

\* Which opens the steps of the loggers add.
LEMMA LaidByMandatory ==
  ASSUME IInv, OpenMandatory
  PROVE  OpensType' /\ LaidSoFar'
<1>1. /\ pc = "agreed" /\ pc' \in {"logging", "refused"} /\ opens = <<>> /\ UNCHANGED snapshot
  BY DEF OpenMandatory, Goto, Fail, IInv, NothingYet, Unwritten
<1>2. \E n \in 0 .. 2 : Grown(MandatoryLogs, "mandatory", n) /\ (pc' = "logging" => n = 2)
  <2>1. OpensType /\ "mandatory" \in Writers
    BY DEF IInv, Writers
  <2>2. CASE opens' = Opened(MandatoryLogs, "mandatory")
    <3>1. Grown(MandatoryLogs, "mandatory", Len(MandatoryLogs))
      BY <2>1, <2>2, OpenedGrows, LogsAreNames
    <3>2. QED
      BY <3>1, LogsAreNames
  <2>3. CASE OpenedInPart(MandatoryLogs, "mandatory") /\ Fail("guardrail")
    BY <2>1, <2>3, InPartGrows, LogsAreNames DEF Fail
  <2>4. QED
    BY <2>2, <2>3 DEF OpenMandatory
<1>3. PICK n \in 0 .. 2 : Grown(MandatoryLogs, "mandatory", n) /\ (pc' = "logging" => n = 2)
  BY <1>2
<1>4. Laid(n, 0, 0)' /\ OpensType'
  BY <1>1, <1>3 DEF Grown, Laid, OpensType
<1>5. 0 \in 0 .. Len(Sinks(snapshot)')
  BY SinksAreNames
<1>6. QED
  BY <1>1, <1>3, <1>4, <1>5 DEF LaidSoFar, Unwritten, Writing

LEMMA LaidByDiagnostic ==
  ASSUME IInv, OpenDiagnostics
  PROVE  OpensType' /\ LaidSoFar'
<1> DEFINE sinks == Sinks(snapshot)
<1>1. /\ pc = "logging" /\ pc' \in {"diagnosing", "refused"} /\ UNCHANGED snapshot
  BY DEF OpenDiagnostics, Goto, Fail
<1>2. Sinks(snapshot)' = sinks /\ sinks \in Seq(BaseNames)
  BY <1>1, SinksAreNames
<1>3. Laid(2, 0, 0)
  BY <1>1 DEF IInv, LaidSoFar, Unwritten, Writing
<1>4. \E n \in 0 .. Len(sinks) : Grown(sinks, "diagnostic", n)
  <2>1. OpensType /\ "diagnostic" \in Writers
    BY DEF IInv, Writers
  <2>2. CASE opens' = Opened(sinks, "diagnostic")
    <3>1. Len(sinks) \in 0 .. Len(sinks)
      BY <1>2
    <3>2. QED
      BY <1>2, <2>1, <2>2, <3>1, OpenedGrows
  <2>3. CASE OpenedInPart(sinks, "diagnostic")
    BY <1>2, <2>1, <2>3, InPartGrows
  <2>4. QED
    BY <2>2, <2>3 DEF OpenDiagnostics
<1>5. PICK n \in 0 .. Len(sinks) : Grown(sinks, "diagnostic", n)
  BY <1>4
<1> HIDE DEF sinks
<1>6. Laid(2, n, 0)' /\ OpensType'
  BY <1>2, <1>3, <1>5 DEF Grown, Laid, OpensType, sinks
<1>7. QED
  BY <1>1, <1>2, <1>5, <1>6 DEF LaidSoFar, Unwritten, Writing

LEMMA LaidByHeader ==
  ASSUME IInv, WriteAuditHeader
  PROVE  OpensType' /\ LaidSoFar'
<1> DEFINE sinks == Sinks(snapshot)
<1>1. /\ pc = "settled" /\ pc' \in {"audited", "refused"} /\ UNCHANGED snapshot
  BY DEF WriteAuditHeader, Goto, Fail
<1>2. Sinks(snapshot)' = sinks /\ sinks \in Seq(BaseNames)
  BY <1>1, SinksAreNames
<1>3. PICK d \in 0 .. Len(sinks) : Laid(2, d, 0)
  BY <1>1 DEF IInv, LaidSoFar, Unwritten, Writing
<1>4. OpensType
  BY DEF IInv
<1>5. \E a \in 0 .. 1 : Laid(2, d, a)' /\ OpensType'
  <2>1. CASE opens' = opens
    BY <1>2, <1>3, <1>4, <2>1 DEF Laid, OpensType
  <2>2. CASE HeaderAbsent /\ \E n \in 0 .. 1 : Grown(<<AuditHeader>>, "audit", n)
    <3>1. PICK n \in 0 .. 1 : Grown(<<AuditHeader>>, "audit", n)
      BY <2>2
    <3> HIDE DEF sinks
    <3>2. DOMAIN opens = 1 .. Len(opens) /\ Len(opens) = 2 + d /\ Len(opens) \in Nat
      BY <1>3, <1>4 DEF OpensType, Laid
    <3>3. \A i \in 1 .. 2 + d : opens'[i] = opens[i] /\ opens'[i].file # AuditHeader
      BY <2>2, <3>1, <3>2 DEF HeaderAbsent, Grown
    <3>4. Len(opens') = 2 + d + n /\ (n = 1 => opens'[2 + d + 1] = [file |-> AuditHeader, by |-> "audit"])
      BY <3>1, <3>2 DEF Grown
    <3>5. OpensType'
      BY <3>1 DEF OpensType, Grown
    <3>6. QED
      BY <1>2, <1>3, <3>3, <3>4, <3>5 DEF Laid, sinks
  <2>3. CASE HeaderAbsent /\ opens' = Opened(<<AuditHeader>>, "audit")
    <3>1. "audit" \in Writers
      BY DEF Writers
    <3>2. Grown(<<AuditHeader>>, "audit", Len(<<AuditHeader>>))
      BY <1>4, <2>3, <3>1, HeaderIsAName, OpenedGrows
    <3>3. Grown(<<AuditHeader>>, "audit", 1)
      BY <3>2, HeaderIsAName
    <3>4. QED
      BY <2>2, <2>3, <3>3
  <2>4. CASE HeaderAbsent /\ OpenedInPart(<<AuditHeader>>, "audit")
    <3>1. "audit" \in Writers
      BY DEF Writers
    <3>2. \E n \in 0 .. Len(<<AuditHeader>>) : Grown(<<AuditHeader>>, "audit", n)
      BY <1>4, <2>4, <3>1, HeaderIsAName, InPartGrows
    <3>3. \E n \in 0 .. 1 : Grown(<<AuditHeader>>, "audit", n)
      BY <3>2, HeaderIsAName
    <3>4. QED
      BY <2>2, <2>4, <3>3
  <2>5. QED
    BY <2>1, <2>3, <2>4 DEF WriteAuditHeader
<1>6. QED
  BY <1>1, <1>2, <1>5 DEF LaidSoFar, Unwritten, Writing

LEMMA LoggerStep ==
  ASSUME IInv, OpenMandatory \/ OpenDiagnostics
  PROVE  IInv'
<1> USE DEF IInv
<1>1. /\ pc \in {"agreed", "logging"} /\ pc' \in {"logging", "diagnosing", "refused"}
      /\ UNCHANGED <<request, root, snapshot, start>>
  BY DEF OpenMandatory, OpenDiagnostics, Goto, Fail
<1>2. OpensType' /\ LaidSoFar'
  BY LaidByMandatory, LaidByDiagnostic
<1>3. Validated' /\ SourcesAgree' /\ NothingWrittenUntilAgreed' /\ NothingYet'
  BY <1>1, AgreementKept DEF Agreed, Writing
<1>4. StartChosen'
  BY <1>1 DEF StartChosen, StartOf
<1>5. QED
  BY <1>1, <1>2, <1>3, <1>4

LEMMA AdapterStep ==
  ASSUME IInv, BuildAdapter \/ SettleStart
  PROVE  IInv'
<1> USE DEF IInv
<1>1. /\ pc \in {"diagnosing", "adapted"} /\ pc' \in {"adapted", "settled", "refused"}
      /\ UNCHANGED <<request, root, snapshot, opens>>
      /\ pc' = "adapted" => pc = "diagnosing" /\ UNCHANGED start
  BY DEF BuildAdapter, SettleStart, Goto, Fail
<1>2. OpensType' /\ LaidSoFar'
  <2>1. PICK d \in 0 .. Len(Sinks(snapshot)) : Laid(2, d, 0)
    BY <1>1 DEF LaidSoFar, Unwritten, Writing
  <2>2. Laid(2, d, 0)' /\ d \in 0 .. Len(Sinks(snapshot)')
    BY <1>1, <2>1 DEF Laid
  <2>3. QED
    BY <1>1, <2>2 DEF OpensType, LaidSoFar, Unwritten, Writing
<1>3. Validated' /\ SourcesAgree' /\ NothingWrittenUntilAgreed' /\ NothingYet'
  BY <1>1, AgreementKept DEF Agreed, Writing
<1>4. StartChosen'
  BY <1>1 DEF StartChosen, StartOf
<1>5. QED
  BY <1>1, <1>2, <1>3, <1>4

LEMMA HeaderStep ==
  ASSUME IInv, WriteAuditHeader
  PROVE  IInv'
<1> USE DEF IInv
<1>1. /\ pc = "settled" /\ pc' \in {"audited", "refused"}
      /\ UNCHANGED <<request, root, snapshot, start>>
  BY DEF WriteAuditHeader, Goto, Fail
<1>2. OpensType' /\ LaidSoFar'
  BY LaidByHeader
<1>3. Validated' /\ SourcesAgree' /\ NothingWrittenUntilAgreed' /\ NothingYet'
  BY <1>1, AgreementKept DEF Agreed, Writing
<1>4. StartChosen'
  BY <1>1 DEF StartChosen
<1>5. QED
  BY <1>1, <1>2, <1>3, <1>4

LEMMA InitIInv == Init => IInv
<1> SUFFICES ASSUME Init PROVE IInv
  OBVIOUS
<1>1. pc = "cli" /\ request \in Requests /\ opens = <<>>
  BY DEF Init
<1>2. OpensType /\ NothingYet /\ NothingWrittenUntilAgreed
  BY <1>1 DEF OpensType, NothingYet, NothingWrittenUntilAgreed
<1>3. LaidSoFar
  <2>1. Laid(0, 0, 0) /\ 0 \in 0 .. Len(Sinks(snapshot))
    BY <1>1, SinksAreNames DEF Laid
  <2>2. QED
    BY <1>1, <2>1 DEF LaidSoFar, Writing
<1>4. Validated /\ SourcesAgree /\ StartChosen
  BY <1>1 DEF Validated, SourcesAgree, StartChosen, Agreed, Writing
<1>5. QED
  BY <1>1, <1>2, <1>3, <1>4 DEF IInv

\* What the invariant says of the opens reads nothing else but the snapshot.
LEMMA LaidUnchanged ==
  ASSUME LaidSoFar, UNCHANGED <<pc, snapshot, opens>>
  PROVE  LaidSoFar'
BY DEF LaidSoFar, Laid, Sinks

LEMMA StutterIInv == IInv /\ UNCHANGED vars => IInv'
<1> SUFFICES ASSUME IInv, UNCHANGED vars PROVE IInv'
  OBVIOUS
<1>1. LaidSoFar'
  BY LaidUnchanged DEF IInv, vars
<1>2. QED
  BY <1>1 DEF vars, IInv, OpensType, NothingYet, Validated, SourcesAgree, StartChosen,
       NothingWrittenUntilAgreed, Agree, SameControl, BoundariesAgree, RootAgrees, StartOf

LEMMA RunStep ==
  ASSUME IInv, [Next]_vars
  PROVE  IInv'
BY QuietStep, LoggerStep, AdapterStep, HeaderStep, StutterIInv DEF Next

LEMMA RunInvariant == Spec => []IInv
<1>1. IInv /\ [Next]_vars => IInv'
  BY RunStep
<1>2. QED
  BY InitIInv, <1>1, PTL DEF Spec

(***************************************************************************)
(* No file is touched for a run whose sources disagree, also when the      *)
(* configuration file changes between its two readings.                    *)
(***************************************************************************)
THEOREM AgreementBeforeWriting == Spec => []NothingWrittenUntilAgreed
<1>1. IInv => NothingWrittenUntilAgreed
  BY DEF IInv
<1>2. QED
  BY RunInvariant, <1>1, PTL

LEMMA ApartShown ==
  ASSUME IInv
  PROVE  FilesKeptApart
<1> DEFINE sinks == Sinks(snapshot)
           NamedOnce == \A i, j \in DOMAIN sinks : i < j => sinks[i] # sinks[j]
           NamesNoLog == \A i \in DOMAIN sinks, m \in DOMAIN MandatoryLogs :
                           sinks[i] # MandatoryLogs[m]
<1>1. SUFFICES ASSUME NEW i \in DOMAIN opens, NEW j \in DOMAIN opens,
                      i < j, opens[i].file = opens[j].file
               PROVE  opens[j].by = "diagnostic" /\ ~(NamedOnce /\ NamesNoLog)
  BY DEF FilesKeptApart
<1>2. PICK m \in 0 .. 2, d \in 0 .. Len(sinks), a \in 0 .. 1 :
        Laid(m, d, a)
  BY DEF IInv, LaidSoFar
<1>3. /\ sinks \in Seq(BaseNames) /\ DOMAIN sinks = 1 .. Len(sinks) /\ Len(sinks) \in Nat
      /\ DOMAIN MandatoryLogs = 1 .. 2 /\ MandatoryLogs[1] # MandatoryLogs[2]
  BY SinksAreNames, LogsAreNames
<1>4. /\ DOMAIN opens = 1 .. Len(opens) /\ Len(opens) = m + d + a /\ Len(opens) \in Nat
      /\ i \in 1 .. m + d + a /\ j \in 1 .. m + d + a
  BY <1>2 DEF IInv, OpensType, Laid
<1>5. j > m
  <2>1. SUFFICES ASSUME j <= m PROVE FALSE
    BY <1>4
  <2>2. i = 1 /\ j = 2 /\ i \in 1 .. m /\ j \in 1 .. m
    BY <1>1, <1>4, <2>1
  <2>3. /\ opens[i] = [file |-> MandatoryLogs[i], by |-> "mandatory"]
        /\ opens[j] = [file |-> MandatoryLogs[j], by |-> "mandatory"]
    BY <1>2, <2>2 DEF Laid
  <2>4. opens[i].file = MandatoryLogs[1] /\ opens[j].file = MandatoryLogs[2]
    BY <2>2, <2>3
  <2>5. QED
    BY <1>1, <1>3, <2>4
<1>6. j <= m + d
  <2>1. SUFFICES ASSUME j > m + d PROVE FALSE
    BY <1>4
  <2>2. a = 1 /\ j = m + d + 1 /\ i \in 1 .. m + d
    BY <1>1, <1>4, <2>1
  <2>3. opens[j].file = AuditHeader /\ opens[i].file # AuditHeader
    BY <1>2, <2>2 DEF Laid
  <2>4. QED
    BY <1>1, <2>3
<1>7. PICK b \in 1 .. d : j = m + b
  BY <1>4, <1>5, <1>6
<1>8. opens[j] = [file |-> sinks[b], by |-> "diagnostic"] /\ b \in DOMAIN sinks
  BY <1>2, <1>3, <1>7 DEF Laid
<1>9. CASE i <= m
  <2>1. i \in 1 .. m /\ i \in DOMAIN MandatoryLogs
    BY <1>3, <1>4, <1>9
  <2>2. opens[i] = [file |-> MandatoryLogs[i], by |-> "mandatory"]
    BY <1>2, <2>1 DEF Laid
  <2>3. opens[i].file = MandatoryLogs[i]
    BY <2>2
  <2>4. QED
    BY <1>1, <1>8, <2>1, <2>3
<1>10. CASE i > m
  <2>1. PICK c \in 1 .. d : i = m + c
    BY <1>1, <1>4, <1>6, <1>10
  <2>2. opens[i] = [file |-> sinks[c], by |-> "diagnostic"]
    BY <1>2, <2>1 DEF Laid
  <2>3. c \in DOMAIN sinks /\ c < b
    BY <1>1, <1>3, <1>7, <2>1
  <2>4. opens[i].file = sinks[c]
    BY <2>2
  <2>5. QED
    BY <1>1, <1>8, <2>3, <2>4
<1>11. QED
  BY <1>4, <1>9, <1>10

(***************************************************************************)
(* A second open of a file is always that of an entry of the list of sinks;*)
(* where the list names each file once, and no mandatory log, there is     *)
(* none: for every configured list, and whichever open fails.              *)
(***************************************************************************)
THEOREM FilesApart == Spec => []FilesKeptApart
<1>1. IInv => FilesKeptApart
  BY ApartShown
<1>2. QED
  BY RunInvariant, <1>1, PTL

LEMMA DeadShown ==
  ASSUME IInv
  PROVE  DefaultStartIsDead
<1>1. SUFFICES ASSUME IInv, pc = "adapted", DefaultApplies PROVE FALSE
  BY DEF DefaultStartIsDead
<1>2. request.mode \in FiniteModes /\ start = "null" /\ start = StartOf(snapshot)
  BY <1>1 DEF IInv, StartChosen, DefaultApplies, IsFinite
<1>3. Valid(snapshot) /\ Agree(snapshot) /\ request.wellFormed /\ request.mode # "null"
  BY <1>1 DEF IInv, Validated, SourcesAgree, Agreed, Writing
<1>4. snapshot["execution_mode"] = request.mode
  BY <1>1, <1>3, AgreementShows DEF IInv
<1>5. Get(snapshot, "evaluation_start_timestamp") \notin Falsy
  BY <1>2, <1>3, <1>4 DEF Valid
<1>6. Get(snapshot, "evaluation_start_timestamp") = "null"
  BY <1>2 DEF StartOf
<1>7. QED
  BY <1>5, <1>6 DEF Falsy

(***************************************************************************)
(* The code that would start a finite run at its first M5 close is never   *)
(* reached with anything to do.                                            *)
(***************************************************************************)
THEOREM DefaultStartNeverApplies == Spec => []DefaultStartIsDead
<1>1. IInv => DefaultStartIsDead
  BY DeadShown
<1>2. QED
  BY RunInvariant, <1>1, PTL

LEMMA SettleStep ==
  ASSUME IInv, SettleStart
  PROVE  StartIsSettled'
<1>1. SUFFICES ASSUME pc' = "settled" PROVE StartIsSettled'
  BY DEF SettleStart, Goto, Fail, StartIsSettled
<1>2. pc = "adapted" /\ UNCHANGED <<request, snapshot>>
  BY DEF SettleStart
<1>3. start = StartOf(snapshot) /\ Valid(snapshot) /\ Agree(snapshot)
      /\ request.wellFormed /\ request.mode # "null" /\ request \in Requests
  BY <1>2 DEF IInv, StartChosen, Validated, SourcesAgree, Agreed, Writing
<1>4. ~DefaultApplies
  <2>1. SUFFICES ASSUME DefaultApplies PROVE FALSE
    OBVIOUS
  <2>2. request.mode \in FiniteModes /\ StartOf(snapshot) = "null"
    BY <1>3, <2>1 DEF DefaultApplies, IsFinite
  <2>3. snapshot["execution_mode"] = request.mode
    BY <1>3, AgreementShows
  <2>4. Get(snapshot, "evaluation_start_timestamp") \notin Falsy
    BY <1>3, <2>2, <2>3 DEF Valid
  <2>5. Get(snapshot, "evaluation_start_timestamp") = "null"
    BY <2>2 DEF StartOf
  <2>6. QED
    BY <2>4, <2>5 DEF Falsy
<1>5. SettledStart = start
  BY <1>4 DEF SettledStart
<1>6. start' = start /\ ParsesOK /\ start \notin Falsy
  BY <1>1, <1>5 DEF SettleStart, Fail, Goto
<1>7. start \in Timestamps /\ EndOf(snapshot) \in Timestamps \cup Falsy
  BY <1>5, <1>6 DEF ParsesOK
<1>8. /\ Get(snapshot, "evaluation_start_timestamp") \in {start, "null"}
      /\ request.start \in {start, "null"}
  BY <1>3 DEF StartOf, Agree, BoundariesAgree, SameControl
<1>9. EndOf(snapshot)' = EndOf(snapshot)
  BY <1>2 DEF EndOf
<1>10. Get(snapshot, "evaluation_start_timestamp")' = Get(snapshot, "evaluation_start_timestamp")
  BY <1>2
<1>11. QED
  BY <1>2, <1>6, <1>7, <1>8, <1>9, <1>10 DEF StartIsSettled

LEMMA StartStep ==
  ASSUME IInv, StartIsSettled, [Next]_vars
  PROVE  StartIsSettled'
<1>1. CASE SettleStart
  BY <1>1, SettleStep
<1>2. CASE WriteAuditHeader \/ UNCHANGED vars
  <2>1. UNCHANGED <<request, snapshot, start>> /\ (pc' \in {"settled", "audited"} => pc \in {"settled", "audited"})
    BY <1>2 DEF WriteAuditHeader, vars
  <2>2. EndOf(snapshot)' = EndOf(snapshot)
    BY <2>1 DEF EndOf
  <2>3. QED
    BY <2>1, <2>2 DEF StartIsSettled
<1>3. CASE \/ EditConfig \/ ChooseRoot \/ ValidateRequest \/ ResolveConfig
           \/ CheckControls \/ OpenMandatory \/ OpenDiagnostics \/ BuildAdapter
  <2>1. pc' \notin {"settled", "audited"}
    BY <1>3 DEF EditConfig, ChooseRoot, ValidateRequest, ResolveConfig, CheckControls,
                OpenMandatory, OpenDiagnostics, BuildAdapter, Goto, Fail
  <2>2. QED
    BY <2>1 DEF StartIsSettled
<1>4. QED
  BY <1>1, <1>2, <1>3 DEF Next

(***************************************************************************)
(* A run that reaches its audit header has one settled, parsable start.    *)
(***************************************************************************)
THEOREM StartSettled == Spec => []StartIsSettled
<1>1. Init => StartIsSettled
  BY DEF Init, StartIsSettled
<1>2. IInv /\ StartIsSettled /\ [Next]_vars => StartIsSettled'
  BY StartStep
<1>3. QED
  BY RunInvariant, <1>1, <1>2, PTL DEF Spec

LEMMA SnapshotKeys ==
  ASSUME NEW env, Accepted(env)
  PROVE  DOMAIN Defaults \subseteq DOMAIN Snapshot(env) /\ DOMAIN Snapshot(env) \subseteq AllowedKeys
<1>1. DOMAIN Given(env) \subseteq AllowedKeys
  BY DEF Accepted, KeysAllowed, Layers, Given, Over
<1>2. DOMAIN Defaults \subseteq AllowedKeys
  BY DEF Defaults, AllowedKeys
<1>3. DOMAIN Snapshot(env) = DOMAIN Given(env) \cup DOMAIN Defaults
  BY DEF Snapshot, Merged, Over
<1>4. QED
  BY <1>1, <1>2, <1>3

LEMMA TypeStep ==
  ASSUME TypeOK, [Next]_vars
  PROVE  TypeOK'
<1> DEFINE Shape == snapshot # NoSnapshot =>
      DOMAIN Defaults \subseteq DOMAIN snapshot /\ DOMAIN snapshot \subseteq AllowedKeys
         Ending == error \in {"none", "guardrail", "other"} /\ (error # "none" <=> pc = "refused")
<1> USE DEF Goto, Fail
<1>1. pc' \in Steps /\ Ending'
  BY DEF TypeOK, Steps, Next, vars, EditConfig, ChooseRoot, ValidateRequest,
     ResolveConfig, CheckControls, OpenMandatory, OpenDiagnostics, BuildAdapter,
     SettleStart, WriteAuditHeader
<1>2. request' \in Requests /\ source' \in Sources
  BY DEF TypeOK, Next, vars, EditConfig, ChooseRoot, ValidateRequest,
     ResolveConfig, CheckControls, OpenMandatory, OpenDiagnostics, BuildAdapter,
     SettleStart, WriteAuditHeader
<1>3. Shape'
  <2>1. CASE UNCHANGED snapshot
    BY <2>1 DEF TypeOK
  <2>2. CASE Accepted(Envelope) /\ snapshot' = Snapshot(Envelope)
    BY <2>2, SnapshotKeys
  <2>3. QED
    BY <2>1, <2>2 DEF Next, vars, EditConfig, ChooseRoot, ValidateRequest,
       ResolveConfig, CheckControls, OpenMandatory, OpenDiagnostics, BuildAdapter,
       SettleStart, WriteAuditHeader
<1>4. data' \in Loadable \cup {"null"}
  BY DEF TypeOK, Next, vars, EditConfig, ChooseRoot, ValidateRequest,
     ResolveConfig, CheckControls, OpenMandatory, OpenDiagnostics, BuildAdapter,
     SettleStart, WriteAuditHeader
<1>5. opens' \in Seq([file : BaseNames, by : Writers])
  <2>1. OpensType
    BY DEF TypeOK, OpensType, Writers
  <2>2. /\ MandatoryLogs \in Seq(BaseNames) /\ Sinks(snapshot) \in Seq(BaseNames)
        /\ <<AuditHeader>> \in Seq(BaseNames)
    BY LogsAreNames, SinksAreNames, HeaderIsAName
  <2>3. \/ opens' = opens
        \/ \E names \in Seq(BaseNames) : \E w \in Writers :
             opens' = Opened(names, w) \/ OpenedInPart(names, w)
    BY <2>2 DEF Writers, Next, vars, EditConfig, ChooseRoot, ValidateRequest,
       ResolveConfig, CheckControls, OpenMandatory, OpenDiagnostics, BuildAdapter,
       SettleStart, WriteAuditHeader
  <2>4. CASE opens' = opens
    BY <2>1, <2>4 DEF OpensType
  <2>5. ASSUME NEW names \in Seq(BaseNames), NEW w \in Writers,
               opens' = Opened(names, w) \/ OpenedInPart(names, w)
        PROVE  opens' \in Seq([file : BaseNames, by : Writers])
    BY <2>1, <2>5, OpenedGrows, InPartGrows DEF Grown
  <2>6. QED
    BY <2>3, <2>4, <2>5
<1>6. QED
  BY <1>1, <1>2, <1>3, <1>4, <1>5 DEF TypeOK, Writers

(***************************************************************************)
(* Type correctness: in particular, a snapshot has every default and no    *)
(* key but allowed ones.                                                   *)
(***************************************************************************)
THEOREM TypeCorrect == Spec => []TypeOK
<1>1. Init => TypeOK
  BY DEF Init, TypeOK, Steps
<1>2. TypeOK /\ [Next]_vars => TypeOK'
  BY TypeStep
<1>3. QED
  BY <1>1, <1>2, PTL DEF Spec

---------------------------------------------------------------------------
(* The verifier.                                                           *)

\* A match compares two snapshots, and nothing moves after it.
Matched ==
  verdict = "match" =>
    RunIsOver /\ Accepted(EnvelopeOf(asked)) /\ snapshot = Snapshot(EnvelopeOf(asked))

LEMMA MatchedShows ==
  ASSUME Matched
  PROVE  MatchMeansSameSettings
<1> DEFINE env   == EnvelopeOf(asked)
           named == Content(ConfigOf(asked))
<1>1. SUFFICES ASSUME snapshot = Snapshot(env)
               PROVE  MatchMeansSameSettings
  BY DEF Matched, MatchMeansSameSettings
<1>2. env.base = Preset /\ env.source = named /\ env.overrides = Overrides(asked)
  BY DEF EnvelopeOf
<1>3. /\ DOMAIN Overrides(asked) \subseteq {"run_output_root"}
      /\ \A k \in DOMAIN Overrides(asked) : Overrides(asked)[k] = OutRoot(asked)
  <2>1. CASE Overrides(asked) = <<>>
    <3>1. DOMAIN Overrides(asked) = {}
      BY <2>1
    <3>2. QED
      BY <3>1
  <2>2. CASE Overrides(asked) = [run_output_root |-> OutRoot(asked)]
    <3>1. DOMAIN Overrides(asked) = {"run_output_root"}
      BY <2>2
    <3>2. Overrides(asked)["run_output_root"] = OutRoot(asked)
      BY <2>2
    <3>3. QED
      BY <3>1, <3>2
  <2>3. QED
    BY <2>1, <2>2 DEF Overrides
<1>4. /\ DOMAIN Given(env) = DOMAIN Overrides(asked) \cup DOMAIN named \cup DOMAIN Preset
      /\ \A k \in DOMAIN Given(env) :
           Given(env)[k] = IF k \in DOMAIN Overrides(asked) THEN Overrides(asked)[k]
                           ELSE IF k \in DOMAIN named THEN named[k] ELSE Preset[k]
  BY <1>2 DEF Given, Over
<1>5. /\ DOMAIN snapshot = DOMAIN Given(env) \cup DOMAIN Defaults
      /\ \A k \in DOMAIN snapshot :
           snapshot[k] = Freeze(IF k \in DOMAIN Given(env) THEN Given(env)[k] ELSE Defaults[k])
  BY <1>1 DEF Snapshot, Merged, Over
<1>6. \A k \in DOMAIN named :
         \/ snapshot[k] = Freeze(named[k])
         \/ k = "run_output_root" /\ snapshot[k] = Freeze(OutRoot(asked))
  BY <1>3, <1>4, <1>5
<1>7. \A k \in DOMAIN snapshot \ DOMAIN named :
         \/ k \in DOMAIN Preset /\ snapshot[k] = Freeze(Preset[k])
         \/ k \in DOMAIN Defaults /\ snapshot[k] = Freeze(Defaults[k])
         \/ k = "run_output_root" /\ snapshot[k] = Freeze(OutRoot(asked))
  BY <1>3, <1>4, <1>5
<1>8. QED
  BY <1>6, <1>7 DEF MatchMeansSameSettings

(***************************************************************************)
(* When the verifier reports a match, the file it was given holds the      *)
(* settings the run was executed with: for every command line, readable or *)
(* not, and every edit of the file.                                        *)
(***************************************************************************)
THEOREM MatchesAreMeant == VerifierSpec => []MatchMeansSameSettings
<1>1. VerifierInit => Matched
  BY DEF VerifierInit, Matched
<1>2. Matched /\ [VerifierNext]_<<vars, verifierVars>> => Matched'
  <2>1. SUFFICES ASSUME Matched, [VerifierNext]_<<vars, verifierVars>>, verdict' = "match"
                 PROVE  Matched'
    BY DEF Matched
  <2>2. CASE VerifyRun
    <3>1. RunIsOver /\ UNCHANGED <<pc, source, snapshot>> /\ VerdictOf(asked') = "match"
      BY <2>1, <2>2 DEF VerifyRun, vars
    <3>2. Accepted(EnvelopeOf(asked')) /\ snapshot = Snapshot(EnvelopeOf(asked'))
      BY <3>1 DEF VerdictOf, SameDigest
    <3>3. EnvelopeOf(asked)' = EnvelopeOf(asked')
      BY <3>1 DEF EnvelopeOf, Content
    <3>4. QED
      BY <3>1, <3>2, <3>3 DEF Matched, RunIsOver
  <2>3. CASE Next /\ UNCHANGED verifierVars
    <3>1. verdict = "match" /\ RunIsOver
      BY <2>1, <2>3 DEF Matched, verifierVars
    <3>2. QED
      BY <2>3, <3>1 DEF RunIsOver, Next, EditConfig, ChooseRoot, ValidateRequest,
         ResolveConfig, CheckControls, OpenMandatory, OpenDiagnostics, BuildAdapter,
         SettleStart, WriteAuditHeader
  <2>4. CASE EditLater
    BY <2>1, <2>4 DEF EditLater
  <2>5. CASE UNCHANGED <<vars, verifierVars>>
    <3>1. UNCHANGED <<pc, source, snapshot, asked, verdict>>
      BY <2>5 DEF vars, verifierVars
    <3>2. EnvelopeOf(asked)' = EnvelopeOf(asked)
      BY <3>1 DEF EnvelopeOf, Content
    <3>3. QED
      BY <2>1, <3>1, <3>2 DEF Matched, RunIsOver
  <2>6. QED
    BY <2>1, <2>2, <2>3, <2>4, <2>5 DEF VerifierNext
<1>3. Matched => MatchMeansSameSettings
  BY MatchedShows
<1>4. QED
  BY <1>1, <1>2, <1>3, PTL DEF VerifierSpec

---------------------------------------------------------------------------
(* A run that nobody touched.                                              *)

Resolved == {"resolved"} \cup Agreed

\* The settings a run goes by are those of the file as it still is, and the
\* root its command line gave is not empty.
Untouched ==
  /\ edited => RunIsOver
  /\ pc \in Resolved /\ ~edited => Accepted(Envelope) /\ snapshot = Snapshot(Envelope)
  /\ pc \notin {"cli", "refused"} /\ request.outRoot # "null" => root = request.outRoot
  /\ pc \in {"identified"} \cup Resolved => root # ""

\* The verdict is about the state the verifier found, which stays as it was.
Judged ==
  IF verdict = "none" THEN asked = <<>> ELSE RunIsOver /\ verdict = VerdictOf(asked)

\* Where the words stand on a command line like the run's.
LEMMA WordsOfUsage ==
  ASSUME NEW a, NEW b, a # Option, b # Option, NEW line, NEW out,
         line = <<a, b>> \/ line = <<a, b, Option, out>>
  PROVE  /\ Words(line) # {} /\ RunOf(line) = a /\ ConfigOf(line) = b
         /\ line = <<a, b>> => OutRoot(line) = "null"
         /\ line = <<a, b, Option, out>> => OutRoot(line) = out
<1> DEFINE words == Words(line)
<1>1. /\ DOMAIN line \subseteq 1 .. 4 /\ {1, 2} \subseteq DOMAIN line
      /\ line[1] = a /\ line[2] = b
      /\ line = <<a, b>> => DOMAIN line = 1 .. 2
      /\ line = <<a, b, Option, out>> =>
           DOMAIN line = 1 .. 4 /\ line[3] = Option /\ line[4] = out /\ Len(line) = 4
  OBVIOUS
<1>2. words \subseteq 1 .. 4 /\ 1 \in words /\ 2 \in words
  BY <1>1 DEF Words
<1>3. First(words) = 1
  BY <1>2 DEF First
<1>4. First(words \ {1}) = 2 /\ words \ {1} # {}
  BY <1>2 DEF First
<1>5. RunOf(line) = a /\ ConfigOf(line) = b
  BY <1>1, <1>3, <1>4 DEF RunOf, ConfigOf
<1>6. ASSUME line = <<a, b>> PROVE OutRoot(line) = "null"
  <2>1. DOMAIN line \ words = {}
    BY <1>1, <1>2, <1>6
  <2>2. QED
    BY <2>1 DEF OutRoot
<1>7. ASSUME line = <<a, b, Option, out>> PROVE OutRoot(line) = out
  <2>1. /\ DOMAIN line \ words \subseteq 3 .. 4 /\ 3 \in DOMAIN line \ words
    BY <1>1, <1>2, <1>7 DEF Words
  <2>2. First(DOMAIN line \ words) = 3
    BY <2>1 DEF First
  <2>3. QED
    BY <1>1, <1>7, <2>1, <2>2 DEF OutRoot
<1>8. QED
  BY <1>2, <1>5, <1>6, <1>7

LEMMA UntouchedStep ==
  ASSUME Untouched, [VerifierNext]_<<vars, verifierVars>>
  PROVE  Untouched'
<1> USE DEF Goto, Fail, RunIsOver
<1>1. CASE UNCHANGED <<vars, verifierVars>> \/ VerifyRun
  <2>1. UNCHANGED <<pc, request, source, root, snapshot, edited>>
    BY <1>1 DEF VerifyRun, vars, verifierVars
  <2>2. Envelope' = Envelope
    BY <2>1 DEF Envelope
  <2>3. QED
    BY <2>1, <2>2 DEF Untouched
<1>2. CASE EditLater
  BY <1>2 DEF EditLater, Untouched
<1>3. CASE Next /\ UNCHANGED verifierVars
  <2>1. ~edited /\ ~edited'
    BY <1>3 DEF Untouched, verifierVars, Next, EditConfig, ChooseRoot, ValidateRequest,
       ResolveConfig, CheckControls, OpenMandatory, OpenDiagnostics, BuildAdapter,
       SettleStart, WriteAuditHeader
  <2>2. CASE EditConfig
    <3>1. pc' \in {"cli", "requested", "identified"} /\ UNCHANGED <<pc, request, root>>
      BY <2>2 DEF EditConfig
    <3>2. pc' \notin Resolved
      BY <3>1 DEF Resolved, Agreed, Writing
    <3>3. QED
      BY <2>1, <3>1, <3>2 DEF Untouched
  <2>3. CASE ChooseRoot
    <3>1. /\ pc' \in {"requested", "refused"} /\ UNCHANGED request
          /\ pc' = "requested" /\ request.outRoot # "null" => root' = request.outRoot
      BY <2>3 DEF ChooseRoot
    <3>2. pc' \notin {"identified"} \cup Resolved
      BY <3>1 DEF Resolved, Agreed, Writing
    <3>3. QED
      BY <2>1, <3>1, <3>2 DEF Untouched
  <2>4. CASE ValidateRequest
    <3>1. /\ pc = "requested" /\ pc' \in {"identified", "refused"} /\ UNCHANGED <<request, root>>
          /\ pc' = "identified" => root # ""
      BY <2>4 DEF ValidateRequest, IdentityCreated
    <3>2. pc' \notin Resolved
      BY <3>1 DEF Resolved, Agreed, Writing
    <3>3. QED
      BY <2>1, <3>1, <3>2 DEF Untouched
  <2>5. CASE ResolveConfig
    <3>1. /\ pc = "identified" /\ pc' \in {"resolved", "refused"}
          /\ UNCHANGED <<request, source, root>>
          /\ pc' = "resolved" => Accepted(Envelope) /\ snapshot' = Snapshot(Envelope)
      BY <2>5 DEF ResolveConfig
    <3>2. Envelope' = Envelope /\ "refused" \notin Resolved
      BY <3>1 DEF Envelope, Resolved, Agreed, Writing
    <3>3. QED
      BY <2>1, <3>1, <3>2 DEF Untouched
  <2>6. CASE \/ CheckControls \/ OpenMandatory \/ OpenDiagnostics
             \/ BuildAdapter \/ SettleStart \/ WriteAuditHeader
    <3>1. /\ pc \in Resolved /\ UNCHANGED <<request, source, root, snapshot>>
      BY <2>6 DEF CheckControls, OpenMandatory, OpenDiagnostics, BuildAdapter,
         SettleStart, WriteAuditHeader, Resolved, Agreed, Writing
    <3>2. Envelope' = Envelope /\ pc \notin {"cli", "refused"}
      BY <3>1 DEF Envelope, Resolved, Agreed, Writing
    <3>3. QED
      BY <2>1, <3>1, <3>2 DEF Untouched
  <2>7. QED
    BY <1>3, <2>2, <2>3, <2>4, <2>5, <2>6 DEF Next
<1>4. QED
  BY <1>1, <1>2, <1>3 DEF VerifierNext

LEMMA JudgedStep ==
  ASSUME Judged, [VerifierNext]_<<vars, verifierVars>>
  PROVE  Judged'
<1>1. CASE VerifyRun
  <2>1. UNCHANGED <<pc, source, snapshot>> /\ RunIsOver /\ verdict' = VerdictOf(asked')
    BY <1>1 DEF VerifyRun, vars
  <2>2. RunIsOver' /\ VerdictOf(asked)' = VerdictOf(asked')
    BY <2>1 DEF VerdictOf, HasDigest, SameDigest, EnvelopeOf, Content, RunIsOver
  <2>3. VerdictOf(asked') # "none"
    BY DEF VerdictOf
  <2>4. QED
    BY <2>1, <2>2, <2>3 DEF Judged
<1>2. CASE EditLater
  BY <1>2 DEF EditLater, Judged
<1>3. ASSUME UNCHANGED <<pc, source, snapshot, asked, verdict>> PROVE Judged'
  <2>1. RunIsOver' = RunIsOver /\ VerdictOf(asked)' = VerdictOf(asked)
    BY <1>3 DEF VerdictOf, HasDigest, SameDigest, EnvelopeOf, Content, RunIsOver
  <2>2. QED
    BY <1>3, <2>1 DEF Judged
<1>4. CASE Next /\ UNCHANGED verifierVars
  <2>1. ~RunIsOver
    BY <1>4 DEF RunIsOver, Next, EditConfig, ChooseRoot, ValidateRequest, ResolveConfig,
       CheckControls, OpenMandatory, OpenDiagnostics, BuildAdapter, SettleStart,
       WriteAuditHeader
  <2>2. QED
    BY <1>4, <2>1 DEF Judged, verifierVars
<1>5. QED
  BY <1>1, <1>2, <1>3, <1>4 DEF VerifierNext, vars, verifierVars

LEMMA UntouchedShows ==
  ASSUME Untouched, Judged
  PROVE  UntouchedRunVerifies
<1> SUFFICES ASSUME pc = "audited", FromCommandLine, ~edited, AskedAlike
             PROVE  verdict = "match"
  BY DEF UntouchedRunVerifies
<1>1. Accepted(Envelope) /\ snapshot = Snapshot(Envelope) /\ root # ""
  BY DEF Untouched, Resolved, Agreed, Writing
<1>2. request.outRoot # ""
  BY <1>1 DEF Untouched
<1>3. /\ request.outRoot = "null" => asked = <<RunDirectory, RunConfig>>
      /\ request.outRoot # "null" =>
           asked = <<RunDirectory, RunConfig, Option, request.outRoot>>
  BY DEF AskedAlike
<1>4. /\ Words(asked) # {} /\ RunOf(asked) = RunDirectory /\ ConfigOf(asked) = RunConfig
      /\ OutRoot(asked) = request.outRoot
  <2> DEFINE out == request.outRoot
  <2>1. RunDirectory # Option /\ RunConfig # Option
    BY VerifierAssumption
  <2>2. asked = <<RunDirectory, RunConfig>> \/ asked = <<RunDirectory, RunConfig, Option, out>>
    BY <1>3
  <2> HIDE DEF out
  <2>3. /\ Words(asked) # {} /\ RunOf(asked) = RunDirectory /\ ConfigOf(asked) = RunConfig
        /\ asked = <<RunDirectory, RunConfig>> => OutRoot(asked) = "null"
        /\ asked = <<RunDirectory, RunConfig, Option, out>> => OutRoot(asked) = out
    BY <2>1, <2>2, WordsOfUsage
  <2>4. QED
    BY <1>3, <2>3 DEF out
<1>5. Overrides(asked) = request.overrides
  BY <1>2, <1>4 DEF Overrides, FromCommandLine
<1>6. EnvelopeOf(asked) = Envelope
  <2>1. request.base = Preset
    BY DEF FromCommandLine
  <2>2. Content(ConfigOf(asked)) = source
    BY <1>4, VerifierAssumption DEF Content
  <2>3. QED
    BY <1>5, <2>1, <2>2, Zenon DEF EnvelopeOf, Envelope
<1>7. VerdictOf(asked) = "match"
  BY <1>1, <1>4, <1>6 DEF VerdictOf, HasDigest, SameDigest
<1>8. asked # <<>>
  BY <1>3
<1>9. QED
  BY <1>7, <1>8 DEF Judged

(***************************************************************************)
(* A run of the command line verifies as long as its configuration file is *)
(* left alone: for every preset, file, output root and edit before the run *)
(* read it.                                                                *)
(***************************************************************************)
THEOREM UntouchedVerifies == VerifierSpec => []UntouchedRunVerifies
<1>1. VerifierInit => Untouched /\ Judged
  BY DEF VerifierInit, Init, Untouched, Judged, Resolved, Agreed, Writing
<1>2. QED
  BY <1>1, UntouchedStep, JudgedStep, UntouchedShows, PTL DEF VerifierSpec

---------------------------------------------------------------------------
(* The run with the verifier and the later edit beside it.                 *)

RunFacts == IInv /\ TypeOK /\ SnapshotReproduces /\ StartIsSettled

\* No fact about a run but its type depends on what the file holds now.
LEMMA EditHarmless ==
  ASSUME RunFacts, EditLater
  PROVE  RunFacts'
<1>1. UNCHANGED <<pc, request, root, snapshot, start, data, opens, error>> /\ source' \in Sources
  BY DEF EditLater
<1>2. TypeOK'
  BY <1>1 DEF RunFacts, TypeOK
<1>3. SnapshotReproduces'
  BY <1>1 DEF RunFacts, SnapshotReproduces
<1>4. StartIsSettled'
  BY <1>1 DEF RunFacts, StartIsSettled, EndOf
<1>5. LaidSoFar'
  BY <1>1, LaidUnchanged DEF RunFacts, IInv
<1>6. IInv'
  BY <1>1, <1>5
     DEF RunFacts, IInv, OpensType, NothingYet, Validated, SourcesAgree, StartChosen,
         NothingWrittenUntilAgreed, Agree, SameControl, BoundariesAgree, RootAgrees, StartOf
<1>7. QED
  BY <1>2, <1>3, <1>4, <1>6 DEF RunFacts

LEMMA RunFactsStep ==
  ASSUME RunFacts, [VerifierNext]_<<vars, verifierVars>>
  PROVE  RunFacts'
<1>1. CASE [Next]_vars
  BY <1>1, RunStep, TypeStep, SnapshotStep, StartStep DEF RunFacts
<1>2. CASE EditLater
  BY <1>2, EditHarmless
<1>3. VerifyRun => UNCHANGED vars
  BY DEF VerifyRun
<1>4. QED
  BY <1>1, <1>2, <1>3 DEF VerifierNext

(***************************************************************************)
(* Verifying a run, and editing its configuration file afterwards, takes   *)
(* nothing back of what is proved of the run alone: what the audit header  *)
(* records stays true of the run directory.                                *)
(***************************************************************************)
THEOREM VerifiedRunIsSafe ==
  VerifierSpec =>
    [](/\ TypeOK /\ NothingWrittenUntilAgreed /\ SnapshotReproduces
       /\ StartIsSettled /\ DefaultStartIsDead /\ FilesKeptApart)
<1>1. VerifierInit => RunFacts
  <2>1. Init => TypeOK /\ SnapshotReproduces /\ StartIsSettled
    BY DEF Init, TypeOK, Steps, SnapshotReproduces, StartIsSettled
  <2>2. QED
    BY <2>1, InitIInv DEF VerifierInit, RunFacts
<1>2. RunFacts => /\ TypeOK /\ NothingWrittenUntilAgreed /\ SnapshotReproduces
                  /\ StartIsSettled /\ DefaultStartIsDead /\ FilesKeptApart
  BY ApartShown, DeadShown DEF RunFacts, IInv
<1>3. RunFacts /\ [VerifierNext]_<<vars, verifierVars>> => RunFacts'
  BY RunFactsStep
<1>4. QED
  BY <1>1, <1>2, <1>3, PTL DEF VerifierSpec

=============================================================================
