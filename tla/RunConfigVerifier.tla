------------------------- MODULE RunConfigVerifier -------------------------
(***************************************************************************)
(* tools/verify_run_config.py after a run of RunHarness: which settings    *)
(* was the run executed with?  It resolves a configuration file again and  *)
(* compares the digest with the one in the run's audit header.  The file   *)
(* may have been edited since the run read it.                             *)
(*                                                                         *)
(* A command line is a sequence of words.  An audit header that was        *)
(* written whole records the snapshot's digest; any other file of that     *)
(* name is no JSON.                                                        *)
(***************************************************************************)
EXTENDS RunHarness

CONSTANTS
  CommandLines,    \* words after the program's name
  RunDirectory,    \* the words that name the run's directory,
  RunConfig,       \* and its configuration file
  OtherFiles,      \* the contents of other configuration files, by name
  Preset           \* the content of BASE_PRESET

Option        == "--out_root"
DefaultConfig == "config/examples/public_backtest.example.json"

ASSUME VerifierAssumption ==
  /\ \A line \in CommandLines : line \in Seq(STRING)
  /\ RunDirectory \notin DOMAIN OtherFiles \cup {RunConfig}
  /\ RunConfig \notin DOMAIN OtherFiles
  /\ Option \notin {RunDirectory, RunConfig}

VARIABLES
  edited,     \* was the configuration file edited after the run?
  asked,      \* the command line of the verifier
  verdict

verifierVars == <<edited, asked, verdict>>

VerifierInit == Init /\ edited = FALSE /\ asked = <<>> /\ verdict = "none"

---------------------------------------------------------------------------
(* The command line.  The option's name is taken out of the words, its     *)
(* value is not: without a config_path it is read as one.                  *)

\* The positions of the words that are left.
Words(line) == {i \in DOMAIN line : line[i] # Option}

First(places) == CHOOSE i \in places : \A j \in places : i <= j

RunOf(line) == line[First(Words(line))]

ConfigOf(line) ==
  LET more == Words(line) \ {First(Words(line))}
  IN  IF more = {} THEN DefaultConfig ELSE line[First(more)]

OutRoot(line) ==
  LET options == DOMAIN line \ Words(line)
  IN  IF options = {} \/ First(options) = Len(line) THEN "null" ELSE line[First(options) + 1]

\* The content of a file that is named as a configuration.
Content(path) ==
  CASE path = RunConfig            -> source
    [] path \in DOMAIN OtherFiles  -> OtherFiles[path]
    [] OTHER                       -> Unreadable

Overrides_none(line) == <<>>

Overrides(line) ==
  IF OutRoot(line) \in {"null", ""} THEN <<>> ELSE [run_output_root |-> OutRoot(line)]

EnvelopeOf(line) ==
  [base |-> Preset, source |-> Content(ConfigOf(line)), overrides |-> Overrides(line)]

---------------------------------------------------------------------------
(* The verdict.                                                            *)

\* Only a whole audit header has a digest: with any other file, or none, in
\* its place the program ends before it looks at a configuration.
HasDigest(path) == path = RunDirectory /\ pc = "audited"

SameDigest_printedKeys(again) ==
  \A k \in {"evaluation_start_timestamp", "evaluation_end_timestamp", "csv_paths",
            "max_open_positions", "strategy_provider"} : Get(again, k) = Get(snapshot, k)

SameDigest(again) == again = snapshot

VerdictOf(line) ==
  CASE Words(line) = {}                               -> "usage"
    [] Words(line) # {} /\ ~HasDigest(RunOf(line))    -> "no digest"
    [] OTHER ->
         IF ~Accepted(EnvelopeOf(line)) THEN "unresolved"
         ELSE IF SameDigest(Snapshot(EnvelopeOf(line))) THEN "match" ELSE "mismatch"

RunIsOver == pc \in {"audited", "refused"}

VerifyRun ==
  /\ RunIsOver /\ verdict = "none"
  /\ asked' \in CommandLines
  /\ verdict' = VerdictOf(asked')
  /\ UNCHANGED <<vars, edited>>

EditLater ==
  /\ RunIsOver /\ verdict = "none" /\ ~edited
  /\ source' \in Sources \ {source}
  /\ edited' = TRUE
  /\ UNCHANGED <<pc, request, root, snapshot, start, data, opens, error, asked, verdict>>

VerifierNext ==
  \/ Next /\ UNCHANGED verifierVars
  \/ EditLater
  \/ VerifyRun

VerifierSpec == VerifierInit /\ [][VerifierNext]_<<vars, verifierVars>>

---------------------------------------------------------------------------
(* Properties.                                                             *)

\* The command line of run_backtest.main.
FromCommandLine ==
  /\ request.base = Preset /\ request.params = <<>>
  /\ request.overrides =
       IF request.outRoot = "null" THEN <<>> ELSE [run_output_root |-> request.outRoot]

\* The same words, as the usage of the verifier asks for them.
AskedAlike ==
  asked = IF request.outRoot = "null" THEN <<RunDirectory, RunConfig>>
          ELSE <<RunDirectory, RunConfig, Option, request.outRoot>>

(* A run of the command line whose configuration file has not been touched  *)
(* since verifies: two programs that build their envelopes apart resolve    *)
(* the same settings, whatever was edited before the run read the file.     *)
UntouchedRunVerifies ==
  pc = "audited" /\ FromCommandLine /\ ~edited /\ AskedAlike => verdict = "match"

(* A match is no accident: whatever words were given, every setting of the  *)
(* file they name is the run's, or is the output root they replace, and the *)
(* run has no other settings than those, the preset's and the defaults.     *)
MatchMeansSameSettings ==
  verdict = "match" =>
    LET named == Content(ConfigOf(asked)) IN
    /\ \A k \in DOMAIN named :
         \/ snapshot[k] = Freeze(named[k])
         \/ k = "run_output_root" /\ snapshot[k] = Freeze(OutRoot(asked))
    /\ \A k \in DOMAIN snapshot \ DOMAIN named :
         \/ k \in DOMAIN Preset /\ snapshot[k] = Freeze(Preset[k])
         \/ k \in DOMAIN Defaults /\ snapshot[k] = Freeze(Defaults[k])
         \/ k = "run_output_root" /\ snapshot[k] = Freeze(OutRoot(asked))

=============================================================================
