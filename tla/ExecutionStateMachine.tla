----------------------- MODULE ExecutionStateMachine -----------------------
(***************************************************************************)
(* Contract 6, ExecutionStateMachine.on_candle_close, with the capacity    *)
(* gate of contract 7 that it calls at the start of every step.            *)
(*                                                                         *)
(* One action is one call of on_candle_close with one candle, from the     *)
(* weekend reset (which the code runs before it validates its input) to    *)
(* the return or the RuntimeError.  The source of the spoke calls is not   *)
(* in the repository: what they may do to the state (at most one entry     *)
(* when the gate allows it, any of the open trades resolved, setups armed  *)
(* or dropped) is the external operator HubTail.                           *)
(*                                                                         *)
(* A trade is identified by its entry_derived_close_timestamp_utc, and     *)
(* open_trades is the set of them: the list order is the order of entry.   *)
(***************************************************************************)
EXTENDS EngineClock, Sequences, FiniteSets

CONSTANTS
  Opens,       \* open times of the candles the harness may feed
  EvalStart,   \* evaluation_start_timestamp
  RecentCap,   \* PUBLIC_RECENT_HISTORY_CAP, 32 in the code
  PriorCap,    \* PUBLIC_PRIOR_HISTORY_CAP, 64 in the code
  Configs,     \* snapshots: execution_policy_provider and max_open_positions
  None

ASSUME StateMachineAssumption ==
  /\ Opens \subseteq Time
  /\ EvalStart \in Time
  /\ RecentCap \in Nat \ {0}
  /\ PriorCap \in Nat \ {0}
  /\ \A cfg \in Configs : cfg.max \in Int \cup {None}
  /\ None \notin Int

VARIABLES
  config,       \* the resolved snapshot, fixed for the run
  status,       \* "running", or "failed" once a guardrail has raised
  lastOpen,     \* _last_candle_open_time_utc
  lastClose,    \* _last_close_utc
  stepIndex,    \* _step_index
  recent,       \* _m5_recent_buffer, candles by open time
  prior,        \* _m5_prior_buffer
  openTrades,   \* execution_state.open_trades, the source of truth
  topView,      \* execution_state.trade_is_open and .active_trade
  nestedView,   \* execution_state.trade_state, the same two fields
  pending,      \* keys of _pending_trade_info_by_id
  setups,       \* displacement window, armed_fvgs, armed execution objects
  ctx,          \* the StepContext of the latest step
  logged        \* history: trades written to the executed-trade log

machine == <<lastOpen, lastClose, stepIndex, recent, prior, ctx>>
trading == <<openTrades, topView, nestedView, pending, setups, logged>>
vars    == <<config, status, machine, trading>>

SetupKinds == {"window", "fvg", "exec"}

---------------------------------------------------------------------------
(* The open trades and their redundant views.                              *)

\* open_trades[0]: the trade that entered first
Oldest(trades) == CHOOSE t \in trades : \A u \in trades : t <= u

ViewOf(trades) ==
  [open |-> trades # {}, active |-> IF trades = {} THEN None ELSE Oldest(trades)]

---------------------------------------------------------------------------
(* Contract 7: the gate, on the snapshot's cap clamped to at least one.    *)

EffectiveCap(cfg) == IF cfg.max \in Nat \ {0} THEN cfg.max ELSE 1

Gate_offByOne(openCount) == openCount <= EffectiveCap(config)

Gate(openCount) == openCount < EffectiveCap(config)

ProviderAccepted == config.provider = "single_trade"

---------------------------------------------------------------------------
(* The weekend reset: what is left of the trading state when it is done.   *)

Crosses(c) == lastClose # None /\ CrossedFriday2200(lastClose, CloseOf(c))

KeptTrades(c) == IF Crosses(c) THEN {} ELSE openTrades

KeptView_forgotten(c, view) == view

KeptView(c, view) == IF Crosses(c) THEN ViewOf({}) ELSE view

KeptPending_forgotten(c) == pending

KeptPending(c) == IF Crosses(c) THEN {} ELSE pending

KeptSetups_windowOnly(c) ==
  IF Crosses(c) THEN [setups EXCEPT !["window"] = {}] ELSE setups

KeptSetups(c) ==
  IF Crosses(c) THEN [k \in SetupKinds |-> {}] ELSE setups

\* A step that raises leaves the trading state as the reset left it.
OnlyReset(c) ==
  /\ openTrades' = KeptTrades(c)
  /\ topView' = KeptView(c, topView)
  /\ nestedView' = KeptView(c, nestedView)
  /\ pending' = KeptPending(c)
  /\ setups' = KeptSetups(c)
  /\ UNCHANGED logged

---------------------------------------------------------------------------
(* Candle history and the step context.                                    *)

\* s[-n:]
LastN(s, n) == IF Len(s) <= n THEN s ELSE SubSeq(s, Len(s) - n + 1, Len(s))

PushRecent_uncapped(c) == Append(recent, c)

PushRecent(c) == LastN(Append(recent, c), RecentCap)

\* Taken before the current candle is appended to the prior buffer.
PriorTuple_tooLate(c) == LastN(Append(prior, c), PriorCap)

PriorTuple(c) == LastN(prior, PriorCap)

StepContext(c) ==
  [now       |-> CloseOf(c),
   candle    |-> c,
   recent    |-> PushRecent(c),
   prior     |-> PriorTuple(c),
   openCount |-> Cardinality(KeptTrades(c)),
   view      |-> ViewOf(KeptTrades(c))]

NoContext == [now |-> None]

---------------------------------------------------------------------------
(* The spoke calls and the bookkeeping after them (external).  The gate    *)
(* reads the count of the context, taken before any spoke has run; the     *)
(* entry module returns one result per step; any open trade may resolve.   *)

HubTail(c) ==
  \E resolved \in SUBSET KeptTrades(c), entered \in SUBSET {CloseOf(c)} :
    /\ entered # {} => Gate(Cardinality(KeptTrades(c)))
    /\ openTrades' = (KeptTrades(c) \ resolved) \cup entered
    /\ topView' = ViewOf(openTrades')
    /\ nestedView' = ViewOf(openTrades')
    /\ pending' = (KeptPending(c) \ resolved) \cup entered
    /\ logged' = logged \cup resolved
    /\ setups' \in {KeptSetups(c),
                    [k \in SetupKinds |-> KeptSetups(c)[k] \cup {CloseOf(c)}],
                    [k \in SetupKinds |-> {}]}

Advance(c) ==
  /\ prior' = Append(prior, c)
  /\ lastClose' = CloseOf(c)
  /\ stepIndex' = stepIndex + 1

---------------------------------------------------------------------------
(* The outcomes of one call.                                               *)

Init ==
  /\ config \in Configs
  /\ status = "running"
  /\ lastOpen = None /\ lastClose = None
  /\ stepIndex = 0
  /\ recent = <<>> /\ prior = <<>>
  /\ openTrades = {} /\ pending = {} /\ logged = {}
  /\ topView = ViewOf({}) /\ nestedView = ViewOf({})
  /\ setups = [k \in SetupKinds |-> {}]
  /\ ctx = NoContext

Accepted(c) == lastOpen # None => c > lastOpen

\* The cadence guardrail: open times must increase strictly.  The ones beside
\* it, on time zones and on the alias of the open time, cannot fail for a
\* candle the data adapter builds.
RejectCandle(c) ==
  /\ ~Accepted(c)
  /\ OnlyReset(c)
  /\ status' = "failed"
  /\ UNCHANGED <<config, machine>>

\* The bias timeline raises, or returns a state that is not valid.
FailBias(c) ==
  /\ Accepted(c)
  /\ OnlyReset(c)
  /\ lastOpen' = c
  /\ status' = "failed"
  /\ UNCHANGED <<config, lastClose, stepIndex, recent, prior, ctx>>

\* History and context are in place when the spokes are called.
Prepare(c) ==
  /\ Accepted(c)
  /\ lastOpen' = c
  /\ recent' = PushRecent(c)
  /\ ctx' = StepContext(c)
  /\ UNCHANGED config

\* Contract 7 refuses any provider but "single_trade".
FailPolicy(c) ==
  /\ Prepare(c)
  /\ ~ProviderAccepted
  /\ OnlyReset(c)
  /\ status' = "failed"
  /\ UNCHANGED <<lastClose, stepIndex, prior>>

\* Before the evaluation window the spokes only age their own state.
WarmUpStep(c) ==
  /\ Prepare(c)
  /\ ProviderAccepted
  /\ CloseOf(c) < EvalStart
  /\ OnlyReset(c)
  /\ Advance(c)
  /\ UNCHANGED status

EvaluatedStep(c) ==
  /\ Prepare(c)
  /\ ProviderAccepted
  /\ CloseOf(c) >= EvalStart
  /\ HubTail(c)
  /\ Advance(c)
  /\ UNCHANGED status

OnCandleClose(c) ==
  /\ status = "running"
  /\ \/ RejectCandle(c)
     \/ FailBias(c)
     \/ FailPolicy(c)
     \/ WarmUpStep(c)
     \/ EvaluatedStep(c)

Next == \E c \in Opens : OnCandleClose(c)

Spec == Init /\ [][Next]_vars

---------------------------------------------------------------------------
(* Properties.                                                             *)

Views == [open : BOOLEAN, active : Time \cup {None}]

\* Shape of the state; the recent history never exceeds its cap.
TypeOK ==
  /\ config \in Configs
  /\ status \in {"running", "failed"}
  /\ lastOpen \in Time \cup {None}
  /\ lastClose \in Time \cup {None}
  /\ stepIndex \in Nat
  /\ recent \in Seq(Time) /\ Len(recent) <= RecentCap
  /\ prior \in Seq(Time)
  /\ openTrades \subseteq Time /\ IsFiniteSet(openTrades)
  /\ logged \subseteq Time
  /\ topView \in Views /\ nestedView \in Views
  /\ pending \subseteq Time
  /\ setups \in [SetupKinds -> SUBSET Time]

(* trade_is_open and active_trade are kept twice beside open_trades, and    *)
(* written at three places (reset, entry, resolution): they always agree.   *)
ViewsInSync == topView = ViewOf(openTrades) /\ nestedView = ViewOf(openTrades)

(* open_trades never grows beyond the cap the policy enforces, although the *)
(* gate reads a count taken before the step's entries and resolutions.      *)
AtMostCap == Cardinality(openTrades) <= EffectiveCap(config)

(* Log information is held for exactly the open trades: none can be         *)
(* resolved without the fields its log row needs, none is left behind.      *)
PendingMatchesOpen == pending = openTrades

(* No open trade and no armed setup has lived through a Friday 22:00,       *)
(* unless the latest candle closed on one.                                  *)
WeekendFlat ==
  lastClose # None /\ ~IsBoundary(lastClose) =>
    /\ \A t \in openTrades : ~BoundaryBetween(t, lastClose)
    /\ \A k \in SetupKinds : \A s \in setups[k] : ~BoundaryBetween(s, lastClose)

(* The spokes see only candles closed by now, in order: the recent history  *)
(* ends in the current candle and the prior history before it, and the      *)
(* former without its last candle is a suffix of the latter.                *)
IncreasingSeq(s) == \A i, j \in 1 .. Len(s) : i < j => s[i] < s[j]

NoLookahead ==
  ctx # NoContext =>
    /\ ctx.now = CloseOf(ctx.candle)
    /\ Len(ctx.recent) > 0 /\ ctx.recent[Len(ctx.recent)] = ctx.candle
    /\ IncreasingSeq(ctx.recent) /\ IncreasingSeq(ctx.prior)
    /\ \A i \in 1 .. Len(ctx.prior) : CloseOf(ctx.prior[i]) < ctx.now
    /\ \A i \in 1 .. Len(ctx.recent) - 1 :
         i <= Len(ctx.prior) =>
           ctx.recent[Len(ctx.recent) - i] = ctx.prior[Len(ctx.prior) - i + 1]

(* A candle that is refused for its open time changes no trading state,     *)
(* although the weekend reset runs before the refusal.                      *)
RefusedCandleInert ==
  [][\A c \in Opens : RejectCandle(c) => UNCHANGED trading]_vars

(* A trade leaves open_trades only by being logged, or because a Friday     *)
(* 22:00 lies between the closes of this candle and the one before it.      *)
NoSilentDrop ==
  [][\A t \in openTrades \ openTrades' :
       \/ t \in logged'
       \/ lastClose # None /\ BoundaryBetween(lastClose, CloseOf(lastOpen'))]_vars

=============================================================================
