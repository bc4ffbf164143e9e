----------------------------- MODULE TickTable -----------------------------
(***************************************************************************)
(* experiments/mt5-integration, mt5_rates.py: the two tables that are made *)
(* of one copy of the terminal's ticks.  The intrabar table has a row per  *)
(* tick, stamped to the nanosecond so that no two rows share a time; the   *)
(* legacy table has a bar per second.                                      *)
(*                                                                         *)
(* The terminal is external: it gives ticks in time order, all of them     *)
(* with a millisecond or none.  Prices are integers of which any two have  *)
(* an integer midpoint.  A nanosecond stamp is msc * Million + a remainder *)
(* by Million; the code's Million is 1000000 in both places.               *)
(***************************************************************************)
EXTENDS Integers, Sequences, FiniteSetsExt, SequencesExt

CONSTANTS
  Million,       \* nanoseconds in a millisecond, and where the index wraps
  MsPerSecond,
  MaxTicks,      \* bound: ticks in one copy
  Milliseconds,  \* bound: the times of the ticks
  Quotes,        \* records of bid, ask and last, any of which may be missing
  NoPrice,
  NotMade

ASSUME TickAssumption ==
  /\ Million \in Nat \ {0} /\ MsPerSecond \in Nat \ {0} /\ MaxTicks \in Nat
  /\ Milliseconds \subseteq Nat /\ NoPrice \notin Int
  /\ \A q \in Quotes : /\ {q.bid, q.ask, q.last} \subseteq Int \cup {NoPrice}
                       /\ NoPrice \notin {q.bid, q.ask} => (q.bid + q.ask) % 2 = 0

VARIABLES
  ticks,     \* the table, in the order of the copy: [msc, quote]
  hasMsc,    \* whether it has a time_msc column with a value in it
  phase,     \* "copying", "copied" or "failed"
  rows,      \* ticks_to_intrabar_s1_df, or NotMade
  bars       \* ticks_to_1s_ohlc: a bar by second, or NotMade

tickVars == <<ticks, hasMsc, phase, rows, bars>>

TickInit ==
  /\ ticks = <<>> /\ hasMsc \in BOOLEAN
  /\ phase = "copying"
  /\ rows = NotMade /\ bars = NotMade

---------------------------------------------------------------------------
(* One tick.                                                               *)

Mid(q) ==
  IF NoPrice \in {q.bid, q.ask} THEN q.last ELSE (q.bid + q.ask) \div 2

Low(q)  == IF q.bid = NoPrice THEN Mid(q) ELSE q.bid
High(q) == IF q.ask = NoPrice THEN Mid(q) ELSE q.ask

\* Without milliseconds every tick of a second gets the second's first one.
MscOf(i) ==
  IF hasMsc THEN ticks[i].msc ELSE (ticks[i].msc \div MsPerSecond) * MsPerSecond

Stamp_msc(i) == MscOf(i) * Million

\* Rows count from 0.
Stamp(i) == (MscOf(i) * Million) + ((i - 1) % Million)

SecondOf(i) == MscOf(i) \div MsPerSecond

---------------------------------------------------------------------------
(* The copy, by copy_ticks_range_utc, and what is made of it.              *)

TickArrives ==
  /\ phase = "copying" /\ Len(ticks) < MaxTicks
  /\ \E msc \in Milliseconds, q \in Quotes :
       /\ ticks # <<>> => Last(ticks).msc <= msc
       /\ ticks' = Append(ticks, [msc |-> msc, quote |-> q])
  /\ UNCHANGED <<hasMsc, phase, rows, bars>>

CopyTicks ==
  /\ phase = "copying"
  /\ \/ phase' = "copied" /\ UNCHANGED ticks
     \/ phase' = "failed" /\ ticks' = <<>>
  /\ UNCHANGED <<hasMsc, rows, bars>>

Row(i) == [at |-> Stamp(i), tick |-> i, high |-> High(ticks[i].quote),
           low |-> Low(ticks[i].quote), close |-> Mid(ticks[i].quote)]

IsRow(i) == NoPrice \notin {High(ticks[i].quote), Low(ticks[i].quote)}

\* sort_values is not stable: rows of one time stand in either order.
ToIntrabar ==
  /\ phase = "copied" /\ rows = NotMade
  /\ \E order \in SetToSeqs({i \in DOMAIN ticks : IsRow(i)}) :
       /\ \A m, n \in DOMAIN order : m < n => Stamp(order[m]) <= Stamp(order[n])
       /\ rows' = [n \in DOMAIN order |-> Row(order[n])]
  /\ UNCHANGED <<ticks, hasMsc, phase, bars>>

InSeries_quoted(i) == NoPrice \notin {ticks[i].quote.bid, ticks[i].quote.ask}

InSeries(i) == Mid(ticks[i].quote) # NoPrice

\* The group of a second keeps the order of the table.
Bar(group) ==
  LET mids == {Mid(ticks[i].quote) : i \in group}
  IN  [open |-> Mid(ticks[Min(group)].quote), high |-> Max(mids),
       low |-> Min(mids), close |-> Mid(ticks[Max(group)].quote)]

ToSeconds ==
  /\ phase = "copied" /\ bars = NotMade
  /\ LET series == {i \in DOMAIN ticks : InSeries(i)}
     IN  bars' = [s \in {SecondOf(i) : i \in series} |->
                    Bar({i \in series : SecondOf(i) = s})]
  /\ UNCHANGED <<ticks, hasMsc, phase, rows>>

TickNext == TickArrives \/ CopyTicks \/ ToIntrabar \/ ToSeconds

TickSpec == TickInit /\ [][TickNext]_tickVars

---------------------------------------------------------------------------
(* Properties.                                                             *)

\* Two ticks of one millisecond with a multiple of Million rows between them.
Parted(i, j) ==
  MscOf(i) = MscOf(j) /\ (i - 1) \div Million # (j - 1) \div Million

(* The intrabar rows are the true sequence of the ticks, each at a time of  *)
(* its own, although the sort is by time only and is not stable: the one    *)
(* exception is a millisecond in whose midst the index wraps.               *)
TrueSequence ==
  rows # NotMade =>
    \A m, n \in DOMAIN rows :
      m < n /\ ~Parted(rows[m].tick, rows[n].tick) =>
        rows[m].tick < rows[n].tick /\ rows[m].at < rows[n].at

(* The two tables tell one story: the bars are the seconds that have an     *)
(* intrabar row, each spans its rows' closes, and where no wrap parts the   *)
(* second's ticks it opens and closes with the first and the last of them.  *)
OneSecondAgrees ==
  rows # NotMade /\ bars # NotMade =>
    LET Within(s) == {n \in DOMAIN rows : rows[n].at \div (Million * MsPerSecond) = s}
        Closes(s) == {rows[n].close : n \in Within(s)}
        Whole(s)  == \A m, n \in Within(s) : ~Parted(rows[m].tick, rows[n].tick)
    IN  /\ DOMAIN bars = {rows[n].at \div (Million * MsPerSecond) : n \in DOMAIN rows}
        /\ \A s \in DOMAIN bars :
             /\ bars[s].high = Max(Closes(s)) /\ bars[s].low = Min(Closes(s))
             /\ Whole(s) => /\ bars[s].open = rows[Min(Within(s))].close
                            /\ bars[s].close = rows[Max(Within(s))].close

=============================================================================
