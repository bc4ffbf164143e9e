---------------------------- MODULE EngineClock ----------------------------
(***************************************************************************)
(* The time arithmetic of the engine: close times of candles (contract 2   *)
(* and contract 6) and the weekend boundary of the execution state machine *)
(* (contract 6, _crossed_friday_2200).                                     *)
(*                                                                         *)
(* A time is a number of ticks since a Monday 00:00 UTC, a day has DayLen  *)
(* ticks and 22:00 is Cut ticks into the day.  The code's values are       *)
(* DayLen = 1440 minutes and Cut = 1320; nothing depends on them but the   *)
(* assumptions below.                                                      *)
(***************************************************************************)
EXTENDS Integers

CONSTANTS
  DayLen,   \* ticks in a day
  Cut,      \* ticks from 00:00 to 22:00
  M5Len     \* ticks in an M5 candle (timedelta(minutes=5))

ASSUME ClockAssumption ==
  /\ DayLen \in Nat \ {0}
  /\ Cut \in 0 .. DayLen - 1
  /\ M5Len \in Nat \ {0}

Time == Nat

Friday  == 4                      \* datetime.weekday() of a Friday
WeekLen == 7 * DayLen

Weekday(t) == (t \div DayLen) % 7

\* datetime.replace(hour=22, minute=0, second=0, microsecond=0)
AtCut(t) == DayLen * (t \div DayLen) + Cut

(***************************************************************************)
(* A closed M5 candle is identified by its open time; its close time is    *)
(* derived: a candle that brings its close time along, which the code      *)
(* would take as given, is not one the data adapter builds.                *)
(***************************************************************************)
CloseOf(open) == open + M5Len

(***************************************************************************)
(* The latest Friday 22:00 that is not after now: go back to the Friday of *)
(* the running week, move to 22:00, and step back a week if that is ahead. *)
(***************************************************************************)
LastFriday(now) == now - ((Weekday(now) - Friday) % 7) * DayLen

LatestBoundary(now) ==
  LET friday22 == AtCut(LastFriday(now))
  IN  IF friday22 > now THEN friday22 - WeekLen ELSE friday22

CrossedFriday2200_weekNumber(prevClose, now) ==
  LatestBoundary(prevClose) # LatestBoundary(now)

CrossedFriday2200_inclusive(prevClose, now) ==
  /\ prevClose <= LatestBoundary(now)
  /\ LatestBoundary(now) <= now

CrossedFriday2200(prevClose, now) ==
  /\ prevClose <= LatestBoundary(now)
  /\ LatestBoundary(now) < now

(***************************************************************************)
(* Reference: what the docstring promises, with no calendar arithmetic.    *)
(* Boundary(k) is the k-th Friday 22:00 since time 0, and times are not    *)
(* negative, so no later k than the time itself need be looked at.         *)
(***************************************************************************)
Boundary(k) == WeekLen * k + Friday * DayLen + Cut

IsBoundary(t) == \E k \in 0 .. t : t = Boundary(k)

BoundaryBetween(prevClose, now) ==
  \E k \in 0 .. now : prevClose <= Boundary(k) /\ Boundary(k) < now

=============================================================================
