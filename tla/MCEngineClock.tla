--------------------------- MODULE MCEngineClock ---------------------------
(***************************************************************************)
(* The weekend boundary on a walk of candle closes: each step feeds the    *)
(* next candle after a gap of up to MaxGap ticks, more than a week.        *)
(***************************************************************************)
EXTENDS EngineClock

CONSTANTS Horizon, MaxGap

VARIABLES prevClose, now

clock == <<prevClose, now>>

Init == prevClose \in 0 .. WeekLen /\ now = prevClose + M5Len

NextCandle ==
  \E gap \in 0 .. MaxGap :
    /\ now + M5Len + gap <= Horizon
    /\ prevClose' = now
    /\ now' = now + M5Len + gap

Spec == Init /\ [][NextCandle]_clock

(* The docstring, with no exception for a close on the boundary.            *)
CrossingAsDocumented ==
  BoundaryBetween(prevClose, now) => CrossedFriday2200(prevClose, now)

=============================================================================
