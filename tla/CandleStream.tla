---------------------------- MODULE CandleStream ----------------------------
(***************************************************************************)
(* What a data adapter promises its reader (contract 5, B4 to B7): closed  *)
(* candles with strictly increasing open times, then one end of stream,    *)
(* then nothing.                                                           *)
(***************************************************************************)
EXTENDS Naturals, Sequences

CONSTANT OpenTimes   \* open times a candle may have

VARIABLES
  delivered,   \* open times of the candles delivered so far
  ended        \* has the end of the stream been delivered?

Init == delivered = <<>> /\ ended = FALSE

Deliver ==
  /\ ~ended
  /\ \E open \in OpenTimes :
       /\ delivered # <<>> => open > delivered[Len(delivered)]
       /\ delivered' = Append(delivered, open)
  /\ UNCHANGED ended

End == ~ended /\ ended' = TRUE /\ UNCHANGED delivered

Next == Deliver \/ End

Spec == Init /\ [][Next]_<<delivered, ended>>

=============================================================================
