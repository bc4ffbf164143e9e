---------------------------- MODULE MCTickTable ----------------------------
(* Copies of up to four ticks in two seconds of three milliseconds, with    *)
(* an index that wraps at three: a wrap parts a millisecond, and without    *)
(* milliseconds a second; a tick has both quotes, one and a last price, a   *)
(* last price only, or nothing the tables can use.                          *)
EXTENDS TickTable

MCMilliseconds == {0, 1, 3}

Quote(bid, ask, last) == [bid |-> bid, ask |-> ask, last |-> last]

MCQuotes == {Quote(2, 4, NoPrice), Quote(6, 6, NoPrice), Quote(6, NoPrice, 5),
             Quote(NoPrice, NoPrice, 1), Quote(4, NoPrice, NoPrice)}

=============================================================================
