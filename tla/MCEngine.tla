------------------------------ MODULE MCEngine ------------------------------
(***************************************************************************)
(* Candles around two Friday 22:00s (ticks 9 and 23 of a two-tick day),    *)
(* spread over up to two M5 files in every way, good and bad.              *)
(***************************************************************************)
EXTENDS Engine

MCOpens == {6, 7, 8, 9, 23}

MCConfigs ==
  {[provider |-> "single_trade", max |-> 2], [provider |-> "multi_trade", max |-> 1]}

MCFiles ==
  {<<>>, <<6>>, <<6, 7>>, <<8>>, <<7, 9>>, <<9, 23>>, <<9, 8>>, <<8, 9, 23>>,
   <<8, BadRow>>, MissingFile}

MCInputs ==
  [type : {"CSV", "BROKER"},
   paths : {[tf \in {"M5", "H1"} |-> IF tf = "M5" THEN <<f, g>> ELSE <<<<6>>>>] :
              f \in MCFiles, g \in MCFiles}]

=============================================================================
