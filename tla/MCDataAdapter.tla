--------------------------- MODULE MCDataAdapter ---------------------------
(***************************************************************************)
(* Every pair of M5 files with up to two rows, a third one, and H1 files   *)
(* that are absent, empty, missing, unordered or good.                     *)
(***************************************************************************)
EXTENDS DataAdapter

MCFiles ==
  {<<>>, MissingFile, <<1, BadRow>>} \cup {<<a>> : a \in OpenTimes}
    \cup {<<a, b>> : a \in OpenTimes, b \in OpenTimes}

MCM5 ==
  {<<f, g>> : f \in MCFiles, g \in MCFiles}
    \cup {<<f, <<>>, g>> : f \in MCFiles, g \in MCFiles}
    \cup {<<>>, NoPaths}

MCInputs ==
  [type : {"CSV"}, paths : {[tf \in Timeframes |-> IF tf = "M5" THEN p ELSE h] :
                              p \in MCM5, h \in {<<>>, <<<<1>>, <<2, 3>>>>, <<<<2>>, <<2>>>>}}]
    \cup [type : {"CSV", "BROKER"}, paths : {[tf \in Timeframes |-> NoPaths]}]

=============================================================================
