------------------------------ MODULE MCSinks ------------------------------
(* TLC instances of Sinks, and what the code says of itself where it does   *)
(* otherwise.                                                               *)
EXTENDS Sinks

\* A sink of each kind before another, and one that follows a slow one.
PairConfigs == {<<k, "json">> : k \in Kinds} \cup {<<"csv", "doris">>}

\* The Excel sink loads the rows its file has (core/sinks/excel_sink.py:22)
\* and so never loses them.
ExcelKeepsRows ==
    [][\A i \in Positions :
          sinks[i] = "excel" /\ flawless[i] => ToSet(store[i]) \subseteq ToSet(store'[i])]_vars
=============================================================================
