--------------------------- MODULE MCAlertEngine ---------------------------
(***************************************************************************)
(* Instances of AlertEngine for TLC: two reports of one cell, close        *)
(* enough for the cooldown to matter, one of them scored by two model      *)
(* versions, and a report of another cell.                                 *)
(***************************************************************************)
EXTENDS AlertEngine, TLC

CONSTANTS e1, e2

TwoEngines == {e1, e2}
OneEngine == {e1}
Interchangeable == Permutations({e1, e2})

\* "v" is another model version's score of the report of "a2".
FourAnomalies == {"a1", "a2", "v", "b1"}
Cells == [a \in FourAnomalies |-> IF a = "b1" THEN "b" ELSE "a"]
Times == [a \in FourAnomalies |-> IF a \in {"a2", "v"} THEN 1 ELSE 0]
Severities == [a \in FourAnomalies |->
                 CASE a = "a1" -> "HIGH" [] a = "b1" -> "MEDIUM" [] OTHER -> "CRITICAL"]
=============================================================================
