---------------------------- MODULE MCIncidents ----------------------------
(***************************************************************************)
(* Instances of Incidents for TLC: the cells of one site, and incidents of *)
(* the shortest length.                                                    *)
(***************************************************************************)
EXTENDS Incidents

TwoCells == <<"c1", "c2">>
OneSite == [c \in {"c1", "c2"} |-> "s"]
Shortest == {[p \in Phases |-> 2]}
=============================================================================
