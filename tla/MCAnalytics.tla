---------------------------- MODULE MCAnalytics ----------------------------
(***************************************************************************)
(* Two cells of one site, three reports within one hour; the last one      *)
(* of c1 lies in an incident and carries the id of another site, as the    *)
(* processor lets it.                                                      *)
(***************************************************************************)
EXTENDS Analytics

ThreeReports == {<<"c1", 1>>, <<"c1", 2>>, <<"c2", 1>>}
OneLabelled == {<<"c1", 2>>}
TwoFlagged == {<<"c1", 2>>, <<"c2", 1>>}
PerCell == [r \in Reports |-> r[1]]
PerSiteCarried == [r \in Reports |-> IF r = <<"c1", 2>> THEN "s2" ELSE "s1"]
PerSite == [r \in Reports |-> "s1"]
=============================================================================
