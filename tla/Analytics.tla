----------------------------- MODULE Analytics -----------------------------
(***************************************************************************)
(* The two consumers of clean.network_metrics side by side: the ml-worker, *)
(* which adds to ml.anomalies, and the batch ETL, which reads both tables. *)
(* They share nothing but the database; each step is of one of them.       *)
(***************************************************************************)
EXTENDS Scoring

CONSTANTS
    Flagged,        \* the reports whose score says is_anomaly
    HourOf, DayOf, SiteDayOf

ASSUME RollupAssumption ==
    /\ Flagged \subseteq Reports
    /\ DOMAIN HourOf = Reports /\ DOMAIN DayOf = Reports /\ DOMAIN SiteDayOf = Reports

VARIABLES hourly, daily, etl, statement, autocommit, txn, unended

anomalies == DOMAIN scores \cap Flagged

INSTANCE Rollups

etlVars == <<hourly, daily, etl, statement, autocommit, txn, unended>>
allVars == <<vars, etlVars>>
scoringVars == <<clean, late, fileVars, workVars, unheard, scores>>

AllInit == Init /\ RollupsInit

AllNext ==
    \/ Next /\ UNCHANGED etlVars
    \/ RollupsNext /\ UNCHANGED scoringVars

\* Both containers keep running; what the server runs for a dead client ends.
AllFairness ==
    /\ WF_allVars(Work /\ UNCHANGED etlVars)
    /\ WF_allVars(Etl /\ UNCHANGED scoringVars)
    /\ WF_allVars(\E stmts \in unended : Ends(stmts) /\ UNCHANGED scoringVars)

AllSpec == AllInit /\ [][AllNext]_allVars /\ AllFairness

\* Every variable has its type.
AllTypeOK == TypeOK /\ RollupsTypeOK
=============================================================================
