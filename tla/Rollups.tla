------------------------------ MODULE Rollups ------------------------------
(***************************************************************************)
(* The batch ETL (batch/run_etl.py): every interval an upsert of           *)
(* analytics.hourly_cell_metrics, then one of daily_site_metrics, each     *)
(* computed from the whole of clean.network_metrics and ml.anomalies as of *)
(* the start of its statement.  On the first connection the two statements *)
(* are durable one by one (autocommit), on later ones together.            *)
(*                                                                         *)
(* A rollup is a table: under the key of each of its rows the reports its  *)
(* averages are over, and the anomalies counted in it.                     *)
(***************************************************************************)
EXTENDS Integers

CONSTANTS
    Reports,
    HourOf,         \* HourOf[r]: the cell and hour of r, its row of the hourly rollup
    DayOf,          \* DayOf[r]: the site_id r itself carries, and its day
    SiteDayOf,      \* SiteDayOf[r]: the site of r's cell in ops.cells, and its day
    MaxFaults

VARIABLES
    clean, anomalies,   \* the facts: reports, and those scored as anomalies
    hourly, daily,
    etl,                \* what run_once does next: "hourly", "daily", "commit"
    statement,          \* the one it waits for, if any
    autocommit, txn,    \* the connection: its mode, statements of its transaction
    unended,            \* sets of statements the server still makes durable, or not,
                        \* and nobody waits for
    faults

Facts == [rows |-> clean, anoms |-> anomalies]
NoFacts == [rows |-> {}, anoms |-> {}]

Statements == [table : {"hourly", "daily"},
               facts : [rows : SUBSET Reports, anoms : SUBSET Reports]]
NoStatement == [table |-> "none", facts |-> NoFacts]

Row == [rows : SUBSET Reports, anoms : SUBSET Reports]
NoRow == [k \in {} |-> NoFacts]

\* GROUP BY and LEFT JOIN: one row per group of reports, and with it the anomalies
\* that fall under its key; those that fall under no row's are not counted.
Grouped(facts, RowOf, AnomRowOf) ==
    [k \in {RowOf[r] : r \in facts.rows} |->
        [rows  |-> {r \in facts.rows : RowOf[r] = k},
         anoms |-> {r \in facts.anoms : AnomRowOf[r] = k}]]

\* The anomalies of the daily rollup are those of the cells of the site, whichever
\* site the reports carry.
HourlyRows(facts) == Grouped(facts, HourOf, HourOf)
DailyRows(facts)  == Grouped(facts, DayOf, SiteDayOf)

\* Mutant of Upsert: ON CONFLICT ... DO NOTHING.
UpsertKeeps(rollup, new) ==
    [k \in DOMAIN rollup \cup DOMAIN new |->
        IF k \in DOMAIN rollup THEN rollup[k] ELSE new[k]]

\* ON CONFLICT ... DO UPDATE replaces the rows that are there, and leaves the others.
Upsert(rollup, new) ==
    [k \in DOMAIN rollup \cup DOMAIN new |->
        IF k \in DOMAIN new THEN new[k] ELSE rollup[k]]

FactsOf(stmts, table) ==
    LET its == {s \in stmts : s.table = table}
    IN  [rows |-> UNION {s.facts.rows : s \in its}, anoms |-> UNION {s.facts.anoms : s \in its}]

\* Mutant of Apply: the anomalies are counted by a statement of their own.
ApplyTwoReads(stmts) ==
    LET Mixed(table) == [FactsOf(stmts, table) EXCEPT
                            !.anoms = IF FactsOf(stmts, table).rows = {} THEN {} ELSE anomalies]
    IN  /\ hourly' = Upsert(hourly, HourlyRows(Mixed("hourly")))
        /\ daily'  = Upsert(daily, DailyRows(Mixed("daily")))

\* At most one statement per rollup; an upsert of nothing changes nothing.
Apply(stmts) ==
    /\ hourly' = Upsert(hourly, HourlyRows(FactsOf(stmts, "hourly")))
    /\ daily'  = Upsert(daily, DailyRows(FactsOf(stmts, "daily")))

\* What may become durable although the connection is gone: the statement the server
\* runs in autocommit mode, otherwise the transaction whose COMMIT was sent.
InFlight == IF autocommit THEN {statement} \ {NoStatement}
            ELSE IF etl = "commit" THEN txn ELSE {}

EtlFault == faults < MaxFaults /\ faults' = faults + 1
-----------------------------------------------------------------------------
RollupsInit ==
    /\ hourly = NoRow /\ daily = NoRow
    /\ etl = "hourly" /\ statement = NoStatement
    /\ autocommit = TRUE /\ txn = {} /\ unended = {}

\* cur.execute: the statement's snapshot is that of its start.  Before the hourly one
\* the process may have started, or slept for the interval.
Execute ==
    /\ etl \in {"hourly", "daily"}
    /\ statement = NoStatement
    /\ statement' = [table |-> etl, facts |-> Facts]
    /\ UNCHANGED <<hourly, daily, etl, autocommit, txn, unended, faults>>

\* Mutant of Executed: run_once returns after the hourly statement.
ExecutedHourlyOnly ==
    /\ statement # NoStatement
    /\ IF autocommit THEN Apply({statement}) /\ UNCHANGED txn
       ELSE txn' = txn \cup {statement} /\ UNCHANGED <<hourly, daily>>
    /\ statement' = NoStatement
    /\ etl' = IF autocommit THEN "hourly" ELSE "commit"
    /\ UNCHANGED <<autocommit, unended, faults>>

Executed ==
    /\ statement # NoStatement
    /\ IF autocommit THEN Apply({statement}) /\ UNCHANGED txn
       ELSE txn' = txn \cup {statement} /\ UNCHANGED <<hourly, daily>>
    /\ statement' = NoStatement
    /\ etl' = IF etl = "hourly" THEN "daily" ELSE IF autocommit THEN "hourly" ELSE "commit"
    /\ UNCHANGED <<autocommit, unended, faults>>

\* conn.commit(); in autocommit mode it has nothing to do.
EtlCommit ==
    /\ etl = "commit"
    /\ Apply(txn)
    /\ txn' = {} /\ etl' = "hourly"
    /\ UNCHANGED <<statement, autocommit, unended, faults>>

\* A call raises: run() logs it and tries the pair again an interval later, on the
\* same connection rolled back, or on a new one.
EtlFails ==
    /\ statement # NoStatement \/ etl = "commit"
    /\ EtlFault
    /\ \/ UNCHANGED <<autocommit, unended>>
       \/ autocommit' = FALSE /\ unended' = unended \cup ({InFlight} \ {{}})
    /\ statement' = NoStatement /\ txn' = {} /\ etl' = "hourly"
    /\ UNCHANGED <<hourly, daily>>

EtlCrash ==
    /\ EtlFault
    /\ unended' = unended \cup ({InFlight} \ {{}})
    /\ etl' = "hourly" /\ statement' = NoStatement /\ autocommit' = TRUE /\ txn' = {}
    /\ UNCHANGED <<hourly, daily>>

\* The server is done with them, after whatever the ETL has done since.
Ends(stmts) ==
    /\ stmts \in unended
    /\ Apply(stmts) \/ UNCHANGED <<hourly, daily>>
    /\ unended' = unended \ {stmts}
    /\ UNCHANGED <<etl, statement, autocommit, txn, faults>>

Etl == Execute \/ Executed \/ EtlCommit

RollupsNext == Etl \/ EtlFails \/ EtlCrash \/ \E stmts \in unended : Ends(stmts)
-----------------------------------------------------------------------------
\* Every variable has its type.
RollupsTypeOK ==
    /\ DOMAIN hourly \subseteq {HourOf[r] : r \in Reports}
    /\ DOMAIN daily \subseteq {DayOf[r] : r \in Reports}
    /\ \A k \in DOMAIN hourly : hourly[k] \in Row
    /\ \A k \in DOMAIN daily : daily[k] \in Row
    /\ etl \in {"hourly", "daily", "commit"}
    /\ statement \in Statements \cup {NoStatement}
    /\ autocommit \in BOOLEAN /\ txn \subseteq Statements
    /\ autocommit => txn = {}
    /\ unended \subseteq SUBSET Statements

\* No row of a rollup counts an anomaly of a report that is its own and leaves out the
\* report: a late statement of a dead ETL replaces both numbers of a row or none, and
\* both are of one snapshot.  (The daily row of a site also counts the anomalies of
\* its cells' reports that carry another site, and are samples of that site's row.)
\* (run_etl.py: one statement per rollup, facts and scores joined.)
AnomaliesAmongSamples ==
    /\ \A k \in DOMAIN hourly : hourly[k].anoms \subseteq hourly[k].rows
    /\ \A k \in DOMAIN daily : \A r \in daily[k].anoms : DayOf[r] = k => r \in daily[k].rows

\* The daily rollup counts what is in the hourly one, each report under the site it
\* carries and each anomaly under the site of its cell, if that one has a row.
DailyCovers ==
    \A h \in DOMAIN hourly :
        /\ \A r \in hourly[h].rows : DayOf[r] \in DOMAIN daily /\ r \in daily[DayOf[r]].rows
        /\ \A r \in hourly[h].anoms :
              SiteDayOf[r] \in DOMAIN daily => r \in daily[SiteDayOf[r]].anoms

\* As long as nothing fails the daily rollup is behind the hourly one only between
\* the two statements.  (run_once: hourly first, then daily, from newer facts.)
DailyCoversHourly == faults = 0 /\ etl # "daily" => DailyCovers

\* When reports and scores stop coming both rollups come to be what the facts say, and
\* stay so.  (run(): a failed or half-done pair is made again.)
RollupsConverge == <>[](hourly = HourlyRows(Facts) /\ daily = DailyRows(Facts))
=============================================================================
