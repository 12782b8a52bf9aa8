--------------------------- MODULE AnalyticsProofs --------------------------
(***************************************************************************)
(* The ml-worker and the ETL side by side, for any reports, labels, hours  *)
(* and days, and any number of faults.                                     *)
(***************************************************************************)
EXTENDS Analytics, ScoringProofs

Consistent(facts) == facts.anoms \subseteq facts.rows

HourlyConsistent(table) == \A k \in DOMAIN table : table[k].anoms \subseteq table[k].rows

DailyConsistent(table) ==
    \A k \in DOMAIN table : \A r \in table[k].anoms : DayOf[r] = k => r \in table[k].rows

\* Whatever is counted, or will be by a statement the server runs, was read at one time.
OneSnapshot ==
    /\ HourlyConsistent(hourly) /\ DailyConsistent(daily)
    /\ Consistent(statement.facts)
    /\ \A s \in txn : Consistent(s.facts)
    /\ \A stmts \in unended : \A s \in stmts : Consistent(s.facts)

\* The rows after an upsert: those of the snapshot, and of the others those there were.
LEMMA UpsertRows ==
    ASSUME NEW rollup, NEW new
    PROVE  /\ DOMAIN Upsert(rollup, new) = DOMAIN rollup \cup DOMAIN new
           /\ \A k \in DOMAIN Upsert(rollup, new) :
                 Upsert(rollup, new)[k] = IF k \in DOMAIN new THEN new[k] ELSE rollup[k]
BY DEF Upsert

\* A rollup that is consistent stays so when the rows of one snapshot are put into it.
LEMMA UpsertConsistent ==
    ASSUME NEW facts, Consistent(facts)
    PROVE  /\ \A t : HourlyConsistent(t) => HourlyConsistent(Upsert(t, HourlyRows(facts)))
           /\ \A t : DailyConsistent(t) => DailyConsistent(Upsert(t, DailyRows(facts)))
<1>1. HourlyConsistent(HourlyRows(facts))
  <2> SUFFICES ASSUME NEW k \in DOMAIN HourlyRows(facts), NEW r \in HourlyRows(facts)[k].anoms
               PROVE  r \in HourlyRows(facts)[k].rows
    BY DEF HourlyConsistent
  <2>1. HourlyRows(facts)[k] = [rows  |-> {q \in facts.rows : HourOf[q] = k},
                                anoms |-> {q \in facts.anoms : HourOf[q] = k}]
    BY DEF HourlyRows, Grouped
  <2>2. r \in facts.anoms /\ HourOf[r] = k BY <2>1
  <2>3. r \in facts.rows BY <2>2 DEF Consistent
  <2> QED BY <2>1, <2>2, <2>3
<1>2. DailyConsistent(DailyRows(facts))
  <2> SUFFICES ASSUME NEW k \in DOMAIN DailyRows(facts), NEW r \in DailyRows(facts)[k].anoms,
                      DayOf[r] = k
               PROVE  r \in DailyRows(facts)[k].rows
    BY DEF DailyConsistent
  <2>1. DailyRows(facts)[k] = [rows  |-> {q \in facts.rows : DayOf[q] = k},
                               anoms |-> {q \in facts.anoms : SiteDayOf[q] = k}]
    BY DEF DailyRows, Grouped
  <2>2. r \in facts.rows BY <2>1 DEF Consistent
  <2> QED BY <2>1, <2>2
<1> HIDE DEF HourlyRows, DailyRows
<1>3. ASSUME NEW t, HourlyConsistent(t)  PROVE HourlyConsistent(Upsert(t, HourlyRows(facts)))
  <2>1. /\ DOMAIN Upsert(t, HourlyRows(facts)) = DOMAIN t \cup DOMAIN HourlyRows(facts)
        /\ \A k \in DOMAIN Upsert(t, HourlyRows(facts)) :
              Upsert(t, HourlyRows(facts))[k] = IF k \in DOMAIN HourlyRows(facts)
                                                THEN HourlyRows(facts)[k] ELSE t[k]
    BY UpsertRows
  <2> QED BY <1>1, <1>3, <2>1 DEF HourlyConsistent
<1>4. ASSUME NEW t, DailyConsistent(t)  PROVE DailyConsistent(Upsert(t, DailyRows(facts)))
  <2>1. /\ DOMAIN Upsert(t, DailyRows(facts)) = DOMAIN t \cup DOMAIN DailyRows(facts)
        /\ \A k \in DOMAIN Upsert(t, DailyRows(facts)) :
              Upsert(t, DailyRows(facts))[k] = IF k \in DOMAIN DailyRows(facts)
                                               THEN DailyRows(facts)[k] ELSE t[k]
    BY UpsertRows
  <2> QED BY <1>2, <1>4, <2>1 DEF DailyConsistent
<1> QED BY <1>3, <1>4

LEMMA ApplyConsistent ==
    ASSUME NEW stmts, \A s \in stmts : Consistent(s.facts),
           HourlyConsistent(hourly), DailyConsistent(daily), Apply(stmts)
    PROVE  HourlyConsistent(hourly') /\ DailyConsistent(daily')
<1>1. \A table : Consistent(FactsOf(stmts, table))
  <2> TAKE table
  <2> DEFINE its == {s \in stmts : s.table = table}
  <2>1. FactsOf(stmts, table).rows = UNION {s.facts.rows : s \in its}
    BY DEF FactsOf
  <2>2. FactsOf(stmts, table).anoms = UNION {s.facts.anoms : s \in its}
    BY DEF FactsOf
  <2>3. \A s \in its : s.facts.anoms \subseteq s.facts.rows BY DEF Consistent
  <2>4. UNION {s.facts.anoms : s \in its} \subseteq UNION {s.facts.rows : s \in its}
    BY <2>3
  <2> QED BY <2>1, <2>2, <2>4 DEF Consistent
<1> QED BY <1>1, UpsertConsistent DEF Apply

\* The ETL's steps keep OneSnapshot.
LEMMA OneSnapshotStep ==
    ASSUME OneSnapshot, Consistent(Facts), RollupsNext
    PROVE  OneSnapshot'
<1> USE DEF OneSnapshot
<1>1. CASE Execute
  BY <1>1 DEF Execute
<1>2. CASE Executed
  <2>1. \A s \in {statement} : Consistent(s.facts) OBVIOUS
  <2>2. Consistent(NoStatement.facts) BY DEF NoStatement, NoFacts, Consistent
  <2>3. CASE autocommit
    <3>1. HourlyConsistent(hourly') /\ DailyConsistent(daily')
      BY <1>2, <2>1, <2>3, ApplyConsistent DEF Executed
    <3> QED BY <1>2, <2>2, <2>3, <3>1 DEF Executed
  <2>4. CASE ~autocommit
    BY <1>2, <2>2, <2>4 DEF Executed
  <2> QED BY <2>3, <2>4
<1>3. CASE EtlCommit
  <2>1. HourlyConsistent(hourly') /\ DailyConsistent(daily')
    BY <1>3, ApplyConsistent DEF EtlCommit
  <2> QED BY <1>3, <2>1 DEF EtlCommit
<1>4. CASE EtlFails \/ EtlCrash
  <2>1. \A s \in InFlight : Consistent(s.facts) BY DEF InFlight
  <2>2. Consistent(NoStatement.facts) BY DEF NoStatement, NoFacts, Consistent
  <2> QED BY <1>4, <2>1, <2>2 DEF EtlFails, EtlCrash
<1>5. CASE \E stmts \in unended : Ends(stmts)
  <2>1. PICK stmts \in unended : Ends(stmts) BY <1>5
  <2>2. HourlyConsistent(hourly') /\ DailyConsistent(daily')
    BY <2>1, ApplyConsistent DEF Ends
  <2> QED BY <2>1, <2>2 DEF Ends
<1> QED BY <1>1, <1>2, <1>3, <1>4, <1>5 DEF RollupsNext, Etl

AllInv == ModelInv /\ ScoredIsClean /\ OneSnapshot

LEMMA AllInductive == AllSpec => []AllInv
<1>1. AllInit => AllInv
  <2> SUFFICES ASSUME AllInit PROVE AllInv OBVIOUS
  <2>1. ModelInv
    BY DEF AllInit, Init, ModelInv, UsesSaved, NoneBeforeSaved, AllOfSaved, Nothing
  <2>2. ScoredIsClean BY DEF AllInit, Init, ScoredIsClean, Nothing
  <2>3. OneSnapshot
    BY DEF AllInit, RollupsInit, OneSnapshot, Consistent, HourlyConsistent, DailyConsistent,
           NoFacts, NoStatement, NoRow
  <2> QED BY <2>1, <2>2, <2>3 DEF AllInv
<1>2. AllInv /\ [AllNext]_allVars => AllInv'
  <2> SUFFICES ASSUME AllInv, [AllNext]_allVars PROVE AllInv' OBVIOUS
  <2> USE DEF AllInv
  <2>1. Consistent(Facts)
    BY DEF Facts, anomalies, ScoredIsClean, Consistent
  <2>2. CASE Next /\ UNCHANGED etlVars
    <3>1. ModelInv' /\ ScoredIsClean' BY <2>2, ModelStep, ScoredIsCleanStep
    <3>2. OneSnapshot'
      BY <2>2 DEF etlVars, OneSnapshot, Consistent, HourlyConsistent, DailyConsistent
    <3> QED BY <3>1, <3>2
  <2>3. CASE RollupsNext /\ UNCHANGED scoringVars
    <3>1. OneSnapshot' BY <2>1, <2>3, OneSnapshotStep
    <3>2. ModelInv'
      BY <2>3 DEF scoringVars, fileVars, workVars, ModelInv, UsesSaved, NoneBeforeSaved, AllOfSaved
    <3>3. ScoredIsClean' BY <2>3 DEF scoringVars, workVars, ScoredIsClean
    <3> QED BY <3>1, <3>2, <3>3
  <2>4. CASE UNCHANGED allVars
    <3>1. ModelInv'
      BY <2>4 DEF allVars, vars, fileVars, workVars, ModelInv, UsesSaved, NoneBeforeSaved, AllOfSaved
    <3>2. ScoredIsClean' BY <2>4 DEF allVars, vars, workVars, ScoredIsClean
    <3>3. OneSnapshot'
      BY <2>4 DEF allVars, etlVars, OneSnapshot, Consistent, HourlyConsistent, DailyConsistent
    <3> QED BY <3>1, <3>2, <3>3
  <2> QED BY <2>2, <2>3, <2>4 DEF AllNext
<1> QED BY <1>1, <1>2, PTL DEF AllSpec

\* However often training was cut short and repeated, and whatever the server inserts
\* late, all scores of the model version are of one model.
THEOREM ScoresAreOfOneModel == AllSpec => []OneModelPerVersion
<1>1. AllInv => OneModelPerVersion
  BY DEF AllInv, ModelInv, AllOfSaved, OneModelPerVersion
<1> QED BY <1>1, AllInductive, PTL

\* No row of a rollup counts an anomaly of one of its own reports and leaves out the
\* report, whichever statements of whichever ETL end in whichever order, and whichever
\* sites the reports carry.
THEOREM RollupsAreConsistent == AllSpec => []AnomaliesAmongSamples
<1>1. AllInv => AnomaliesAmongSamples
  BY DEF AllInv, OneSnapshot, HourlyConsistent, DailyConsistent, AnomaliesAmongSamples
<1> QED BY <1>1, AllInductive, PTL

\* A score is written once, whatever fails and whoever inserts late.
THEOREM ScoresAreNeverChanged == AllSpec => ScoresKept
<1>1. [AllNext]_allVars => [Kept]_vars
  <2>1. Next => Kept BY KeptByNext
  <2>2. UNCHANGED scores => Kept BY DEF Kept
  <2> QED BY <2>1, <2>2 DEF AllNext, scoringVars, allVars, vars
<1> QED BY <1>1, PTL DEF AllSpec, ScoresKept, Kept
-----------------------------------------------------------------------------
(***************************************************************************)
(* The types of the worker's and the ETL's state, and the deltas.          *)
(***************************************************************************)
IsRollup(table, RowOf) ==
    DOMAIN table \subseteq {RowOf[r] : r \in Reports} /\ \A k \in DOMAIN table : table[k] \in Row

LEMMA FactsOfType ==
    ASSUME NEW stmts, stmts \subseteq Statements, NEW table
    PROVE  FactsOf(stmts, table) \in Row
<1>1. \A s \in stmts : s.facts.rows \subseteq Reports /\ s.facts.anoms \subseteq Reports
  BY DEF Statements
<1> QED BY <1>1 DEF FactsOf, Row

LEMMA UpsertType ==
    ASSUME NEW RowOf, NEW AnomRowOf, NEW facts \in Row, NEW table, IsRollup(table, RowOf)
    PROVE  IsRollup(Upsert(table, Grouped(facts, RowOf, AnomRowOf)), RowOf)
<1> DEFINE new == Grouped(facts, RowOf, AnomRowOf)
<1>1. DOMAIN new \subseteq {RowOf[r] : r \in Reports}
  BY DEF Row, Grouped
<1>2. \A k \in DOMAIN new : new[k] \in Row
  BY DEF Row, Grouped
<1> HIDE DEF new
<1>3. /\ DOMAIN Upsert(table, new) = DOMAIN table \cup DOMAIN new
      /\ \A k \in DOMAIN Upsert(table, new) :
            Upsert(table, new)[k] = IF k \in DOMAIN new THEN new[k] ELSE table[k]
  BY UpsertRows
<1>4. IsRollup(Upsert(table, new), RowOf)
  BY <1>1, <1>2, <1>3 DEF IsRollup
<1> QED BY <1>4 DEF new

LEMMA ApplyType ==
    ASSUME NEW stmts, stmts \subseteq Statements,
           IsRollup(hourly, HourOf), IsRollup(daily, DayOf), Apply(stmts)
    PROVE  IsRollup(hourly', HourOf) /\ IsRollup(daily', DayOf)
BY FactsOfType, UpsertType DEF Apply, HourlyRows, DailyRows

\* The ETL's steps keep the types of its state.
LEMMA RollupsTypesStep ==
    ASSUME clean \subseteq Reports, DOMAIN scores \subseteq Reports, RollupsTypeOK, RollupsNext
    PROVE  RollupsTypeOK'
<1> USE DEF RollupsTypeOK
<1>1. IsRollup(hourly, HourOf) /\ IsRollup(daily, DayOf) BY DEF IsRollup
<1>2. Facts \in Row BY DEF Facts, anomalies, Row
<1>3. InFlight \subseteq Statements BY DEF InFlight
<1>4. CASE Execute
  <2>1. statement' \in Statements BY <1>2, <1>4 DEF Execute, Statements, Row
  <2> QED BY <1>4, <2>1 DEF Execute
<1>5. CASE Executed
  <2>1. statement \in Statements BY <1>5 DEF Executed
  <2>2. etl' \in {"hourly", "daily", "commit"} /\ statement' = NoStatement BY <1>5 DEF Executed
  <2>3. CASE autocommit
    <3>1. IsRollup(hourly', HourOf) /\ IsRollup(daily', DayOf)
      BY <1>1, <1>5, <2>1, <2>3, ApplyType DEF Executed
    <3> QED BY <1>5, <2>2, <2>3, <3>1 DEF Executed, IsRollup
  <2>4. CASE ~autocommit
    BY <1>5, <2>1, <2>2, <2>4 DEF Executed
  <2> QED BY <2>3, <2>4
<1>6. CASE EtlCommit
  <2>1. IsRollup(hourly', HourOf) /\ IsRollup(daily', DayOf)
    BY <1>1, <1>6, ApplyType DEF EtlCommit
  <2> QED BY <1>6, <2>1 DEF EtlCommit, IsRollup
<1>7. CASE EtlFails \/ EtlCrash
  <2>1. unended' \subseteq SUBSET Statements BY <1>3, <1>7 DEF EtlFails, EtlCrash
  <2>2. autocommit' \in BOOLEAN /\ txn' = {} /\ etl' = "hourly" /\ statement' = NoStatement
    BY <1>7 DEF EtlFails, EtlCrash
  <2> QED BY <1>7, <2>1, <2>2 DEF EtlFails, EtlCrash
<1>8. CASE \E stmts \in unended : Ends(stmts)
  <2>1. PICK stmts \in unended : Ends(stmts) BY <1>8
  <2>2. IsRollup(hourly', HourOf) /\ IsRollup(daily', DayOf)
    BY <1>1, <2>1, ApplyType DEF Ends
  <2> QED BY <2>1, <2>2 DEF Ends, IsRollup
<1> QED BY <1>4, <1>5, <1>6, <1>7, <1>8 DEF RollupsNext, Etl

\* The ETL shares with the worker's state only the count of faults.
LEMMA RollupsKeepScoring ==
    ASSUME TypeOK, RollupsNext, UNCHANGED scoringVars
    PROVE  TypeOK'
<1>1. Fault = EtlFault BY DEF Fault, EtlFault
<1>2. faults' \in 0 .. MaxFaults
  BY BoundsAssumption DEF TypeOK, RollupsNext, Etl, Execute, Executed, EtlCommit, EtlFails, EtlCrash,
     EtlFault, Ends
<1> QED BY <1>2 DEF TypeOK, scoringVars, fileVars, workVars

TypesInv == AllTypeOK /\ SavedFitted /\ DeltaInv

LEMMA TypesInductive == AllSpec => []TypesInv
<1>1. AllInit => TypesInv
  <2> SUFFICES ASSUME AllInit PROVE TypesInv OBVIOUS
  <2>1. DOMAIN Nothing = {} BY DEF Nothing
  <2>2. TypeOK BY <2>1, BoundsAssumption DEF AllInit, Init, TypeOK
  <2>3. RollupsTypeOK
    BY DEF AllInit, RollupsInit, RollupsTypeOK, NoFacts, NoRow
  <2>4. DeltaInv BY <2>1 DEF AllInit, Init, DeltaInv, HasLatest, FromPredecessor
  <2> QED BY <2>2, <2>3, <2>4 DEF AllInit, Init, TypesInv, AllTypeOK, SavedFitted
<1>2. TypesInv /\ AllInv /\ [AllNext]_allVars => TypesInv'
  <2> SUFFICES ASSUME TypesInv, AllInv, [AllNext]_allVars PROVE TypesInv' OBVIOUS
  <2> USE DEF TypesInv, AllTypeOK
  <2>1. clean \subseteq Reports /\ DOMAIN scores \subseteq Reports BY DEF TypeOK
  <2>2. CASE Next /\ UNCHANGED etlVars
    <3>1. TypeOK' /\ SavedFitted' BY <2>2, ScoringTypesStep DEF DeltaInv
    <3>2. DeltaInv' BY <2>1, <2>2, DeltaStep DEF AllInv
    <3>3. RollupsTypeOK' BY <2>2 DEF etlVars, RollupsTypeOK
    <3> QED BY <3>1, <3>2, <3>3
  <2>3. CASE RollupsNext /\ UNCHANGED scoringVars
    <3>1. RollupsTypeOK' BY <2>1, <2>3, RollupsTypesStep
    <3>2. TypeOK' BY <2>3, RollupsKeepScoring
    <3>3. SavedFitted' /\ DeltaInv'
      BY <2>3 DEF scoringVars, fileVars, workVars, SavedFitted, DeltaInv, FromPredecessor
    <3> QED BY <3>1, <3>2, <3>3
  <2>4. CASE UNCHANGED allVars
    <3>1. TypeOK' BY <2>4 DEF allVars, vars, fileVars, workVars, TypeOK
    <3>2. RollupsTypeOK' BY <2>4 DEF allVars, etlVars, RollupsTypeOK
    <3>3. SavedFitted' /\ DeltaInv'
      BY <2>4 DEF allVars, vars, fileVars, workVars, SavedFitted, DeltaInv, FromPredecessor
    <3> QED BY <3>1, <3>2, <3>3
  <2> QED BY <2>2, <2>3, <2>4 DEF AllNext
<1> QED BY <1>1, <1>2, AllInductive, PTL DEF AllSpec

\* Every variable of the worker and the ETL has its type, for any reports and faults.
THEOREM AllTypes == AllSpec => []AllTypeOK
<1>1. TypesInv => AllTypeOK BY DEF TypesInv
<1> QED BY <1>1, TypesInductive, PTL

\* The deltas of a score were taken from the report before it, unless that one came
\* late: neither batches nor failures nor late INSERTs make a score skip a predecessor
\* that was there.
THEOREM DeltasAreFromPredecessor == AllSpec => []DeltasFromPredecessor
<1>1. TypesInv => DeltasFromPredecessor BY DeltasHold DEF TypesInv
<1> QED BY <1>1, TypesInductive, PTL
-----------------------------------------------------------------------------
(***************************************************************************)
(* The order of the two rollups.  The daily statement reads facts that are *)
(* no older than the hourly one's, since facts only grow.                  *)
(***************************************************************************)
Within(a, b) == a.rows \subseteq b.rows /\ a.anoms \subseteq b.anoms

CountedIn(table, facts) == \A k \in DOMAIN table : Within(table[k], facts)
DaysIn(table, facts) == \A k \in DOMAIN table : \E r \in facts.rows : DayOf[r] = k

PairInOrder ==
    faults = 0 =>
        /\ autocommit /\ unended = {} /\ etl \in {"hourly", "daily"}
        /\ CountedIn(hourly, Facts) /\ DaysIn(daily, Facts)
        /\ statement # NoStatement =>
              /\ statement.table = etl /\ Within(statement.facts, Facts)
              /\ CountedIn(hourly, statement.facts) /\ DaysIn(daily, statement.facts)
        /\ etl # "daily" => DailyCovers

\* Facts are added and never taken back.
LEMMA FactsGrow ==
    ASSUME Next
    PROVE  clean \subseteq clean' /\ DOMAIN scores \subseteq DOMAIN scores'
<1>1. DOMAIN scores \subseteq DOMAIN scores' BY KeptByNext DEF Kept
<1>2. clean \subseteq clean'
  BY DEF Next, Work, Arrive, Load, Count, Train, OpenFile, Save, Read, Sleep, Insert, DumpFails,
     InsertFails, Crash, InsertedUnheard, vars
<1> QED BY <1>1, <1>2

\* Faults are counted and never forgotten.
LEMMA FaultsGrow ==
    ASSUME TypeOK, Next
    PROVE  faults' = 0 => faults = 0
<1>1. faults \in Nat BY BoundsAssumption DEF TypeOK
<1>2. faults' = faults \/ Fault
  BY DEF Next, Work, Arrive, Load, Count, Train, OpenFile, Save, Read, Sleep, Insert, DumpFails,
     InsertFails, Crash, InsertedUnheard, vars
<1> QED BY <1>1, <1>2 DEF Fault

\* Two tables with the same rows.
SameRows(t, u) == DOMAIN t = DOMAIN u /\ \A k \in DOMAIN u : t[k] = u[k]

\* The statement of the one rollup puts its rows there and leaves the other as it is.
LEMMA ApplyOne ==
    ASSUME NEW s, Apply({s}), s.table \in {"hourly", "daily"}
    PROVE  \E f : /\ f.rows = s.facts.rows /\ f.anoms = s.facts.anoms
                  /\ s.table = "hourly" => /\ hourly' = Upsert(hourly, HourlyRows(f))
                                           /\ SameRows(daily', daily)
                  /\ s.table = "daily" => /\ daily' = Upsert(daily, DailyRows(f))
                                          /\ SameRows(hourly', hourly)
<1> DEFINE f == [rows |-> s.facts.rows, anoms |-> s.facts.anoms]
<1>1. ASSUME NEW table  PROVE FactsOf({s}, table) = IF s.table = table THEN f ELSE NoFacts
  <2>1. CASE s.table = table
    <3>1. {x \in {s} : x.table = table} = {s} BY <2>1
    <3> QED BY <2>1, <3>1 DEF FactsOf
  <2>2. CASE s.table # table
    <3>1. {x \in {s} : x.table = table} = {} BY <2>2
    <3> QED BY <2>2, <3>1 DEF FactsOf, NoFacts
  <2> QED BY <2>1, <2>2
<1>2. /\ hourly' = Upsert(hourly, HourlyRows(FactsOf({s}, "hourly")))
      /\ daily' = Upsert(daily, DailyRows(FactsOf({s}, "daily")))
  BY DEF Apply
<1>3. \A t, RowOf, AnomRowOf : SameRows(Upsert(t, Grouped(NoFacts, RowOf, AnomRowOf)), t)
  <2> TAKE t, RowOf, AnomRowOf
  <2> DEFINE new == Grouped(NoFacts, RowOf, AnomRowOf)
  <2>1. DOMAIN new = {} BY DEF NoFacts, Grouped
  <2> HIDE DEF new
  <2>2. SameRows(Upsert(t, new), t) BY <2>1 DEF SameRows, Upsert
  <2> QED BY <2>2 DEF new
<1>4. f.rows = s.facts.rows /\ f.anoms = s.facts.anoms OBVIOUS
<1> HIDE DEF f
<1>5. CASE s.table = "hourly"
  <2>1. FactsOf({s}, "hourly") = f /\ FactsOf({s}, "daily") = NoFacts BY <1>1, <1>5
  <2>2. SameRows(daily', daily) BY <1>2, <1>3, <2>1 DEF DailyRows
  <2> QED BY <1>2, <1>4, <1>5, <2>1, <2>2
<1>6. CASE s.table = "daily"
  <2>1. FactsOf({s}, "daily") = f /\ FactsOf({s}, "hourly") = NoFacts BY <1>1, <1>6
  <2>2. SameRows(hourly', hourly) BY <1>2, <1>3, <2>1 DEF HourlyRows
  <2> QED BY <1>2, <1>4, <1>6, <2>1, <2>2
<1> QED BY <1>5, <1>6

\* What the rows of a snapshot are made of, and that they cover it.
LEMMA RowsOfSnapshot ==
    ASSUME NEW f, NEW t
    PROVE  /\ \A g : CountedIn(t, g) /\ Within(f, g) => CountedIn(Upsert(t, HourlyRows(f)), g)
           /\ \A g : DaysIn(t, g) /\ Within(f, g) => DaysIn(Upsert(t, DailyRows(f)), g)
           /\ \A r \in f.rows : /\ DayOf[r] \in DOMAIN Upsert(t, DailyRows(f))
                                 /\ r \in Upsert(t, DailyRows(f))[DayOf[r]].rows
           /\ DaysIn(t, f) =>
                 \A r \in f.anoms : SiteDayOf[r] \in DOMAIN Upsert(t, DailyRows(f)) =>
                                       r \in Upsert(t, DailyRows(f))[SiteDayOf[r]].anoms
<1>1. /\ DOMAIN DailyRows(f) = {DayOf[r] : r \in f.rows}
      /\ \A k \in DOMAIN DailyRows(f) :
            DailyRows(f)[k] = [rows  |-> {r \in f.rows : DayOf[r] = k},
                               anoms |-> {r \in f.anoms : SiteDayOf[r] = k}]
  BY DEF DailyRows, Grouped
<1>2. \A k \in DOMAIN HourlyRows(f) : Within(HourlyRows(f)[k], f)
  <2> TAKE k \in DOMAIN HourlyRows(f)
  <2>1. HourlyRows(f)[k] = [rows  |-> {r \in f.rows : HourOf[r] = k},
                            anoms |-> {r \in f.anoms : HourOf[r] = k}]
    BY DEF HourlyRows, Grouped
  <2> QED BY <2>1 DEF Within
<1> DEFINE newHourly == HourlyRows(f)
           newDaily == DailyRows(f)
<1>3. /\ \A k \in DOMAIN newHourly : Within(newHourly[k], f)
      /\ \A k \in DOMAIN newDaily : \E r \in f.rows : DayOf[r] = k
      /\ \A r \in f.rows : DayOf[r] \in DOMAIN newDaily
  BY <1>1, <1>2
<1>4. \A r \in f.rows : r \in newDaily[DayOf[r]].rows
  <2> TAKE r \in f.rows
  <2>1. newDaily[DayOf[r]] = [rows  |-> {q \in f.rows : DayOf[q] = DayOf[r]},
                              anoms |-> {q \in f.anoms : SiteDayOf[q] = DayOf[r]}]
    BY <1>1, <1>3
  <2> QED BY <2>1
<1>5. \A r \in f.anoms : SiteDayOf[r] \in DOMAIN newDaily => r \in newDaily[SiteDayOf[r]].anoms
  <2> SUFFICES ASSUME NEW r \in f.anoms, SiteDayOf[r] \in DOMAIN newDaily
               PROVE  r \in newDaily[SiteDayOf[r]].anoms
    OBVIOUS
  <2>1. newDaily[SiteDayOf[r]] = [rows  |-> {q \in f.rows : DayOf[q] = SiteDayOf[r]},
                                  anoms |-> {q \in f.anoms : SiteDayOf[q] = SiteDayOf[r]}]
    BY <1>1
  <2> QED BY <2>1
<1> HIDE DEF newHourly, newDaily
<1>6. ASSUME NEW g, CountedIn(t, g), Within(f, g)  PROVE CountedIn(Upsert(t, newHourly), g)
  <2>1. \A k \in DOMAIN newHourly : Within(newHourly[k], g) BY <1>3, <1>6 DEF Within
  <2> QED BY <1>6, <2>1 DEF CountedIn, Upsert
<1>7. ASSUME NEW g, DaysIn(t, g), Within(f, g)  PROVE DaysIn(Upsert(t, newDaily), g)
  <2>1. f.rows \subseteq g.rows BY <1>7 DEF Within
  <2> QED BY <1>3, <1>7, <2>1 DEF DaysIn, Upsert
<1>8. \A r \in f.rows : /\ DayOf[r] \in DOMAIN Upsert(t, newDaily)
                        /\ r \in Upsert(t, newDaily)[DayOf[r]].rows
  BY <1>3, <1>4 DEF Upsert
<1>9. ASSUME DaysIn(t, f), NEW r \in f.anoms, SiteDayOf[r] \in DOMAIN Upsert(t, newDaily)
      PROVE  r \in Upsert(t, newDaily)[SiteDayOf[r]].anoms
  <2>1. SiteDayOf[r] \in DOMAIN t \cup DOMAIN newDaily BY <1>9 DEF Upsert
  <2>2. SiteDayOf[r] \in DOMAIN newDaily BY <1>3, <1>9, <2>1 DEF DaysIn
  <2> QED BY <1>5, <2>2 DEF Upsert
<1> QED BY <1>6, <1>7, <1>8, <1>9 DEF newHourly, newDaily

\* The ETL's steps keep the order, as long as none of them fails.
LEMMA PairInOrderStep ==
    ASSUME TypeOK, RollupsTypeOK, PairInOrder, RollupsNext, UNCHANGED scoringVars
    PROVE  PairInOrder'
<1> SUFFICES ASSUME faults' = 0  PROVE PairInOrder'
  BY DEF PairInOrder
<1>1. faults \in Nat BY BoundsAssumption DEF TypeOK
<1>2. ~EtlFault BY <1>1 DEF EtlFault
<1>3. UNCHANGED faults BY <1>2 DEF RollupsNext, Etl, Execute, Executed, EtlCommit, EtlFails, EtlCrash, Ends
<1>4. UNCHANGED Facts BY DEF Facts, anomalies, scoringVars
<1>5. /\ autocommit /\ unended = {} /\ etl \in {"hourly", "daily"}
      /\ CountedIn(hourly, Facts) /\ DaysIn(daily, Facts)
      /\ statement # NoStatement =>
            /\ statement.table = etl /\ Within(statement.facts, Facts)
            /\ CountedIn(hourly, statement.facts) /\ DaysIn(daily, statement.facts)
      /\ etl # "daily" => DailyCovers
  BY <1>3 DEF PairInOrder
<1>6. CASE Execute
  <2>1. /\ statement' = [table |-> etl, facts |-> Facts]
        /\ UNCHANGED <<hourly, daily, etl, autocommit, unended>>
    BY <1>6 DEF Execute
  <2>2. statement'.table = etl /\ statement'.facts = Facts BY <2>1
  <2>3. Within(Facts, Facts) BY DEF Within
  <2>4. Within(statement'.facts, Facts') BY <1>4, <2>2, <2>3
  <2>5. CountedIn(hourly', statement'.facts) /\ DaysIn(daily', statement'.facts)
    BY <1>5, <2>1, <2>2
  <2>6. CountedIn(hourly', Facts') /\ DaysIn(daily', Facts') BY <1>4, <1>5, <2>1
  <2>7. etl' # "daily" => DailyCovers' BY <1>5, <2>1 DEF DailyCovers
  <2> QED BY <1>5, <2>1, <2>2, <2>4, <2>5, <2>6, <2>7 DEF PairInOrder
<1>7. CASE Executed
  <2>1. /\ statement # NoStatement /\ Apply({statement}) /\ statement' = NoStatement
        /\ UNCHANGED <<autocommit, unended>>
        /\ etl' = IF etl = "hourly" THEN "daily" ELSE "hourly"
    BY <1>5, <1>7 DEF Executed
  <2>2. PICK f : /\ f.rows = statement.facts.rows /\ f.anoms = statement.facts.anoms
                 /\ etl = "hourly" => /\ hourly' = Upsert(hourly, HourlyRows(f))
                                      /\ SameRows(daily', daily)
                 /\ etl = "daily" => /\ daily' = Upsert(daily, DailyRows(f))
                                     /\ SameRows(hourly', hourly)
    BY <1>5, <2>1, ApplyOne
  <2>3. Within(f, Facts) BY <1>5, <2>1, <2>2 DEF Within
  <2>4. CASE etl = "hourly"
    <3>1. CountedIn(hourly', Facts) BY <1>5, <2>2, <2>3, <2>4, RowsOfSnapshot
    <3>2. DaysIn(daily', Facts) BY <1>5, <2>2, <2>4 DEF DaysIn, SameRows
    <3> QED BY <1>4, <1>5, <2>1, <2>4, <3>1, <3>2 DEF PairInOrder
  <2>5. CASE etl = "daily"
    <3>1. CountedIn(hourly', Facts) BY <1>5, <2>2, <2>5 DEF CountedIn, SameRows
    <3>2. DaysIn(daily', Facts) BY <1>5, <2>2, <2>3, <2>5, RowsOfSnapshot
    <3>3. CountedIn(hourly', f) BY <1>5, <2>1, <2>2, <2>5 DEF CountedIn, SameRows, Within
    <3>4. DaysIn(daily, f) BY <1>5, <2>1, <2>2 DEF DaysIn
    <3>5. /\ \A r \in f.rows : DayOf[r] \in DOMAIN daily' /\ r \in daily'[DayOf[r]].rows
          /\ \A r \in f.anoms : SiteDayOf[r] \in DOMAIN daily' => r \in daily'[SiteDayOf[r]].anoms
      BY <2>2, <2>5, <3>4, RowsOfSnapshot
    <3>6. DailyCovers' BY <3>3, <3>5 DEF DailyCovers, CountedIn, Within
    <3> QED BY <1>4, <1>5, <2>1, <2>5, <3>1, <3>2, <3>6 DEF PairInOrder
  <2> QED BY <1>5, <2>4, <2>5
<1>8. ~EtlCommit BY <1>5 DEF EtlCommit
<1>9. ~(\E stmts \in unended : Ends(stmts)) BY <1>5
<1>10. ~EtlFails /\ ~EtlCrash BY <1>2 DEF EtlFails, EtlCrash
<1> QED BY <1>6, <1>7, <1>8, <1>9, <1>10 DEF RollupsNext, Etl

\* As long as nothing fails, the daily rollup is behind the hourly one only between the
\* two statements, however reports and scores arrive in between.
THEOREM DailyFollowsHourly == AllSpec => []DailyCoversHourly
<1>1. AllInit => PairInOrder
  BY DEF AllInit, Init, RollupsInit, PairInOrder, CountedIn, DaysIn, DailyCovers, NoRow
<1>2. TypesInv /\ PairInOrder /\ [AllNext]_allVars => PairInOrder'
  <2> SUFFICES ASSUME TypesInv, PairInOrder, [AllNext]_allVars PROVE PairInOrder' OBVIOUS
  <2>1. TypeOK /\ RollupsTypeOK BY DEF TypesInv, AllTypeOK
  <2>2. CASE Next /\ UNCHANGED etlVars
    <3>1. faults' = 0 => faults = 0 BY <2>1, <2>2, FaultsGrow
    <3>2. Within(Facts, Facts')
      BY <2>2, FactsGrow DEF Within, Facts, anomalies
    <3>3. UNCHANGED <<hourly, daily, etl, statement, autocommit, unended>> BY <2>2 DEF etlVars
    <3>4. CountedIn(hourly, Facts) /\ DaysIn(daily, Facts)
             => CountedIn(hourly', Facts') /\ DaysIn(daily', Facts')
      BY <3>2, <3>3 DEF CountedIn, DaysIn, Within
    <3>5. Within(statement.facts, Facts) => Within(statement'.facts, Facts')
      BY <3>2, <3>3 DEF Within
    <3>6. DailyCovers => DailyCovers' BY <3>3 DEF DailyCovers
    <3> QED BY <3>1, <3>3, <3>4, <3>5, <3>6 DEF PairInOrder, CountedIn, DaysIn
  <2>3. CASE RollupsNext /\ UNCHANGED scoringVars
    BY <2>1, <2>3, PairInOrderStep
  <2>4. CASE UNCHANGED allVars
    <3>1. UNCHANGED <<hourly, daily, etl, statement, autocommit, unended, faults, clean, scores>>
      BY <2>4 DEF allVars, etlVars, vars
    <3>2. UNCHANGED Facts BY <3>1 DEF Facts, anomalies
    <3> QED BY <3>1, <3>2 DEF PairInOrder, DailyCovers
  <2> QED BY <2>2, <2>3, <2>4 DEF AllNext
<1>3. PairInOrder => DailyCoversHourly
  BY DEF PairInOrder, DailyCoversHourly
<1> QED BY <1>1, <1>2, <1>3, TypesInductive, PTL DEF AllSpec
=============================================================================
