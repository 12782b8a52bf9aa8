----------------------------- MODULE Verdicts ------------------------------
(***************************************************************************)
(* What the services say of one report on its way: the simulator makes it  *)
(* (simulator/physics.py) and may corrupt it, the processor validates it   *)
(* (pipeline/validator.py, common/schemas.py), the ml-worker calls it an   *)
(* anomaly (ml/infer.py), the alert engine grades and explains it          *)
(* (alerts/severity.py, explain/rules.py).  Reports of another producer    *)
(* enter at the topic.                                                     *)
(*                                                                         *)
(* Metrics are integers: the thresholds are, and 0 stands for a throughput *)
(* below 1.0.  A value of a payload is a record whose one field says what  *)
(* pydantic takes it for: a number in quotes is a number, a number as a    *)
(* timestamp is a time, which is its age in minutes when produced.         *)
(***************************************************************************)
EXTENDS Integers

CONSTANTS
    Cell, Site, Capacity,   \* a seeded cell, its site and its max_capacity_users
    Sites,        \* the seeded sites: a report may carry another one than its cell's
    Baseline,     \* the throughput the cell usually has
    MaxInteger,   \* of an INTEGER column
    Raw,          \* what generate_event's formulas may give, before the last clamps
    Foreign,      \* payloads another producer may send
    Backfill,     \* settings.backfill_hours, in minutes
    Lags          \* minutes a report may wait in the topic

Num(n)  == [num |-> n]
Text(s) == [str |-> s]
Time(a) == [age |-> a]
Null    == [null |-> TRUE]
NaN     == [nan |-> TRUE]

Names       == {"site_id", "cell_id", "region"}
Percentages == {"packet_loss_pct", "cpu_usage_pct", "memory_usage_pct"}
Metrics     == Percentages \cup {"active_users", "throughput_mbps", "latency_ms",
                                 "signal_strength_dbm"}
Choices     == [technology |-> {"4G", "5G"}, network_status |-> {"UP", "DOWN"}]
Required    == Names \cup Metrics \cup DOMAIN Choices \cup {"timestamp"}

\* A payload keeps the fields the services read; pydantic ignores any other.
ASSUME InputsAssumption ==
    /\ Site \in Sites
    /\ Raw \subseteq [Metrics -> Int] /\ Lags \subseteq Int
    /\ Backfill \in Nat /\ Capacity \in Nat \ {0} /\ MaxInteger \in Nat
    /\ \A p \in Foreign : DOMAIN p \subseteq Required
    /\ \A p \in Foreign : \A f \in Metrics \cap DOMAIN p :
          "num" \in DOMAIN p[f] => p[f].num \in Int

Incidents == {"NONE", "CONGESTION", "HARDWARE", "OUTAGE", "INTERFERENCE"}
Defects   == {"none", "latency", "loss", "cell", "timestamp", "cpu"}

VARIABLES
    stage,      \* the service that has it: "none", "topic", "clean", "scored", "alerted"
    payload,    \* the JSON object, a function on the fields it has
    origin,     \* the simulator's incident and defect, for a report of its own
    verdict,    \* of the processor: "valid" or the error_class
    anomaly,    \* of the ml-worker
    severity, cause

vars == <<stage, payload, origin, verdict, anomaly, severity, cause>>
-----------------------------------------------------------------------------
(* The simulator *)

Clamp(v, low, high) == IF v < low THEN low ELSE IF v > high THEN high ELSE v

\* The range generate_event leaves each metric in.
Bounds == [active_users        |-> <<0, (Capacity * 29) \div 20>>,
           throughput_mbps     |-> <<0, 800>>,
           latency_ms          |-> <<1, 2000>>,
           packet_loss_pct     |-> <<0, 100>>,
           signal_strength_dbm |-> <<-140, -30>>,
           cpu_usage_pct       |-> <<1, 100>>,
           memory_usage_pct    |-> <<1, 100>>]

\* What an incident forces, whatever its intensity and the cell's load; the other
\* metrics it scales stay arbitrary.
Forced(incident, f, v) ==
    CASE incident = "OUTAGE" /\ f = "throughput_mbps"  -> IF v < 0 THEN -v ELSE v
      [] incident = "OUTAGE" /\ f = "packet_loss_pct"  -> Clamp(v, 70, 100)
      [] incident = "HARDWARE" /\ f = "cpu_usage_pct"    -> Clamp(v, 70, 100)
      [] incident = "HARDWARE" /\ f = "memory_usage_pct" -> Clamp(v, 65, 100)
      [] OTHER -> v

Event(raw, incident, age) ==
    [f \in Required |->
        CASE f \in Metrics ->
                Num(Clamp(Forced(incident, f, raw[f]), Bounds[f][1], Bounds[f][2]))
          [] f = "network_status" -> Text(IF incident = "OUTAGE" THEN "DOWN" ELSE "UP")
          [] f = "technology"     -> Text("5G")
          [] f = "timestamp"      -> Time(age)
          [] f = "cell_id"        -> Text(Cell)
          [] f = "site_id"        -> Text(Site)
          [] f = "region"         -> Text("region")]

\* corrupt_event.
Corrupt(p, defect) ==
    CASE defect = "latency"   -> [p EXCEPT !.latency_ms = Num(-12)]
      [] defect = "loss"      -> [p EXCEPT !.packet_loss_pct = Num(140)]
      [] defect = "cell"      -> [f \in Required \ {"cell_id"} |-> p[f]]
      [] defect = "timestamp" -> [p EXCEPT !.timestamp = Text("not-a-timestamp")]
      [] defect = "cpu"       -> [p EXCEPT !.cpu_usage_pct = Num(250)]
      [] OTHER -> p
-----------------------------------------------------------------------------
(* The processor *)

\* Mutant of InRange: a percentage without its upper bound.
InRangeFromZero(f, v) ==
    IF f = "signal_strength_dbm" THEN v >= -140 /\ v <= 0 ELSE v >= 0

InRange(f, v) ==
    CASE f \in Percentages           -> v >= 0 /\ v <= 100
      [] f = "signal_strength_dbm"   -> v >= -140 /\ v <= 0
      [] OTHER                       -> v >= 0

Is(kind, x) == kind \in DOMAIN x

\* NetworkMetricEvent's complaint about a field: "type" for one of pydantic itself,
\* "range" for one of the validators.  No comparison with NaN is true.
Complaint(f, x) ==
    CASE f \in Names           -> IF Is("str", x) /\ x # Text("") THEN "none" ELSE "type"
      [] f \in DOMAIN Choices  -> IF ~Is("str", x) THEN "type"
                                  ELSE IF x.str \in Choices[f] THEN "none" ELSE "range"
      [] f = "timestamp"       -> IF Is("age", x) THEN "none" ELSE "type"
      [] Is("nan", x)          -> IF f = "active_users" THEN "type" ELSE "none"
      [] OTHER                 -> IF ~Is("num", x) THEN "type"
                                  ELSE IF InRange(f, x.num) THEN "none" ELSE "range"

\* The words _classify looks for; a longer text that contains one stands as the word.
MissingWords == {"required", "missing"}
RangeWords   == {"must be", "between", "percentage", "signal"}

\* The exception quotes the value of each field it complains of.
Quotes(p, words) ==
    \E f \in Required : Complaint(f, p[f]) # "none" /\ Is("str", p[f]) /\ p[f].str \in words

\* _classify looks for its words in the text of the exception, in this order.  They come
\* from the message of a validator, from the name of a field (signal_strength_dbm, in a
\* type error as well) or from a value that is quoted.
ErrorClass(p) ==
    IF Quotes(p, MissingWords) THEN "missing_field"
    ELSE IF \/ \E f \in Required : Complaint(f, p[f]) = "range"
            \/ Complaint("signal_strength_dbm", p.signal_strength_dbm) = "type"
            \/ Quotes(p, RangeWords) THEN "range_fail"
    ELSE "schema_fail"

\* Mutant of MaxAge: nothing on top of the backfill.
MaxAgeOfBackfill == Backfill

MaxAge == Backfill + 60     \* of the default max_event_age_seconds, an hour

\* validate_payload lag minutes after the report was produced, and the known_cells test.
Validate(p, lag) ==
    IF \E f \in Required : f \notin DOMAIN p \/ p[f] = Null THEN "missing_field"
    ELSE IF \E f \in Required : Complaint(f, p[f]) # "none" THEN ErrorClass(p)
    ELSE IF p.timestamp.age + lag < -5 THEN "range_fail"
    ELSE IF p.timestamp.age + lag > MaxAge THEN "range_fail"
    ELSE IF p.cell_id # Text(Cell) THEN "schema_fail"
    ELSE "valid"

\* A text with a NUL character in it.
NUL == Text("NUL")

\* What PostgreSQL takes: the site is a foreign key, to any seeded site; active_users is
\* an INTEGER; no text has a NUL, and the JSONB column of the raw row takes no NaN.
Storable(p) ==
    /\ \E s \in Sites : p.site_id = Text(s)
    /\ p.region # NUL
    /\ p.active_users.num <= MaxInteger
    /\ \A f \in Required : ~Is("nan", p[f])
-----------------------------------------------------------------------------
(* The ml-worker and the alert engine.  m is a row of clean.network_metrics. *)

\* Mutant of RuleForceAnomaly: all three signs at once.
RuleForceAnomalyAll(m) ==
    m.network_status = "DOWN" /\ m.throughput_mbps < 1 /\ m.packet_loss_pct > 50

RuleForceAnomaly(m) ==
    m.network_status = "DOWN" \/ m.throughput_mbps < 1 \/ m.packet_loss_pct > 50

\* Mutant of ClassifySeverity: the bound of the ml-worker's rule, > 50.
ClassifySeverityAbove50(m, isAnomaly) ==
    IF ~isAnomaly THEN "none"
    ELSE IF m.network_status = "DOWN" \/ m.throughput_mbps < 1 \/ m.packet_loss_pct > 50 THEN "CRITICAL"
    ELSE IF m.packet_loss_pct >= 10 /\ m.latency_ms >= 150 THEN "HIGH"
    ELSE IF m.packet_loss_pct >= 3 \/ m.latency_ms >= 80 THEN "MEDIUM"
    ELSE "LOW"

\* Mutant of ClassifySeverity: MEDIUM is a band below HIGH's loss.
ClassifySeverityBanded(m, isAnomaly) ==
    IF ~isAnomaly THEN "none"
    ELSE IF m.network_status = "DOWN" \/ m.throughput_mbps < 1 \/ m.packet_loss_pct >= 50 THEN "CRITICAL"
    ELSE IF m.packet_loss_pct >= 10 /\ m.latency_ms >= 150 THEN "HIGH"
    ELSE IF m.packet_loss_pct \in 3 .. 9 \/ m.latency_ms >= 80 THEN "MEDIUM"
    ELSE "LOW"

ClassifySeverity(m, isAnomaly) ==
    IF ~isAnomaly THEN "none"
    ELSE IF m.network_status = "DOWN" \/ m.throughput_mbps < 1 \/ m.packet_loss_pct >= 50 THEN "CRITICAL"
    ELSE IF m.packet_loss_pct >= 10 /\ m.latency_ms >= 150 THEN "HIGH"
    ELSE IF m.packet_loss_pct >= 3 \/ m.latency_ms >= 80 THEN "MEDIUM"
    ELSE "LOW"

\* The first rule that fits; baseThr is the baseline's throughput, or, without a
\* baseline, that of the report itself and at least 1.
Explain(m, baseThr) ==
    IF m.network_status = "DOWN" \/ m.throughput_mbps < 1 \/ m.packet_loss_pct >= 50 THEN "OUTAGE"
    ELSE IF m.cpu_usage_pct >= 80 /\ m.memory_usage_pct >= 70 THEN "HARDWARE"
    ELSE IF m.signal_strength_dbm <= -100 /\ m.packet_loss_pct >= 3 THEN "INTERFERENCE"
    ELSE IF /\ 4 * m.active_users >= 3 * Capacity
            /\ 4 * m.throughput_mbps < 3 * baseThr
            /\ m.latency_ms >= 50 THEN "CONGESTION"
    ELSE "MULTIVARIATE_ANOMALY"

OwnThroughput(m) == IF m.throughput_mbps > 1 THEN m.throughput_mbps ELSE 1

Row == [f \in Metrics \cup {"network_status"} |->
           IF f \in Metrics THEN payload[f].num ELSE payload[f].str]
-----------------------------------------------------------------------------
Blank == [f \in {} |-> Null]

NoOrigin == [incident |-> "NONE", defect |-> "none", own |-> FALSE]

Init ==
    /\ stage = "none" /\ payload = Blank /\ origin = NoOrigin
    /\ verdict = "none" /\ anomaly = FALSE /\ severity = "none" /\ cause = "none"

\* The simulator's tick for one cell, backfill included.
Produce ==
    /\ stage = "none"
    /\ \E raw \in Raw, incident \in Incidents, defect \in Defects, age \in {0, Backfill} :
          /\ payload' = Corrupt(Event(raw, incident, age), defect)
          /\ origin' = [incident |-> incident, defect |-> defect, own |-> TRUE]
    /\ stage' = "topic"
    /\ UNCHANGED <<verdict, anomaly, severity, cause>>

\* Another producer's message, or one that was replayed.
ProduceForeign ==
    /\ stage = "none"
    /\ payload' \in Foreign
    /\ stage' = "topic"
    /\ UNCHANGED <<origin, verdict, anomaly, severity, cause>>

\* Mutant of Process: absent fields are left to the database's defaults.
ProcessIncomplete(lag) ==
    /\ stage = "topic"
    /\ verdict' = Validate(payload, lag)
    /\ stage' = IF verdict' \notin {"valid", "missing_field"} THEN "dlq" ELSE "clean"
    /\ UNCHANGED <<payload, origin, anomaly, severity, cause>>

\* A valid report becomes a clean row; if the database rejects it, it stays pending.
Process(lag) ==
    /\ stage = "topic"
    /\ verdict' = Validate(payload, lag)
    /\ stage' = IF verdict' # "valid" THEN "dlq"
                ELSE IF Storable(payload) THEN "clean" ELSE "pending"
    /\ UNCHANGED <<payload, origin, anomaly, severity, cause>>

\* The forest's prediction is arbitrary; the rule overrides it.
Score(predicted) ==
    /\ stage = "clean"
    /\ anomaly' = (predicted \/ RuleForceAnomaly(Row))
    /\ stage' = "scored"
    /\ UNCHANGED <<payload, origin, verdict, severity, cause>>

\* process_once for one candidate: explain_anomaly is called without a baseline.
Alert ==
    /\ stage = "scored" /\ anomaly
    /\ severity' = ClassifySeverity(Row, TRUE)
    /\ cause' = Explain(Row, OwnThroughput(Row))
    /\ stage' = "alerted"
    /\ UNCHANGED <<payload, origin, verdict, anomaly>>

\* The next report.
Again ==
    /\ stage \in {"dlq", "pending", "alerted"} \/ (stage = "scored" /\ ~anomaly)
    /\ stage' = "none" /\ payload' = Blank /\ origin' = NoOrigin
    /\ verdict' = "none" /\ anomaly' = FALSE /\ severity' = "none" /\ cause' = "none"

Next ==
    \/ Produce \/ ProduceForeign
    \/ \E lag \in Lags : Process(lag)
    \/ \E predicted \in BOOLEAN : Score(predicted)
    \/ Alert \/ Again

Spec == Init /\ [][Next]_vars
-----------------------------------------------------------------------------
\* Every variable has its type; a report that is stored has every field.
TypeOK ==
    /\ stage \in {"none", "topic", "dlq", "pending", "clean", "scored", "alerted"}
    /\ DOMAIN payload \subseteq Required
    /\ stage \in {"pending", "clean", "scored", "alerted"} => DOMAIN payload = Required
    /\ origin \in [incident : Incidents, defect : Defects, own : BOOLEAN]
    /\ verdict \in {"none", "valid", "missing_field", "range_fail", "schema_fail"}
    /\ anomaly \in BOOLEAN
    /\ severity \in {"none", "LOW", "MEDIUM", "HIGH", "CRITICAL"}
    /\ cause \in {"none", "MULTIVARIATE_ANOMALY"} \cup Incidents

Own(defects) == origin.own /\ origin.defect \in defects

\* Whatever the formulas and an incident make of a cell, its report is valid and the
\* database takes it, as long as it waits no more than an hour.  (generate_event's
\* clamps against the ranges of NetworkMetricEvent and the columns' types.)
SimulatedIsStored ==
    Own({"none"}) => stage \notin {"dlq", "pending"}

\* A corrupted report never reaches clean.network_metrics, and is counted under the
\* class of its defect, whichever incident it was also under.  (corrupt_event against
\* validate_payload and the words _classify looks for.)
CorruptedIsRejected ==
    Own(Defects \ {"none"}) /\ stage # "topic" =>
        verdict = CASE origin.defect = "cell"      -> "missing_field"
                    [] origin.defect = "timestamp" -> "schema_fail"
                    [] OTHER                       -> "range_fail"

\* An outage is noticed from end to end, without the forest's help: each scored report
\* of a cell under an OUTAGE is an anomaly, and its alert is CRITICAL and says OUTAGE.
\* (physics.py, features.py, severity.py and rules.py each have thresholds of their own.)
OutageIsNoticed ==
    Own({"none"}) /\ origin.incident = "OUTAGE" =>
        /\ stage \in {"scored", "alerted"} => anomaly
        /\ stage = "alerted" => severity = "CRITICAL" /\ cause = "OUTAGE"

\* Severity and explanation agree on what an outage is, and what the ml-worker forces
\* to be an anomaly is one.  (The rule is written three times, with > 50 and >= 50.)
OutageRulesAgree ==
    stage = "alerted" =>
        /\ severity = "CRITICAL" <=> cause = "OUTAGE"
        /\ RuleForceAnomaly(Row) => severity = "CRITICAL"

Rank(s) == CASE s = "LOW" -> 1 [] s = "MEDIUM" -> 2 [] s = "HIGH" -> 3 [] s = "CRITICAL" -> 4

\* More loss or more latency never makes an alert less severe.  (The order of the
\* tests in classify_severity.)
SeverityIsMonotone ==
    stage = "alerted" =>
        \A f \in {"packet_loss_pct", "latency_ms"}, more \in {1, 7, 40, 70} :
            Rank(ClassifySeverity([Row EXCEPT ![f] = @ + more], TRUE)) >= Rank(severity)

\* CONGESTION is one of the causes the rules name: a full and slow cell whose throughput
\* is below three quarters of its baseline, and to which no earlier rule applies, is
\* explained as such.  (README.md:148 and test_rules_detect_congestion, which passes a
\* baseline to explain; engine.py passes none, so that base_thr is the report's own
\* throughput.)
CongestionIsNamed ==
    stage = "alerted" /\ Explain(Row, Baseline) = "CONGESTION" => cause = "CONGESTION"
=============================================================================
