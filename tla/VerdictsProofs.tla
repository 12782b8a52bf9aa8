--------------------------- MODULE VerdictsProofs ---------------------------
(***************************************************************************)
(* What severity and explanation say of each other, and what the validator *)
(* and the ml rule say of the simulator's reports, for any numbers a clean *)
(* row may hold, any raw metrics and any payloads of other producers.      *)
(***************************************************************************)
EXTENDS Verdicts, TLAPS

\* The numbers of a payload are numbers, and a stored report has all of them.
Numeric ==
    /\ \A f \in Metrics \cap DOMAIN payload : Is("num", payload[f]) => payload[f].num \in Int
    /\ stage \in {"clean", "scored", "alerted"} =>
          \A f \in Metrics : payload[f].num \in Int

\* An alert says what the two rules say of its row.
AlertSaysRules ==
    IF stage = "alerted"
    THEN severity = ClassifySeverity(Row, TRUE) /\ cause = Explain(Row, OwnThroughput(Row))
    ELSE cause = "none"

VerdictInv == Numeric /\ AlertSaysRules

\* The simulator's metrics are integers, under an incident and a defect as well.
LEMMA SimulatedNumeric ==
    ASSUME NEW raw \in Raw, NEW incident \in Incidents, NEW defect \in Defects, NEW age,
           NEW f \in Metrics,
           f \in DOMAIN Corrupt(Event(raw, incident, age), defect)
    PROVE  Corrupt(Event(raw, incident, age), defect)[f].num \in Int
<1> DEFINE e == Event(raw, incident, age)
<1>1. Metrics \subseteq Required BY DEF Required
<1>2. raw[f] \in Int BY InputsAssumption
<1>3. Forced(incident, f, raw[f]) \in Int
  BY <1>2 DEF Forced, Clamp
<1>4. Bounds[f][1] \in Int /\ Bounds[f][2] \in Int
  BY InputsAssumption DEF Bounds, Metrics, Percentages
<1>5. Clamp(Forced(incident, f, raw[f]), Bounds[f][1], Bounds[f][2]) \in Int
  BY <1>3, <1>4 DEF Clamp
<1>6. e[f].num \in Int /\ DOMAIN e = Required
  <2>1. f \notin {"network_status", "technology", "timestamp", "cell_id", "site_id", "region"}
    BY DEF Metrics, Percentages
  <2>2. e[f] = Num(Clamp(Forced(incident, f, raw[f]), Bounds[f][1], Bounds[f][2]))
    BY <1>1, <2>1 DEF Event
  <2>3. DOMAIN e = Required BY DEF Event
  <2> QED BY <1>5, <2>2, <2>3 DEF Num
<1> HIDE DEF e
<1>7. Num(-12).num \in Int /\ Num(140).num \in Int /\ Num(250).num \in Int
  BY DEF Num
<1>8. f # "cell_id" /\ f # "timestamp" BY DEF Metrics, Percentages
<1>9. f \in DOMAIN Corrupt(e, defect) => Corrupt(e, defect)[f].num \in Int
  BY <1>1, <1>6, <1>7, <1>8 DEF Corrupt
<1> QED BY <1>9 DEF e

\* A valid and storable payload has a number in each metric.
LEMMA StoredNumeric ==
    ASSUME Numeric, NEW lag, Validate(payload, lag) = "valid", Storable(payload), NEW f \in Metrics
    PROVE  payload[f].num \in Int
<1>1. Metrics \subseteq Required BY DEF Required
<1>2. f \in DOMAIN payload /\ Complaint(f, payload[f]) = "none"
  <2>1. ErrorClass(payload) # "valid" BY DEF ErrorClass
  <2> QED BY <1>1, <2>1 DEF Validate
<1>3. ~Is("nan", payload[f]) BY <1>1 DEF Storable
<1>4. f \notin Names /\ f \notin DOMAIN Choices /\ f # "timestamp"
  BY DEF Metrics, Percentages, Names, Choices
<1>5. Is("num", payload[f]) BY <1>2, <1>3, <1>4 DEF Complaint
<1> QED BY <1>2, <1>5 DEF Numeric

\* The numbers of a row are those of its payload.
LEMMA RowNumeric ==
    ASSUME Numeric, stage \in {"clean", "scored", "alerted"}
    PROVE  \A f \in Metrics : Row[f] \in Int
BY DEF Row, Numeric

\* Without a baseline the throughput is never below three quarters of what it is compared
\* with, unless it is an outage.
LEMMA NoCongestionWithoutBaseline ==
    ASSUME NEW m, m.throughput_mbps \in Int
    PROVE  Explain(m, OwnThroughput(m)) # "CONGESTION"
BY DEF Explain, OwnThroughput

\* The invariant holds after every step.
LEMMA VerdictStep ==
    ASSUME VerdictInv, Next
    PROVE  VerdictInv'
<1> USE DEF VerdictInv
<1>1. CASE Produce
  <2>1. PICK raw \in Raw, incident \in Incidents, defect \in Defects, age \in {0, Backfill} :
            payload' = Corrupt(Event(raw, incident, age), defect)
    BY <1>1 DEF Produce
  <2>2. Numeric' BY <1>1, <2>1, SimulatedNumeric DEF Produce, Numeric
  <2>3. AlertSaysRules' BY <1>1 DEF Produce, AlertSaysRules
  <2> QED BY <2>2, <2>3
<1>2. CASE ProduceForeign
  <2>1. Numeric' BY <1>2, InputsAssumption DEF ProduceForeign, Numeric, Is
  <2>2. AlertSaysRules' BY <1>2 DEF ProduceForeign, AlertSaysRules
  <2> QED BY <2>1, <2>2
<1>3. CASE \E lag \in Lags : Process(lag)
  <2>1. PICK lag \in Lags : Process(lag) BY <1>3
  <2>2. stage' = "clean" => \A f \in Metrics : payload[f].num \in Int
    BY <2>1, StoredNumeric DEF Process
  <2>3. Numeric' BY <2>1, <2>2 DEF Process, Numeric
  <2>4. AlertSaysRules' BY <2>1 DEF Process, AlertSaysRules
  <2> QED BY <2>3, <2>4
<1>4. CASE \E predicted \in BOOLEAN : Score(predicted)
  BY <1>4 DEF Score, Numeric, AlertSaysRules
<1>5. CASE Alert
  <2>1. Row' = Row BY <1>5 DEF Alert, Row
  <2>2. Numeric' BY <1>5 DEF Alert, Numeric
  <2>3. AlertSaysRules' BY <1>5, <2>1 DEF Alert, AlertSaysRules
  <2> QED BY <2>2, <2>3
<1>6. CASE Again
  <2>1. DOMAIN payload' = {} BY <1>6 DEF Again, Blank
  <2> QED BY <1>6, <2>1 DEF Again, Numeric, AlertSaysRules
<1> QED BY <1>1, <1>2, <1>3, <1>4, <1>5, <1>6 DEF Next

LEMMA VerdictInductive == Spec => []VerdictInv
<1>1. Init => VerdictInv
  <2>1. DOMAIN Blank = {} BY DEF Blank
  <2> QED BY <2>1 DEF Init, VerdictInv, Numeric, AlertSaysRules
<1>2. VerdictInv /\ UNCHANGED vars => VerdictInv'
  BY DEF vars, VerdictInv, Numeric, AlertSaysRules, Row
<1> QED BY <1>1, <1>2, VerdictStep, PTL DEF Spec

\* No alert is ever explained as CONGESTION, for any capacity, load and throughput: why
\* CongestionIsNamed fails, and that it fails of every report it speaks of.  The engine
\* passes no baseline to explain, and a throughput below 1 is an OUTAGE.
THEOREM CongestionIsNeverNamed == Spec => [](cause # "CONGESTION")
<1>1. VerdictInv => cause # "CONGESTION"
  <2> SUFFICES ASSUME VerdictInv PROVE cause # "CONGESTION" OBVIOUS
  <2> USE DEF VerdictInv, AlertSaysRules
  <2>1. CASE stage = "alerted"
    <3>1. Row.throughput_mbps \in Int
      BY <2>1, RowNumeric DEF Metrics
    <3> QED BY <2>1, <3>1, NoCongestionWithoutBaseline
  <2> QED BY <2>1
<1> QED BY <1>1, VerdictInductive, PTL

\* An alert is CRITICAL exactly when it is explained as OUTAGE, and is both whenever the
\* ml-worker's rule forced the anomaly, for any numbers: of > 50 and >= 50 the second
\* includes the first.
THEOREM OutageRulesDoAgree == Spec => []OutageRulesAgree
<1>1. VerdictInv => OutageRulesAgree
  <2> SUFFICES ASSUME VerdictInv, stage = "alerted"
               PROVE  /\ severity = "CRITICAL" <=> cause = "OUTAGE"
                      /\ RuleForceAnomaly(Row) => severity = "CRITICAL"
    BY DEF OutageRulesAgree
  <2>1. severity = ClassifySeverity(Row, TRUE) /\ cause = Explain(Row, OwnThroughput(Row))
    BY DEF VerdictInv, AlertSaysRules
  <2>2. Row.packet_loss_pct \in Int
    BY RowNumeric DEF VerdictInv, Metrics, Percentages
  <2> DEFINE outage == Row.network_status = "DOWN" \/ Row.throughput_mbps < 1 \/ Row.packet_loss_pct >= 50
  <2>3. severity = "CRITICAL" <=> outage BY <2>1 DEF ClassifySeverity
  <2>4. cause = "OUTAGE" <=> outage BY <2>1 DEF Explain
  <2>5. RuleForceAnomaly(Row) => outage BY <2>2 DEF RuleForceAnomaly
  <2> QED BY <2>3, <2>4, <2>5
<1> QED BY <1>1, VerdictInductive, PTL

\* More loss or more latency never makes an alert less severe, for any numbers.
THEOREM SeverityGrows == Spec => []SeverityIsMonotone
<1>1. VerdictInv => SeverityIsMonotone
  <2> SUFFICES ASSUME VerdictInv, stage = "alerted",
                      NEW f \in {"packet_loss_pct", "latency_ms"}, NEW more \in {1, 7, 40, 70}
               PROVE  Rank(ClassifySeverity([Row EXCEPT ![f] = @ + more], TRUE)) >= Rank(severity)
    BY DEF SeverityIsMonotone
  <2> DEFINE worse == [Row EXCEPT ![f] = @ + more]
  <2>1. severity = ClassifySeverity(Row, TRUE)
    BY DEF VerdictInv, AlertSaysRules
  <2>2. Row.packet_loss_pct \in Int /\ Row.latency_ms \in Int
    BY RowNumeric DEF VerdictInv, Metrics, Percentages
  <2>3. /\ worse.network_status = Row.network_status /\ worse.throughput_mbps = Row.throughput_mbps
        /\ worse.packet_loss_pct \in Int /\ worse.packet_loss_pct >= Row.packet_loss_pct
        /\ worse.latency_ms \in Int /\ worse.latency_ms >= Row.latency_ms
    BY <2>2 DEF Row, Metrics, Percentages
  <2> HIDE DEF worse
  <2>4. Rank(ClassifySeverity(worse, TRUE)) >= Rank(ClassifySeverity(Row, TRUE))
    BY <2>2, <2>3 DEF ClassifySeverity, Rank
  <2> QED BY <2>1, <2>4 DEF worse
<1> QED BY <1>1, VerdictInductive, PTL
-----------------------------------------------------------------------------
(***************************************************************************)
(* The simulator against the validator: what generate_event and            *)
(* corrupt_event can make, and what validate_payload says of it.           *)
(***************************************************************************)

\* What kind of JSON value each is, and that none of them is null.
LEMMA Kinds ==
    /\ \A n : /\ Is("num", Num(n)) /\ ~Is("str", Num(n)) /\ ~Is("age", Num(n))
              /\ ~Is("nan", Num(n)) /\ Num(n) # Null /\ Num(n).num = n
    /\ \A s : /\ Is("str", Text(s)) /\ ~Is("num", Text(s)) /\ ~Is("age", Text(s))
              /\ ~Is("nan", Text(s)) /\ Text(s) # Null /\ Text(s).str = s
    /\ \A a : /\ Is("age", Time(a)) /\ ~Is("num", Time(a)) /\ ~Is("str", Time(a))
              /\ ~Is("nan", Time(a)) /\ Time(a) # Null /\ Time(a).age = a
<1>1. DOMAIN Null = {"null"} BY DEF Null
<1>2. \A n : DOMAIN Num(n) = {"num"} /\ Num(n).num = n BY DEF Num
<1>3. \A s : DOMAIN Text(s) = {"str"} /\ Text(s).str = s BY DEF Text
<1>4. \A a : DOMAIN Time(a) = {"age"} /\ Time(a).age = a BY DEF Time
<1> QED BY <1>1, <1>2, <1>3, <1>4 DEF Is

\* A report of the simulator before corrupt_event: numbers in the range generate_event
\* clamps them to, and the cell's own names.
WellMade(e, incident, age) ==
    /\ DOMAIN e = Required
    /\ \A f \in Metrics : \E v \in Bounds[f][1] .. Bounds[f][2] : e[f] = Num(v)
    /\ e.network_status = Text(IF incident = "OUTAGE" THEN "DOWN" ELSE "UP")
    /\ e.technology = Text("5G")
    /\ e.timestamp = Time(age)
    /\ e.cell_id = Text(Cell) /\ e.site_id = Text(Site) /\ e.region = Text("region")

LEMMA EventWellMade ==
    ASSUME NEW raw \in Raw, NEW incident \in Incidents, NEW age
    PROVE  WellMade(Event(raw, incident, age), incident, age)
<1> DEFINE e == Event(raw, incident, age)
<1>1. DOMAIN e = Required BY DEF Event
<1>2. ASSUME NEW f \in Metrics
      PROVE  \E v \in Bounds[f][1] .. Bounds[f][2] : e[f] = Num(v)
  <2> DEFINE v == Clamp(Forced(incident, f, raw[f]), Bounds[f][1], Bounds[f][2])
  <2>1. raw[f] \in Int BY InputsAssumption
  <2>2. Forced(incident, f, raw[f]) \in Int BY <2>1 DEF Forced, Clamp
  <2>3. (Capacity * 29) \div 20 \in Nat BY InputsAssumption
  <2>4. Bounds[f][1] \in Int /\ Bounds[f][2] \in Int /\ Bounds[f][1] <= Bounds[f][2]
    BY <2>3 DEF Bounds, Metrics, Percentages
  <2>5. v \in Bounds[f][1] .. Bounds[f][2] BY <2>2, <2>4 DEF Clamp
  <2>6. f \in Required BY DEF Required
  <2>7. f \notin {"network_status", "technology", "timestamp", "cell_id", "site_id", "region"}
    BY DEF Metrics, Percentages
  <2>8. e[f] = Num(v) BY <2>6, <2>7 DEF Event
  <2> HIDE DEF v
  <2> QED BY <2>5, <2>8
<1>3. /\ e.network_status = Text(IF incident = "OUTAGE" THEN "DOWN" ELSE "UP")
      /\ e.technology = Text("5G") /\ e.timestamp = Time(age)
      /\ e.cell_id = Text(Cell) /\ e.site_id = Text(Site) /\ e.region = Text("region")
  BY DEF Event, Required, Metrics, Percentages, Names, Choices
<1> QED BY <1>1, <1>2, <1>3 DEF WellMade

\* The clamps of generate_event are within the ranges of NetworkMetricEvent.
LEMMA BoundsInRange ==
    \A f \in Metrics : \A v \in Bounds[f][1] .. Bounds[f][2] : InRange(f, v)
<1> SUFFICES ASSUME NEW f \in Metrics, NEW v \in Bounds[f][1] .. Bounds[f][2]
             PROVE  InRange(f, v)
  OBVIOUS
<1>1. (Capacity * 29) \div 20 \in Nat BY InputsAssumption
<1>2. CASE f = "signal_strength_dbm"
  BY <1>2 DEF InRange, Bounds, Percentages
<1>3. CASE f \in Percentages
  BY <1>3 DEF InRange, Bounds, Percentages
<1>4. CASE f \in {"active_users", "throughput_mbps", "latency_ms"}
  BY <1>1, <1>4 DEF InRange, Bounds, Percentages
<1> QED BY <1>2, <1>3, <1>4 DEF Metrics

\* NetworkMetricEvent complains of nothing in such a report, but of an empty name.
LEMMA WellMadeComplaints ==
    ASSUME NEW e, NEW incident, NEW age, WellMade(e, incident, age)
    PROVE  \A f \in Required :
              /\ e[f] # Null /\ ~Is("nan", e[f])
              /\ f \notin Names => Complaint(f, e[f]) = "none"
              /\ f \in Names => Complaint(f, e[f]) \in {"none", "type"}
<1>1. ASSUME NEW f \in Metrics
      PROVE  e[f] # Null /\ ~Is("nan", e[f]) /\ f \notin Names /\ Complaint(f, e[f]) = "none"
  <2>1. PICK v \in Bounds[f][1] .. Bounds[f][2] : e[f] = Num(v) BY DEF WellMade
  <2>2. InRange(f, v) BY BoundsInRange
  <2>3. f \notin Names /\ f \notin DOMAIN Choices /\ f # "timestamp"
    BY DEF Metrics, Percentages, Names, Choices
  <2> QED BY <2>1, <2>2, <2>3, Kinds DEF Complaint
<1>2. ASSUME NEW f \in Names
      PROVE  e[f] # Null /\ ~Is("nan", e[f]) /\ Complaint(f, e[f]) \in {"none", "type"}
  <2>1. \E s : e[f] = Text(s) BY DEF WellMade, Names
  <2>2. f \notin DOMAIN Choices /\ f # "timestamp" BY DEF Names, Choices
  <2>3. e[f] # Null /\ ~Is("nan", e[f]) BY <2>1, Kinds
  <2>4. Complaint(f, e[f]) \in {"none", "type"} BY <2>2, <2>3 DEF Complaint
  <2> QED BY <2>3, <2>4
<1>3. ASSUME NEW f \in DOMAIN Choices
      PROVE  e[f] # Null /\ ~Is("nan", e[f]) /\ f \notin Names /\ Complaint(f, e[f]) = "none"
  <2>1. f \notin Names /\ f \in {"technology", "network_status"} BY DEF Choices, Names
  <2>2. e[f].str \in Choices[f] /\ e[f] = Text(e[f].str)
    BY <2>1, Kinds DEF WellMade, Choices
  <2> QED BY <2>1, <2>2, Kinds DEF Complaint
<1>4. /\ e.timestamp # Null /\ ~Is("nan", e.timestamp) /\ "timestamp" \notin Names
      /\ Complaint("timestamp", e.timestamp) = "none"
  BY Kinds DEF WellMade, Complaint, Names, Choices
<1> QED BY <1>1, <1>2, <1>3, <1>4 DEF Required

\* What the code's topology and the columns grant a seeded cell: it has names, its
\* fullest report fits the column, and no report waits more than an hour (or is read by
\* a clock more than five minutes behind the producer's).
SeededAndTimely ==
    /\ Cell # "" /\ Site # ""
    /\ (Capacity * 29) \div 20 <= MaxInteger
    /\ Lags \subseteq -5 .. 60

\* A report as generate_event makes it is valid and the database takes it.
LEMMA WellMadeIsStored ==
    ASSUME SeededAndTimely,
           NEW e, NEW incident, NEW age \in {0, Backfill}, NEW lag \in Lags, WellMade(e, incident, age)
    PROVE  Validate(e, lag) = "valid" /\ Storable(e)
<1>1. \A f \in Required : e[f] # Null /\ ~Is("nan", e[f]) /\ (f \notin Names => Complaint(f, e[f]) = "none")
  BY WellMadeComplaints
<1>2. \A f \in Names : Complaint(f, e[f]) = "none"
  <2>1. ASSUME NEW s, NEW f \in Names, s # ""  PROVE Complaint(f, Text(s)) = "none"
    <3>1. Text(s).str = s /\ Text("").str = "" /\ Is("str", Text(s)) /\ ~Is("nan", Text(s)) BY Kinds
    <3>2. Text(s) # Text("") BY <2>1, <3>1
    <3>3. f \notin DOMAIN Choices /\ f # "timestamp" BY DEF Names, Choices
    <3> QED BY <3>1, <3>2, <3>3 DEF Complaint
  <2>2. "region" # "" OBVIOUS
  <2>3. Complaint("cell_id", e.cell_id) = "none"
    BY <2>1 DEF WellMade, SeededAndTimely, Names
  <2>4. Complaint("site_id", e.site_id) = "none"
    BY <2>1 DEF WellMade, SeededAndTimely, Names
  <2>5. Complaint("region", e.region) = "none"
    BY <2>1, <2>2 DEF WellMade, Names
  <2> QED BY <2>3, <2>4, <2>5 DEF Names
<1>3. e.timestamp.age = age BY Kinds DEF WellMade
<1>4. /\ age \in Int /\ lag \in Int
      /\ ~(age + lag < -5) /\ ~(age + lag > Backfill + 60)
  <2>1. Backfill \in Nat BY InputsAssumption
  <2>2. lag \in -5 .. 60 BY DEF SeededAndTimely
  <2> QED BY <2>1, <2>2
<1>5. Validate(e, lag) = "valid"
  <2>1. ~\E f \in Required : f \notin DOMAIN e \/ e[f] = Null BY <1>1 DEF WellMade
  <2>2. ~\E f \in Required : Complaint(f, e[f]) # "none" BY <1>1, <1>2
  <2>3. e.cell_id = Text(Cell) BY DEF WellMade
  <2> QED BY <2>1, <2>2, <2>3, <1>3, <1>4 DEF Validate, MaxAge
<1>6. e.active_users.num <= MaxInteger
  <2>1. "active_users" \in Metrics BY DEF Metrics
  <2>2. PICK v \in Bounds["active_users"][1] .. Bounds["active_users"][2] : e.active_users = Num(v)
    BY <2>1 DEF WellMade
  <2>3. Bounds["active_users"][2] = (Capacity * 29) \div 20 /\ Bounds["active_users"][1] = 0
    BY DEF Bounds
  <2>4. (Capacity * 29) \div 20 \in Nat BY InputsAssumption
  <2>5. v \in Int /\ v <= (Capacity * 29) \div 20 BY <2>2, <2>3, <2>4
  <2>6. MaxInteger \in Nat /\ (Capacity * 29) \div 20 <= MaxInteger
    BY InputsAssumption DEF SeededAndTimely
  <2>7. v <= MaxInteger BY <2>4, <2>5, <2>6
  <2> QED BY <2>2, <2>7, Kinds
<1>7. e.region # NUL
  <2>1. "region" # "NUL" OBVIOUS
  <2>2. Text("region").str = "region" /\ Text("NUL").str = "NUL" BY Kinds
  <2> QED BY <2>1, <2>2 DEF WellMade, NUL
<1>8. \E s \in Sites : e.site_id = Text(s) BY InputsAssumption DEF WellMade
<1>9. Storable(e) BY <1>1, <1>6, <1>7, <1>8 DEF Storable
<1> QED BY <1>5, <1>9

\* The text of a complaint about such a report quotes an empty name and nothing else.
LEMMA WellMadeQuotes ==
    ASSUME NEW e, NEW incident, NEW age, WellMade(e, incident, age),
           NEW f \in Required, Complaint(f, e[f]) # "none"
    PROVE  e[f].str = ""
<1>1. f \in Names BY WellMadeComplaints
<1>2. Is("str", e[f]) /\ ~Is("nan", e[f]) BY <1>1, Kinds DEF WellMade, Names
<1>3. f \notin DOMAIN Choices /\ f # "timestamp" BY <1>1 DEF Names, Choices
<1>4. e[f] = Text("") BY <1>1, <1>2, <1>3 DEF Complaint
<1> QED BY <1>4, Kinds

\* The class corrupt_event's defects are meant to be counted under.
ClassOf(defect) ==
    CASE defect = "cell"      -> "missing_field"
      [] defect = "timestamp" -> "schema_fail"
      [] OTHER                -> "range_fail"

\* A field replaced by a number out of its range is found, whatever the rest.
LEMMA OutOfRange ==
    ASSUME NEW e, NEW incident, NEW age, NEW lag, WellMade(e, incident, age),
           NEW f \in Metrics, NEW n \in Int, ~InRange(f, n)
    PROVE  Validate([e EXCEPT ![f] = Num(n)], lag) = "range_fail"
<1> DEFINE p == [e EXCEPT ![f] = Num(n)]
<1>1. f \in Required /\ DOMAIN e = Required BY DEF Required, WellMade
<1>2. DOMAIN p = Required /\ p[f] = Num(n) /\ \A g \in Required : g # f => p[g] = e[g]
  BY <1>1
<1> HIDE DEF p
<1>3. \A g \in Required : p[g] # Null BY <1>2, Kinds, WellMadeComplaints
<1>4. f \notin Names /\ f \notin DOMAIN Choices /\ f # "timestamp"
  BY DEF Metrics, Percentages, Names, Choices
<1>5. Complaint(f, p[f]) = "range" BY <1>2, <1>4, Kinds DEF Complaint
<1>6. ErrorClass(p) = "range_fail"
  <2>1. ~Is("str", p[f]) BY <1>2, Kinds
  <2>2. ASSUME NEW g \in Required, g # f, Complaint(g, p[g]) # "none"
        PROVE  p[g].str \notin MissingWords
    BY <1>2, <2>2, WellMadeQuotes DEF MissingWords
  <2>3. ~Quotes(p, MissingWords) BY <2>1, <2>2 DEF Quotes
  <2> QED BY <1>1, <1>5, <2>3 DEF ErrorClass
<1>7. Complaint(f, p[f]) # "none" BY <1>5
<1>8. ~\E g \in Required : g \notin DOMAIN p \/ p[g] = Null BY <1>2, <1>3
<1>9. Validate(p, lag) = "range_fail" BY <1>1, <1>6, <1>7, <1>8 DEF Validate
<1> QED BY <1>9 DEF p

\* A corrupted report is rejected under the class of its defect.
LEMMA CorruptedVerdict ==
    ASSUME NEW e, NEW incident, NEW age, NEW lag, WellMade(e, incident, age),
           NEW defect \in Defects \ {"none"}
    PROVE  Validate(Corrupt(e, defect), lag) = ClassOf(defect)
<1>1. CASE defect = "latency"
  <2>1. "latency_ms" \in Metrics /\ ~InRange("latency_ms", -12)
    BY DEF Metrics, Percentages, InRange
  <2>2. Corrupt(e, defect) = [e EXCEPT !["latency_ms"] = Num(-12)] BY <1>1 DEF Corrupt
  <2> QED BY <1>1, <2>1, <2>2, OutOfRange DEF ClassOf
<1>2. CASE defect = "loss"
  <2>1. "packet_loss_pct" \in Metrics /\ ~InRange("packet_loss_pct", 140)
    BY DEF Metrics, Percentages, InRange
  <2>2. Corrupt(e, defect) = [e EXCEPT !["packet_loss_pct"] = Num(140)] BY <1>2 DEF Corrupt
  <2> QED BY <1>2, <2>1, <2>2, OutOfRange DEF ClassOf
<1>3. CASE defect = "cpu"
  <2>1. "cpu_usage_pct" \in Metrics /\ ~InRange("cpu_usage_pct", 250)
    BY DEF Metrics, Percentages, InRange
  <2>2. Corrupt(e, defect) = [e EXCEPT !["cpu_usage_pct"] = Num(250)] BY <1>3 DEF Corrupt
  <2> QED BY <1>3, <2>1, <2>2, OutOfRange DEF ClassOf
<1>4. CASE defect = "cell"
  <2>1. "cell_id" \in Required /\ "cell_id" \notin DOMAIN Corrupt(e, defect)
    BY <1>4 DEF Corrupt, Required, Names
  <2>2. Validate(Corrupt(e, defect), lag) = "missing_field" BY <2>1 DEF Validate
  <2> QED BY <1>4, <2>2 DEF ClassOf
<1>5. CASE defect = "timestamp"
  <2> DEFINE p == Corrupt(e, defect)
  <2>1. "timestamp" \in Required /\ DOMAIN e = Required BY DEF Required, WellMade
  <2>2. /\ DOMAIN p = Required /\ p.timestamp = Text("not-a-timestamp")
        /\ \A g \in Required : g # "timestamp" => p[g] = e[g]
    BY <1>5, <2>1 DEF Corrupt
  <2> HIDE DEF p
  <2>3. \A g \in Required : p[g] # Null BY <2>2, Kinds, WellMadeComplaints
  <2>4. "timestamp" \notin Names /\ "timestamp" \notin DOMAIN Choices BY DEF Names, Choices
  <2>5. Complaint("timestamp", p.timestamp) = "type" BY <2>2, <2>4, Kinds DEF Complaint
  <2>6. \A g \in Required : Complaint(g, p[g]) # "range" BY <2>2, <2>5, WellMadeComplaints
  <2>7. "signal_strength_dbm" \in Required /\ "signal_strength_dbm" \notin Names
    BY DEF Required, Metrics, Names
  <2>8. Complaint("signal_strength_dbm", p.signal_strength_dbm) = "none"
    BY <2>2, <2>7, WellMadeComplaints
  <2>9. ErrorClass(p) = "schema_fail"
    <3>1. p.timestamp.str = "not-a-timestamp" BY <2>2, Kinds
    <3>2. p.timestamp.str \notin MissingWords \cup RangeWords
      BY <3>1 DEF MissingWords, RangeWords
    <3>3. ASSUME NEW g \in Required, g # "timestamp", Complaint(g, p[g]) # "none"
          PROVE  p[g].str \notin MissingWords \cup RangeWords
      BY <2>2, <3>3, WellMadeQuotes DEF MissingWords, RangeWords
    <3>4. ~Quotes(p, MissingWords) /\ ~Quotes(p, RangeWords) BY <3>2, <3>3 DEF Quotes
    <3> QED BY <2>6, <2>8, <3>4 DEF ErrorClass
  <2>10. ~\E g \in Required : g \notin DOMAIN p \/ p[g] = Null BY <2>2, <2>3
  <2>11. Complaint("timestamp", p.timestamp) # "none" BY <2>5
  <2>12. Validate(p, lag) = "schema_fail" BY <2>1, <2>9, <2>10, <2>11 DEF Validate
  <2> QED BY <1>5, <2>12 DEF ClassOf, p
<1> QED BY <1>1, <1>2, <1>3, <1>4, <1>5 DEF Defects
-----------------------------------------------------------------------------
(***************************************************************************)
(* TypeOK, and what happens to the simulator's own reports.                *)
(***************************************************************************)

\* What the validator accepts has every field; its answers are the five known ones.
LEMMA Answers ==
    ASSUME NEW p, NEW lag
    PROVE  /\ Validate(p, lag) \in {"valid", "missing_field", "range_fail", "schema_fail"}
           /\ Validate(p, lag) = "valid" => Required \subseteq DOMAIN p
<1>1. ErrorClass(p) \in {"missing_field", "range_fail", "schema_fail"} BY DEF ErrorClass
<1> QED BY <1>1 DEF Validate

\* The defects change or remove fields, and add none.
LEMMA SimulatedFields ==
    ASSUME NEW raw, NEW incident, NEW defect, NEW age
    PROVE  DOMAIN Corrupt(Event(raw, incident, age), defect) \subseteq Required
<1> DEFINE e == Event(raw, incident, age)
<1>1. DOMAIN e = Required BY DEF Event
<1> HIDE DEF e
<1>2. DOMAIN Corrupt(e, defect) \subseteq Required BY <1>1 DEF Corrupt
<1> QED BY <1>2 DEF e

LEMMA TypeOKStep ==
    ASSUME TypeOK, [Next]_vars
    PROVE  TypeOK'
<1> USE DEF TypeOK
<1>1. CASE Produce
  <2>1. PICK raw \in Raw, incident \in Incidents, defect \in Defects, age \in {0, Backfill} :
            /\ payload' = Corrupt(Event(raw, incident, age), defect)
            /\ origin' = [incident |-> incident, defect |-> defect, own |-> TRUE]
    BY <1>1 DEF Produce
  <2>2. DOMAIN payload' \subseteq Required BY <2>1, SimulatedFields
  <2> QED BY <1>1, <2>1, <2>2 DEF Produce
<1>2. CASE ProduceForeign
  <2>1. DOMAIN payload' \subseteq Required BY <1>2, InputsAssumption DEF ProduceForeign
  <2> QED BY <1>2, <2>1 DEF ProduceForeign
<1>3. CASE \E lag \in Lags : Process(lag)
  <2>1. PICK lag \in Lags : Process(lag) BY <1>3
  <2>2. verdict' \in {"valid", "missing_field", "range_fail", "schema_fail"}
    BY <2>1, Answers DEF Process
  <2>3. stage' \in {"dlq", "clean", "pending"} BY <2>1 DEF Process
  <2>4. stage' # "dlq" => Required \subseteq DOMAIN payload
    BY <2>1, Answers DEF Process
  <2> QED BY <2>1, <2>2, <2>3, <2>4 DEF Process
<1>4. CASE \E predicted \in BOOLEAN : Score(predicted)
  <2>1. PICK predicted \in BOOLEAN : Score(predicted) BY <1>4
  <2>2. anomaly' \in BOOLEAN BY <2>1 DEF Score, RuleForceAnomaly
  <2> QED BY <2>1, <2>2 DEF Score
<1>5. CASE Alert
  <2>1. \A m : ClassifySeverity(m, TRUE) \in {"none", "LOW", "MEDIUM", "HIGH", "CRITICAL"}
    BY DEF ClassifySeverity
  <2>2. \A m, thr : Explain(m, thr) \in {"none", "MULTIVARIATE_ANOMALY"} \cup Incidents
    BY DEF Explain, Incidents
  <2>3. /\ severity' \in {"none", "LOW", "MEDIUM", "HIGH", "CRITICAL"}
        /\ cause' \in {"none", "MULTIVARIATE_ANOMALY"} \cup Incidents
    BY <1>5, <2>1, <2>2 DEF Alert
  <2> QED BY <1>5, <2>3 DEF Alert
<1>6. CASE Again
  <2>1. DOMAIN payload' = {} BY <1>6 DEF Again, Blank
  <2>2. origin' \in [incident : Incidents, defect : Defects, own : BOOLEAN]
    BY <1>6 DEF Again, NoOrigin, Incidents, Defects
  <2> QED BY <1>6, <2>1, <2>2 DEF Again
<1>7. CASE UNCHANGED vars BY <1>7 DEF vars
<1> QED BY <1>1, <1>2, <1>3, <1>4, <1>5, <1>6, <1>7 DEF Next

\* Every variable has its type, and a report that is stored has every field, for any raw
\* metrics, payloads of other producers and lags.
THEOREM VerdictTypes == Spec => []TypeOK
<1>1. Init => TypeOK
  <2>1. DOMAIN Blank = {} BY DEF Blank
  <2>2. NoOrigin \in [incident : Incidents, defect : Defects, own : BOOLEAN]
    BY DEF NoOrigin, Incidents, Defects
  <2> QED BY <2>1, <2>2 DEF Init, TypeOK
<1> QED BY <1>1, TypeOKStep, PTL DEF Spec

\* A report of the simulator's own stays what it was made, until the next one.
OwnReport ==
    origin.own =>
        /\ stage # "none"
        /\ \E raw \in Raw, age \in {0, Backfill} :
              payload = Corrupt(Event(raw, origin.incident, age), origin.defect)

\* Only a valid report gets past the processor; an outage is an anomaly once scored.
ValidOnly == stage \in {"pending", "clean", "scored", "alerted"} => verdict = "valid"

OutageScored ==
    Own({"none"}) /\ origin.incident = "OUTAGE" =>
        (stage \in {"scored", "alerted"} => anomaly)

OwnInv == OwnReport /\ ValidOnly /\ OutageScored /\ CorruptedIsRejected

\* The payload of a simulated report that was not corrupted.
LEMMA OwnPayload ==
    ASSUME TypeOK, OwnReport, origin.own
    PROVE  \E e, age : /\ age \in {0, Backfill} /\ WellMade(e, origin.incident, age)
                       /\ payload = Corrupt(e, origin.defect)
<1>1. PICK raw \in Raw, age \in {0, Backfill} :
          payload = Corrupt(Event(raw, origin.incident, age), origin.defect)
  BY DEF OwnReport
<1>2. origin.incident \in Incidents BY DEF TypeOK
<1> QED BY <1>1, <1>2, EventWellMade

\* The row of a report under an outage says DOWN.
LEMMA OutageIsDown ==
    ASSUME TypeOK, OwnReport, Own({"none"}), origin.incident = "OUTAGE"
    PROVE  Row.network_status = "DOWN"
<1>1. PICK e, age : WellMade(e, "OUTAGE", age) /\ payload = Corrupt(e, "none")
  BY OwnPayload DEF Own
<1>2. payload = e BY <1>1 DEF Corrupt
<1>3. payload.network_status = Text("DOWN") BY <1>1, <1>2 DEF WellMade
<1>4. "network_status" \notin Metrics BY DEF Metrics, Percentages
<1> QED BY <1>3, <1>4, Kinds DEF Row

LEMMA OwnStep ==
    ASSUME TypeOK, OwnInv, [Next]_vars
    PROVE  OwnInv'
<1> USE DEF OwnInv, OwnReport, ValidOnly, OutageScored, CorruptedIsRejected, Own
<1>1. CASE Produce
  <2>1. PICK raw \in Raw, incident \in Incidents, defect \in Defects, age \in {0, Backfill} :
            /\ payload' = Corrupt(Event(raw, incident, age), defect)
            /\ origin' = [incident |-> incident, defect |-> defect, own |-> TRUE]
    BY <1>1 DEF Produce
  <2>2. origin'.incident = incident /\ origin'.defect = defect /\ stage' = "topic" BY <1>1, <2>1 DEF Produce
  <2> QED BY <2>1, <2>2
<1>2. CASE ProduceForeign
  BY <1>2 DEF ProduceForeign
<1>3. CASE \E lag \in Lags : Process(lag)
  <2>1. PICK lag \in Lags : Process(lag) BY <1>3
  <2>2. UNCHANGED <<payload, origin>> /\ stage' \in {"dlq", "clean", "pending"}
        /\ verdict' = Validate(payload, lag) /\ (stage' # "dlq" => verdict' = "valid")
    BY <2>1 DEF Process
  <2>3. ASSUME origin.own, origin.defect \in Defects \ {"none"}
        PROVE  verdict' = ClassOf(origin.defect)
    <3>1. PICK e, age : WellMade(e, origin.incident, age) /\ payload = Corrupt(e, origin.defect)
      BY <2>3, OwnPayload
    <3> QED BY <2>2, <2>3, <3>1, CorruptedVerdict
  <2>4. CorruptedIsRejected' BY <2>2, <2>3 DEF ClassOf
  <2> QED BY <2>2, <2>4
<1>4. CASE \E predicted \in BOOLEAN : Score(predicted)
  <2>1. PICK predicted \in BOOLEAN : Score(predicted) BY <1>4
  <2>2. UNCHANGED <<payload, origin, verdict>> /\ stage = "clean" /\ stage' = "scored"
        /\ anomaly' = (predicted \/ RuleForceAnomaly(Row))
    BY <2>1 DEF Score
  <2>3. Own({"none"}) /\ origin.incident = "OUTAGE" => anomaly'
    BY <2>2, OutageIsDown DEF RuleForceAnomaly
  <2> QED BY <2>2, <2>3
<1>5. CASE Alert
  BY <1>5 DEF Alert
<1>6. CASE Again
  <2>1. ~origin'.own BY <1>6 DEF Again, NoOrigin
  <2> QED BY <1>6, <2>1 DEF Again
<1>7. CASE UNCHANGED vars BY <1>7 DEF vars
<1> QED BY <1>1, <1>2, <1>3, <1>4, <1>5, <1>6, <1>7 DEF Next

LEMMA OwnInductive == Spec => []OwnInv
<1>1. Init => OwnInv
  BY DEF Init, NoOrigin, OwnInv, OwnReport, ValidOnly, OutageScored, CorruptedIsRejected, Own
<1> QED BY <1>1, OwnStep, VerdictTypes, PTL DEF Spec

\* A corrupted report is counted under the class of its defect, whichever incident it was
\* also under, whatever the raw metrics and however long it waited.
THEOREM CorruptedAreRejected == Spec => []CorruptedIsRejected
<1>1. OwnInv => CorruptedIsRejected BY DEF OwnInv
<1> QED BY <1>1, OwnInductive, PTL

\* Each scored report of a cell under an OUTAGE is an anomaly, whatever the forest
\* predicts, and its alert is CRITICAL and says OUTAGE.
THEOREM OutagesAreNoticed == Spec => []OutageIsNoticed
<1>1. TypeOK /\ OwnInv /\ VerdictInv => OutageIsNoticed
  <2> SUFFICES ASSUME TypeOK, OwnInv, VerdictInv, Own({"none"}), origin.incident = "OUTAGE"
               PROVE  /\ stage \in {"scored", "alerted"} => anomaly
                      /\ stage = "alerted" => severity = "CRITICAL" /\ cause = "OUTAGE"
    BY DEF OutageIsNoticed
  <2>1. stage \in {"scored", "alerted"} => anomaly BY DEF OwnInv, OutageScored
  <2>2. Row.network_status = "DOWN" BY OutageIsDown DEF OwnInv
  <2>3. ASSUME stage = "alerted"  PROVE severity = "CRITICAL" /\ cause = "OUTAGE"
    <3>1. severity = ClassifySeverity(Row, TRUE) /\ cause = Explain(Row, OwnThroughput(Row))
      BY <2>3 DEF VerdictInv, AlertSaysRules
    <3> QED BY <2>2, <3>1 DEF ClassifySeverity, Explain
  <2> QED BY <2>1, <2>3
<1> QED BY <1>1, OwnInductive, VerdictInductive, VerdictTypes, PTL

\* A report that was not corrupted passes the validator and the columns, whatever the
\* formulas gave and whichever incident its cell was under.
LEMMA StoredStep ==
    ASSUME SeededAndTimely, TypeOK, OwnInv, SimulatedIsStored, [Next]_vars
    PROVE  SimulatedIsStored'
<1> USE DEF SimulatedIsStored, Own
<1>1. CASE Produce \/ ProduceForeign \/ Alert \/ UNCHANGED vars
  BY <1>1 DEF Produce, ProduceForeign, Alert, vars
<1>2. CASE \E predicted \in BOOLEAN : Score(predicted)
  BY <1>2 DEF Score
<1>3. CASE Again
  BY <1>3 DEF Again
<1>4. CASE \E lag \in Lags : Process(lag)
  <2>1. PICK lag \in Lags : Process(lag) BY <1>4
  <2>2. ASSUME origin.own, origin.defect = "none"
        PROVE  Validate(payload, lag) = "valid" /\ Storable(payload)
    <3>1. PICK e, age : /\ age \in {0, Backfill} /\ WellMade(e, origin.incident, age)
                        /\ payload = Corrupt(e, "none")
      BY <2>2, OwnPayload DEF OwnInv
    <3>2. payload = e BY <3>1 DEF Corrupt
    <3> QED BY <3>1, <3>2, WellMadeIsStored
  <2> QED BY <2>1, <2>2 DEF Process
<1> QED BY <1>1, <1>2, <1>3, <1>4 DEF Next

\* Whatever the formulas and an incident make of a seeded cell, its report is valid and
\* the database takes it, if it waits no more than an hour.
THEOREM SimulatedReportsAreStored ==
    ASSUME SeededAndTimely
    PROVE  Spec => []SimulatedIsStored
<1>1. Init => SimulatedIsStored
  BY DEF Init, SimulatedIsStored
<1> QED BY <1>1, StoredStep, OwnInductive, VerdictTypes, PTL DEF Spec
=============================================================================
