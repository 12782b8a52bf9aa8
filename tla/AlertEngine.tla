---------------------------- MODULE AlertEngine ----------------------------
(***************************************************************************)
(* The alert engine (alerts/engine.py) and the ticket sinks it writes to   *)
(* (alerts/sink.py).  A pass reads the candidate anomalies once, then, for *)
(* each of them, inserts the alert, opens a ticket for the severe ones and *)
(* links the ticket to the alert: separate statements on the shared        *)
(* database, each of which can fail, be the last one before a crash, or    *)
(* interleave with the statements of another engine.                       *)
(***************************************************************************)
EXTENDS Integers, Sequences, SequencesExt, FiniteSets

CONSTANTS
    Engines,        \* running instances of the engine
    Anomalies,      \* rows of ml.anomalies with is_anomaly
    CellOf, TsOf,   \* the report they score; two model versions may score the same
    SeverityOf,     \* classify_severity of their telemetry row
    Lookback,       \* alert_lookback_minutes
    Cooldown,       \* alert_cooldown_minutes
    Limit,          \* LIMIT of the candidates query
    RealSink,       \* whether ServiceNow credentials are set
    MaxTime,        \* bound on the clock
    MaxFaults       \* bound on failures and crashes

\* Anomalies of one report, by different model versions.
Same(a, b) == CellOf[a] = CellOf[b] /\ TsOf[a] = TsOf[b]

ASSUME AnomaliesAssumption ==
    /\ IsFiniteSet(Anomalies)
    /\ TsOf \in [Anomalies -> Nat]
    /\ SeverityOf \in [Anomalies -> {"CRITICAL", "HIGH", "MEDIUM", "LOW"}]
    \* the severity is computed from the report, not from the score
    /\ \A a, b \in Anomalies : Same(a, b) => SeverityOf[a] = SeverityOf[b]
ASSUME EngineAssumption ==
    /\ Lookback \in Nat /\ Cooldown \in Nat /\ Limit \in Nat \ {0}
    /\ RealSink \in BOOLEAN
    /\ MaxTime \in Nat /\ MaxFaults \in Nat

VARIABLES
    now,        \* the database's clock
    scored,     \* the anomalies stored so far
    alerts,     \* ops.alerts: from the anomaly alerted to the row
    incidents,  \* ops.servicenow_incidents, in the order of insertion
    remote,     \* remote[a]: tickets for a in the ServiceNow instance
    pc, todo,   \* of each engine: its step, the candidates left in its pass,
    began,      \* the time of the pass's query,
    cur, ticket,\* the alert being ticketed, if any, and the ticket obtained for it
    faults

tableVars  == <<alerts, incidents, remote>>
engineVars == <<pc, todo, began, cur, ticket>>
vars == <<now, scored, tableVars, engineVars, faults>>

\* Mutant of Severe: HIGH alerts are left out.
SevereCriticalOnly(a) == SeverityOf[a] = "CRITICAL"

\* Alerts that get a ticket.
Severe(a) == SeverityOf[a] \in {"HIGH", "CRITICAL"}

\* A ticket: the sink that made it and its number, 0 for one the instance chose.
Tickets  == [sink : {"none", "mock", "servicenow"}, number : Nat]
NoTicket == [sink |-> "none", number |-> 0]

\* A row of ops.alerts: created_ts, its ticket columns and, for the properties, the time
\* of the query of the pass that inserted it.
AlertRows == [created : 0 .. MaxTime, began : 0 .. MaxTime, ticket : Tickets]

Init ==
    /\ now = 0 /\ scored = {}
    /\ alerts = <<>> /\ incidents = <<>>
    /\ remote = [a \in Anomalies |-> 0]
    /\ pc = [e \in Engines |-> "down"]
    /\ todo = [e \in Engines |-> {}]
    /\ began = [e \in Engines |-> 0]
    /\ cur = [e \in Engines |-> {}]
    /\ ticket = [e \in Engines |-> NoTicket]
    /\ faults = 0

Tick ==
    /\ now < MaxTime
    /\ now' = now + 1
    /\ UNCHANGED <<scored, tableVars, engineVars, faults>>

\* The ML worker stores a scored row.
Score(a) ==
    /\ a \notin scored /\ TsOf[a] <= now
    /\ scored' = scored \cup {a}
    /\ UNCHANGED <<now, tableVars, engineVars, faults>>
-----------------------------------------------------------------------------
\* The unique index of ops.alerts on (cell_id, event_ts) has a row for a's report.
Alerted(a) == \E b \in DOMAIN alerts : Same(a, b)

\* Mutant of Candidates: the cooldown is not looked at.
CandidatesHot ==
    {a \in scored : TsOf[a] > now - Lookback /\ ~Alerted(a)}

\* CANDIDATES_SQL without ORDER BY and LIMIT, at the time of the query.
Candidates ==
    {a \in scored :
        /\ TsOf[a] > now - Lookback
        /\ ~Alerted(a)
        /\ \A b \in DOMAIN alerts : CellOf[b] = CellOf[a] => alerts[b].created <= now - Cooldown}

\* Mutant of Newest: the query has no LIMIT.
NewestUnlimited(S) == {S}

\* ORDER BY event_ts DESC LIMIT: the newest ones, ties in any order.
Newest(S) ==
    {T \in SUBSET S : /\ Cardinality(T) = IF Cardinality(S) < Limit THEN Cardinality(S) ELSE Limit
                      /\ \A a \in T, b \in S \ T : TsOf[a] >= TsOf[b]}

Start(e) ==
    /\ pc[e] = "down"
    /\ pc' = [pc EXCEPT ![e] = "idle"]
    /\ UNCHANGED <<now, scored, tableVars, todo, began, cur, ticket, faults>>

\* SIGTERM or SIGINT: run() leaves its loop after the pass.
Stop(e) ==
    /\ pc[e] = "idle"
    /\ pc' = [pc EXCEPT ![e] = "down"]
    /\ UNCHANGED <<now, scored, tableVars, todo, began, cur, ticket, faults>>

\* The one query of a pass.
Query(e) ==
    /\ pc[e] = "idle" /\ Candidates # {}
    /\ \E T \in Newest(Candidates) : todo' = [todo EXCEPT ![e] = T]
    /\ began' = [began EXCEPT ![e] = now]
    /\ pc' = [pc EXCEPT ![e] = "row"]
    /\ UNCHANGED <<now, scored, tableVars, cur, ticket, faults>>

PassEnds(e) ==
    /\ pc[e] = "row" /\ todo[e] = {}
    /\ pc' = [pc EXCEPT ![e] = "idle"]
    /\ began' = [began EXCEPT ![e] = 0]
    /\ UNCHANGED <<now, scored, tableVars, todo, cur, ticket, faults>>

WithAlert(a, e) ==
    [b \in DOMAIN alerts \cup {a} |->
        IF b = a THEN [created |-> now, began |-> began[e], ticket |-> NoTicket] ELSE alerts[b]]

\* Mutant of InsertAlert: ON CONFLICT DO NOTHING, but rowcount is not looked at.
InsertAlertIgnoresRowcount(e) ==
    /\ pc[e] = "row"
    /\ \E a \in todo[e] :
          /\ \A b \in todo[e] : TsOf[a] >= TsOf[b]
          /\ todo' = [todo EXCEPT ![e] = @ \ {a}]
          /\ alerts' = IF Alerted(a) THEN alerts ELSE WithAlert(a, e)
          /\ cur' = [cur EXCEPT ![e] = IF Severe(a) THEN {a} ELSE {}]
          /\ pc' = [pc EXCEPT ![e] = IF Severe(a) THEN "open" ELSE "row"]
    /\ UNCHANGED <<now, scored, incidents, remote, began, ticket, faults>>

\* INSERT ... ON CONFLICT (cell_id, event_ts) DO NOTHING; rowcount 0 skips the row.
InsertAlert(e) ==
    /\ pc[e] = "row"
    /\ \E a \in todo[e] :
          /\ \A b \in todo[e] : TsOf[a] >= TsOf[b]
          /\ todo' = [todo EXCEPT ![e] = @ \ {a}]
          /\ IF Alerted(a)
             THEN UNCHANGED <<alerts, pc, cur>>
             ELSE /\ alerts' = WithAlert(a, e)
                  /\ cur' = [cur EXCEPT ![e] = IF Severe(a) THEN {a} ELSE {}]
                  /\ pc' = [pc EXCEPT ![e] = IF Severe(a) THEN "open" ELSE "row"]
    /\ UNCHANGED <<now, scored, incidents, remote, began, ticket, faults>>
-----------------------------------------------------------------------------
(***************************************************************************)
(* create_incident of the sinks.                                           *)
(***************************************************************************)
Goto(e, next) ==
    /\ pc' = [pc EXCEPT ![e] = next]
    /\ UNCHANGED <<now, scored, alerts, incidents, todo, began, cur>>

Hold(e, t) == ticket' = [ticket EXCEPT ![e] = t]

Fault == faults < MaxFaults /\ faults' = faults + 1

Posted(e) == [a \in Anomalies |-> IF a \in cur[e] THEN remote[a] + 1 ELSE remote[a]]

PostSucceeds(e) ==
    /\ pc[e] = "open" /\ RealSink
    /\ remote' = Posted(e)
    /\ Hold(e, [sink |-> "servicenow", number |-> 0])
    /\ Goto(e, "record")
    /\ UNCHANGED faults

\* URLError, a body that is not JSON or has no "result": the mock takes over, whether
\* or not the instance created the ticket.
PostFallsBack(e) ==
    /\ Fault
    /\ pc[e] = "open" /\ RealSink
    /\ remote' \in {remote, Posted(e)}
    /\ Goto(e, "mock")
    /\ UNCHANGED ticket

\* _next_mock_number: SELECT COUNT(*) + 1.
CountIncidents(e) ==
    /\ \/ pc[e] = "mock"
       \/ pc[e] = "open" /\ ~RealSink
    /\ Hold(e, [sink |-> "mock", number |-> Len(incidents) + 1])
    /\ Goto(e, "record")
    /\ UNCHANGED <<remote, faults>>

WithIncident(a, e) == Append(incidents, [alert |-> a, ticket |-> ticket[e]])

\* Mutant of RecordIncident: the link is written although the insert did nothing.
RecordIncidentSkipped(e) ==
    /\ pc[e] = "record"
    /\ pc' = [pc EXCEPT ![e] = "link"]
    /\ UNCHANGED <<now, scored, tableVars, todo, began, cur, ticket, faults>>

\* INSERT INTO ops.servicenow_incidents.
RecordIncident(e) ==
    /\ pc[e] = "record"
    /\ \E a \in cur[e] : incidents' = WithIncident(a, e)
    /\ pc' = [pc EXCEPT ![e] = "link"]
    /\ UNCHANGED <<now, scored, alerts, remote, todo, began, cur, ticket, faults>>

Linked(a, e) == [alerts EXCEPT ![a].ticket = ticket[e]]

LinkAlert(e) ==
    /\ pc[e] = "link"
    /\ \E a \in cur[e] : alerts' = Linked(a, e)
    /\ pc' = [pc EXCEPT ![e] = "row"]
    /\ cur' = [cur EXCEPT ![e] = {}]
    /\ Hold(e, NoTicket)
    /\ UNCHANGED <<now, scored, incidents, remote, todo, began, faults>>
-----------------------------------------------------------------------------
(***************************************************************************)
(* Failures.  run() catches every exception of a pass and forgets its      *)
(* remaining candidates; a crash forgets the engine's state altogether.    *)
(***************************************************************************)
Leave(e, next) ==
    /\ pc' = [pc EXCEPT ![e] = next]
    /\ todo' = [todo EXCEPT ![e] = {}]
    /\ began' = [began EXCEPT ![e] = 0]
    /\ cur' = [cur EXCEPT ![e] = {}]
    /\ Hold(e, NoTicket)
    /\ UNCHANGED <<now, scored>>

\* A statement fails, or its effect is there and only the answer is lost.
DbFails(e) ==
    /\ Fault
    /\ \/ /\ pc[e] \in {"row", "mock", "record", "link"}
          /\ UNCHANGED <<alerts, incidents>>
       \/ /\ pc[e] = "row"
          /\ \E a \in todo[e] :
                /\ ~Alerted(a)
                /\ \A b \in todo[e] : TsOf[a] >= TsOf[b]
                /\ alerts' = WithAlert(a, e)
          /\ UNCHANGED incidents
       \/ /\ pc[e] = "record"
          /\ \E a \in cur[e] : incidents' = WithIncident(a, e)
          /\ UNCHANGED alerts
       \/ /\ pc[e] = "link"
          /\ \E a \in cur[e] : alerts' = Linked(a, e)
          /\ UNCHANGED incidents
    /\ Leave(e, "idle")
    /\ UNCHANGED remote

\* What create_incident does not catch: a timeout while the answer is read, say.
PostRaises(e) ==
    /\ Fault
    /\ pc[e] = "open" /\ RealSink
    /\ remote' \in {remote, Posted(e)}
    /\ Leave(e, "idle")
    /\ UNCHANGED <<alerts, incidents>>

Crash(e) ==
    /\ Fault
    /\ pc[e] # "down"
    /\ Leave(e, "down")
    /\ UNCHANGED tableVars
-----------------------------------------------------------------------------
Engine(e) == \/ Start(e) \/ Stop(e) \/ Query(e) \/ PassEnds(e) \/ InsertAlert(e)
             \/ PostSucceeds(e) \/ PostFallsBack(e) \/ PostRaises(e)
             \/ CountIncidents(e) \/ RecordIncident(e) \/ LinkAlert(e)
             \/ DbFails(e) \/ Crash(e)

Next == Tick \/ (\E a \in Anomalies : Score(a)) \/ (\E e \in Engines : Engine(e))

Spec == Init /\ [][Next]_vars
-----------------------------------------------------------------------------
(***************************************************************************)
(* Properties                                                              *)
(***************************************************************************)

\* Every variable has its type.  (The tables and each engine's place in its pass.)
TypeOK ==
    /\ now \in 0 .. MaxTime /\ faults \in 0 .. MaxFaults
    /\ scored \subseteq Anomalies
    /\ DOMAIN alerts \subseteq scored /\ \A a \in DOMAIN alerts : alerts[a] \in AlertRows
    /\ incidents \in Seq([alert : Anomalies, ticket : Tickets])
    /\ remote \in [Anomalies -> Nat]
    /\ pc \in [Engines -> {"down", "idle", "row", "open", "mock", "record", "link"}]
    /\ todo \in [Engines -> SUBSET Anomalies]
    /\ began \in [Engines -> 0 .. MaxTime]
    /\ cur \in [Engines -> SUBSET Anomalies]
    /\ ticket \in [Engines -> Tickets]
    /\ \A e \in Engines : Cardinality(todo[e]) <= Limit /\ Cardinality(cur[e]) <= 1

IncidentsFor(a) == {i \in 1 .. Len(incidents) : Same(incidents[i].alert, a)}
RemoteFor(a)    == {b \in Anomalies : Same(a, b) /\ remote[b] > 0}

\* However passes, restarts, model versions and failures interleave, a report gets at most
\* one ticket in each place: one row of ops.servicenow_incidents, one in the instance.
OneTicketPerAlert ==
    \A a \in Anomalies : /\ Cardinality(IncidentsFor(a)) <= 1
                         /\ Cardinality(RemoteFor(a)) <= 1 /\ remote[a] <= 1

\* A number on an alert is the number of that alert's own ticket, already recorded: the
\* link is never there before the ticket, nor to another alert's.
LinksMatch ==
    \A a \in DOMAIN alerts : alerts[a].ticket # NoTicket =>
        \E i \in IncidentsFor(a) : incidents[i].ticket = alerts[a].ticket

\* An alert that was there when a pass began silences its cell in that pass for the
\* cooldown (CANDIDATES_SQL), also while another engine is in the middle of its own.
CooldownBetweenPasses ==
    \A a, b \in DOMAIN alerts :
        /\ a # b /\ CellOf[a] = CellOf[b]
        /\ alerts[a].created < alerts[b].began
        => alerts[a].created + Cooldown <= alerts[b].began

HighOrCritical(a) == SeverityOf[a] \in {"HIGH", "CRITICAL"}
Unticketed == {a \in DOMAIN alerts : /\ HighOrCritical(a) /\ IncidentsFor(a) = {}
                                     /\ \A e \in Engines : a \notin cur[e]}

\* As long as nothing fails, no pass leaves a HIGH or CRITICAL alert without a ticket,
\* and no other alert gets one.
SevereTicketed ==
    /\ faults = 0 => Unticketed = {}
    /\ \A a \in Anomalies : IncidentsFor(a) # {} => HighOrCritical(a)

\* HIGH/CRITICAL alerts create a ServiceNow incident (README.md), whatever happens.
SevereAlwaysTicketed == Unticketed = {}
=============================================================================
