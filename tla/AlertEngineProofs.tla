------------------------- MODULE AlertEngineProofs -------------------------
(***************************************************************************)
(* Proofs about AlertEngine, for any number of engines, anomalies, model   *)
(* versions, severities, windows and faults, with either sink.             *)
(***************************************************************************)
EXTENDS AlertEngine, FiniteSetTheorems, TLAPS

\* A pass handles stored anomalies, as of a time that has passed.
PassOfThePast ==
    \A e \in Engines : todo[e] \subseteq scored /\ began[e] <= now

Ticketing == {"open", "mock", "record", "link"}

\* An engine that is ticketing has one alert in hand, a severe one that is stored, and
\* no other engine has it.
OneInHand ==
    /\ \A e \in Engines : /\ pc[e] \in Ticketing => \E a \in Anomalies : cur[e] = {a}
                          /\ pc[e] \notin Ticketing => cur[e] = {}
                          /\ \A a \in cur[e] : a \in DOMAIN alerts /\ Severe(a)
    /\ \A e, f \in Engines : \A a \in cur[e] : a \in cur[f] => e = f

\* The unique index of ops.alerts.
OneAlertPerReport == \A a, b \in DOMAIN alerts : Same(a, b) => a = b

RowsOf(a) == {i \in 1 .. Len(incidents) : incidents[i].alert = a}

\* A ticket is made for a severe alert that is stored, and once in each place,
RecordedOnce ==
    /\ \A i \in 1 .. Len(incidents) :
          incidents[i].alert \in DOMAIN alerts /\ Severe(incidents[i].alert)
    /\ \A i, j \in 1 .. Len(incidents) : incidents[i].alert = incidents[j].alert => i = j

PostedOnce == \A a \in Anomalies : remote[a] > 0 => a \in DOMAIN alerts /\ remote[a] = 1

\* and not yet while the engine that has the alert in hand is before that place.
NotYetTicketed ==
    \A e \in Engines : \A a \in cur[e] :
        /\ pc[e] = "open" => remote[a] = 0
        /\ pc[e] \in {"open", "mock", "record"} => RowsOf(a) = {}

TicketOnce == RecordedOnce /\ PostedOnce /\ NotYetTicketed

\* The number an engine is about to link, and each number linked, is that of a ticket
\* recorded for the alert.
LinkRecorded ==
    /\ \A e \in Engines : \A a \in cur[e] : pc[e] = "link" =>
          \E i \in RowsOf(a) : incidents[i].ticket = ticket[e]
    /\ \A a \in DOMAIN alerts : alerts[a].ticket # NoTicket =>
          \E i \in RowsOf(a) : incidents[i].ticket = alerts[a].ticket

\* What a pass still has to do was out of its cooldown when the pass began, and every
\* alert of a later time is not before the pass.
OutOfCooldown ==
    /\ \A a \in DOMAIN alerts : alerts[a].created <= now /\ alerts[a].began <= now
    /\ \A e \in Engines : \A a \in todo[e] : \A b \in DOMAIN alerts :
          CellOf[b] = CellOf[a] /\ alerts[b].created < began[e]
          => alerts[b].created + Cooldown <= began[e]

\* Without a fault a severe alert has its ticket, or is in an engine's hand.
InHandOrTicketed ==
    faults = 0 => \A a \in DOMAIN alerts :
        Severe(a) => RowsOf(a) # {} \/ \E e \in Engines : a \in cur[e]

AlertInv ==
    /\ TypeOK /\ PassOfThePast
    /\ OneInHand /\ OneAlertPerReport /\ TicketOnce /\ LinkRecorded
    /\ OutOfCooldown /\ CooldownBetweenPasses
    /\ InHandOrTicketed
-----------------------------------------------------------------------------
\* Sets of anomalies are finite; a pass that takes a candidate has one less.
LEMMA SetsOfAnomalies ==
    /\ Cardinality({}) = 0 /\ \A a : Cardinality({a}) = 1
    /\ \A S \in SUBSET Anomalies : IsFiniteSet(S) /\ Cardinality(S) \in Nat
    /\ \A S \in SUBSET Anomalies : \A a \in S : Cardinality(S \ {a}) <= Cardinality(S)
  <1>1. \A S \in SUBSET Anomalies : IsFiniteSet(S) /\ Cardinality(S) \in Nat
    BY AnomaliesAssumption, FS_Subset, FS_CardinalityType
  <1>2. \A S \in SUBSET Anomalies : \A a \in S : Cardinality(S \ {a}) <= Cardinality(S)
    <2> TAKE S \in SUBSET Anomalies
    <2> TAKE a \in S
    <2>1. IsFiniteSet(S) /\ Cardinality(S) \in Nat
      BY <1>1
    <2>2. Cardinality(S \ {a}) = Cardinality(S) - 1
      BY <2>1, FS_RemoveElement
    <2> QED  BY <2>1, <2>2
  <1> QED  BY <1>1, <1>2, FS_EmptySet, FS_Singleton

\* The query returns at most Limit rows of its candidates, all of them stored.
LEMMA NewestIsSmall ==
    ASSUME NEW S \in SUBSET Anomalies, NEW T \in Newest(S)
    PROVE  T \subseteq S /\ Cardinality(T) <= Limit
  <1>1. T \subseteq S /\ Cardinality(T) = IF Cardinality(S) < Limit THEN Cardinality(S) ELSE Limit
    BY DEF Newest
  <1>2. Cardinality(S) \in Nat /\ Limit \in Nat
    BY SetsOfAnomalies, EngineAssumption
  <1> QED  BY <1>1, <1>2

\* The row of a new alert, and the table with it.
LEMMA WithAlertRow ==
    ASSUME NEW a, NEW e
    PROVE  /\ DOMAIN WithAlert(a, e) = DOMAIN alerts \cup {a}
           /\ WithAlert(a, e)[a] = [created |-> now, began |-> began[e], ticket |-> NoTicket]
           /\ \A b \in DOMAIN alerts \ {a} : WithAlert(a, e)[b] = alerts[b]
  BY DEF WithAlert

\* A ticket number on a row leaves its times and the other rows alone.
LEMMA LinkedRow ==
    ASSUME TypeOK, NEW a, NEW e \in Engines
    PROVE  /\ DOMAIN Linked(a, e) = DOMAIN alerts
           /\ \A b \in DOMAIN alerts \ {a} : Linked(a, e)[b] = alerts[b]
           /\ a \in DOMAIN alerts => Linked(a, e)[a] = [alerts[a] EXCEPT !.ticket = ticket[e]]
           /\ \A b \in DOMAIN alerts : /\ Linked(a, e)[b] \in AlertRows
                                       /\ Linked(a, e)[b].created = alerts[b].created
                                       /\ Linked(a, e)[b].began = alerts[b].began
  <1>1. \A b \in DOMAIN alerts : alerts[b] \in AlertRows
    BY DEF TypeOK
  <1>2. ticket[e] \in Tickets
    BY DEF TypeOK
  <1>3. /\ DOMAIN Linked(a, e) = DOMAIN alerts
        /\ \A b \in DOMAIN alerts \ {a} : Linked(a, e)[b] = alerts[b]
        /\ a \in DOMAIN alerts => Linked(a, e)[a] = [alerts[a] EXCEPT !.ticket = ticket[e]]
    BY DEF Linked
  <1>4. a \in DOMAIN alerts =>
            /\ [alerts[a] EXCEPT !.ticket = ticket[e]] \in AlertRows
            /\ [alerts[a] EXCEPT !.ticket = ticket[e]].created = alerts[a].created
            /\ [alerts[a] EXCEPT !.ticket = ticket[e]].began = alerts[a].began
    BY <1>1, <1>2 DEF AlertRows
  <1> QED  BY <1>1, <1>3, <1>4

\* The table after an insert.
LEMMA AlertInserted ==
    ASSUME NEW a, NEW e, alerts' = WithAlert(a, e)
    PROVE  /\ DOMAIN alerts' = DOMAIN alerts \cup {a}
           /\ alerts'[a] = [created |-> now, began |-> began[e], ticket |-> NoTicket]
           /\ \A b \in DOMAIN alerts \ {a} : alerts'[b] = alerts[b]
  BY DEF WithAlert

\* The times in the table after a link.
LEMMA AlertLinked ==
    ASSUME TypeOK, NEW a, NEW e \in Engines, alerts' = Linked(a, e)
    PROVE  /\ DOMAIN alerts' = DOMAIN alerts
           /\ \A b \in DOMAIN alerts : /\ alerts'[b].created = alerts[b].created
                                       /\ alerts'[b].began = alerts[b].began
  <1>1. DOMAIN alerts' = DOMAIN alerts
    BY LinkedRow
  <1>2. \A b \in DOMAIN alerts : alerts[b] \in AlertRows
    BY DEF TypeOK
  <1>3. \A b \in DOMAIN alerts \ {a} : alerts'[b] = alerts[b]
    BY DEF Linked
  <1>4. a \in DOMAIN alerts => alerts'[a] = [alerts[a] EXCEPT !.ticket = ticket[e]]
    BY DEF Linked
  <1>5. a \in DOMAIN alerts => /\ alerts'[a].created = alerts[a].created
                              /\ alerts'[a].began = alerts[a].began
    BY <1>2, <1>4 DEF AlertRows
  <1> QED  BY <1>1, <1>3, <1>5
-----------------------------------------------------------------------------
\* The initial state is well typed.
LEMMA TypeOKInit == Init => TypeOK
  <1> SUFFICES ASSUME Init  PROVE TypeOK
    OBVIOUS
  <1>1. NoTicket \in Tickets
    BY DEF NoTicket, Tickets
  <1>2. DOMAIN alerts = {} /\ incidents \in Seq([alert : Anomalies, ticket : Tickets])
    BY DEF Init
  <1>3. \A e \in Engines : Cardinality(todo[e]) <= Limit /\ Cardinality(cur[e]) <= 1
    BY SetsOfAnomalies, EngineAssumption DEF Init
  <1>4. now \in 0 .. MaxTime /\ faults \in 0 .. MaxFaults /\ began \in [Engines -> 0 .. MaxTime]
    BY EngineAssumption DEF Init
  <1> QED  BY <1>1, <1>2, <1>3, <1>4 DEF Init, TypeOK

\* Every step keeps the tables and each engine's place in its pass well typed.
LEMMA TypeOKNext == TypeOK /\ PassOfThePast /\ [Next]_vars => TypeOK'
  <1> SUFFICES ASSUME TypeOK, PassOfThePast, [Next]_vars  PROVE TypeOK'
    OBVIOUS
  <1> USE DEF tableVars, engineVars
  <1>0. NoTicket \in Tickets
    BY DEF NoTicket, Tickets
  <1>1. CASE UNCHANGED vars
    BY <1>1 DEF TypeOK, vars
  <1>2. CASE Tick
    BY <1>2, EngineAssumption DEF TypeOK, Tick
  <1>3. ASSUME NEW a \in Anomalies, Score(a)  PROVE TypeOK'
    BY <1>3 DEF TypeOK, Score
  <1>4. ASSUME NEW e \in Engines, Start(e) \/ Stop(e)  PROVE TypeOK'
    BY <1>4 DEF TypeOK, Start, Stop
  <1>5. ASSUME NEW e \in Engines, Query(e)  PROVE TypeOK'
    <2>1. PICK T \in Newest(Candidates) : todo' = [todo EXCEPT ![e] = T]
      BY <1>5 DEF Query
    <2>2. T \subseteq Anomalies /\ Cardinality(T) <= Limit
      <3>1. Candidates \in SUBSET Anomalies
        BY DEF TypeOK, Candidates
      <3> QED  BY <2>1, <3>1, NewestIsSmall
    <2> QED  BY <1>5, <2>1, <2>2 DEF TypeOK, Query
  <1>6. ASSUME NEW e \in Engines, PassEnds(e)  PROVE TypeOK'
    BY <1>6, EngineAssumption DEF TypeOK, PassEnds
  <1>7. ASSUME NEW e \in Engines, NEW a \in todo[e]
        PROVE  /\ DOMAIN WithAlert(a, e) \subseteq scored
               /\ \A b \in DOMAIN WithAlert(a, e) : WithAlert(a, e)[b] \in AlertRows
    <2>1. [created |-> now, began |-> began[e], ticket |-> NoTicket] \in AlertRows
      BY <1>0 DEF AlertRows, TypeOK
    <2>2. a \in scored /\ DOMAIN alerts \subseteq scored
      BY DEF TypeOK, PassOfThePast
    <2>3. \A b \in DOMAIN alerts : alerts[b] \in AlertRows
      BY DEF TypeOK
    <2>4. /\ DOMAIN WithAlert(a, e) = DOMAIN alerts \cup {a}
          /\ WithAlert(a, e)[a] \in AlertRows
          /\ \A b \in DOMAIN alerts \ {a} : WithAlert(a, e)[b] = alerts[b]
      <3>1. /\ DOMAIN WithAlert(a, e) = DOMAIN alerts \cup {a}
            /\ WithAlert(a, e)[a] = [created |-> now, began |-> began[e], ticket |-> NoTicket]
            /\ \A b \in DOMAIN alerts \ {a} : WithAlert(a, e)[b] = alerts[b]
        BY DEF WithAlert
      <3> QED  BY ONLY <2>1, <3>1
    <2>5. DOMAIN WithAlert(a, e) \subseteq scored
      BY ONLY <2>2, <2>4
    <2>6. ASSUME NEW b \in DOMAIN WithAlert(a, e)  PROVE WithAlert(a, e)[b] \in AlertRows
      BY ONLY <2>3, <2>4, <2>6
    <2> QED  BY <2>5, <2>6
  <1>8. ASSUME NEW e \in Engines, InsertAlert(e)  PROVE TypeOK'
    <2>1. PICK a \in todo[e] :
              /\ todo' = [todo EXCEPT ![e] = @ \ {a}]
              /\ \/ UNCHANGED <<alerts, pc, cur>>
                 \/ /\ alerts' = WithAlert(a, e)
                    /\ cur' = [cur EXCEPT ![e] = IF Severe(a) THEN {a} ELSE {}]
                    /\ pc' = [pc EXCEPT ![e] = IF Severe(a) THEN "open" ELSE "row"]
      BY <1>8 DEF InsertAlert
    <2>2. /\ todo' \in [Engines -> SUBSET Anomalies]
          /\ \A f \in Engines : Cardinality(todo'[f]) <= Limit
      <3>1. todo[e] \in SUBSET Anomalies /\ Cardinality(todo[e]) <= Limit
        BY DEF TypeOK
      <3>2. Cardinality(todo[e] \ {a}) <= Limit
        BY <3>1, SetsOfAnomalies, EngineAssumption
      <3> QED  BY <2>1, <3>1, <3>2 DEF TypeOK
    <2>3. /\ cur' \in [Engines -> SUBSET Anomalies]
          /\ \A f \in Engines : Cardinality(cur'[f]) <= 1
      <3>1. a \in Anomalies
        BY DEF TypeOK
      <3>2. \E hand \in SUBSET Anomalies :
                /\ cur' = [cur EXCEPT ![e] = hand]
                /\ hand = cur[e] \/ hand = {a} \/ hand = {}
        <4>1. CASE UNCHANGED cur
          BY <4>1 DEF TypeOK
        <4>2. CASE Severe(a) /\ cur' = [cur EXCEPT ![e] = {a}]
          BY <3>1, <4>2
        <4>3. CASE ~Severe(a) /\ cur' = [cur EXCEPT ![e] = {}]
          BY <4>3
        <4> QED  BY <2>1, <4>1, <4>2, <4>3
      <3>3. Cardinality({a}) = 1 /\ Cardinality({}) = 0
        BY SetsOfAnomalies
      <3>4. PICK hand \in SUBSET Anomalies :
                cur' = [cur EXCEPT ![e] = hand] /\ Cardinality(hand) <= 1
        <4>1. PICK hand \in SUBSET Anomalies : /\ cur' = [cur EXCEPT ![e] = hand]
                                               /\ hand = cur[e] \/ hand = {a} \/ hand = {}
          BY <3>2
        <4>2. hand = {a} => Cardinality(hand) = 1
          BY Zenon, <3>3
        <4>3. hand = {} => Cardinality(hand) = 0
          BY Zenon, <3>3
        <4>4. hand = cur[e] => Cardinality(hand) <= 1
          BY Zenon DEF TypeOK
        <4>5. Cardinality(hand) <= 1
          BY <4>1, <4>2, <4>3, <4>4
        <4> QED  BY <4>1, <4>5
      <3> QED  BY <3>4 DEF TypeOK
    <2>4. DOMAIN alerts' \subseteq scored /\ \A b \in DOMAIN alerts' : alerts'[b] \in AlertRows
      BY <1>7, <2>1 DEF TypeOK
    <2>5. pc' \in [Engines -> {"down", "idle", "row", "open", "mock", "record", "link"}]
      BY <2>1 DEF TypeOK
    <2>6. UNCHANGED <<now, scored, incidents, remote, began, ticket, faults>>
      BY <1>8 DEF InsertAlert
    <2> QED  BY <2>2, <2>3, <2>4, <2>5, <2>6 DEF TypeOK
  <1>9. \A e \in Engines : Posted(e) \in [Anomalies -> Nat]
    BY DEF Posted, TypeOK
  <1>10. ASSUME NEW e \in Engines, PostSucceeds(e)  PROVE TypeOK'
    <2>1. [sink |-> "servicenow", number |-> 0] \in Tickets
      BY DEF Tickets
    <2> QED  BY <1>9, <1>10, <2>1 DEF TypeOK, PostSucceeds, Hold, Goto
  <1>11. ASSUME NEW e \in Engines, PostFallsBack(e)  PROVE TypeOK'
    BY <1>9, <1>11, EngineAssumption DEF TypeOK, PostFallsBack, Fault, Goto
  <1>12. ASSUME NEW e \in Engines, CountIncidents(e)  PROVE TypeOK'
    <2>1. [sink |-> "mock", number |-> Len(incidents) + 1] \in Tickets
      BY DEF TypeOK, Tickets
    <2> QED  BY <1>12, <2>1 DEF TypeOK, CountIncidents, Hold, Goto
  <1>13. ASSUME NEW e \in Engines, NEW a \in cur[e]
         PROVE  WithIncident(a, e) \in Seq([alert : Anomalies, ticket : Tickets])
    <2>1. [alert |-> a, ticket |-> ticket[e]] \in [alert : Anomalies, ticket : Tickets]
      BY DEF TypeOK
    <2> QED  BY <2>1 DEF WithIncident, TypeOK
  <1>14. ASSUME NEW e \in Engines, RecordIncident(e)  PROVE TypeOK'
    BY <1>13, <1>14 DEF TypeOK, RecordIncident
  <1>15. ASSUME NEW e \in Engines, LinkAlert(e)  PROVE TypeOK'
    <2>1. PICK a \in cur[e] : alerts' = Linked(a, e)
      BY <1>15 DEF LinkAlert
    <2>2. DOMAIN alerts' \subseteq scored /\ \A b \in DOMAIN alerts' : alerts'[b] \in AlertRows
      BY <2>1, LinkedRow DEF TypeOK
    <2>3. Cardinality({}) <= 1
      BY SetsOfAnomalies
    <2> QED  BY <1>0, <1>15, <2>2, <2>3 DEF TypeOK, LinkAlert, Hold
  <1>16. ASSUME NEW e \in Engines, DbFails(e) \/ PostRaises(e) \/ Crash(e)  PROVE TypeOK'
    <2>1. /\ Fault /\ UNCHANGED <<now, scored>>
          /\ \E next \in {"idle", "down"} : Leave(e, next)
          /\ remote' \in {remote, Posted(e)}
      BY <1>16 DEF DbFails, PostRaises, Crash, Leave
    <2>2. DOMAIN alerts' \subseteq scored /\ \A b \in DOMAIN alerts' : alerts'[b] \in AlertRows
      <3>1. \/ UNCHANGED alerts
            \/ \E a \in todo[e] : alerts' = WithAlert(a, e)
            \/ \E a \in cur[e] : alerts' = Linked(a, e)
        BY <1>16 DEF DbFails, PostRaises, Crash
      <3>2. CASE UNCHANGED alerts
        BY <3>2 DEF TypeOK
      <3>3. CASE \E a \in todo[e] : alerts' = WithAlert(a, e)
        BY <1>7, <3>3
      <3>4. CASE \E a \in cur[e] : alerts' = Linked(a, e)
        <4>1. PICK a \in cur[e] : alerts' = Linked(a, e)
          BY <3>4
        <4>2. DOMAIN alerts' = DOMAIN alerts
              /\ \A b \in DOMAIN alerts : alerts'[b] \in AlertRows
          BY <4>1, LinkedRow
        <4> QED  BY <4>2 DEF TypeOK
      <3> QED  BY <3>1, <3>2, <3>3, <3>4
    <2>3. incidents' \in Seq([alert : Anomalies, ticket : Tickets])
      <3>1. incidents' = incidents \/ \E a \in cur[e] : incidents' = WithIncident(a, e)
        BY <1>16 DEF DbFails, PostRaises, Crash
      <3> QED  BY <1>13, <3>1 DEF TypeOK
    <2>4. Cardinality({}) = 0
      BY SetsOfAnomalies
    <2>5. now' \in 0 .. MaxTime /\ faults' \in 0 .. MaxFaults /\ scored' \subseteq Anomalies
      BY <2>1, EngineAssumption DEF Fault, TypeOK
    <2>6. remote' \in [Anomalies -> Nat]
      BY <1>9, <2>1 DEF TypeOK
    <2>7. /\ pc' \in [Engines -> {"down", "idle", "row", "open", "mock", "record", "link"}]
          /\ todo' \in [Engines -> SUBSET Anomalies] /\ cur' \in [Engines -> SUBSET Anomalies]
          /\ began' \in [Engines -> 0 .. MaxTime]
          /\ ticket' \in [Engines -> Tickets]
      BY <1>0, <2>1, EngineAssumption DEF Leave, Hold, TypeOK
    <2>8. \A f \in Engines : Cardinality(todo'[f]) <= Limit /\ Cardinality(cur'[f]) <= 1
      BY <2>1, <2>4, EngineAssumption DEF Leave, TypeOK
    <2> QED  BY <2>1, <2>2, <2>3, <2>5, <2>6, <2>7, <2>8 DEF TypeOK
  <1> QED
    BY <1>1, <1>2, <1>3, <1>4, <1>5, <1>6, <1>8, <1>10, <1>11, <1>12, <1>14, <1>15, <1>16
       DEF Next, Engine
-----------------------------------------------------------------------------
\* The clock does not go back, no scored row is deleted.
LEMMA ClockStep ==
    ASSUME TypeOK, [Next]_vars
    PROVE  now <= now' /\ now' \in Int /\ now \in Nat /\ scored \subseteq scored'
  <1>1. CASE Tick \/ \E a \in Anomalies : Score(a)
    BY <1>1 DEF TypeOK, Tick, Score
  <1>2. CASE UNCHANGED <<now, scored>>
    BY <1>2 DEF TypeOK
  <1>3. ASSUME NEW e \in Engines, Engine(e)  PROVE UNCHANGED <<now, scored>>
    BY <1>3 DEF Engine, Start, Stop, Query, PassEnds, InsertAlert, PostSucceeds, PostFallsBack,
          PostRaises, CountIncidents, RecordIncident, LinkAlert, DbFails, Crash, Goto, Leave
  <1> QED  BY <1>1, <1>2, <1>3 DEF Next, vars

\* How a step changes an engine's pass: it goes on with fewer candidates, is over, or
\* begins with the candidates of its query.
LEMMA PassStep ==
    ASSUME TypeOK, [Next]_vars, NEW f \in Engines
    PROVE  \/ todo'[f] \subseteq todo[f] /\ began'[f] = began[f]
           \/ todo'[f] = {} /\ began'[f] = 0
           \/ todo'[f] \subseteq Candidates /\ began'[f] = now /\ UNCHANGED <<now, alerts>>
  <1> USE DEF tableVars, engineVars
  <1>1. CASE UNCHANGED <<todo, began>>
    BY <1>1
  <1>2. CASE Tick \/ (\E a \in Anomalies : Score(a)) \/ UNCHANGED vars
    BY <1>1, <1>2 DEF Tick, Score, vars
  <1>3. ASSUME NEW e \in Engines,
               \/ Start(e) \/ Stop(e) \/ PostSucceeds(e) \/ PostFallsBack(e)
               \/ CountIncidents(e) \/ RecordIncident(e) \/ LinkAlert(e)
        PROVE  UNCHANGED <<todo, began>>
    BY <1>3 DEF Start, Stop, PostSucceeds, PostFallsBack, CountIncidents, RecordIncident,
          LinkAlert, Goto
  <1>4. ASSUME NEW e \in Engines, Query(e)
        PROVE  \/ todo'[f] = todo[f] /\ began'[f] = began[f]
               \/ todo'[f] \subseteq Candidates /\ began'[f] = now /\ UNCHANGED <<now, alerts>>
    <2>1. PICK T \in Newest(Candidates) : todo' = [todo EXCEPT ![e] = T]
      BY <1>4 DEF Query
    <2>2. T \subseteq Candidates
      BY <2>1 DEF Newest
    <2> QED  BY <1>4, <2>1, <2>2 DEF Query, TypeOK
  <1>5. ASSUME NEW e \in Engines, PassEnds(e)
        PROVE  todo'[f] = todo[f] /\ (began'[f] = began[f] \/ (todo'[f] = {} /\ began'[f] = 0))
    <2>1. CASE f = e
      BY <1>5, <2>1 DEF PassEnds, TypeOK
    <2>2. CASE f # e
      BY <1>5, <2>2 DEF PassEnds, TypeOK
    <2> QED  BY <2>1, <2>2
  <1>6. ASSUME NEW e \in Engines, InsertAlert(e)
        PROVE  todo'[f] \subseteq todo[f] /\ began'[f] = began[f]
    BY <1>6 DEF InsertAlert, TypeOK
  <1>7. ASSUME NEW e \in Engines, DbFails(e) \/ PostRaises(e) \/ Crash(e)
        PROVE  \/ todo'[f] = todo[f] /\ began'[f] = began[f]
               \/ todo'[f] = {} /\ began'[f] = 0
    <2>1. \E next : Leave(e, next)
      BY <1>7 DEF DbFails, PostRaises, Crash
    <2> QED  BY <2>1 DEF Leave, TypeOK
  <1> QED  BY <1>1, <1>2, <1>3, <1>4, <1>5, <1>6, <1>7 DEF Next, Engine

\* A pass only ever holds candidates that are stored, and began in the past.
LEMMA PassOfThePastNext ==
    ASSUME TypeOK, PassOfThePast, [Next]_vars
    PROVE  PassOfThePast'
  <1> SUFFICES ASSUME NEW f \in Engines  PROVE todo'[f] \subseteq scored' /\ began'[f] <= now'
    BY DEF PassOfThePast
  <1>1. now <= now' /\ now' \in Int /\ now \in Nat /\ scored \subseteq scored'
    BY ClockStep
  <1>2. todo[f] \subseteq scored /\ began[f] <= now /\ began[f] \in Nat
    BY DEF PassOfThePast, TypeOK
  <1>3. Candidates \subseteq scored
    BY DEF Candidates
  <1> QED  BY <1>1, <1>2, <1>3, PassStep

\* How a step changes ops.alerts: not at all, by a candidate of a pass whose report has no
\* alert, or by the ticket of the alert in an engine's hand.
LEMMA AlertsStep ==
    ASSUME [Next]_vars
    PROVE  \/ UNCHANGED alerts
           \/ \E e \in Engines : \E a \in todo[e] :
                 /\ pc[e] = "row" /\ ~Alerted(a) /\ alerts' = WithAlert(a, e)
                 /\ UNCHANGED <<now, incidents, remote>>
           \/ \E e \in Engines : \E a \in cur[e] :
                 /\ pc[e] = "link" /\ alerts' = Linked(a, e)
                 /\ UNCHANGED <<now, incidents, remote>>
  <1> USE DEF tableVars, engineVars
  <1>1. CASE Tick \/ (\E a \in Anomalies : Score(a)) \/ UNCHANGED vars
    BY <1>1 DEF Tick, Score, vars
  <1>2. ASSUME NEW e \in Engines,
               \/ Start(e) \/ Stop(e) \/ Query(e) \/ PassEnds(e) \/ PostSucceeds(e)
               \/ PostFallsBack(e) \/ PostRaises(e) \/ CountIncidents(e) \/ RecordIncident(e) \/ Crash(e)
        PROVE  UNCHANGED alerts
    BY <1>2 DEF Start, Stop, Query, PassEnds, PostSucceeds, PostFallsBack, PostRaises,
          CountIncidents, RecordIncident, Crash, Goto
  <1>3. ASSUME NEW e \in Engines, InsertAlert(e)
        PROVE  \/ UNCHANGED alerts
               \/ \E a \in todo[e] : /\ pc[e] = "row" /\ ~Alerted(a) /\ alerts' = WithAlert(a, e)
                                     /\ UNCHANGED <<now, incidents, remote>>
    BY <1>3 DEF InsertAlert
  <1>4. ASSUME NEW e \in Engines, LinkAlert(e)
        PROVE  \E a \in cur[e] : /\ pc[e] = "link" /\ alerts' = Linked(a, e)
                                 /\ UNCHANGED <<now, incidents, remote>>
    BY <1>4 DEF LinkAlert
  <1>5. ASSUME NEW e \in Engines, DbFails(e)
        PROVE  \/ UNCHANGED alerts
               \/ \E a \in todo[e] : /\ pc[e] = "row" /\ ~Alerted(a) /\ alerts' = WithAlert(a, e)
                                     /\ UNCHANGED <<now, incidents, remote>>
               \/ \E a \in cur[e] : /\ pc[e] = "link" /\ alerts' = Linked(a, e)
                                    /\ UNCHANGED <<now, incidents, remote>>
    BY <1>5 DEF DbFails, Leave
  <1> QED  BY <1>1, <1>2, <1>3, <1>4, <1>5 DEF Next, Engine

\* How a step changes ops.servicenow_incidents: not at all, or by the ticket of the alert
\* in an engine's hand.
LEMMA IncidentsStep ==
    ASSUME TypeOK, [Next]_vars
    PROVE  \/ UNCHANGED incidents
           \/ \E e \in Engines : \E a \in cur[e] :
                 /\ pc[e] = "record" /\ incidents' = WithIncident(a, e)
                 /\ pc'[e] \notin {"open", "mock", "record"}
                 /\ UNCHANGED <<alerts, remote>>
  <1> USE DEF tableVars, engineVars
  <1>1. CASE Tick \/ (\E a \in Anomalies : Score(a)) \/ UNCHANGED vars
    BY <1>1 DEF Tick, Score, vars
  <1>2. ASSUME NEW e \in Engines,
               \/ Start(e) \/ Stop(e) \/ Query(e) \/ PassEnds(e) \/ InsertAlert(e) \/ PostSucceeds(e)
               \/ PostFallsBack(e) \/ PostRaises(e) \/ CountIncidents(e) \/ LinkAlert(e) \/ Crash(e)
        PROVE  UNCHANGED incidents
    BY <1>2 DEF Start, Stop, Query, PassEnds, InsertAlert, PostSucceeds, PostFallsBack, PostRaises,
          CountIncidents, LinkAlert, Crash, Goto
  <1>3. ASSUME NEW e \in Engines, RecordIncident(e) \/ DbFails(e)
        PROVE  \/ UNCHANGED incidents
               \/ \E a \in cur[e] : /\ pc[e] = "record" /\ incidents' = WithIncident(a, e)
                                    /\ pc'[e] \notin {"open", "mock", "record"}
                                    /\ UNCHANGED <<alerts, remote>>
    BY <1>3 DEF RecordIncident, DbFails, Leave, TypeOK
  <1> QED  BY <1>1, <1>2, <1>3 DEF Next, Engine

\* How a step changes the tickets of the instance: not at all, or by a POST for the alert
\* in an engine's hand.
LEMMA RemoteStep ==
    ASSUME TypeOK, [Next]_vars
    PROVE  \/ UNCHANGED remote
           \/ \E e \in Engines : /\ pc[e] = "open" /\ pc'[e] # "open" /\ remote' = Posted(e)
                                 /\ UNCHANGED <<alerts, incidents>>
  <1> USE DEF tableVars, engineVars
  <1>1. CASE Tick \/ (\E a \in Anomalies : Score(a)) \/ UNCHANGED vars
    BY <1>1 DEF Tick, Score, vars
  <1>2. ASSUME NEW e \in Engines,
               \/ Start(e) \/ Stop(e) \/ Query(e) \/ PassEnds(e) \/ InsertAlert(e) \/ CountIncidents(e)
               \/ RecordIncident(e) \/ LinkAlert(e) \/ DbFails(e) \/ Crash(e)
        PROVE  UNCHANGED remote
    BY <1>2 DEF Start, Stop, Query, PassEnds, InsertAlert, CountIncidents, RecordIncident,
          LinkAlert, DbFails, Crash, Goto
  <1>3. ASSUME NEW e \in Engines, PostSucceeds(e) \/ PostFallsBack(e) \/ PostRaises(e)
        PROVE  \/ UNCHANGED remote
               \/ /\ pc[e] = "open" /\ pc'[e] # "open" /\ remote' = Posted(e)
                  /\ UNCHANGED <<alerts, incidents>>
    BY <1>3 DEF PostSucceeds, PostFallsBack, PostRaises, Goto, Leave, TypeOK
  <1> QED  BY <1>1, <1>2, <1>3 DEF Next, Engine

\* How a step changes what an engine has in hand: it puts it down, keeps it and moves on
\* towards the link, or takes a severe candidate whose alert it has just inserted.
LEMMA HandStep ==
    ASSUME TypeOK, OneInHand, [Next]_vars, NEW f \in Engines
    PROVE  \/ cur'[f] = {} /\ pc'[f] \notin Ticketing
           \/ /\ cur'[f] = cur[f]
              /\ \/ pc'[f] = pc[f] /\ ticket'[f] = ticket[f]
                 \/ pc[f] = "open" /\ pc'[f] \in {"mock", "record"}
                 \/ pc[f] = "mock" /\ pc'[f] = "record"
                 \/ /\ pc[f] = "record" /\ pc'[f] = "link" /\ ticket'[f] = ticket[f]
                    /\ \E a \in cur[f] : incidents' = WithIncident(a, f)
           \/ \E a \in todo[f] :
                 /\ cur'[f] = {a} /\ Severe(a) /\ ~Alerted(a) /\ pc'[f] = "open"
                 /\ alerts' = WithAlert(a, f) /\ UNCHANGED <<incidents, remote>>
                 /\ \A e \in Engines \ {f} : cur'[e] = cur[e]
  <1> USE DEF tableVars, engineVars
  <1>1. CASE Tick \/ (\E a \in Anomalies : Score(a)) \/ UNCHANGED vars
    BY <1>1 DEF Tick, Score, vars
  <1>2. ASSUME NEW e \in Engines, e # f, Engine(e)
        PROVE  cur'[f] = cur[f] /\ pc'[f] = pc[f] /\ ticket'[f] = ticket[f]
    <2>1. CASE Start(e) \/ Stop(e) \/ Query(e) \/ PassEnds(e)
      BY <1>2, <2>1 DEF Start, Stop, Query, PassEnds, TypeOK
    <2>2. CASE InsertAlert(e)
      BY <1>2, <2>2 DEF InsertAlert, TypeOK
    <2>3. CASE PostSucceeds(e) \/ PostFallsBack(e) \/ CountIncidents(e)
      BY <1>2, <2>3 DEF PostSucceeds, PostFallsBack, CountIncidents, Goto, Hold, TypeOK
    <2>4. CASE RecordIncident(e) \/ LinkAlert(e)
      BY <1>2, <2>4 DEF RecordIncident, LinkAlert, Hold, TypeOK
    <2>5. CASE DbFails(e) \/ PostRaises(e) \/ Crash(e)
      <3>1. \E next : Leave(e, next)
        BY <2>5 DEF DbFails, PostRaises, Crash
      <3> QED  BY <1>2, <3>1 DEF Leave, Hold, TypeOK
    <2> QED  BY <1>2, <2>1, <2>2, <2>3, <2>4, <2>5 DEF Engine
  <1>3. CASE Engine(f)
    <2>1. CASE Start(f) \/ Stop(f) \/ Query(f) \/ PassEnds(f)
      <3>1. pc[f] \notin Ticketing /\ pc'[f] \notin Ticketing /\ cur'[f] = cur[f]
        BY <2>1 DEF Start, Stop, Query, PassEnds, Ticketing, TypeOK
      <3> QED  BY <3>1 DEF OneInHand
    <2>2. CASE InsertAlert(f)
      <3>1. cur[f] = {} /\ pc[f] = "row"
        BY <2>2 DEF InsertAlert, OneInHand, Ticketing
      <3>2. PICK a \in todo[f] :
                IF Alerted(a)
                THEN UNCHANGED <<alerts, pc, cur>>
                ELSE /\ alerts' = WithAlert(a, f)
                     /\ cur' = [cur EXCEPT ![f] = IF Severe(a) THEN {a} ELSE {}]
                     /\ pc' = [pc EXCEPT ![f] = IF Severe(a) THEN "open" ELSE "row"]
        BY <2>2 DEF InsertAlert
      <3>3. CASE Alerted(a)
        BY <3>1, <3>2, <3>3 DEF Ticketing
      <3>4. CASE ~Alerted(a) /\ Severe(a)
        <4>1. cur' = [cur EXCEPT ![f] = {a}] /\ pc' = [pc EXCEPT ![f] = "open"]
          BY <3>2, <3>4
        <4>2. cur'[f] = {a} /\ pc'[f] = "open" /\ \A e \in Engines \ {f} : cur'[e] = cur[e]
          BY <4>1 DEF TypeOK
        <4> QED  BY <2>2, <3>2, <3>4, <4>2 DEF InsertAlert
      <3>5. CASE ~Alerted(a) /\ ~Severe(a)
        BY <3>2, <3>5 DEF Ticketing, TypeOK
      <3> QED  BY <3>3, <3>4, <3>5
    <2>3. CASE PostSucceeds(f) \/ PostFallsBack(f) \/ CountIncidents(f)
      BY <2>3 DEF PostSucceeds, PostFallsBack, CountIncidents, Goto, TypeOK
    <2>4. CASE RecordIncident(f)
      BY <2>4 DEF RecordIncident, TypeOK
    <2>5. CASE LinkAlert(f)
      BY <2>5 DEF LinkAlert, TypeOK, Ticketing
    <2>6. CASE DbFails(f) \/ PostRaises(f) \/ Crash(f)
      <3>1. \E next \in {"idle", "down"} : Leave(f, next)
        BY <2>6 DEF DbFails, PostRaises, Crash
      <3> QED  BY <3>1 DEF Leave, TypeOK, Ticketing
    <2> QED  BY <1>3, <2>1, <2>2, <2>3, <2>4, <2>5, <2>6 DEF Engine
  <1> QED  BY <1>1, <1>2, <1>3 DEF Next
-----------------------------------------------------------------------------
\* No alert is deleted, and no report gets a second one: the unique index.
LEMMA OneAlertPerReportNext ==
    ASSUME TypeOK, OneAlertPerReport, [Next]_vars
    PROVE  OneAlertPerReport' /\ DOMAIN alerts \subseteq DOMAIN alerts'
  <1>1. CASE UNCHANGED alerts
    BY <1>1 DEF OneAlertPerReport, Same
  <1>2. ASSUME NEW e \in Engines, NEW a \in todo[e], ~Alerted(a), alerts' = WithAlert(a, e)
        PROVE  OneAlertPerReport' /\ DOMAIN alerts \subseteq DOMAIN alerts'
    <2>1. DOMAIN alerts' = DOMAIN alerts \cup {a}
      BY <1>2, WithAlertRow
    <2>2. \A b \in DOMAIN alerts : ~Same(a, b) /\ ~Same(b, a)
      BY <1>2 DEF Alerted, Same
    <2> QED  BY <2>1, <2>2 DEF OneAlertPerReport, Same
  <1>3. ASSUME NEW e \in Engines, NEW a \in cur[e], alerts' = Linked(a, e)
        PROVE  OneAlertPerReport' /\ DOMAIN alerts \subseteq DOMAIN alerts'
    <2>1. DOMAIN alerts' = DOMAIN alerts
      BY <1>3, LinkedRow
    <2> QED  BY <2>1 DEF OneAlertPerReport, Same
  <1> QED  BY <1>1, <1>2, <1>3, AlertsStep

\* An alert stays in one engine's hand.
LEMMA OneInHandNext ==
    TypeOK /\ OneInHand /\ OneAlertPerReport /\ [Next]_vars => OneInHand'
  <1> SUFFICES ASSUME TypeOK, OneInHand, OneAlertPerReport, [Next]_vars  PROVE OneInHand'
    OBVIOUS
  <1>1. DOMAIN alerts \subseteq DOMAIN alerts'
    BY OneAlertPerReportNext
  <1>2. \A a : Severe(a)' <=> Severe(a)
    BY DEF Severe
  <1>3. ASSUME NEW a \in Anomalies, ~Alerted(a)  PROVE a \notin DOMAIN alerts
    BY <1>3 DEF Alerted, Same
  <1>4. ASSUME NEW f \in Engines
        PROVE  /\ pc'[f] \in Ticketing => \E a \in Anomalies : cur'[f] = {a}
               /\ pc'[f] \notin Ticketing => cur'[f] = {}
               /\ \A a \in cur'[f] : a \in DOMAIN alerts' /\ Severe(a)'
    <2>1. CASE cur'[f] = {} /\ pc'[f] \notin Ticketing
      BY <2>1
    <2>2. CASE cur'[f] = cur[f] /\ (pc'[f] \in Ticketing <=> pc[f] \in Ticketing)
      BY <1>1, <1>2, <2>2 DEF OneInHand
    <2>3. CASE \E a \in todo[f] : cur'[f] = {a} /\ Severe(a) /\ pc'[f] = "open" /\ alerts' = WithAlert(a, f)
      <3>1. PICK a \in todo[f] : cur'[f] = {a} /\ Severe(a) /\ pc'[f] = "open" /\ alerts' = WithAlert(a, f)
        BY <2>3
      <3>2. a \in Anomalies
        BY DEF TypeOK
      <3>3. a \in DOMAIN alerts'
        <4>1. DOMAIN WithAlert(a, f) = DOMAIN alerts \cup {a}
          BY WithAlertRow
        <4> QED  BY <3>1, <4>1
      <3> QED  BY <1>2, <3>1, <3>2, <3>3 DEF Ticketing
    <2> QED  BY <2>1, <2>2, <2>3, HandStep DEF Ticketing
  <1>5. ASSUME NEW e \in Engines, NEW f \in Engines, NEW a \in cur'[e], a \in cur'[f]  PROVE e = f
    <2>1. \A h \in Engines :
              \/ cur'[h] \subseteq cur[h]
              \/ \E b \in Anomalies : /\ cur'[h] = {b} /\ ~Alerted(b)
                                      /\ \A g \in Engines \ {h} : cur'[g] = cur[g]
      <3> TAKE h \in Engines
      <3>1. todo[h] \subseteq Anomalies
        BY DEF TypeOK
      <3> QED  BY <3>1, HandStep
    <2>2. \A h \in Engines : \A b \in cur[h] : b \in DOMAIN alerts
      BY DEF OneInHand
    <2>3. CASE cur'[e] \subseteq cur[e] /\ cur'[f] \subseteq cur[f]
      BY <1>5, <2>3 DEF OneInHand
    <2>4. ASSUME NEW h \in Engines, NEW g \in Engines, g # h, a \in cur'[h], a \in cur'[g],
                 NEW b \in Anomalies, cur'[h] = {b}, ~Alerted(b),
                 \A k \in Engines \ {h} : cur'[k] = cur[k]
          PROVE  FALSE
      <3>1. a = b /\ a \in cur[g]
        BY <2>4
      <3> QED  BY <1>3, <2>2, <2>4, <3>1
    <2> QED  BY <1>5, <2>1, <2>3, <2>4
  <1> QED  BY <1>4, <1>5 DEF OneInHand
-----------------------------------------------------------------------------
\* The table of tickets with one more, and the rows of each alert in it.
LEMMA WithIncidentRows ==
    ASSUME TypeOK, NEW e \in Engines, NEW a \in cur[e], incidents' = WithIncident(a, e)
    PROVE  /\ Len(incidents) \in Nat /\ Len(incidents') = Len(incidents) + 1
           /\ incidents'[Len(incidents) + 1] = [alert |-> a, ticket |-> ticket[e]]
           /\ \A i \in 1 .. Len(incidents) : incidents'[i] = incidents[i]
           /\ \A b : b # a => RowsOf(b)' = RowsOf(b)
           /\ RowsOf(a)' = RowsOf(a) \cup {Len(incidents) + 1}
  <1> DEFINE new == [alert |-> a, ticket |-> ticket[e]]
  <1>1. new \in [alert : Anomalies, ticket : Tickets]
    BY DEF TypeOK
  <1>2. incidents \in Seq([alert : Anomalies, ticket : Tickets]) /\ incidents' = Append(incidents, new)
    BY DEF TypeOK, WithIncident
  <1>3. new.alert = a
    OBVIOUS
  <1> HIDE DEF new
  <1>4. /\ Len(incidents) \in Nat /\ Len(incidents') = Len(incidents) + 1
        /\ incidents'[Len(incidents) + 1] = new
        /\ \A i \in 1 .. Len(incidents) : incidents'[i] = incidents[i]
    BY <1>1, <1>2
  <1>5. \A i \in 1 .. Len(incidents') : i \in 1 .. Len(incidents) \/ i = Len(incidents) + 1
    BY <1>4
  <1>6. \A b : b # a => RowsOf(b)' = RowsOf(b)
    BY <1>3, <1>4, <1>5 DEF RowsOf
  <1>7. RowsOf(a)' = RowsOf(a) \cup {Len(incidents) + 1}
    BY <1>3, <1>4, <1>5 DEF RowsOf
  <1> QED  BY <1>4, <1>6, <1>7 DEF new

\* The instance's count with one more POST.
LEMMA PostedCount ==
    ASSUME TypeOK, NEW e \in Engines, NEW a \in Anomalies
    PROVE  /\ a \in cur[e] => Posted(e)[a] = remote[a] + 1
           /\ a \notin cur[e] => Posted(e)[a] = remote[a]
  BY DEF Posted

\* An alert that is not there yet has no ticket anywhere.
LEMMA NewAlertHasNoTicket ==
    ASSUME TypeOK, RecordedOnce, PostedOnce, NEW a \in Anomalies, ~Alerted(a)
    PROVE  a \notin DOMAIN alerts /\ RowsOf(a) = {} /\ remote[a] = 0
  <1>1. a \notin DOMAIN alerts
    BY DEF Alerted, Same
  <1>2. remote[a] \in Nat
    BY DEF TypeOK
  <1> QED  BY <1>1, <1>2 DEF RecordedOnce, PostedOnce, RowsOf

\* An alert's second row in ops.servicenow_incidents would need a second engine.
LEMMA RecordedOnceNext ==
    ASSUME TypeOK, OneInHand, OneAlertPerReport, TicketOnce, [Next]_vars
    PROVE  RecordedOnce'
  <1>1. DOMAIN alerts \subseteq DOMAIN alerts'
    BY OneAlertPerReportNext
  <1>2. CASE UNCHANGED incidents
    BY <1>1, <1>2 DEF TicketOnce, RecordedOnce, Severe
  <1>3. ASSUME NEW e \in Engines, NEW a \in cur[e], pc[e] = "record", incidents' = WithIncident(a, e)
        PROVE  RecordedOnce'
    <2> DEFINE n == Len(incidents) + 1
    <2>1. /\ Len(incidents) \in Nat /\ Len(incidents') = n
          /\ incidents'[n] = [alert |-> a, ticket |-> ticket[e]]
          /\ \A i \in 1 .. Len(incidents) : incidents'[i] = incidents[i]
      BY <1>3, WithIncidentRows
    <2>2. incidents'[n].alert = a
      BY <2>1
    <2>3. \A i \in 1 .. n : i \in 1 .. Len(incidents) \/ i = n
      BY <2>1
    <2>4. \A i \in 1 .. Len(incidents) : incidents[i].alert # a
      BY <1>3 DEF TicketOnce, NotYetTicketed, RowsOf
    <2>5. a \in DOMAIN alerts /\ Severe(a)
      BY DEF OneInHand
    <2> HIDE DEF n
    <2>6. \A i \in 1 .. n : incidents'[i].alert \in DOMAIN alerts /\ Severe(incidents'[i].alert)
      <3>1. \A i \in 1 .. Len(incidents) : incidents[i].alert \in DOMAIN alerts /\ Severe(incidents[i].alert)
        BY DEF TicketOnce, RecordedOnce
      <3> TAKE i \in 1 .. n
      <3>2. CASE i = n
        BY <2>2, <2>5, <3>2
      <3>3. CASE i \in 1 .. Len(incidents)
        BY <2>1, <3>1, <3>3
      <3> QED  BY <2>3, <3>2, <3>3
    <2>7. \A i, j \in 1 .. Len(incidents') : incidents'[i].alert = incidents'[j].alert => i = j
      BY <2>1, <2>2, <2>3, <2>4 DEF TicketOnce, RecordedOnce
    <2>8. \A i \in 1 .. Len(incidents') : incidents'[i].alert \in DOMAIN alerts'
      BY <1>1, <2>1, <2>6
    <2>9. \A i \in 1 .. Len(incidents') : SeverityOf[incidents'[i].alert] \in {"HIGH", "CRITICAL"}
      BY <2>1, <2>6 DEF Severe
    <2> QED  BY <2>7, <2>8, <2>9 DEF RecordedOnce, Severe
  <1> QED  BY <1>2, <1>3, IncidentsStep

\* An alert's second ticket in the instance would need a second POST for it.
LEMMA PostedOnceNext ==
    ASSUME TypeOK, OneInHand, OneAlertPerReport, TicketOnce, [Next]_vars
    PROVE  PostedOnce'
  <1>1. DOMAIN alerts \subseteq DOMAIN alerts'
    BY OneAlertPerReportNext
  <1>2. CASE UNCHANGED remote
    BY <1>1, <1>2 DEF TicketOnce, PostedOnce
  <1>3. ASSUME NEW e \in Engines, pc[e] = "open", remote' = Posted(e), NEW a \in Anomalies, remote'[a] > 0
        PROVE  a \in DOMAIN alerts' /\ remote'[a] = 1
    <2>1. CASE a \in cur[e]
      BY <1>1, <1>3, <2>1, PostedCount DEF TicketOnce, NotYetTicketed, OneInHand
    <2>2. CASE a \notin cur[e]
      BY <1>1, <1>3, <2>2, PostedCount DEF TicketOnce, PostedOnce
    <2> QED  BY <2>1, <2>2
  <1> QED  BY <1>2, <1>3, RemoteStep DEF PostedOnce

\* An engine on its way to a place finds no ticket of its alert there, whatever the other
\* engines do.
LEMMA NotYetTicketedNext ==
    ASSUME TypeOK, OneInHand, OneAlertPerReport, TicketOnce, [Next]_vars
    PROVE  NotYetTicketed'
  <1> SUFFICES ASSUME NEW f \in Engines, NEW a \in cur'[f]
               PROVE  /\ pc'[f] = "open" => remote'[a] = 0
                      /\ pc'[f] \in {"open", "mock", "record"} => RowsOf(a)' = {}
    BY DEF NotYetTicketed
  <1> USE DEF TicketOnce
  <1>1. CASE /\ cur'[f] = cur[f]
             /\ pc'[f] = "open" => pc[f] = "open"
             /\ pc'[f] \in {"open", "mock", "record"} => pc[f] \in {"open", "mock", "record"}
    <2>1. a \in Anomalies
      BY <1>1 DEF TypeOK
    <2>2. \A e \in Engines : a \in cur[e] => e = f
      BY <1>1 DEF OneInHand
    <2>3. pc'[f] = "open" => remote'[a] = 0
      <3>1. CASE UNCHANGED remote
        BY <1>1, <3>1 DEF NotYetTicketed
      <3>2. ASSUME NEW e \in Engines, remote' = Posted(e), pc'[e] # "open", pc'[f] = "open"
            PROVE  remote'[a] = 0
        BY <1>1, <2>1, <2>2, <3>2, PostedCount DEF NotYetTicketed
      <3> QED  BY <3>1, <3>2, RemoteStep
    <2>4. pc'[f] \in {"open", "mock", "record"} => RowsOf(a)' = {}
      <3>1. CASE UNCHANGED incidents
        BY <1>1, <3>1 DEF NotYetTicketed, RowsOf
      <3>2. ASSUME NEW e \in Engines, NEW b \in cur[e], incidents' = WithIncident(b, e),
                   pc'[e] \notin {"open", "mock", "record"},
                   pc'[f] \in {"open", "mock", "record"}
            PROVE  RowsOf(a)' = {}
        <4>1. a # b
          BY <2>2, <3>2
        <4>2. RowsOf(a)' = RowsOf(a)
          BY <3>2, <4>1, WithIncidentRows
        <4> QED  BY <1>1, <3>2, <4>2 DEF NotYetTicketed
      <3> QED  BY <3>1, <3>2, IncidentsStep
    <2> QED  BY <2>3, <2>4
  <1>2. CASE \E b \in todo[f] : /\ cur'[f] = {b} /\ ~Alerted(b)
                                /\ UNCHANGED <<incidents, remote>>
    <2>1. a \in Anomalies /\ ~Alerted(a) /\ UNCHANGED <<incidents, remote>>
      BY <1>2 DEF TypeOK
    <2>2. RowsOf(a) = {} /\ remote[a] = 0
      BY <2>1, NewAlertHasNoTicket
    <2> QED  BY <2>1, <2>2 DEF RowsOf
  <1> QED  BY <1>1, <1>2, HandStep

\* The number in hand and the numbers linked stay those of recorded tickets.
LEMMA LinkRecordedNext ==
    TypeOK /\ OneInHand /\ OneAlertPerReport /\ LinkRecorded /\ [Next]_vars => LinkRecorded'
  <1> SUFFICES ASSUME TypeOK, OneInHand, OneAlertPerReport, LinkRecorded, [Next]_vars
               PROVE  LinkRecorded'
    OBVIOUS
  <1>1. ASSUME NEW b, NEW t, \E i \in RowsOf(b) : incidents[i].ticket = t
        PROVE  \E i \in RowsOf(b)' : incidents'[i].ticket = t
    <2>1. CASE UNCHANGED incidents
      BY <1>1, <2>1 DEF RowsOf
    <2>2. ASSUME NEW e \in Engines, NEW a \in cur[e], incidents' = WithIncident(a, e)
          PROVE  \E i \in RowsOf(b)' : incidents'[i].ticket = t
      <3>1. RowsOf(b) \subseteq RowsOf(b)' /\ \A i \in RowsOf(b) : incidents'[i] = incidents[i]
        <4>1. /\ \A c : c # a => RowsOf(c)' = RowsOf(c)
              /\ RowsOf(a)' = RowsOf(a) \cup {Len(incidents) + 1}
          BY <2>2, WithIncidentRows
        <4>2. \A i \in 1 .. Len(incidents) : incidents'[i] = incidents[i]
          BY <2>2, WithIncidentRows
        <4>3. RowsOf(b) \subseteq 1 .. Len(incidents)
          BY DEF RowsOf
        <4>4. RowsOf(b) \subseteq RowsOf(b)'
          BY <4>1
        <4> QED  BY <4>2, <4>3, <4>4
      <3> QED  BY <1>1, <3>1
    <2> QED  BY <2>1, <2>2, IncidentsStep
  <1>2. ASSUME NEW f \in Engines, NEW a \in cur'[f], pc'[f] = "link"
        PROVE  \E i \in RowsOf(a)' : incidents'[i].ticket = ticket'[f]
    <2>1. /\ cur'[f] = cur[f] /\ ticket'[f] = ticket[f]
          /\ \/ pc[f] = "link"
             \/ pc[f] = "record" /\ \E b \in cur[f] : incidents' = WithIncident(b, f)
      BY <1>2, HandStep DEF Ticketing
    <2>2. CASE pc[f] = "link"
      <3>1. \E i \in RowsOf(a) : incidents[i].ticket = ticket[f]
        BY <1>2, <2>1, <2>2 DEF LinkRecorded
      <3> QED  BY <1>1, <2>1, <3>1
    <2>3. ASSUME pc[f] = "record", NEW b \in cur[f], incidents' = WithIncident(b, f)
          PROVE  \E i \in RowsOf(a)' : incidents'[i].ticket = ticket'[f]
      <3>1. a = b
        BY <1>2, <2>1, <2>3 DEF OneInHand, Ticketing
      <3>2. Len(incidents) + 1 \in RowsOf(a)'
        BY <2>3, <3>1, WithIncidentRows
      <3>3. incidents'[Len(incidents) + 1].ticket = ticket[f]
        <4>1. incidents'[Len(incidents) + 1] = [alert |-> b, ticket |-> ticket[f]]
          BY <2>3, WithIncidentRows
        <4> QED  BY <4>1
      <3> QED  BY <2>1, <3>2, <3>3
    <2> QED  BY <2>1, <2>2, <2>3
  <1>3. ASSUME NEW a \in DOMAIN alerts', alerts'[a].ticket # NoTicket
        PROVE  \E i \in RowsOf(a)' : incidents'[i].ticket = alerts'[a].ticket
    <2>1. CASE UNCHANGED alerts
      <3>1. \E i \in RowsOf(a) : incidents[i].ticket = alerts[a].ticket
        BY <1>3, <2>1 DEF LinkRecorded
      <3> QED  BY <1>1, <2>1, <3>1
    <2>2. ASSUME NEW e \in Engines, NEW b \in todo[e], alerts' = WithAlert(b, e)
          PROVE  a \in DOMAIN alerts /\ alerts'[a] = alerts[a]
      <3>1. /\ DOMAIN alerts' = DOMAIN alerts \cup {b}
            /\ \A c \in DOMAIN alerts \ {b} : alerts'[c] = alerts[c]
            /\ alerts'[b] = [created |-> now, began |-> began[e], ticket |-> NoTicket]
        BY <2>2, AlertInserted
      <3>2. alerts'[b].ticket = NoTicket
        BY <3>1
      <3> QED  BY <1>3, <3>1, <3>2
    <2>3. ASSUME NEW e \in Engines, NEW b \in cur[e], pc[e] = "link", alerts' = Linked(b, e)
          PROVE  \/ a \in DOMAIN alerts /\ alerts'[a] = alerts[a]
                 \/ \E i \in RowsOf(a) : incidents[i].ticket = alerts'[a].ticket
      <3>1. /\ DOMAIN alerts' = DOMAIN alerts /\ b \in DOMAIN alerts
            /\ \A c \in DOMAIN alerts \ {b} : alerts'[c] = alerts[c]
            /\ alerts'[b] = [alerts[b] EXCEPT !.ticket = ticket[e]]
        BY <2>3, LinkedRow DEF OneInHand
      <3>2. alerts'[b].ticket = ticket[e]
        <4>1. alerts[b] \in AlertRows
          BY <3>1 DEF TypeOK
        <4> QED  BY <3>1, <4>1 DEF AlertRows
      <3>3. CASE a = b
        BY <2>3, <3>2, <3>3 DEF LinkRecorded
      <3> QED  BY <3>1, <3>3
    <2>4. CASE a \in DOMAIN alerts /\ alerts'[a] = alerts[a]
      <3>1. \E i \in RowsOf(a) : incidents[i].ticket = alerts[a].ticket
        BY <1>3, <2>4 DEF LinkRecorded
      <3> QED  BY <1>1, <2>4, <3>1
    <2>5. (\E i \in RowsOf(a) : incidents[i].ticket = alerts'[a].ticket) => 
              \E i \in RowsOf(a)' : incidents'[i].ticket = alerts'[a].ticket
      BY <1>1
    <2> QED  BY <2>1, <2>2, <2>3, <2>4, <2>5, AlertsStep
  <1> QED  BY <1>2, <1>3 DEF LinkRecorded
-----------------------------------------------------------------------------
\* The cooldown of an alert inserted late in a pass is that of the pass's query: what the
\* query saw was out of it, and what came since is not before the pass.
LEMMA OutOfCooldownNext ==
    ASSUME TypeOK, PassOfThePast, OutOfCooldown, [Next]_vars
    PROVE  OutOfCooldown'
  <1>1. now <= now' /\ now' \in Int /\ now \in Nat
    BY ClockStep
  <1>2. \A b \in DOMAIN alerts : alerts[b].created \in Nat /\ alerts[b].began \in Nat
    BY DEF TypeOK, AlertRows
  <1>3. \A e \in Engines : began[e] \in Nat /\ began[e] <= now
    BY DEF TypeOK, PassOfThePast
  <1>4. Cooldown \in Nat
    BY EngineAssumption
  \* An alert of this step is of this moment.
  <1>5. \A b \in DOMAIN alerts' :
            \/ /\ b \in DOMAIN alerts
               /\ alerts'[b].created = alerts[b].created /\ alerts'[b].began = alerts[b].began
            \/ alerts'[b].created = now /\ alerts'[b].began <= now /\ ~UNCHANGED alerts
    <2>1. CASE UNCHANGED alerts
      BY <2>1
    <2>2. ASSUME NEW e \in Engines, NEW a \in todo[e], ~Alerted(a), alerts' = WithAlert(a, e),
                 NEW b \in DOMAIN alerts'
          PROVE  \/ b \in DOMAIN alerts /\ alerts'[b] = alerts[b]
                 \/ alerts'[b].created = now /\ alerts'[b].began <= now /\ ~UNCHANGED alerts
      <3>1. /\ DOMAIN alerts' = DOMAIN alerts \cup {a}
            /\ alerts'[a] = [created |-> now, began |-> began[e], ticket |-> NoTicket]
            /\ \A c \in DOMAIN alerts \ {a} : alerts'[c] = alerts[c]
        BY <2>2, AlertInserted
      <3>2. a \notin DOMAIN alerts
        BY <2>2 DEF Alerted, Same
      <3> QED  BY <1>3, <3>1, <3>2
    <2>3. ASSUME NEW e \in Engines, NEW a \in cur[e], alerts' = Linked(a, e)
          PROVE  /\ DOMAIN alerts' = DOMAIN alerts
                 /\ \A b \in DOMAIN alerts : /\ alerts'[b].created = alerts[b].created
                                             /\ alerts'[b].began = alerts[b].began
      BY <2>3, AlertLinked
    <2> QED  BY <2>1, <2>2, <2>3, AlertsStep
  <1>6. \A b \in DOMAIN alerts' : alerts'[b].created <= now' /\ alerts'[b].began <= now'
    <2> TAKE b \in DOMAIN alerts'
    <2>1. CASE b \in DOMAIN alerts /\ alerts'[b].created = alerts[b].created
                                   /\ alerts'[b].began = alerts[b].began
      <3>1. alerts[b].created <= now /\ alerts[b].began <= now
        BY <2>1 DEF OutOfCooldown
      <3> QED  BY <1>1, <1>2, <2>1, <3>1
    <2>2. CASE alerts'[b].created = now /\ alerts'[b].began <= now
      <3>1. alerts'[b].began \in Int
        BY TypeOKNext DEF TypeOK, AlertRows
      <3> QED  BY <1>1, <2>2, <3>1
    <2> QED  BY <1>5, <2>1, <2>2
  <1>7. ASSUME NEW f \in Engines, NEW a \in todo'[f], NEW b \in DOMAIN alerts',
               CellOf[b] = CellOf[a], alerts'[b].created < began'[f]
        PROVE  alerts'[b].created + Cooldown <= began'[f]
    <2>1. CASE a \in todo[f] /\ began'[f] = began[f]
      <3>1. CASE b \in DOMAIN alerts /\ alerts'[b].created = alerts[b].created
        BY <1>7, <2>1, <3>1 DEF OutOfCooldown
      <3>2. CASE alerts'[b].created = now
        BY <1>1, <1>3, <1>7, <2>1, <3>2
      <3> QED  BY <1>5, <3>1, <3>2
    <2>2. CASE a \in Candidates /\ began'[f] = now /\ UNCHANGED alerts
      <3>1. alerts[b].created <= now - Cooldown
        BY <1>7, <2>2 DEF Candidates
      <3> QED  BY <1>1, <1>2, <1>4, <2>2, <3>1
    <2> QED  BY <1>7, <2>1, <2>2, PassStep
  <1> QED  BY <1>6, <1>7 DEF OutOfCooldown

\* An alert inserted by a pass is out of the cooldown of those the pass found there.
LEMMA CooldownBetweenPassesNext ==
    ASSUME TypeOK, PassOfThePast, OutOfCooldown, CooldownBetweenPasses, [Next]_vars
    PROVE  CooldownBetweenPasses'
  <1>1. CASE UNCHANGED alerts
    BY <1>1 DEF CooldownBetweenPasses
  <1>2. ASSUME NEW e \in Engines, NEW n \in todo[e], ~Alerted(n), alerts' = WithAlert(n, e)
        PROVE  CooldownBetweenPasses'
    <2>1. /\ DOMAIN alerts' = DOMAIN alerts \cup {n}
          /\ alerts'[n] = [created |-> now, began |-> began[e], ticket |-> NoTicket]
          /\ \A c \in DOMAIN alerts \ {n} : alerts'[c] = alerts[c]
      BY <1>2, AlertInserted
    <2>2. alerts'[n].created = now /\ alerts'[n].began = began[e]
      BY <2>1
    <2>3. n \notin DOMAIN alerts
      BY <1>2 DEF Alerted, Same
    <2>4. \A c \in DOMAIN alerts : alerts[c].began \in Nat /\ alerts[c].began <= now
      BY DEF TypeOK, AlertRows, OutOfCooldown
    <2>5. now \in Nat
      BY DEF TypeOK
    <2>6. ASSUME NEW a \in DOMAIN alerts', NEW b \in DOMAIN alerts',
                 a # b, CellOf[a] = CellOf[b], alerts'[a].created < alerts'[b].began
          PROVE  alerts'[a].created + Cooldown <= alerts'[b].began
      <3>1. CASE a = n
        BY <2>1, <2>2, <2>4, <2>5, <2>6, <3>1
      <3>2. CASE b = n /\ a \in DOMAIN alerts
        BY <2>1, <2>2, <2>6, <3>2 DEF OutOfCooldown
      <3>3. CASE a \in DOMAIN alerts /\ b \in DOMAIN alerts
        BY <2>1, <2>3, <2>6, <3>3 DEF CooldownBetweenPasses
      <3> QED  BY <2>1, <2>6, <3>1, <3>2, <3>3
    <2> QED  BY <2>6 DEF CooldownBetweenPasses
  <1>3. ASSUME NEW e \in Engines, NEW a \in cur[e], alerts' = Linked(a, e)
        PROVE  CooldownBetweenPasses'
    <2>1. /\ DOMAIN alerts' = DOMAIN alerts
          /\ \A b \in DOMAIN alerts : /\ alerts'[b].created = alerts[b].created
                                      /\ alerts'[b].began = alerts[b].began
      BY <1>3, AlertLinked
    <2> QED  BY <2>1 DEF CooldownBetweenPasses
  <1> QED  BY <1>1, <1>2, <1>3, AlertsStep

\* A step that is no fault: the alert it inserts is taken in hand if it is severe, and an
\* alert in hand stays there up to the link.
LEMMA FaultlessStep ==
    ASSUME TypeOK, OneInHand, [Next]_vars, faults' = 0
    PROVE  /\ faults = 0
           /\ \A f \in Engines : cur'[f] = cur[f] \/ cur[f] = {} \/ pc[f] = "link"
           /\ \A a \in DOMAIN alerts' \ DOMAIN alerts :
                 Severe(a) => \E e \in Engines : a \in cur'[e]
  <1> USE DEF tableVars, engineVars
  <1>1. \A e \in Engines : ~(PostFallsBack(e) \/ DbFails(e) \/ PostRaises(e) \/ Crash(e))
    BY DEF PostFallsBack, DbFails, PostRaises, Crash, Fault, TypeOK
  <1>2. CASE /\ \/ Tick \/ (\E a \in Anomalies : Score(a)) \/ UNCHANGED vars
                \/ \E e \in Engines : \/ Start(e) \/ Stop(e) \/ Query(e) \/ PassEnds(e)
                                      \/ PostSucceeds(e) \/ CountIncidents(e) \/ RecordIncident(e)
    <2>1. UNCHANGED <<faults, cur, alerts>>
      BY <1>2 DEF vars, Tick, Score, Start, Stop, Query, PassEnds, PostSucceeds, CountIncidents,
            RecordIncident, Goto
    <2> QED  BY <2>1
  <1>3. ASSUME NEW e \in Engines, LinkAlert(e)
        PROVE  /\ faults' = faults /\ DOMAIN alerts' = DOMAIN alerts /\ pc[e] = "link"
               /\ \A f \in Engines \ {e} : cur'[f] = cur[f]
    BY <1>3 DEF LinkAlert, Linked, TypeOK
  <1>4. ASSUME NEW e \in Engines, InsertAlert(e)
        PROVE  /\ faults' = faults /\ cur[e] = {}
               /\ \A f \in Engines \ {e} : cur'[f] = cur[f]
               /\ \A a \in DOMAIN alerts' \ DOMAIN alerts : Severe(a) => a \in cur'[e]
    <2>1. faults' = faults /\ cur[e] = {}
      BY <1>4 DEF InsertAlert, OneInHand, Ticketing
    <2>2. PICK n \in todo[e] :
              IF Alerted(n)
              THEN UNCHANGED <<alerts, pc, cur>>
              ELSE /\ alerts' = WithAlert(n, e)
                   /\ cur' = [cur EXCEPT ![e] = IF Severe(n) THEN {n} ELSE {}]
      BY <1>4 DEF InsertAlert
    <2>3. CASE Alerted(n)
      BY <2>1, <2>2, <2>3
    <2>4. CASE ~Alerted(n)
      <3>1. cur' = [cur EXCEPT ![e] = IF Severe(n) THEN {n} ELSE {}] /\ alerts' = WithAlert(n, e)
        BY <2>2, <2>4
      <3>2. DOMAIN alerts' = DOMAIN alerts \cup {n}
        BY <3>1, AlertInserted
      <3>3. \A f \in Engines \ {e} : cur'[f] = cur[f]
        BY <3>1 DEF TypeOK
      <3>4. Severe(n) => cur'[e] = {n}
        BY <3>1 DEF TypeOK
      <3>5. \A a \in DOMAIN alerts' \ DOMAIN alerts : a = n
        BY <3>1, <3>2
      <3> QED  BY <2>1, <3>3, <3>4, <3>5
    <2> QED  BY <2>3, <2>4
  <1> QED  BY <1>1, <1>2, <1>3, <1>4 DEF Next, Engine

\* A faultless pass leaves no severe alert behind: each is in hand until its ticket is
\* recorded.
LEMMA InHandOrTicketedNext ==
    ASSUME TypeOK, OneInHand, LinkRecorded, InHandOrTicketed, [Next]_vars
    PROVE  InHandOrTicketed'
  <1> SUFFICES ASSUME faults' = 0, NEW a \in DOMAIN alerts', Severe(a)
               PROVE  RowsOf(a)' # {} \/ \E e \in Engines : a \in cur'[e]
    BY DEF InHandOrTicketed, Severe
  <1>1. RowsOf(a) \subseteq RowsOf(a)'
    <2>1. CASE UNCHANGED incidents
      BY <2>1 DEF RowsOf
    <2>2. ASSUME NEW e \in Engines, NEW b \in cur[e], incidents' = WithIncident(b, e)
          PROVE  RowsOf(a) \subseteq RowsOf(a)'
      BY <2>2, WithIncidentRows
    <2> QED  BY <2>1, <2>2, IncidentsStep
  <1>2. /\ faults = 0
        /\ \A f \in Engines : cur'[f] = cur[f] \/ cur[f] = {} \/ pc[f] = "link"
        /\ a \notin DOMAIN alerts => \E e \in Engines : a \in cur'[e]
    BY FaultlessStep
  <1>3. CASE a \in DOMAIN alerts /\ RowsOf(a) = {}
    <2>1. PICK e \in Engines : a \in cur[e]
      BY <1>2, <1>3 DEF InHandOrTicketed
    <2>2. pc[e] # "link"
      BY <1>3, <2>1 DEF LinkRecorded
    <2>3. a \in cur'[e]
      BY <1>2, <2>1, <2>2
    <2> QED  BY <2>3
  <1> QED  BY <1>1, <1>2, <1>3
-----------------------------------------------------------------------------
\* The inductive invariant holds of every reachable state.
LEMMA AlertInvHolds == Spec => []AlertInv
  <1>1. Init => AlertInv
    <2> SUFFICES ASSUME Init  PROVE AlertInv
      OBVIOUS
    <2>1. /\ TypeOK
          /\ DOMAIN alerts = {} /\ Len(incidents) = 0 /\ now = 0
          /\ \A a \in Anomalies : remote[a] = 0
          /\ \A e \in Engines : /\ todo[e] = {} /\ cur[e] = {} /\ began[e] = 0
                                /\ pc[e] = "down"
      BY TypeOKInit DEF Init
    <2>2. PassOfThePast /\ OneInHand /\ OneAlertPerReport
      BY <2>1 DEF PassOfThePast, OneInHand, OneAlertPerReport, Ticketing
    <2>3. TicketOnce /\ LinkRecorded
      BY <2>1 DEF TicketOnce, RecordedOnce, PostedOnce, NotYetTicketed, LinkRecorded
    <2>4. OutOfCooldown /\ CooldownBetweenPasses /\ InHandOrTicketed
      BY <2>1 DEF OutOfCooldown, CooldownBetweenPasses, InHandOrTicketed
    <2> QED  BY <2>1, <2>2, <2>3, <2>4 DEF AlertInv
  <1>2. AlertInv /\ [Next]_vars => AlertInv'
    <2> SUFFICES ASSUME AlertInv, [Next]_vars  PROVE AlertInv'
      OBVIOUS
    <2> USE DEF AlertInv
    <2>1. TypeOK' /\ PassOfThePast'
      BY TypeOKNext, PassOfThePastNext
    <2>2. OneInHand' /\ OneAlertPerReport'
      BY OneInHandNext, OneAlertPerReportNext
    <2>3. TicketOnce'
      BY RecordedOnceNext, PostedOnceNext, NotYetTicketedNext DEF TicketOnce
    <2>4. LinkRecorded' /\ InHandOrTicketed'
      BY LinkRecordedNext, InHandOrTicketedNext
    <2>5. OutOfCooldown' /\ CooldownBetweenPasses'
      BY OutOfCooldownNext, CooldownBetweenPassesNext
    <2> QED  BY <2>1, <2>2, <2>3, <2>4, <2>5
  <1> QED  BY <1>1, <1>2, PTL DEF Spec

\* A set whose elements are all the same has at most one.
LEMMA AtMostOne ==
    ASSUME NEW S, \A x, y \in S : x = y
    PROVE  Cardinality(S) <= 1
  <1>1. CASE S = {}
    <2>1. Cardinality(S) = 0
      BY Zenon, <1>1, FS_EmptySet
    <2> QED  BY <2>1
  <1>2. ASSUME NEW x \in S  PROVE Cardinality(S) <= 1
    <2>1. S = {x}
      BY <1>2
    <2>2. Cardinality(S) = 1
      BY Zenon, <2>1, FS_Singleton
    <2> QED  BY <2>2
  <1> QED  BY <1>1, <1>2

\* The tickets of a report are those of its one alert.
LEMMA IncidentsAreRows ==
    ASSUME OneAlertPerReport, RecordedOnce, NEW a \in DOMAIN alerts
    PROVE  IncidentsFor(a) = RowsOf(a)
  <1>1. \A i \in 1 .. Len(incidents) : Same(incidents[i].alert, a) <=> incidents[i].alert = a
    BY DEF OneAlertPerReport, RecordedOnce, Same
  <1> QED  BY <1>1 DEF IncidentsFor, RowsOf

\* The tables and each engine's place in its pass stay well typed.
THEOREM TypeCorrect == Spec => []TypeOK
  <1>1. AlertInv => TypeOK
    BY DEF AlertInv
  <1> QED  BY <1>1, AlertInvHolds, PTL

\* engine.py and sink.py give a report at most one ticket in each place, however many
\* engines run, whatever fails, wherever they crash.
THEOREM OneTicket == Spec => []OneTicketPerAlert
  <1>1. AlertInv => OneTicketPerAlert
    <2> SUFFICES ASSUME AlertInv, NEW a \in Anomalies
                 PROVE  /\ Cardinality(IncidentsFor(a)) <= 1
                        /\ Cardinality(RemoteFor(a)) <= 1 /\ remote[a] <= 1
      BY DEF OneTicketPerAlert
    <2>1. OneAlertPerReport /\ RecordedOnce /\ PostedOnce /\ TypeOK
      BY DEF AlertInv, TicketOnce
    <2>2. \A i, j \in IncidentsFor(a) : i = j
      BY <2>1 DEF IncidentsFor, Same, OneAlertPerReport, RecordedOnce
    <2>3. \A b, c \in RemoteFor(a) : b = c
      BY <2>1 DEF RemoteFor, Same, OneAlertPerReport, PostedOnce
    <2>4. remote[a] <= 1
      <3>1. remote[a] \in Nat
        BY <2>1 DEF TypeOK
      <3> QED  BY <2>1, <3>1 DEF PostedOnce
    <2> QED  BY <2>2, <2>3, <2>4, AtMostOne
  <1> QED  BY <1>1, AlertInvHolds, PTL

\* LINK_INCIDENT_SQL writes on an alert the number of a ticket that is recorded for it.
THEOREM LinksAreRecorded == Spec => []LinksMatch
  <1>1. AlertInv => LinksMatch
    <2> SUFFICES ASSUME AlertInv, NEW a \in DOMAIN alerts, alerts[a].ticket # NoTicket
                 PROVE  \E i \in IncidentsFor(a) : incidents[i].ticket = alerts[a].ticket
      BY DEF LinksMatch
    <2>1. IncidentsFor(a) = RowsOf(a)
      BY IncidentsAreRows DEF AlertInv, TicketOnce
    <2> QED  BY <2>1 DEF AlertInv, LinkRecorded
  <1> QED  BY <1>1, AlertInvHolds, PTL

\* CANDIDATES_SQL keeps a cell silent for the cooldown after each alert its pass saw,
\* whatever other engines insert while the pass goes on.
THEOREM CooldownKept == Spec => []CooldownBetweenPasses
  <1>1. AlertInv => CooldownBetweenPasses
    BY DEF AlertInv
  <1> QED  BY <1>1, AlertInvHolds, PTL

\* A pass in which nothing fails gives every HIGH or CRITICAL alert its ticket; no other
\* alert ever gets one.
THEOREM SevereAreTicketed == Spec => []SevereTicketed
  <1>1. AlertInv => SevereTicketed
    <2> SUFFICES ASSUME AlertInv  PROVE SevereTicketed
      OBVIOUS
    <2>1. ASSUME faults = 0, NEW a \in Unticketed  PROVE FALSE
      <3>1. a \in DOMAIN alerts /\ Severe(a) /\ IncidentsFor(a) = {} /\ \A e \in Engines : a \notin cur[e]
        BY DEF Unticketed, HighOrCritical, Severe
      <3>2. RowsOf(a) = {}
        BY <3>1, IncidentsAreRows DEF AlertInv, TicketOnce
      <3> QED  BY <2>1, <3>1, <3>2 DEF AlertInv, InHandOrTicketed
    <2>2. ASSUME NEW a \in Anomalies, NEW i \in IncidentsFor(a)  PROVE HighOrCritical(a)
      <3>1. incidents[i].alert \in Anomalies
        <4> DEFINE rows == [alert : Anomalies, ticket : Tickets]
        <4>1. incidents \in Seq(rows) /\ i \in 1 .. Len(incidents)
          BY DEF AlertInv, TypeOK, IncidentsFor
        <4>2. \A r \in rows : r.alert \in Anomalies
          OBVIOUS
        <4> HIDE DEF rows
        <4>3. incidents[i] \in rows
          BY <4>1
        <4> QED  BY <4>2, <4>3
      <3>2. Same(incidents[i].alert, a) /\ Severe(incidents[i].alert)
        BY DEF AlertInv, TicketOnce, RecordedOnce, IncidentsFor
      <3>3. SeverityOf[incidents[i].alert] = SeverityOf[a]
        BY <3>1, <3>2, AnomaliesAssumption
      <3> QED  BY <3>2, <3>3 DEF Severe, HighOrCritical
    <2> QED  BY <2>1, <2>2 DEF SevereTicketed
  <1> QED  BY <1>1, AlertInvHolds, PTL
=============================================================================
