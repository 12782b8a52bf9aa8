----------------------------- MODULE Incidents -----------------------------
(***************************************************************************)
(* The simulator: the incident state machine (simulator/incidents.py), the *)
(* ground truth it writes to ops.injected_incidents, and the ticks of the  *)
(* backfill and of the live loop that report every cell                    *)
(* (simulator/main.py).  Labels and reports travel separately: a label is  *)
(* a row of the database, the report of an affected cell a message.        *)
(*                                                                         *)
(* Time is counted in intervals.  An incident is its life, not its type:   *)
(* of the types, only that CONGESTION may spill over matters here.         *)
(***************************************************************************)
EXTENDS Integers, Sequences, SequencesExt, FiniteSets

CONSTANTS
    Cells,        \* the cells, in the order of the topology
    SiteOf,       \* SiteOf[c]: the site of cell c
    PhaseTables,  \* what _duration_ticks may return
    MaxSpill,     \* cells a CONGESTION may spill over to
    Backfill,     \* length of the backfill
    MaxTime,      \* bound on the clock
    MaxIncidents, \* bound on the incidents
    MaxFaults     \* bound on the ends of the process

Phases == {"onset", "peak", "recovery"}

ASSUME CellsAssumption ==
    /\ Cells \in Seq(ToSet(Cells)) /\ Cells # <<>>
    /\ \A i, j \in 1 .. Len(Cells) : Cells[i] = Cells[j] => i = j
    /\ ToSet(Cells) \subseteq DOMAIN SiteOf
ASSUME SizesAssumption ==
    /\ PhaseTables \subseteq [Phases -> Nat \ {0, 1}]
    /\ MaxSpill \in Nat /\ Backfill \in Nat
    /\ MaxTime \in Nat /\ MaxIncidents \in Nat /\ Backfill <= MaxTime /\ MaxFaults \in Nat

VARIABLES
    now,       \* the wall clock
    pc, idx,   \* the step of the process; the cell its loop is at
    until,     \* where the backfill of this run ends
    ts,        \* timestamp of the tick under way, or of the last one
    active,    \* IncidentManager.active: from cell to incident
    started,   \* incidents that began in this tick and have no label yet
    ended,     \* incidents that ended in this tick and whose label still says otherwise
    labels,    \* ops.injected_incidents: from incident to row
    \* the observer
    begun,     \* incidents so far
    run,       \* runs of the process so far
    reports,   \* reports handed to the producer
    faults

vars == <<now, pc, idx, until, ts, active, started, ended, labels, begun, run, reports, faults>>

Ids == 1 .. begun

Incident == [id : Nat, start : 0 .. MaxTime, phase : Phases \cup {"closed"},
             ticks : Nat, phases : PhaseTables]

\* A row: the planned end until the incident is over, and what the properties ask for.
Label == [cell : ToSet(Cells), start : 0 .. MaxTime, end : Nat,
          over : BOOLEAN, run : Nat, total : Nat]

Total(phases) == phases["onset"] + phases["peak"] + phases["recovery"]

Init ==
    /\ now = Backfill
    /\ pc = "down" /\ idx = 1 /\ until = 0 /\ ts = -1
    /\ active = <<>> /\ started = <<>> /\ ended = {}
    /\ labels = <<>>
    /\ begun = 0 /\ run = 0 /\ reports = {} /\ faults = 0

\* The clock is only read between ticks: a slow tick is a long pause after it.
Elapse ==
    /\ pc \in {"down", "idle"} /\ now < MaxTime
    /\ now' = now + 1
    /\ UNCHANGED <<pc, idx, until, ts, active, started, ended, labels, begun, run, reports, faults>>

\* A run begins with an empty IncidentManager and its own backfill.
Start ==
    /\ pc = "down"
    /\ pc' = "idle"
    /\ until' = now
    /\ ts' = now - Backfill - 1
    /\ run' = run + 1
    /\ UNCHANGED <<now, idx, active, started, ended, labels, begun, reports, faults>>

\* tick(): started and ended are cleared, then each cell may begin an incident.
TickAt(t) ==
    /\ pc = "idle"
    /\ ts' = t
    /\ pc' = "draw" /\ idx' = 1
    /\ started' = <<>> /\ ended' = {}
    /\ UNCHANGED <<now, until, active, labels, begun, run, reports, faults>>

BackfillTick ==
    ts + 1 < until /\ TickAt(ts + 1)

\* The live loop sleeps an interval, more when it is late.
LiveTick ==
    ts + 1 >= until /\ now > ts /\ TickAt(now)
-----------------------------------------------------------------------------
(***************************************************************************)
(* IncidentManager.tick.                                                   *)
(***************************************************************************)
NewIncident(id, phases) ==
    [id |-> id, start |-> ts, phase |-> "onset", ticks |-> 0, phases |-> phases]

\* Mutant of FreeNeighbours: those with an incident of their own are hit too.
BusyNeighbours(c) == {k \in DOMAIN Cells : SiteOf[Cells[k]] = SiteOf[c] /\ Cells[k] # c}

\* The other cells of the site that are not active, by their place in the topology.
FreeNeighbours(c) ==
    {k \in DOMAIN Cells : /\ SiteOf[Cells[k]] = SiteOf[c]
                          /\ Cells[k] \notin DOMAIN active \cup {c}}

\* Those a spillover reaches: the first ones, in the order of the topology.
Reached(c) ==
    {s \in SeqOf(FreeNeighbours(c), MaxSpill) :
        /\ \A i, j \in DOMAIN s : i < j => s[i] < s[j]
        /\ \A k \in FreeNeighbours(c) \ ToSet(s) :
              Len(s) = MaxSpill /\ \A i \in DOMAIN s : s[i] < k}

\* The cells in hit get an incident each, numbered in order.
Hit(hit, phases) ==
    LET idOf(c) == begun + (CHOOSE i \in 1 .. Len(hit) : hit[i] = c)
    IN  /\ begun + Len(hit) <= MaxIncidents
        /\ active' = [c \in DOMAIN active \cup ToSet(hit) |->
                        IF c \in ToSet(hit) THEN NewIncident(idOf(c), phases) ELSE active[c]]
        /\ started' = started \o [i \in 1 .. Len(hit) |-> <<hit[i], begun + i>>]
        /\ begun' = begun + Len(hit)

\* _maybe_start of the next cell: nothing, an incident, or one that spills over.
MaybeStart ==
    /\ pc = "draw" /\ idx <= Len(Cells)
    /\ LET c == Cells[idx] IN
       \/ UNCHANGED <<active, started, begun>>
       \/ /\ c \notin DOMAIN active
          /\ \E phases \in PhaseTables :
                \/ Hit(<<c>>, phases)
                \/ \E s \in Reached(c) : Hit(<<c>> \o [i \in DOMAIN s |-> Cells[s[i]]], phases)
    /\ idx' = idx + 1
    /\ UNCHANGED <<now, pc, until, ts, ended, labels, run, reports, faults>>

NextPhase == [onset |-> "peak", peak |-> "recovery", recovery |-> "closed"]

\* Mutant of Advanced: the recovery phase is left out.
AdvancedSkipsRecovery(inc) ==
    IF inc.ticks + 1 < inc.phases[inc.phase]
    THEN [inc EXCEPT !.ticks = @ + 1]
    ELSE [inc EXCEPT !.ticks = 0, !.phase = IF @ = "onset" THEN "peak" ELSE "closed"]

\* Mutant of Advanced: a phase lasts one tick longer.
AdvancedLate(inc) ==
    IF inc.ticks < inc.phases[inc.phase]
    THEN [inc EXCEPT !.ticks = @ + 1]
    ELSE [inc EXCEPT !.ticks = 0, !.phase = NextPhase[@]]

\* _advance, in the very tick in which the incident began and in each one after.
Advanced(inc) ==
    IF inc.ticks + 1 < inc.phases[inc.phase]
    THEN [inc EXCEPT !.ticks = @ + 1]
    ELSE [inc EXCEPT !.ticks = 0, !.phase = NextPhase[@]]

\* Those that close leave active before the effects of the tick are computed.
AdvanceAll ==
    LET after  == [c \in DOMAIN active |-> Advanced(active[c])]
        closed == {c \in DOMAIN active : after[c].phase = "closed"}
    IN  /\ pc = "draw" /\ idx > Len(Cells)
        /\ active' = [c \in DOMAIN active \ closed |-> after[c]]
        /\ ended' = {after[c].id : c \in closed}
        /\ pc' = "emit" /\ idx' = 1
        /\ UNCHANGED <<now, until, ts, started, labels, begun, run, reports, faults>>
-----------------------------------------------------------------------------
(***************************************************************************)
(* The rest of _emit_tick: the labels that began, the labels that ended,   *)
(* then the reports.                                                       *)
(***************************************************************************)
\* The row of a new incident: end_ts is the planned one.
RowOf(c) ==
    LET total == Total(active[c].phases)
    IN  [cell |-> c, start |-> ts, end |-> ts + total, over |-> FALSE, run |-> run, total |-> total]

\* _persist_started: one INSERT per incident, each durable at once.
InsertLabel ==
    /\ pc = "emit" /\ started # <<>>
    /\ labels' = [i \in DOMAIN labels \cup {Head(started)[2]} |->
                    IF i = Head(started)[2] THEN RowOf(Head(started)[1]) ELSE labels[i]]
    /\ started' = Tail(started)
    /\ UNCHANGED <<now, pc, idx, until, ts, active, ended, begun, run, reports, faults>>

\* Mutant of UpdateLabel: end_ts keeps its planned value.
UpdateLabelSkipped ==
    /\ pc = "emit" /\ started = <<>>
    /\ \E i \in ended :
          /\ labels' = [labels EXCEPT ![i].over = TRUE]
          /\ ended' = ended \ {i}
    /\ UNCHANGED <<now, pc, idx, until, ts, active, started, begun, run, reports, faults>>

\* _persist_ended: end_ts becomes the tick that closed the incident.
UpdateLabel ==
    /\ pc = "emit" /\ started = <<>>
    /\ \E i \in ended :
          /\ labels' = [labels EXCEPT ![i].end = ts, ![i].over = TRUE]
          /\ ended' = ended \ {i}
    /\ UNCHANGED <<now, pc, idx, until, ts, active, started, begun, run, reports, faults>>

\* The incident whose effect the report of c shows.
EffectOn(c) == IF c \in DOMAIN active THEN active[c].id ELSE 0

\* Mutant of Send: reports are sent without waiting for the labels.
SendBeforeLabels ==
    /\ pc = "emit"
    /\ LET c == Cells[idx]
       IN  reports' = reports \cup {[cell |-> c, ts |-> ts, run |-> run, incident |-> EffectOn(c)]}
    /\ idx' = IF idx < Len(Cells) THEN idx + 1 ELSE 1
    /\ pc' = IF idx < Len(Cells) THEN "emit" ELSE "idle"
    /\ UNCHANGED <<now, until, ts, active, started, ended, labels, begun, run, faults>>

\* One report per cell, then poll() and the end of the tick.
Send ==
    /\ pc = "emit" /\ started = <<>> /\ ended = {}
    /\ LET c == Cells[idx]
       IN  reports' = reports \cup {[cell |-> c, ts |-> ts, run |-> run, incident |-> EffectOn(c)]}
    /\ idx' = IF idx < Len(Cells) THEN idx + 1 ELSE 1
    /\ pc' = IF idx < Len(Cells) THEN "emit" ELSE "idle"
    /\ UNCHANGED <<now, until, ts, active, started, ended, labels, begun, run, faults>>

\* A crash, an exception of the database or of produce(), which nothing catches, or
\* SIGTERM: the active incidents are forgotten and their labels stay as they are.
ProcessEnds ==
    /\ pc # "down" /\ faults < MaxFaults
    /\ faults' = faults + 1
    /\ pc' = "down" /\ idx' = 1
    /\ active' = <<>> /\ started' = <<>> /\ ended' = {}
    /\ UNCHANGED <<now, until, ts, labels, begun, run, reports>>
-----------------------------------------------------------------------------
Next == \/ Elapse \/ Start \/ BackfillTick \/ LiveTick \/ MaybeStart \/ AdvanceAll
        \/ InsertLabel \/ UpdateLabel \/ Send \/ ProcessEnds

Spec == Init /\ [][Next]_vars
-----------------------------------------------------------------------------
(***************************************************************************)
(* Properties                                                              *)
(***************************************************************************)

\* Every variable has its type; closed incidents are not active, and phases do not overrun.
TypeOK ==
    /\ now \in 0 .. MaxTime /\ until \in 0 .. MaxTime /\ ts \in -1 .. MaxTime
    /\ pc \in {"down", "idle", "draw", "emit"}
    /\ idx \in 1 .. Len(Cells) + 1
    /\ DOMAIN active \subseteq ToSet(Cells)
    /\ \A c \in DOMAIN active : /\ active[c] \in Incident /\ active[c].phase # "closed"
                                /\ active[c].ticks < active[c].phases[active[c].phase]
    /\ started \in Seq(ToSet(Cells) \X Ids) /\ ended \subseteq Ids
    /\ DOMAIN labels \subseteq Ids /\ \A i \in DOMAIN labels : labels[i] \in Label
    /\ begun \in Nat /\ run \in Nat /\ faults \in 0 .. MaxFaults
    /\ reports \subseteq [cell : ToSet(Cells), ts : 0 .. MaxTime, run : Nat, incident : {0} \cup Ids]

\* No report shows an incident that the ground truth does not know yet: the label of
\* every effect is written before the first report with it, spillovers included.
EffectsAreKnown ==
    \A r \in reports : r.incident # 0 =>
        /\ r.incident \in DOMAIN labels
        /\ labels[r.incident].cell = r.cell /\ labels[r.incident].start <= r.ts

Of(i, r) == r.cell = labels[i].cell /\ r.run = labels[i].run /\ r.ts >= labels[i].start

\* The label of an incident that is over says what its run reported: every report from
\* its start to before its end shows it, and none from its end on.
OverIsExact ==
    \A i \in DOMAIN labels : labels[i].over =>
        \A r \in reports : Of(i, r) => (r.incident = i <=> r.ts < labels[i].end)

\* An incident that runs its course shows in one report less than its phases count ticks,
\* since the tick that closes it reports no effect, however late the ticks are.
RunsItsCourse ==
    \A i \in DOMAIN labels : labels[i].over =>
        Cardinality({r \in reports : r.incident = i}) = labels[i].total - 1

\* A run never has two incidents on a cell at once: the labels of a cell written by one
\* run are disjoint, so evaluate() counts each of their anomalies once.
DisjointInARun ==
    \A i, j \in DOMAIN labels :
        /\ i < j
        /\ labels[i].cell = labels[j].cell /\ labels[i].run = labels[j].run
        => labels[i].over /\ labels[i].end < labels[j].start

\* Training excludes what is labelled (TRAIN_SQL) to see normal windows only (README.md):
\* every report that shows an incident is inside a label of its cell.
TrainsOnNormal ==
    \A r \in reports : r.incident # 0 =>
        \E i \in DOMAIN labels : /\ labels[i].cell = r.cell
                                 /\ labels[i].start <= r.ts /\ r.ts <= labels[i].end
=============================================================================
