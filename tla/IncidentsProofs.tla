-------------------------- MODULE IncidentsProofs --------------------------
(***************************************************************************)
(* Proofs about Incidents, for any topology, phase lengths, spillover,     *)
(* backfill and pace of the ticks, and any number of ends of the process.  *)
(***************************************************************************)
EXTENDS Incidents, FiniteSetTheorems, SequenceTheorems, TLAPS

\* What each step of a tick finds: the labels of the tick before are done with, the first
\* report waits for those of this one, and a run begins with no incident.
InTick ==
    /\ Backfill <= now
    /\ pc \in {"draw", "emit"} => 0 <= ts
    /\ pc = "down" => DOMAIN active = {}
    /\ pc \in {"down", "idle"} => started = <<>>
    /\ pc # "emit" => ended = {}
    /\ pc = "emit" => idx <= Len(Cells) /\ (idx > 1 => started = <<>> /\ ended = {})

\* The number of labels or more: the incidents that are not in started.
Old == begun - Len(started)

\* started holds the newest incidents, in order; all are in their first tick, in which
\* none can close.
StartedIsNew ==
    /\ Old \in Nat /\ DOMAIN labels \subseteq 1 .. Old
    /\ \A k \in 1 .. Len(started) :
          LET c == started[k][1] IN
          /\ started[k][2] = Old + k
          /\ c \in DOMAIN active /\ active[c].id = Old + k /\ active[c].start = ts
          /\ pc = "draw" => active[c].phase = "onset" /\ active[c].ticks = 0

\* The label of an active incident, or of one that has just ended.
Labelled(i, c) ==
    /\ i \in DOMAIN labels
    /\ labels[i].cell = c /\ labels[i].run = run /\ ~labels[i].over /\ labels[i].start <= ts

\* An active incident is in started or has its label; the incidents are different.
ActiveHaveLabels ==
    /\ \A c \in DOMAIN active :
          /\ active[c].id \in 1 .. begun
          /\ active[c].id <= Old => /\ Labelled(active[c].id, c)
                                    /\ labels[active[c].id].total = Total(active[c].phases)
    /\ \A c, d \in DOMAIN active : active[c].id = active[d].id => c = d

\* An incident that has ended has its label, and its cell has no other one yet.
EndedHaveLabels ==
    \A i \in ended : \E c \in ToSet(Cells) \ DOMAIN active : Labelled(i, c)

\* In a run every label is over or describes an incident that is active or ends in this
\* tick; one that is over ended before this tick's incidents began.
LabelsOfRun ==
    \A i \in DOMAIN labels :
        /\ labels[i].run <= run
        /\ labels[i].run = run /\ pc # "down" /\ ~labels[i].over =>
              i \in ended \/ \E c \in DOMAIN active : active[c].id = i
        /\ labels[i].run = run /\ labels[i].over =>
              /\ labels[i].end <= ts
              /\ pc = "draw" \/ started # <<>> => labels[i].end < ts

\* Reports of a run are no later than its tick, and those of the tick are of the cells
\* the loop has passed.
ReportsOfRun ==
    \A r \in reports :
        /\ r.run <= run
        /\ r.run = run =>
              /\ r.ts <= ts
              /\ pc = "draw" => r.ts < ts
              /\ pc = "emit" /\ r.ts = ts => \E k \in 1 .. idx - 1 : Cells[k] = r.cell
        /\ r.incident \in DOMAIN labels => labels[r.incident].run = r.run

\* While an incident lasts, every report of its cell shows it.
OpenIsExact ==
    \A i \in DOMAIN labels : labels[i].run = run /\ pc # "down" /\ ~labels[i].over =>
        \A r \in reports : Of(i, r) => r.incident = i

\* Ticks an incident has been advanced.
Elapsed(inc) ==
    inc.ticks + (IF inc.phase = "onset" THEN 0
                 ELSE IF inc.phase = "peak" THEN inc.phases["onset"]
                 ELSE inc.phases["onset"] + inc.phases["peak"])

Showing(i) == {r \in reports : r.incident = i}

\* Cells the loop of this tick has not reported yet.
Unsent == IF pc = "emit" THEN {Cells[k] : k \in idx .. Len(Cells)} ELSE {}

\* An active incident shows in one report per tick it was advanced, the one that closes it
\* excepted.
OneReportPerTick ==
    /\ IsFiniteSet(reports)
    /\ \A c \in DOMAIN active :
          Cardinality(Showing(active[c].id)) =
              IF c \in Unsent THEN Elapsed(active[c]) - 1 ELSE Elapsed(active[c])
    /\ \A i \in ended : Cardinality(Showing(i)) = labels[i].total - 1

IncidentInv ==
    /\ TypeOK /\ InTick /\ StartedIsNew /\ ActiveHaveLabels /\ EndedHaveLabels
    /\ LabelsOfRun /\ ReportsOfRun /\ EffectsAreKnown /\ OpenIsExact
    /\ OverIsExact /\ DisjointInARun
    /\ OneReportPerTick /\ RunsItsCourse
-----------------------------------------------------------------------------
\* The places of the cells in the topology.
LEMMA Places ==
    /\ Len(Cells) \in Nat \ {0} /\ DOMAIN Cells = 1 .. Len(Cells)
    /\ \A k \in 1 .. Len(Cells) : Cells[k] \in ToSet(Cells)
    /\ \A c \in ToSet(Cells) : \E k \in 1 .. Len(Cells) : Cells[k] = c
    /\ \A j, k \in 1 .. Len(Cells) : Cells[j] = Cells[k] => j = k
  <1>1. /\ Cells \in Seq(ToSet(Cells)) /\ Cells # <<>>
        /\ \A j, k \in 1 .. Len(Cells) : Cells[j] = Cells[k] => j = k
    BY CellsAssumption
  <1>2. Len(Cells) \in Nat \ {0} /\ DOMAIN Cells = 1 .. Len(Cells)
    BY <1>1
  <1> QED  BY <1>1, <1>2 DEF ToSet

\* A phase lasts at least two ticks.
LEMMA PhaseLengths ==
    ASSUME NEW phases \in PhaseTables
    PROVE  /\ \A p \in Phases : phases[p] \in Nat /\ phases[p] >= 2
           /\ Total(phases) \in Nat
  <1>1. phases \in [Phases -> Nat \ {0, 1}]
    BY SizesAssumption
  <1>2. \A p \in Phases : phases[p] \in Nat /\ phases[p] >= 2
    BY <1>1
  <1> QED  BY <1>2 DEF Total, Phases

\* _advance: one more tick of the same incident, or its end after the last one.
LEMMA AdvancedOnce ==
    ASSUME NEW inc \in Incident, inc.phase # "closed", inc.ticks < inc.phases[inc.phase]
    PROVE  LET new == Advanced(inc) IN
           /\ new \in Incident
           /\ new.id = inc.id /\ new.start = inc.start /\ new.phases = inc.phases
           /\ Elapsed(inc) \in Nat
           /\ new.phase # "closed" => /\ new.ticks < new.phases[new.phase]
                                      /\ Elapsed(new) = Elapsed(inc) + 1
           /\ new.phase = "closed" => /\ inc.phase = "recovery"
                                      /\ Elapsed(inc) + 1 = Total(inc.phases)
           /\ inc.phase = "onset" => new.phase # "closed"
  <1> DEFINE new == Advanced(inc)
  <1>1. /\ inc.id \in Nat /\ inc.start \in 0 .. MaxTime /\ inc.phase \in Phases
        /\ inc.ticks \in Nat /\ inc.phases \in PhaseTables
    BY DEF Incident
  <1>2. \A p \in Phases : inc.phases[p] \in Nat /\ inc.phases[p] >= 2
    BY <1>1, PhaseLengths
  <1>3. CASE inc.ticks + 1 < inc.phases[inc.phase]
    <2>1. new = [inc EXCEPT !.ticks = inc.ticks + 1]
      BY <1>3 DEF Advanced
    <2>2. /\ new \in Incident
          /\ new.id = inc.id /\ new.start = inc.start /\ new.phases = inc.phases
          /\ new.phase = inc.phase /\ new.ticks = inc.ticks + 1
      BY <1>1, <2>1 DEF Incident
    <2> HIDE DEF new
    <2> QED  BY <1>1, <1>2, <1>3, <2>2 DEF Elapsed, Phases, new
  <1>4. CASE ~(inc.ticks + 1 < inc.phases[inc.phase])
    <2> DEFINE phase == NextPhase[inc.phase]
    <2>1. new = [inc EXCEPT !.ticks = 0, !.phase = phase]
      BY <1>4 DEF Advanced
    <2>2. phase \in Phases \cup {"closed"}
      BY <1>1 DEF NextPhase, Phases
    <2>3. /\ new \in Incident
          /\ new.id = inc.id /\ new.start = inc.start /\ new.phases = inc.phases
          /\ new.phase = phase /\ new.ticks = 0
      <3> HIDE DEF new, phase
      <3>1. new.id = inc.id /\ new.start = inc.start /\ new.phases = inc.phases
        BY <2>1 DEF Incident
      <3>2. new.phase = phase /\ new.ticks = 0
        BY <2>1 DEF Incident
      <3>3. new \in Incident
        BY <2>1, <2>2 DEF Incident
      <3> QED  BY <3>1, <3>2, <3>3
    <2>4. inc.ticks + 1 = inc.phases[inc.phase]
      BY <1>1, <1>2, <1>4
    <2> HIDE DEF new
    <2>5. CASE inc.phase = "onset"
      BY <1>1, <1>2, <2>3, <2>4, <2>5 DEF Elapsed, Phases, NextPhase, new
    <2>6. CASE inc.phase = "peak"
      BY <1>1, <1>2, <2>3, <2>4, <2>6 DEF Elapsed, Phases, NextPhase, new
    <2>7. CASE inc.phase = "recovery"
      BY <1>1, <1>2, <2>3, <2>4, <2>7 DEF Elapsed, Phases, NextPhase, Total, new
    <2> QED  BY <1>1, <2>5, <2>6, <2>7 DEF Phases
  <1> QED  BY <1>3, <1>4

\* The step of one cell's draw with incidents on the cells of hit.
Began(hit, phases) ==
    /\ Len(hit) \in Nat /\ begun' = begun + Len(hit)
    /\ DOMAIN active' = DOMAIN active \cup ToSet(hit)
    /\ ToSet(hit) \subseteq ToSet(Cells) \ DOMAIN active
    /\ \A c \in DOMAIN active : active'[c] = active[c]
    /\ \A c \in ToSet(hit) : \E i \in 1 .. Len(hit) :
          hit[i] = c /\ active'[c] = NewIncident(begun + i, phases)
    /\ \A i \in 1 .. Len(hit) : hit[i] \in ToSet(hit)
    /\ \A i, j \in 1 .. Len(hit) : hit[i] = hit[j] => i = j
    /\ started' \in Seq(ToSet(Cells) \X (1 .. begun'))
    /\ Len(started') = Len(started) + Len(hit)
    /\ \A k \in 1 .. Len(started) : started'[k] = started[k]
    /\ \A i \in 1 .. Len(hit) : started'[Len(started) + i] = <<hit[i], begun + i>>

\* The cells hit get an incident each, numbered and listed in order.
LEMMA HitBegins ==
    ASSUME TypeOK, NEW hit \in Seq(ToSet(Cells)), NEW phases \in PhaseTables, Hit(hit, phases),
           \A i, j \in 1 .. Len(hit) : hit[i] = hit[j] => i = j,
           \A i \in 1 .. Len(hit) : hit[i] \notin DOMAIN active
    PROVE  Began(hit, phases)
  <1> DEFINE idOf(c) == begun + (CHOOSE i \in 1 .. Len(hit) : hit[i] = c)
             new == [i \in 1 .. Len(hit) |-> <<hit[i], begun + i>>]
  <1>1. /\ Len(hit) \in Nat /\ DOMAIN hit = 1 .. Len(hit) /\ begun \in Nat
        /\ \A i \in 1 .. Len(hit) : hit[i] \in ToSet(Cells)
    BY DEF TypeOK
  <1>2. /\ ToSet(hit) \subseteq ToSet(Cells) \ DOMAIN active
        /\ \A i \in 1 .. Len(hit) : hit[i] \in ToSet(hit)
    BY <1>1 DEF ToSet
  <1>3. \A c \in ToSet(hit) : \E i \in 1 .. Len(hit) : hit[i] = c /\ idOf(c) = begun + i
    BY <1>1 DEF ToSet
  <1>4. /\ active' = [c \in DOMAIN active \cup ToSet(hit) |->
                         IF c \in ToSet(hit) THEN NewIncident(idOf(c), phases) ELSE active[c]]
        /\ started' = started \o new
        /\ begun' = begun + Len(hit)
    BY DEF Hit
  <1> HIDE DEF idOf
  <1>5. /\ DOMAIN active' = DOMAIN active \cup ToSet(hit)
        /\ \A c \in DOMAIN active : active'[c] = active[c]
        /\ \A c \in ToSet(hit) : active'[c] = NewIncident(idOf(c), phases)
    BY <1>2, <1>4
  <1>6. \A c \in ToSet(hit) : \E i \in 1 .. Len(hit) :
            hit[i] = c /\ active'[c] = NewIncident(begun + i, phases)
    BY <1>3, <1>5
  <1>7. /\ started' \in Seq(ToSet(Cells) \X (1 .. begun'))
        /\ Len(started') = Len(started) + Len(hit)
        /\ \A k \in 1 .. Len(started) : started'[k] = started[k]
        /\ \A i \in 1 .. Len(hit) : started'[Len(started) + i] = <<hit[i], begun + i>>
    <2> DEFINE S == ToSet(Cells) \X (1 .. begun')
    <2>1. ToSet(Cells) \X Ids \subseteq S /\ \A i \in 1 .. Len(hit) : <<hit[i], begun + i>> \in S
      BY <1>1, <1>4 DEF Ids
    <2>2. started \in Seq(ToSet(Cells) \X Ids)
      BY DEF TypeOK
    <2> HIDE DEF S
    <2>3. started \in Seq(S)
      BY <2>1, <2>2
    <2>4. new \in Seq(S) /\ Len(new) = Len(hit) /\ \A i \in 1 .. Len(hit) : new[i] = <<hit[i], begun + i>>
      BY <1>1, <2>1
    <2> HIDE DEF new
    <2>5. started \o new \in Seq(S)
      BY <2>3, <2>4
    <2>6. /\ Len(started \o new) = Len(started) + Len(hit)
          /\ \A k \in 1 .. Len(started) : (started \o new)[k] = started[k]
          /\ \A i \in 1 .. Len(hit) : (started \o new)[Len(started) + i] = new[i]
      <3>1. \A k \in 1 .. Len(started) + Len(new) :
                (started \o new)[k] = IF k <= Len(started) THEN started[k] ELSE new[k - Len(started)]
        BY <2>3, <2>4
      <3>2. Len(started) \in Nat /\ Len(started \o new) = Len(started) + Len(hit)
        <4>1. Len(started) \in Nat
          BY <2>3
        <4>2. Len(started \o new) = Len(started) + Len(new)
          BY ONLY <2>3, <2>4, ConcatProperties
        <4> QED  BY <2>4, <4>1, <4>2
      <3>3. \A i \in 1 .. Len(hit) : (started \o new)[Len(started) + i] = new[i]
        <4> TAKE i \in 1 .. Len(hit)
        <4>1. Len(started) + i \in 1 .. Len(started) + Len(new) /\ ~(Len(started) + i <= Len(started))
          BY <1>1, <2>4, <3>2
        <4>2. (Len(started) + i) - Len(started) = i
          BY <1>1, <3>2
        <4> QED  BY <3>1, <4>1, <4>2
      <3> QED  BY <1>1, <2>4, <3>1, <3>2, <3>3
    <2> QED  BY <1>4, <2>4, <2>5, <2>6 DEF S
  <1> QED  BY <1>1, <1>2, <1>4, <1>5, <1>6, <1>7 DEF Began

\* A spillover reaches other cells, none active, each once.
LEMMA ReachedAreFree ==
    ASSUME NEW c \in ToSet(Cells) \ DOMAIN active, NEW s \in Reached(c)
    PROVE  LET hit == <<c>> \o [i \in DOMAIN s |-> Cells[s[i]]] IN
           /\ hit \in Seq(ToSet(Cells))
           /\ \A i, j \in 1 .. Len(hit) : hit[i] = hit[j] => i = j
           /\ \A i \in 1 .. Len(hit) : hit[i] \notin DOMAIN active
  <1> DEFINE spill == [i \in DOMAIN s |-> Cells[s[i]]]
             hit == <<c>> \o spill
  <1>1. PICK n \in 0 .. MaxSpill : s \in [1 .. n -> FreeNeighbours(c)]
    BY DEF Reached, SeqOf
  <1>2. \A i, j \in 1 .. n : i < j => s[i] < s[j]
    BY <1>1 DEF Reached
  <1>3. n \in Nat /\ FreeNeighbours(c) \subseteq 1 .. Len(Cells)
    BY <1>1, SizesAssumption, Places DEF FreeNeighbours
  <1>4. \A i \in 1 .. n : /\ Cells[s[i]] \in ToSet(Cells) /\ Cells[s[i]] # c
                          /\ Cells[s[i]] \notin DOMAIN active
    BY <1>1, <1>3, Places DEF FreeNeighbours
  <1>5. \A i, j \in 1 .. n : Cells[s[i]] = Cells[s[j]] => i = j
    <2> TAKE i, j \in 1 .. n
    <2> HAVE Cells[s[i]] = Cells[s[j]]
    <2>1. s[i] = s[j] /\ s[i] \in Nat
      BY <1>1, <1>3, Places
    <2> QED  BY <1>2, <1>3, <2>1
  <1>6. spill \in Seq(ToSet(Cells)) /\ Len(spill) = n /\ \A i \in 1 .. n : spill[i] = Cells[s[i]]
    BY <1>1, <1>3, <1>4
  <1> HIDE DEF spill
  <1>7. /\ hit \in Seq(ToSet(Cells)) /\ Len(hit) = n + 1 /\ hit[1] = c
        /\ \A i \in 1 .. n : hit[i + 1] = Cells[s[i]]
    BY <1>3, <1>6
  <1>8. \A i \in 1 .. Len(hit) : i = 1 \/ (i - 1 \in 1 .. n /\ hit[i] = Cells[s[i - 1]])
    <2> TAKE i \in 1 .. Len(hit)
    <2>1. CASE i # 1
      <3>1. i - 1 \in 1 .. n /\ (i - 1) + 1 = i
        BY <1>3, <1>7, <2>1
      <3> QED  BY <1>7, <3>1
    <2> QED  BY <2>1
  <1> HIDE DEF hit
  <1>9. \A i, j \in 1 .. Len(hit) : hit[i] = hit[j] => i = j
    <2> TAKE i, j \in 1 .. Len(hit)
    <2> HAVE hit[i] = hit[j]
    <2>1. CASE i = 1 \/ j = 1
      BY <1>4, <1>7, <1>8, <2>1
    <2>2. CASE i # 1 /\ j # 1
      <3>1. /\ i - 1 \in 1 .. n /\ j - 1 \in 1 .. n
            /\ Cells[s[i - 1]] = Cells[s[j - 1]]
        BY <1>8, <2>2
      <3>2. i - 1 = j - 1
        BY <1>5, <3>1
      <3> QED  BY <1>3, <1>7, <3>2
    <2> QED  BY <2>1, <2>2
  <1>10. \A i \in 1 .. Len(hit) : hit[i] \notin DOMAIN active
    BY <1>4, <1>7, <1>8
  <1> QED  BY <1>7, <1>9, <1>10 DEF hit, spill

\* _maybe_start of a cell.
LEMMA MaybeStartBegins ==
    ASSUME TypeOK, MaybeStart
    PROVE  \/ UNCHANGED <<active, started, begun>>
           \/ \E hit \in Seq(ToSet(Cells)) : \E phases \in PhaseTables : Began(hit, phases)
  <1> DEFINE c == Cells[idx]
  <1>1. c \in ToSet(Cells)
    BY Places DEF MaybeStart, TypeOK
  <1>2. ASSUME c \notin DOMAIN active, NEW phases \in PhaseTables, Hit(<<c>>, phases)
        PROVE  Began(<<c>>, phases)
    <2>1. /\ <<c>> \in Seq(ToSet(Cells)) /\ Len(<<c>>) = 1 /\ <<c>>[1] = c
      BY <1>1
    <2> DEFINE hit == <<c>>
    <2>2. /\ \A i, j \in 1 .. Len(hit) : hit[i] = hit[j] => i = j
          /\ \A i \in 1 .. Len(hit) : hit[i] \notin DOMAIN active
      BY <1>2, <2>1
    <2>3. Hit(hit, phases) /\ hit \in Seq(ToSet(Cells))
      BY <1>2, <2>1
    <2> HIDE DEF hit
    <2>4. Began(hit, phases)
      BY <2>2, <2>3, HitBegins
    <2> QED  BY <2>4 DEF hit
  <1>3. ASSUME c \notin DOMAIN active, NEW phases \in PhaseTables, NEW s \in Reached(c),
               Hit(<<c>> \o [i \in DOMAIN s |-> Cells[s[i]]], phases)
        PROVE  \E hit \in Seq(ToSet(Cells)) : Began(hit, phases)
    <2> DEFINE hit == <<c>> \o [i \in DOMAIN s |-> Cells[s[i]]]
    <2>1. /\ hit \in Seq(ToSet(Cells))
          /\ \A i, j \in 1 .. Len(hit) : hit[i] = hit[j] => i = j
          /\ \A i \in 1 .. Len(hit) : hit[i] \notin DOMAIN active
      BY <1>1, <1>3, ReachedAreFree
    <2>2. Hit(hit, phases)
      BY <1>3
    <2> HIDE DEF hit
    <2> QED  BY <2>1, <2>2, HitBegins
  <1>4. <<c>> \in Seq(ToSet(Cells))
    BY <1>1
  <1> QED  BY <1>2, <1>3, <1>4 DEF MaybeStart

\* The step of tick() after the draws: who stays active, who ends.
LEMMA AdvanceStep ==
    ASSUME TypeOK, AdvanceAll
    PROVE  /\ DOMAIN active' \subseteq DOMAIN active
           /\ \A c \in DOMAIN active : c \in DOMAIN active' <=> Advanced(active[c]).phase # "closed"
           /\ \A c \in DOMAIN active' : active'[c] = Advanced(active[c])
           /\ ended' = {active[c].id : c \in DOMAIN active \ DOMAIN active'}
  <1> DEFINE closed == {c \in DOMAIN active : Advanced(active[c]).phase = "closed"}
  <1>1. /\ active' = [c \in DOMAIN active \ closed |-> Advanced(active[c])]
        /\ ended' = {Advanced(active[c]).id : c \in closed}
    BY DEF AdvanceAll
  <1>2. DOMAIN active' = DOMAIN active \ closed
    BY <1>1
  <1>3. \A c \in DOMAIN active : Advanced(active[c]).id = active[c].id
    BY AdvancedOnce DEF TypeOK
  <1>4. closed = DOMAIN active \ DOMAIN active'
    BY <1>2
  <1>5. ended' = {active[c].id : c \in closed}
    BY <1>1, <1>3
  <1>6. \A c \in DOMAIN active : c \in DOMAIN active' <=> Advanced(active[c]).phase # "closed"
    BY <1>2
  <1>7. \A c \in DOMAIN active' : active'[c] = Advanced(active[c])
    BY <1>1, <1>2
  <1> QED  BY <1>2, <1>4, <1>5, <1>6, <1>7

\* A row of ops.injected_incidents is inserted for the oldest of the new incidents.
LEMMA InsertStep ==
    ASSUME TypeOK, StartedIsNew, InsertLabel
    PROVE  LET c == started[1][1] IN
           /\ Old \in Nat /\ Old' = Old + 1 /\ Len(started) \in Nat \ {0}
           /\ started' \in Seq(ToSet(Cells) \X Ids) /\ Len(started') = Len(started) - 1
           /\ \A k \in 1 .. Len(started') : started'[k] = started[k + 1]
           /\ c \in DOMAIN active /\ active[c].id = Old + 1 /\ active[c].start = ts
           /\ Old + 1 \notin DOMAIN labels /\ Old + 1 \in Ids
           /\ DOMAIN labels' = DOMAIN labels \cup {Old + 1}
           /\ labels'[Old + 1] = RowOf(c)
           /\ \A i \in DOMAIN labels : labels'[i] = labels[i]
  <1> DEFINE S == ToSet(Cells) \X Ids
             c == started[1][1]
  <1>1. started \in Seq(S) /\ started # <<>> /\ started' = Tail(started) /\ begun' = begun /\ begun \in Nat
    BY DEF TypeOK, InsertLabel
  <1> HIDE DEF S
  <1>2. /\ Len(started) \in Nat \ {0} /\ started' \in Seq(S) /\ Len(started') = Len(started) - 1
        /\ \A k \in 1 .. Len(started') : started'[k] = started[k + 1]
        /\ Head(started) = started[1]
    BY <1>1
  <1>3. Old \in Nat /\ Old' = Old + 1
    BY <1>1, <1>2 DEF Old, StartedIsNew
  <1>4. /\ started[1][2] = Old + 1
        /\ c \in DOMAIN active /\ active[c].id = Old + 1 /\ active[c].start = ts
    BY <1>2 DEF StartedIsNew
  <1>5. Old + 1 \notin DOMAIN labels /\ Old + 1 \in Ids
    BY <1>1, <1>2, <1>3 DEF StartedIsNew, Old, Ids
  <1>6. labels' = [i \in DOMAIN labels \cup {Old + 1} |->
                      IF i = Old + 1 THEN RowOf(c) ELSE labels[i]]
    BY <1>2, <1>4 DEF InsertLabel
  <1> QED  BY <1>2, <1>3, <1>4, <1>5, <1>6 DEF S

\* The row of an incident that has ended gets its end.
LEMMA UpdateStep ==
    ASSUME TypeOK, EndedHaveLabels, UpdateLabel
    PROVE  \E i \in ended :
               /\ ended' = ended \ {i} /\ i \in DOMAIN labels
               /\ DOMAIN labels' = DOMAIN labels
               /\ \A j \in DOMAIN labels \ {i} : labels'[j] = labels[j]
               /\ labels'[i].end = ts /\ labels'[i].over
               /\ labels'[i].cell = labels[i].cell /\ labels'[i].start = labels[i].start
               /\ labels'[i].run = labels[i].run /\ labels'[i].total = labels[i].total
               /\ ts \in Nat => labels'[i] \in Label
  <1>1. PICK i \in ended : /\ labels' = [labels EXCEPT ![i].end = ts, ![i].over = TRUE]
                           /\ ended' = ended \ {i}
    BY DEF UpdateLabel
  <1>2. i \in DOMAIN labels /\ labels[i] \in Label
    BY DEF TypeOK, EndedHaveLabels, Labelled
  <1> DEFINE row == [labels[i] EXCEPT !.end = ts, !.over = TRUE]
  <1>3. /\ DOMAIN labels' = DOMAIN labels /\ labels'[i] = row
        /\ \A j \in DOMAIN labels \ {i} : labels'[j] = labels[j]
    BY <1>1, <1>2
  <1>4. row.end = ts /\ row.over = TRUE
    BY <1>2 DEF Label
  <1>5. /\ row.cell = labels[i].cell /\ row.start = labels[i].start
        /\ row.run = labels[i].run /\ row.total = labels[i].total
    BY <1>2 DEF Label
  <1>6. ts \in Nat => row \in Label
    BY <1>2 DEF Label
  <1> HIDE DEF row
  <1> QED  BY <1>1, <1>2, <1>3, <1>4, <1>5, <1>6

\* The report of the next cell.
Report == [cell |-> Cells[idx], ts |-> ts, run |-> run, incident |-> EffectOn(Cells[idx])]

\* One report is sent, and the loop goes on or the tick is over.
LEMMA SendStep ==
    ASSUME TypeOK, InTick, Send
    PROVE  /\ idx \in 1 .. Len(Cells) /\ Cells[idx] \in ToSet(Cells)
           /\ reports' = reports \cup {Report}
           /\ \/ idx < Len(Cells) /\ idx' = idx + 1 /\ pc' = "emit"
              \/ idx = Len(Cells) /\ idx' = 1 /\ pc' = "idle"
  <1>1. idx \in 1 .. Len(Cells)
    BY Places DEF Send, TypeOK, InTick
  <1>2. Len(Cells) \in Nat /\ Cells[idx] \in ToSet(Cells)
    BY <1>1, Places
  <1>3. reports' = reports \cup {Report}
    BY DEF Send, Report
  <1>4. CASE idx < Len(Cells)
    BY <1>1, <1>2, <1>3, <1>4 DEF Send
  <1>5. CASE ~(idx < Len(Cells))
    BY <1>1, <1>2, <1>3, <1>5 DEF Send
  <1> QED  BY <1>4, <1>5

-----------------------------------------------------------------------------
\* Every step keeps the simulator's state well typed.
LEMMA TypeOKNext ==
    ASSUME TypeOK, InTick, StartedIsNew, EndedHaveLabels, ActiveHaveLabels, [Next]_vars
    PROVE  TypeOK'
  <1>1. CASE UNCHANGED vars
    BY <1>1 DEF TypeOK, vars, Ids
  <1>2. CASE Elapse
    BY <1>2, SizesAssumption DEF TypeOK, Elapse, Ids
  <1>3. CASE Start
    BY <1>3, SizesAssumption DEF TypeOK, Start, InTick, Ids
  <1>4. CASE BackfillTick \/ LiveTick
    <2>1. \E t \in 0 .. MaxTime : TickAt(t)
      <3>1. now \in 0 .. MaxTime /\ until \in 0 .. MaxTime /\ ts \in -1 .. MaxTime
        BY DEF TypeOK
      <3>2. CASE BackfillTick
        BY <3>1, <3>2, SizesAssumption DEF BackfillTick
      <3>3. CASE LiveTick
        BY <3>1, <3>3 DEF LiveTick
      <3> QED  BY <1>4, <3>2, <3>3
    <2> QED  BY <2>1, Places DEF TypeOK, TickAt, Ids
  <1>5. CASE MaybeStart
    <2>1. /\ UNCHANGED <<now, pc, until, ts, ended, labels, run, reports, faults>>
          /\ idx' \in 1 .. Len(Cells) + 1
      BY <1>5, Places DEF MaybeStart, TypeOK
    <2>2. CASE UNCHANGED <<active, started, begun>>
      BY <2>1, <2>2 DEF TypeOK, Ids
    <2>3. ASSUME NEW hit, NEW phases \in PhaseTables, Began(hit, phases)  PROVE TypeOK'
      <3>1. begun' \in Nat /\ begun <= begun'
        BY <2>3 DEF Began, TypeOK
      <3>2. Ids \subseteq Ids' /\ started' \in Seq(ToSet(Cells) \X Ids')
        <4>1. started' \in Seq(ToSet(Cells) \X (1 .. begun'))
          BY ONLY <2>3 DEF Began
        <4>2. begun \in Nat
          BY DEF TypeOK
        <4>3. Ids \subseteq Ids'
          BY ONLY <3>1, <4>2 DEF Ids
        <4> QED  BY ONLY <4>1, <4>3 DEF Ids
      <3>3. DOMAIN active' \subseteq ToSet(Cells)
        BY <2>3 DEF Began, TypeOK
      <3>4. ts \in 0 .. MaxTime
        BY <1>5 DEF MaybeStart, TypeOK, InTick
      <3>5. \A i \in 1 .. Len(hit) :
                LET inc == NewIncident(begun + i, phases) IN
                inc \in Incident /\ inc.phase # "closed" /\ inc.ticks < inc.phases[inc.phase]
        <4> TAKE i \in 1 .. Len(hit)
        <4>1. begun + i \in Nat /\ phases["onset"] \in Nat /\ phases["onset"] >= 2
          <5>1. \A p \in Phases : phases[p] \in Nat /\ phases[p] >= 2
            BY PhaseLengths
          <5>2. begun + i \in Nat
            <6>1. Len(hit) \in Nat
              BY <2>3 DEF Began
            <6>2. begun \in Nat
              BY DEF TypeOK
            <6> QED  BY <6>1, <6>2
          <5> QED  BY <5>1, <5>2 DEF Phases
        <4> QED  BY <3>4, <4>1 DEF NewIncident, Incident, Phases
      <3>6. \A c \in DOMAIN active' : /\ active'[c] \in Incident /\ active'[c].phase # "closed"
                                      /\ active'[c].ticks < active'[c].phases[active'[c].phase]
        <4> TAKE c \in DOMAIN active'
        <4>1. CASE c \in DOMAIN active
          BY <2>3, <4>1 DEF Began, TypeOK
        <4>2. CASE c \in ToSet(hit)
          <5>1. PICK i \in 1 .. Len(hit) : active'[c] = NewIncident(begun + i, phases)
            BY ONLY <2>3, <4>2 DEF Began
          <5> QED  BY ONLY <3>5, <5>1
        <4> QED  BY <2>3, <4>1, <4>2 DEF Began
      <3>7. ended' \subseteq Ids' /\ DOMAIN labels' \subseteq Ids'
            /\ \A i \in DOMAIN labels' : labels'[i] \in Label
        BY <2>1, <3>2 DEF TypeOK
      <3>8. reports' \subseteq [cell : ToSet(Cells), ts : 0 .. MaxTime, run : Nat, incident : {0} \cup Ids']
        BY <2>1, <3>2 DEF TypeOK
      <3> QED  BY <2>1, <3>1, <3>2, <3>3, <3>6, <3>7, <3>8 DEF TypeOK
    <2> QED  BY <1>5, <2>2, <2>3, MaybeStartBegins
  <1>6. CASE AdvanceAll
    <2>1. DOMAIN active' \subseteq ToSet(Cells)
          /\ \A c \in DOMAIN active' : /\ active'[c] \in Incident /\ active'[c].phase # "closed"
                                       /\ active'[c].ticks < active'[c].phases[active'[c].phase]
      BY <1>6, AdvanceStep, AdvancedOnce DEF TypeOK
    <2>2. ended' \subseteq Ids
      BY <1>6, AdvanceStep DEF ActiveHaveLabels, Ids
    <2>3. /\ UNCHANGED <<now, until, ts, started, labels, begun, run, reports, faults>>
          /\ pc' = "emit" /\ idx' = 1
      BY <1>6 DEF AdvanceAll
    <2> QED  BY <2>1, <2>2, <2>3, Places DEF TypeOK, Ids
  <1>7. CASE InsertLabel
    <2> DEFINE c == started[1][1]
    <2>1. /\ c \in DOMAIN active /\ Old + 1 \in Ids
          /\ started' \in Seq(ToSet(Cells) \X Ids)
          /\ DOMAIN labels' = DOMAIN labels \cup {Old + 1}
          /\ labels'[Old + 1] = RowOf(c)
          /\ \A i \in DOMAIN labels : labels'[i] = labels[i]
      BY <1>7, InsertStep
    <2>2. RowOf(c) \in Label
      <3>1. Total(active[c].phases) \in Nat /\ c \in ToSet(Cells)
        BY <2>1, PhaseLengths DEF TypeOK, Incident
      <3>2. ts \in 0 .. MaxTime /\ run \in Nat
        BY <1>7 DEF InsertLabel, TypeOK, InTick
      <3> QED  BY <3>1, <3>2 DEF RowOf, Label
    <2>3. UNCHANGED <<now, pc, idx, until, ts, active, ended, begun, run, reports, faults>>
      BY <1>7 DEF InsertLabel
    <2> QED  BY <2>1, <2>2, <2>3 DEF TypeOK, Ids
  <1>8. CASE UpdateLabel
    <2>1. ts \in Nat
      BY <1>8 DEF UpdateLabel, TypeOK, InTick
    <2>2. /\ DOMAIN labels' = DOMAIN labels /\ ended' \subseteq ended
          /\ \A i \in DOMAIN labels : labels'[i] \in Label
      BY <1>8, <2>1, UpdateStep DEF TypeOK
    <2>3. UNCHANGED <<now, pc, idx, until, ts, active, started, begun, run, reports, faults>>
      BY <1>8 DEF UpdateLabel
    <2> QED  BY <2>2, <2>3 DEF TypeOK, Ids
  <1>9. CASE Send
    <2>1. /\ Cells[idx] \in ToSet(Cells) /\ reports' = reports \cup {Report}
          /\ pc' \in {"emit", "idle"} /\ idx' \in 1 .. Len(Cells) + 1
      BY <1>9, SendStep, Places
    <2>2. EffectOn(Cells[idx]) \in {0} \cup Ids
      BY DEF EffectOn, ActiveHaveLabels, Ids
    <2>3. ts \in 0 .. MaxTime /\ run \in Nat
      BY <1>9 DEF Send, TypeOK, InTick
    <2>4. Report \in [cell : ToSet(Cells), ts : 0 .. MaxTime, run : Nat, incident : {0} \cup Ids]
      BY <2>1, <2>2, <2>3 DEF Report
    <2>5. UNCHANGED <<now, until, ts, active, started, ended, labels, begun, run, faults>>
      BY <1>9 DEF Send
    <2> QED  BY <2>1, <2>4, <2>5 DEF TypeOK, Ids
  <1>10. CASE ProcessEnds
    BY <1>10, Places, SizesAssumption DEF TypeOK, ProcessEnds, Ids
  <1> QED
    BY <1>1, <1>2, <1>3, <1>4, <1>5, <1>6, <1>7, <1>8, <1>9, <1>10 DEF Next

\* The order of the steps of a tick.
LEMMA InTickNext ==
    ASSUME TypeOK, InTick, [Next]_vars
    PROVE  InTick'
  <1>1. CASE UNCHANGED vars
    BY <1>1 DEF InTick, vars
  <1>2. CASE Elapse \/ Start
    BY <1>2, SizesAssumption DEF InTick, TypeOK, Elapse, Start
  <1>3. CASE BackfillTick \/ LiveTick
    <2>1. \E t \in Nat : TickAt(t)
      BY <1>3, SizesAssumption DEF TypeOK, InTick, BackfillTick, LiveTick
    <2> QED  BY <2>1 DEF InTick, TickAt
  <1>4. CASE MaybeStart
    BY <1>4 DEF InTick, MaybeStart
  <1>5. CASE AdvanceAll
    BY <1>5, Places DEF InTick, AdvanceAll
  <1>6. CASE InsertLabel \/ UpdateLabel
    BY <1>6, Places DEF InTick, InsertLabel, UpdateLabel, TypeOK
  <1>7. CASE Send
    <2>1. /\ idx \in 1 .. Len(Cells)
          /\ \/ idx < Len(Cells) /\ idx' = idx + 1 /\ pc' = "emit"
             \/ pc' = "idle"
      BY <1>7, SendStep
    <2> QED  BY <1>7, <2>1, Places DEF InTick, Send, TypeOK
  <1>8. CASE ProcessEnds
    BY <1>8 DEF InTick, ProcessEnds
  <1> QED  BY <1>1, <1>2, <1>3, <1>4, <1>5, <1>6, <1>7, <1>8 DEF Next

\* The steps that leave the incidents and their labels alone but for the time, the run, or
\* by forgetting them: no incident waits for its label then.
LEMMA QuietStep ==
    ASSUME TypeOK, InTick, StartedIsNew, [Next]_vars,
           ~MaybeStart, ~AdvanceAll, ~InsertLabel, ~UpdateLabel
    PROVE  /\ UNCHANGED <<labels, begun>>
           /\ \/ UNCHANGED <<active, started, ended, ts, run>> /\ pc' # "draw" /\ pc # "down"
              \/ UNCHANGED <<active, started, ended, ts, run, pc>>
              \/ UNCHANGED <<active, run>> /\ started = <<>> /\ started' = <<>>
                 /\ ended' = {} /\ ts < ts' /\ pc = "idle" /\ pc' = "draw"
              \/ DOMAIN active' = {} /\ started' = <<>> /\ ended' = {}
                 /\ \/ pc' = "down" /\ run' = run /\ ts' = ts
                    \/ pc = "down" /\ run' = run + 1
  <1>1. CASE UNCHANGED vars \/ Elapse
    BY <1>1 DEF vars, Elapse
  <1>2. CASE Start
    BY <1>2 DEF Start, InTick
  <1>3. CASE BackfillTick \/ LiveTick
    <2>1. PICK t \in Nat : TickAt(t) /\ ts < t
      BY <1>3, SizesAssumption DEF TypeOK, InTick, BackfillTick, LiveTick
    <2> QED  BY <2>1 DEF InTick, TickAt
  <1>4. CASE Send
    BY <1>4, SendStep DEF Send
  <1>5. CASE ProcessEnds
    <2>1. DOMAIN active' = {}
      BY <1>5 DEF ProcessEnds
    <2> QED  BY <1>5, <2>1 DEF ProcessEnds
  <1> QED  BY <1>1, <1>2, <1>3, <1>4, <1>5 DEF Next

\* New incidents are listed in the order of their numbers until they have their labels.
LEMMA StartedIsNewNext ==
    ASSUME TypeOK, InTick, StartedIsNew, EndedHaveLabels, [Next]_vars
    PROVE  StartedIsNew'
  <1>0. Len(started) \in Nat /\ begun \in Nat /\ Len(<<>>) = 0
    BY DEF TypeOK
  <1>1. CASE ~MaybeStart /\ ~AdvanceAll /\ ~InsertLabel /\ ~UpdateLabel
    <2>1. CASE UNCHANGED <<active, started, labels, begun, ts>> /\ (pc' = "draw" => pc = "draw")
      BY <2>1 DEF StartedIsNew, Old
    <2>2. CASE UNCHANGED <<labels, begun>> /\ started' = <<>>
      <3>1. Len(started') = 0
        BY <2>2
      <3>2. Old' = begun /\ Old <= begun
        BY <1>0, <2>2, <3>1 DEF Old
      <3> QED  BY <1>0, <2>2, <3>1, <3>2 DEF StartedIsNew
    <2> QED  BY <1>1, <2>1, <2>2, QuietStep
  <1>2. CASE MaybeStart
    <2>0. UNCHANGED <<pc, ts, labels>>
      BY <1>2 DEF MaybeStart
    <2>1. CASE UNCHANGED <<active, started, begun>>
      BY <2>0, <2>1 DEF StartedIsNew, Old
    <2>2. ASSUME NEW hit, NEW phases \in PhaseTables, Began(hit, phases)  PROVE StartedIsNew'
      <3>1. /\ Len(hit) \in Nat /\ begun' = begun + Len(hit) /\ Len(started') = Len(started) + Len(hit)
            /\ \A k \in 1 .. Len(started) : started'[k] = started[k]
            /\ \A i \in 1 .. Len(hit) : started'[Len(started) + i] = <<hit[i], begun + i>>
        BY <2>2 DEF Began
      <3>2. Old' = Old
        BY <1>0, <3>1 DEF Old
      <3>3. ASSUME NEW k \in 1 .. Len(started)
            PROVE  LET c == started'[k][1] IN
                   /\ started'[k][2] = Old + k
                   /\ c \in DOMAIN active' /\ active'[c].id = Old + k /\ active'[c].start = ts
                   /\ pc = "draw" => active'[c].phase = "onset" /\ active'[c].ticks = 0
        <4> DEFINE c == started[k][1]
        <4>1. /\ started[k][2] = Old + k
              /\ c \in DOMAIN active /\ active[c].id = Old + k /\ active[c].start = ts
              /\ pc = "draw" => active[c].phase = "onset" /\ active[c].ticks = 0
          BY DEF StartedIsNew
        <4>2. active'[c] = active[c] /\ c \in DOMAIN active' /\ started'[k] = started[k]
          BY <2>2, <4>1 DEF Began
        <4> QED  BY <4>1, <4>2
      <3>4. ASSUME NEW i \in 1 .. Len(hit)
            PROVE  LET k == Len(started) + i  c == started'[k][1] IN
                   /\ started'[k][2] = Old + k
                   /\ c \in DOMAIN active' /\ active'[c].id = Old + k /\ active'[c].start = ts
                   /\ active'[c].phase = "onset" /\ active'[c].ticks = 0
        <4> DEFINE k == Len(started) + i
        <4>1. started'[k] = <<hit[i], begun + i>> /\ begun + i = Old + k
          BY <1>0, <3>1 DEF Old
        <4>2. hit[i] \in ToSet(hit)
          BY <2>2 DEF Began
        <4>3. hit[i] \in DOMAIN active' /\ active'[hit[i]] = NewIncident(begun + i, phases)
          <5>1. PICK j \in 1 .. Len(hit) : hit[j] = hit[i] /\ active'[hit[i]] = NewIncident(begun + j, phases)
            BY <2>2, <4>2 DEF Began
          <5>2. j = i
            BY <2>2, <5>1 DEF Began
          <5>3. hit[i] \in DOMAIN active'
            BY <2>2, <4>2 DEF Began
          <5> QED  BY <5>1, <5>2, <5>3
        <4> QED  BY <4>1, <4>3 DEF NewIncident
      <3>5. \A k \in 1 .. Len(started') : k \in 1 .. Len(started)
                                          \/ \E i \in 1 .. Len(hit) : k = Len(started) + i
        <4> TAKE k \in 1 .. Len(started')
        <4>1. CASE k > Len(started)
          <5>1. k - Len(started) \in 1 .. Len(hit) /\ k = Len(started) + (k - Len(started))
            BY <1>0, <3>1, <4>1
          <5> QED  BY <5>1
        <4> QED  BY <1>0, <3>1, <4>1
      <3>6. Old' \in Nat /\ DOMAIN labels' \subseteq 1 .. Old'
        BY <2>0, <3>2 DEF StartedIsNew
      <3>7. ASSUME NEW k \in 1 .. Len(started')
            PROVE  LET c == started'[k][1] IN
                   /\ started'[k][2] = Old' + k
                   /\ c \in DOMAIN active' /\ active'[c].id = Old' + k /\ active'[c].start = ts'
                   /\ pc' = "draw" => active'[c].phase = "onset" /\ active'[c].ticks = 0
        <4>1. CASE k \in 1 .. Len(started)
          BY <2>0, <3>2, <3>3, <4>1
        <4>2. CASE \E i \in 1 .. Len(hit) : k = Len(started) + i
          BY <2>0, <3>2, <3>4, <4>2
        <4> QED  BY <3>5, <4>1, <4>2
      <3> QED  BY <3>6, <3>7 DEF StartedIsNew
    <2> QED  BY <1>2, <2>1, <2>2, MaybeStartBegins
  <1>3. CASE AdvanceAll
    <2>1. UNCHANGED <<ts, started, labels, begun>> /\ pc = "draw" /\ pc' = "emit"
      BY <1>3 DEF AdvanceAll
    <2>2. ASSUME NEW k \in 1 .. Len(started)
          PROVE  LET c == started[k][1] IN
                 c \in DOMAIN active' /\ active'[c].id = Old + k /\ active'[c].start = ts
      <3> DEFINE c == started[k][1]
      <3>1. c \in DOMAIN active /\ active[c].id = Old + k /\ active[c].start = ts /\ active[c].phase = "onset"
        BY <2>1 DEF StartedIsNew
      <3>2. Advanced(active[c]).phase # "closed"
            /\ Advanced(active[c]).id = Old + k /\ Advanced(active[c]).start = ts
        BY <3>1, AdvancedOnce DEF TypeOK
      <3> QED  BY <1>3, <3>1, <3>2, AdvanceStep
    <2> QED  BY <2>1, <2>2 DEF StartedIsNew, Old
  <1>4. CASE InsertLabel
    <2>1. UNCHANGED <<active, ts, begun>> /\ pc = "emit" /\ pc' = "emit"
      BY <1>4 DEF InsertLabel
    <2>2. /\ Old \in Nat /\ Old' = Old + 1 /\ Len(started') = Len(started) - 1
          /\ \A k \in 1 .. Len(started') : started'[k] = started[k + 1]
          /\ DOMAIN labels' = DOMAIN labels \cup {Old + 1}
      BY <1>4, InsertStep
    <2>3. Old' \in Nat /\ DOMAIN labels' \subseteq 1 .. Old'
      BY <2>2 DEF StartedIsNew
    <2>4. ASSUME NEW k \in 1 .. Len(started')
          PROVE  LET c == started'[k][1] IN
                 /\ started'[k][2] = Old' + k
                 /\ c \in DOMAIN active /\ active[c].id = Old' + k /\ active[c].start = ts
      <3>1. k + 1 \in 1 .. Len(started) /\ Old' + k = Old + (k + 1)
        BY <1>0, <2>2
      <3> QED  BY <2>2, <3>1 DEF StartedIsNew
    <2> QED  BY <2>1, <2>3, <2>4 DEF StartedIsNew
  <1>5. CASE UpdateLabel
    <2>1. UNCHANGED <<active, started, begun, ts, pc>> /\ DOMAIN labels' = DOMAIN labels
      BY <1>5, UpdateStep DEF UpdateLabel
    <2> QED  BY <2>1 DEF StartedIsNew, Old
  <1> QED  BY <1>1, <1>2, <1>3, <1>4, <1>5

\* The label of an incident lasts until it is over.
LEMMA LabelledLasts ==
    ASSUME TypeOK, NEW i, NEW c, Labelled(i, c), ts' \in Int, ts <= ts', run' = run,
           i \in DOMAIN labels', labels'[i] = labels[i]
    PROVE  Labelled(i, c)'
  <1>1. labels[i].start \in Int /\ ts \in Int
    BY DEF TypeOK, Label, Labelled
  <1> QED  BY <1>1 DEF Labelled

\* Every active incident has its label as soon as it has left started.
LEMMA ActiveHaveLabelsNext ==
    ASSUME TypeOK, InTick, StartedIsNew, ActiveHaveLabels, EndedHaveLabels, [Next]_vars
    PROVE  ActiveHaveLabels'
  <1>0. /\ Len(started) \in Nat /\ begun \in Nat /\ ts \in Int /\ ts' \in Int
        /\ \A c \in DOMAIN active : active[c].id \in Nat
    <2>1. TypeOK'
      BY TypeOKNext
    <2>2. ts' \in Int
      BY ONLY <2>1, SizesAssumption DEF TypeOK
    <2>3. ts \in Int /\ begun \in Nat
      BY ONLY TypeOK, SizesAssumption DEF TypeOK
    <2>4. \A c \in DOMAIN active : active[c].id \in Nat
      BY ONLY TypeOK DEF TypeOK, Incident
    <2>5. Len(started) \in Nat
      BY ONLY TypeOK DEF TypeOK
    <2> QED  BY <2>2, <2>3, <2>4, <2>5
  <1>1. CASE ~MaybeStart /\ ~AdvanceAll /\ ~InsertLabel /\ ~UpdateLabel
    <2>1. CASE DOMAIN active' = {}
      BY <2>1 DEF ActiveHaveLabels
    <2>2. CASE UNCHANGED <<active, started, labels, begun, run>> /\ ts <= ts'
      <3>1. \A c \in DOMAIN active : Labelled(active[c].id, c) => Labelled(active[c].id, c)'
        <4> TAKE c \in DOMAIN active
        <4> HAVE Labelled(active[c].id, c)
        <4> QED  BY <1>0, <2>2, LabelledLasts DEF Labelled
      <3>2. Old' = Old
        BY <2>2 DEF Old
      <3> QED  BY <2>2, <3>1, <3>2 DEF ActiveHaveLabels, Labelled
    <2>3. CASE UNCHANGED <<active, started, labels, begun, run, ts>>
      BY <1>0, <2>2, <2>3
    <2> QED  BY <1>0, <1>1, <2>1, <2>2, <2>3, QuietStep
  <1>2. CASE MaybeStart
    <2>0. UNCHANGED <<pc, ts, labels, run>>
      BY <1>2 DEF MaybeStart
    <2>1. CASE UNCHANGED <<active, started, begun>>
      BY <2>0, <2>1 DEF ActiveHaveLabels, Labelled, Old
    <2>2. ASSUME NEW hit, NEW phases \in PhaseTables, Began(hit, phases)  PROVE ActiveHaveLabels'
      <3>1. /\ Len(hit) \in Nat /\ begun' = begun + Len(hit) /\ Len(started') = Len(started) + Len(hit)
            /\ \A c \in DOMAIN active : active'[c] = active[c]
            /\ DOMAIN active' = DOMAIN active \cup ToSet(hit)
        BY <2>2 DEF Began
      <3>2. Old' = Old /\ Old \in Nat /\ Old <= begun
        BY <1>0, <3>1 DEF Old, StartedIsNew
      <3>3. \A c \in ToSet(hit) : \E i \in 1 .. Len(hit) : hit[i] = c /\ active'[c].id = begun + i
        <4> TAKE c \in ToSet(hit)
        <4>1. PICK i \in 1 .. Len(hit) : hit[i] = c /\ active'[c] = NewIncident(begun + i, phases)
          BY <2>2 DEF Began
        <4> QED  BY <4>1 DEF NewIncident
      <3>4. ASSUME NEW c \in DOMAIN active'
            PROVE  /\ active'[c].id \in 1 .. begun'
                   /\ active'[c].id <= Old' => /\ Labelled(active[c].id, c)'
                                               /\ labels'[active'[c].id].total = Total(active'[c].phases)
        <4>1. CASE c \in DOMAIN active
          <5>1. active'[c] = active[c] /\ active[c].id \in 1 .. begun'
            BY <1>0, <3>1, <4>1 DEF ActiveHaveLabels
          <5>2. active[c].id <= Old => /\ Labelled(active[c].id, c)
                                       /\ labels[active[c].id].total = Total(active[c].phases)
            BY <4>1 DEF ActiveHaveLabels
          <5> QED  BY <2>0, <3>2, <5>1, <5>2 DEF Labelled
        <4>2. CASE c \in ToSet(hit)
          BY <1>0, <3>1, <3>2, <3>3, <4>2
        <4> QED  BY <3>1, <4>1, <4>2
      <3>5. ASSUME NEW c \in DOMAIN active', NEW d \in DOMAIN active', active'[c].id = active'[d].id
            PROVE  c = d
        <4>1. \A e \in DOMAIN active : active'[e].id = active[e].id /\ active[e].id <= begun
          BY <1>0, <3>1 DEF ActiveHaveLabels
        <4>2. CASE c \in DOMAIN active /\ d \in DOMAIN active
          BY <3>5, <4>1, <4>2 DEF ActiveHaveLabels
        <4>3. CASE c \in ToSet(hit) /\ d \in ToSet(hit)
          <5>1. PICK i \in 1 .. Len(hit) : hit[i] = c /\ active'[c].id = begun + i
            BY <3>3, <4>3
          <5>2. PICK j \in 1 .. Len(hit) : hit[j] = d /\ active'[d].id = begun + j
            BY <3>3, <4>3
          <5>3. begun + i = begun + j
            BY <3>5, <5>1, <5>2
          <5>4. \A m, n \in Int : begun + m = begun + n => m = n
            BY <1>0
          <5>5. i \in Int /\ j \in Int
            BY <3>1
          <5>6. i = j
            BY <5>3, <5>4, <5>5
          <5> QED  BY <5>1, <5>2, <5>6
        <4>4. \A e \in ToSet(hit) : active'[e].id > begun
          BY <1>0, <3>1, <3>3
        <4> QED  BY <1>0, <3>1, <3>5, <4>1, <4>2, <4>3, <4>4
      <3> QED  BY <3>4, <3>5 DEF ActiveHaveLabels
    <2> QED  BY <1>2, <2>1, <2>2, MaybeStartBegins
  <1>3. CASE AdvanceAll
    <2>1. UNCHANGED <<ts, started, labels, begun, run>>
      BY <1>3 DEF AdvanceAll
    <2>2. /\ DOMAIN active' \subseteq DOMAIN active
          /\ \A c \in DOMAIN active' : active'[c].id = active[c].id /\ active'[c].phases = active[c].phases
      BY <1>3, AdvanceStep, AdvancedOnce DEF TypeOK
    <2>3. \A i, c : Labelled(i, c)' <=> Labelled(i, c)
      BY <2>1 DEF Labelled
    <2> QED  BY <2>1, <2>2, <2>3 DEF ActiveHaveLabels, Old
  <1>4. CASE InsertLabel
    <2>1. UNCHANGED <<active, ts, begun, run>>
      BY <1>4 DEF InsertLabel
    <2> DEFINE n == started[1][1]
    <2>2. /\ Old \in Nat /\ Old' = Old + 1
          /\ n \in DOMAIN active /\ active[n].id = Old + 1
          /\ Old + 1 \notin DOMAIN labels
          /\ DOMAIN labels' = DOMAIN labels \cup {Old + 1}
          /\ labels'[Old + 1] = RowOf(n)
          /\ \A i \in DOMAIN labels : labels'[i] = labels[i]
      BY <1>4, InsertStep
    <2> HIDE DEF n
    <2>3. /\ labels'[Old + 1].cell = n /\ labels'[Old + 1].run = run /\ ~labels'[Old + 1].over
          /\ labels'[Old + 1].start = ts /\ labels'[Old + 1].total = Total(active[n].phases)
      BY <2>2 DEF RowOf
    <2>4. ASSUME NEW c \in DOMAIN active, active[c].id <= Old + 1
          PROVE  /\ Labelled(active[c].id, c)'
                 /\ labels'[active[c].id].total = Total(active[c].phases)
      <3>1. CASE active[c].id = Old + 1
        <4>1. c = n
          BY <2>2, <3>1 DEF ActiveHaveLabels
        <4> QED  BY <1>0, <2>1, <2>2, <2>3, <3>1, <4>1 DEF Labelled
      <3>2. CASE active[c].id <= Old
        <4>1. /\ Labelled(active[c].id, c)
              /\ labels[active[c].id].total = Total(active[c].phases)
          BY <3>2 DEF ActiveHaveLabels
        <4> QED  BY <2>1, <2>2, <4>1 DEF Labelled
      <3> QED  BY <1>0, <2>2, <2>4, <3>1, <3>2
    <2> QED  BY <2>1, <2>2, <2>4 DEF ActiveHaveLabels
  <1>5. CASE UpdateLabel
    <2>1. UNCHANGED <<active, started, ts, begun, run>>
      BY <1>5 DEF UpdateLabel
    <2>2. PICK i \in ended : /\ DOMAIN labels' = DOMAIN labels
                             /\ \A j \in DOMAIN labels \ {i} : labels'[j] = labels[j]
      BY <1>5, UpdateStep
    <2>3. \A c \in DOMAIN active : Labelled(active[c].id, c) => active[c].id # i
      BY DEF EndedHaveLabels, Labelled
    <2>4. \A c \in DOMAIN active : Labelled(active[c].id, c) =>
              Labelled(active[c].id, c)' /\ labels'[active[c].id] = labels[active[c].id]
      BY <2>1, <2>2, <2>3 DEF Labelled
    <2>5. Old' = Old
      BY <2>1 DEF Old
    <2> QED  BY <2>1, <2>4, <2>5 DEF ActiveHaveLabels
  <1> QED  BY <1>1, <1>2, <1>3, <1>4, <1>5

\* An incident that ends did not begin in this tick.
LEMMA ClosingIsOld ==
    ASSUME TypeOK, StartedIsNew, ActiveHaveLabels, AdvanceAll,
           NEW c \in DOMAIN active \ DOMAIN active'
    PROVE  active[c].id <= Old
  <1>1. Advanced(active[c]).phase = "closed"
    BY AdvanceStep
  <1>2. active[c].phase # "onset" /\ pc = "draw"
    BY <1>1, AdvancedOnce DEF TypeOK, AdvanceAll
  <1>3. CASE active[c].id > Old
    <2> DEFINE k == active[c].id - Old
    <2>1. k \in 1 .. Len(started) /\ Old + k = active[c].id
      <3>1. /\ active[c].id \in 1 .. begun /\ begun \in Nat /\ Len(started) \in Nat
            /\ Old \in Nat /\ Old = begun - Len(started)
        BY DEF ActiveHaveLabels, StartedIsNew, Old, TypeOK
      <3> QED  BY <1>3, <3>1
    <2> HIDE DEF k
    <2>2. /\ started[k][1] \in DOMAIN active /\ active[started[k][1]].id = active[c].id
          /\ active[started[k][1]].phase = "onset"
      BY <1>2, <2>1 DEF StartedIsNew
    <2>3. started[k][1] = c
      BY <2>2 DEF ActiveHaveLabels
    <2> QED  BY <1>2, <2>2, <2>3
  <1>4. active[c].id \in Nat /\ Old \in Nat
    BY DEF TypeOK, Incident, StartedIsNew
  <1> QED  BY <1>3, <1>4

\* An incident that ends has its label: it did not begin in this tick.
LEMMA EndedHaveLabelsNext ==
    ASSUME TypeOK, InTick, StartedIsNew, ActiveHaveLabels, EndedHaveLabels, [Next]_vars
    PROVE  EndedHaveLabels'
  <1>1. CASE ~MaybeStart /\ ~AdvanceAll /\ ~InsertLabel /\ ~UpdateLabel
    <2>1. CASE ended' = {}
      BY <2>1 DEF EndedHaveLabels
    <2>2. CASE UNCHANGED <<active, ended, labels, ts, run>>
      BY <2>2 DEF EndedHaveLabels, Labelled
    <2> QED  BY <1>1, <2>1, <2>2, QuietStep
  <1>2. CASE MaybeStart
    <2>1. ended' = {}
      BY <1>2 DEF MaybeStart, InTick
    <2> QED  BY <2>1 DEF EndedHaveLabels
  <1>3. CASE AdvanceAll
    <2>1. UNCHANGED <<ts, labels, run>> /\ pc = "draw"
      BY <1>3 DEF AdvanceAll
    <2>2. ASSUME NEW c \in DOMAIN active \ DOMAIN active'
          PROVE  /\ c \in ToSet(Cells) \ DOMAIN active'
                 /\ \A i : i = active[c].id => Labelled(i, c)'
      <3>3. active[c].id <= Old
        BY <1>3, ClosingIsOld
      <3>4. Labelled(active[c].id, c)
        BY <3>3 DEF ActiveHaveLabels
      <3>5. \A i : Labelled(i, c) => Labelled(i, c)'
        BY <2>1 DEF Labelled
      <3> QED  BY <3>4, <3>5 DEF TypeOK
    <2>3. ended' = {active[c].id : c \in DOMAIN active \ DOMAIN active'}
      BY <1>3, AdvanceStep
    <2> QED  BY <2>2, <2>3 DEF EndedHaveLabels
  <1>4. CASE InsertLabel
    <2>1. UNCHANGED <<active, ended, ts, run>>
      BY <1>4 DEF InsertLabel
    <2>2. /\ DOMAIN labels \subseteq DOMAIN labels'
          /\ \A i \in DOMAIN labels : labels'[i] = labels[i]
      BY <1>4, InsertStep
    <2> QED  BY <2>1, <2>2 DEF EndedHaveLabels, Labelled
  <1>5. CASE UpdateLabel
    <2>1. UNCHANGED <<active, ts, run>>
      BY <1>5 DEF UpdateLabel
    <2>2. PICK i \in ended : /\ ended' = ended \ {i} /\ DOMAIN labels' = DOMAIN labels
                             /\ \A j \in DOMAIN labels \ {i} : labels'[j] = labels[j]
      BY <1>5, UpdateStep
    <2> QED  BY <2>1, <2>2 DEF EndedHaveLabels, Labelled
  <1> QED  BY <1>1, <1>2, <1>3, <1>4, <1>5

\* A label is open only while its incident is there, and over before new incidents begin.
LEMMA LabelsOfRunNext ==
    ASSUME TypeOK, InTick, StartedIsNew, ActiveHaveLabels, EndedHaveLabels, LabelsOfRun, [Next]_vars
    PROVE  LabelsOfRun'
  <1>0. /\ ts \in Int /\ ts' \in Int /\ run \in Nat
        /\ \A i \in DOMAIN labels : labels[i].run \in Nat /\ labels[i].end \in Nat
    <2>1. ts \in Int /\ ts' \in Int /\ run \in Nat
      BY TypeOKNext DEF TypeOK
    <2>2. \A i \in DOMAIN labels : labels[i] \in Label
      BY DEF TypeOK
    <2> QED  BY <2>1, <2>2 DEF Label
  <1>1. CASE ~MaybeStart /\ ~AdvanceAll /\ ~InsertLabel /\ ~UpdateLabel
    <2>0. UNCHANGED <<labels, begun>>
      BY <1>1, QuietStep
    <2>1. CASE UNCHANGED <<active, started, ended, ts, run>>
               /\ (pc' = "draw" => pc = "draw") /\ (pc' # "down" => pc # "down")
      BY <2>0, <2>1 DEF LabelsOfRun
    <2>2. CASE UNCHANGED <<active, run>> /\ started' = <<>> /\ ts < ts' /\ pc = "idle"
      <3>1. ended = {}
        BY <2>2 DEF InTick
      <3> QED  BY <1>0, <2>0, <2>2, <3>1 DEF LabelsOfRun
    <2>3. CASE started' = <<>> /\ pc' = "down" /\ run' = run /\ ts' = ts
      BY <2>0, <2>3 DEF LabelsOfRun
    <2>4. CASE run' = run + 1
      BY <1>0, <2>0, <2>4 DEF LabelsOfRun
    <2> QED  BY <1>1, <2>1, <2>2, <2>3, <2>4, QuietStep
  <1>2. CASE MaybeStart
    <2>1. UNCHANGED <<pc, ts, labels, ended, run>> /\ pc = "draw"
      BY <1>2 DEF MaybeStart
    <2>2. \A i : (\E c \in DOMAIN active : active[c].id = i) => \E c \in DOMAIN active' : active'[c].id = i
      <3>1. DOMAIN active \subseteq DOMAIN active' /\ \A c \in DOMAIN active : active'[c] = active[c]
        BY <1>2, MaybeStartBegins DEF Began
      <3> QED  BY <3>1
    <2> QED  BY <2>1, <2>2 DEF LabelsOfRun
  <1>3. CASE AdvanceAll
    <2>1. UNCHANGED <<ts, labels, run>> /\ pc = "draw" /\ pc' = "emit" /\ ended = {}
      BY <1>3 DEF AdvanceAll, InTick
    <2>2. ASSUME NEW c \in DOMAIN active
          PROVE  active[c].id \in ended' \/ (c \in DOMAIN active' /\ active'[c].id = active[c].id)
      <3>1. CASE c \in DOMAIN active'
        BY <1>3, <3>1, AdvanceStep, AdvancedOnce DEF TypeOK
      <3>2. CASE c \notin DOMAIN active'
        BY <1>3, <3>2, AdvanceStep
      <3> QED  BY <3>1, <3>2
    <2>3. \A i : (\E c \in DOMAIN active : active[c].id = i) =>
                     i \in ended' \/ \E c \in DOMAIN active' : active'[c].id = i
      BY <2>2
    <2> QED  BY <2>1, <2>3 DEF LabelsOfRun
  <1>4. CASE InsertLabel
    <2>1. UNCHANGED <<active, ended, ts, run, pc>> /\ started # <<>>
      BY <1>4 DEF InsertLabel
    <2> DEFINE n == started[1][1]
    <2>2. /\ n \in DOMAIN active /\ active[n].id = Old + 1
          /\ DOMAIN labels' = DOMAIN labels \cup {Old + 1}
          /\ labels'[Old + 1] = RowOf(n)
          /\ \A i \in DOMAIN labels : labels'[i] = labels[i]
      BY <1>4, InsertStep
    <2> HIDE DEF n
    <2>3. labels'[Old + 1].run = run /\ ~labels'[Old + 1].over
      BY <2>2 DEF RowOf
    <2>4. ASSUME NEW i \in DOMAIN labels
          PROVE  /\ labels[i].run <= run
                 /\ labels[i].run = run /\ pc # "down" /\ ~labels[i].over =>
                       i \in ended \/ \E c \in DOMAIN active : active[c].id = i
                 /\ labels[i].run = run /\ labels[i].over => labels[i].end < ts
      <3>1. labels[i].run = run /\ labels[i].over => labels[i].end < ts
        BY <2>1 DEF LabelsOfRun
      <3> QED  BY <3>1 DEF LabelsOfRun
    <2> QED  BY <1>0, <2>1, <2>2, <2>3, <2>4 DEF LabelsOfRun
  <1>5. CASE UpdateLabel
    <2>1. UNCHANGED <<active, started, ts, run, pc>> /\ started = <<>> /\ pc = "emit"
      BY <1>5 DEF UpdateLabel
    <2>2. PICK i \in ended :
              /\ ended' = ended \ {i} /\ i \in DOMAIN labels /\ DOMAIN labels' = DOMAIN labels
              /\ \A j \in DOMAIN labels \ {i} : labels'[j] = labels[j]
              /\ labels'[i].end = ts /\ labels'[i].over /\ labels'[i].run = labels[i].run
      BY <1>5, UpdateStep
    <2> QED  BY <1>0, <2>1, <2>2 DEF LabelsOfRun
  <1> QED  BY <1>1, <1>2, <1>3, <1>4, <1>5

\* The incident a report is sent with has its label.
LEMMA ReportIsKnown ==
    ASSUME TypeOK, InTick, StartedIsNew, ActiveHaveLabels, Send
    PROVE  \/ Report.incident = 0
           \/ /\ Cells[idx] \in DOMAIN active /\ Report.incident = active[Cells[idx]].id
              /\ Labelled(Report.incident, Cells[idx])
  <1>1. started = <<>> /\ Report.incident = EffectOn(Cells[idx])
    BY DEF Send, Report
  <1>2. Len(<<>>) = 0 /\ begun \in Nat
    BY DEF TypeOK
  <1>3. Old = begun
    BY <1>1, <1>2 DEF Old
  <1> QED  BY <1>1, <1>3 DEF EffectOn, ActiveHaveLabels

\* How a step changes the reports and the labels they show.
LEMMA ReportsStep ==
    ASSUME TypeOK, InTick, EndedHaveLabels, StartedIsNew, [Next]_vars
    PROVE  /\ \/ Send /\ reports' = reports \cup {Report}
              \/ UNCHANGED reports
           /\ DOMAIN labels \subseteq DOMAIN labels'
           /\ \A i \in DOMAIN labels : /\ labels'[i].cell = labels[i].cell
                                       /\ labels'[i].start = labels[i].start
                                       /\ labels'[i].run = labels[i].run
                                       /\ labels'[i].total = labels[i].total
  <1>1. CASE UNCHANGED vars \/ Elapse \/ Start \/ BackfillTick \/ LiveTick \/ MaybeStart
             \/ AdvanceAll \/ ProcessEnds
    BY <1>1 DEF vars, Elapse, Start, BackfillTick, LiveTick, TickAt, MaybeStart, AdvanceAll, ProcessEnds
  <1>2. CASE InsertLabel
    BY <1>2, InsertStep DEF InsertLabel
  <1>3. CASE UpdateLabel
    <2>1. UNCHANGED reports
      BY <1>3 DEF UpdateLabel
    <2> QED  BY <1>3, <2>1, UpdateStep
  <1>4. CASE Send
    <2>1. UNCHANGED labels
      BY <1>4 DEF Send
    <2> QED  BY <1>4, <2>1, SendStep
  <1> QED  BY <1>1, <1>2, <1>3, <1>4 DEF Next

\* _emit_tick sends its reports after the labels.
LEMMA EffectsAreKnownNext ==
    ASSUME TypeOK, InTick, StartedIsNew, ActiveHaveLabels, EndedHaveLabels, EffectsAreKnown, [Next]_vars
    PROVE  EffectsAreKnown'
  <1> SUFFICES ASSUME NEW r \in reports', r.incident # 0
               PROVE  /\ r.incident \in DOMAIN labels'
                      /\ labels'[r.incident].cell = r.cell /\ labels'[r.incident].start <= r.ts
    BY DEF EffectsAreKnown
  <1>1. CASE r \in reports
    BY <1>1, ReportsStep DEF EffectsAreKnown
  <1>2. CASE Send /\ r = Report
    <2>1. Labelled(r.incident, Cells[idx])
      BY <1>2, ReportIsKnown
    <2>2. r.cell = Cells[idx] /\ r.ts = ts
      BY <1>2 DEF Report
    <2> QED  BY <2>1, <2>2, ReportsStep DEF Labelled
  <1> QED  BY <1>1, <1>2, ReportsStep

\* Reports come in the order of the ticks, and of the cells within a tick.
LEMMA ReportsOfRunNext ==
    ASSUME TypeOK, InTick, StartedIsNew, ActiveHaveLabels, EndedHaveLabels, EffectsAreKnown,
           ReportsOfRun, [Next]_vars
    PROVE  ReportsOfRun'
  <1>0. /\ ts \in Int /\ run \in Nat /\ idx \in Nat
        /\ \A r \in reports : r.ts \in Int /\ r.run \in Nat
    BY DEF TypeOK
  <1>1. ASSUME NEW r \in reports
        PROVE  r.incident \in DOMAIN labels' => labels'[r.incident].run = r.run
    <2>1. CASE r.incident = 0
      <3>1. 0 \notin DOMAIN labels'
        BY StartedIsNewNext DEF StartedIsNew
      <3> QED  BY <2>1, <3>1
    <2>2. CASE r.incident # 0
      <3>1. r.incident \in DOMAIN labels /\ labels[r.incident].run = r.run
        BY <2>2 DEF EffectsAreKnown, ReportsOfRun
      <3> QED  BY <3>1, ReportsStep
    <2> QED  BY <2>1, <2>2
  <1>2. ASSUME NEW r \in reports
        PROVE  /\ r.run <= run'
               /\ r.run = run' =>
                     /\ r.ts <= ts'
                     /\ pc' = "draw" => r.ts < ts'
                     /\ pc' = "emit" /\ r.ts = ts' => \E k \in 1 .. idx' - 1 : Cells[k] = r.cell
    <2>0. /\ r.run <= run
          /\ r.run = run => /\ r.ts <= ts
                            /\ pc = "draw" => r.ts < ts
                            /\ pc = "emit" /\ r.ts = ts => \E k \in 1 .. idx - 1 : Cells[k] = r.cell
      BY DEF ReportsOfRun
    <2>1. CASE UNCHANGED vars \/ Elapse \/ InsertLabel \/ UpdateLabel
      BY <2>0, <2>1 DEF vars, Elapse, InsertLabel, UpdateLabel
    <2>2. CASE Start
      BY <1>0, <2>0, <2>2 DEF Start
    <2>3. CASE BackfillTick \/ LiveTick
      <3>1. PICK t \in Nat : TickAt(t) /\ ts < t
        BY <2>3, SizesAssumption DEF TypeOK, InTick, BackfillTick, LiveTick
      <3> QED  BY <1>0, <2>0, <3>1 DEF TickAt
    <2>4. CASE MaybeStart \/ AdvanceAll
      BY <1>0, <2>0, <2>4 DEF MaybeStart, AdvanceAll
    <2>5. CASE Send
      <3>1. UNCHANGED <<ts, run>> /\ pc = "emit"
        BY <2>5 DEF Send
      <3>2. (pc' = "emit" /\ idx' = idx + 1) \/ pc' = "idle"
        BY <2>5, SendStep
      <3>3. \A k \in 1 .. idx - 1 : k \in 1 .. (idx + 1) - 1
        BY <1>0
      <3> QED  BY <2>0, <3>1, <3>2, <3>3
    <2>6. CASE ProcessEnds
      BY <2>0, <2>6 DEF ProcessEnds
    <2> QED  BY <2>1, <2>2, <2>3, <2>4, <2>5, <2>6 DEF Next
  <1>3. ASSUME Send
        PROVE  /\ Report.run <= run'
               /\ Report.run = run' =>
                     /\ Report.ts <= ts'
                     /\ pc' = "draw" => Report.ts < ts'
                     /\ pc' = "emit" /\ Report.ts = ts' => \E k \in 1 .. idx' - 1 : Cells[k] = Report.cell
               /\ Report.incident \in DOMAIN labels' => labels'[Report.incident].run = Report.run
    <2>1. Report.run = run /\ Report.ts = ts /\ Report.cell = Cells[idx] /\ UNCHANGED <<ts, run, labels>>
      BY <1>3 DEF Report, Send
    <2>2. (pc' = "emit" /\ idx' = idx + 1 /\ idx \in 1 .. Len(Cells)) \/ pc' = "idle"
      BY <1>3, SendStep
    <2>3. pc' = "emit" => \E k \in 1 .. idx' - 1 : Cells[k] = Cells[idx]
      <3>1. CASE pc' = "emit"
        <4>1. idx \in 1 .. idx' - 1
          BY <1>0, <2>2, <3>1
        <4> QED  BY <4>1
      <3> QED  BY <3>1
    <2>4. Report.incident \in DOMAIN labels => labels[Report.incident].run = run
      <3>1. 0 \notin DOMAIN labels
        BY DEF StartedIsNew
      <3> QED  BY <1>3, <3>1, ReportIsKnown DEF Labelled
    <2> QED  BY <1>0, <2>1, <2>2, <2>3, <2>4
  <1> QED  BY <1>1, <1>2, <1>3, ReportsStep DEF ReportsOfRun

\* No report of this tick is sent while a label is missing or open although it ended.
LEMMA NoneSentYet ==
    ASSUME TypeOK, InTick, ReportsOfRun, pc = "emit", started # <<>> \/ ended # {},
           NEW r \in reports, r.run = run
    PROVE  r.ts < ts
  <1>1. ~(idx > 1) /\ idx \in Nat
    BY DEF InTick, TypeOK
  <1>2. r.ts <= ts /\ r.ts # ts
    BY <1>1 DEF ReportsOfRun
  <1>3. r.ts \in Int /\ ts \in Int
    BY DEF TypeOK
  <1> QED  BY <1>2, <1>3

\* The report of a cell with an open label shows it, and that of a cell whose incident is
\* over does not.
LEMMA ReportIsExact ==
    ASSUME TypeOK, InTick, StartedIsNew, ActiveHaveLabels, LabelsOfRun, Send,
           NEW i \in DOMAIN labels, Of(i, Report)
    PROVE  /\ ~labels[i].over => Report.incident = i
           /\ labels[i].over => Report.incident # i /\ labels[i].end <= ts
  <1>1. Report.cell = Cells[idx] /\ Report.run = run /\ Report.incident = EffectOn(Cells[idx])
    BY DEF Report
  <1>2. labels[i].cell = Cells[idx] /\ labels[i].run = run
    BY <1>1 DEF Of
  <1>3. started = <<>> /\ ended = {} /\ pc = "emit"
    BY DEF Send
  <1>4. CASE labels[i].over
    <2>1. labels[i].end <= ts
      BY <1>2, <1>4 DEF LabelsOfRun
    <2>2. 0 \notin DOMAIN labels
      BY DEF StartedIsNew
    <2>3. Report.incident # i
      BY <1>4, <2>2, ReportIsKnown DEF Labelled
    <2> QED  BY <1>4, <2>1, <2>3
  <1>5. CASE ~labels[i].over
    <2>1. PICK c \in DOMAIN active : active[c].id = i
      BY <1>2, <1>3, <1>5 DEF LabelsOfRun
    <2>2. i <= Old
      BY DEF StartedIsNew
    <2>3. labels[i].cell = c
      BY <2>1, <2>2 DEF ActiveHaveLabels, Labelled
    <2> QED  BY <1>1, <1>2, <1>5, <2>1, <2>3 DEF EffectOn
  <1> QED  BY <1>4, <1>5

\* How a step changes whether labels are over: a new one is not, and one that ended is,
\* from this tick on.
LEMMA OverStep ==
    ASSUME TypeOK, InTick, StartedIsNew, EndedHaveLabels, [Next]_vars
    PROVE  \A i \in DOMAIN labels' :
               \/ i \in DOMAIN labels /\ labels'[i] = labels[i]
               \/ /\ InsertLabel /\ i = Old + 1 /\ i \notin DOMAIN labels
                  /\ ~labels'[i].over /\ labels'[i].start = ts /\ labels'[i].run = run
                  /\ labels'[i].cell \in DOMAIN active /\ active[labels'[i].cell].id = i
               \/ /\ UpdateLabel /\ i \in ended /\ i \in DOMAIN labels
                  /\ labels'[i].over /\ labels'[i].end = ts
  <1>1. CASE ~InsertLabel /\ ~UpdateLabel
    <2>1. UNCHANGED labels
      BY <1>1 DEF Next, vars, Elapse, Start, BackfillTick, LiveTick, TickAt, MaybeStart, AdvanceAll,
            Send, ProcessEnds
    <2> QED  BY <2>1
  <1>2. CASE InsertLabel
    <2> DEFINE n == started[1][1]
    <2>1. /\ n \in DOMAIN active /\ active[n].id = Old + 1 /\ Old + 1 \notin DOMAIN labels
          /\ DOMAIN labels' = DOMAIN labels \cup {Old + 1}
          /\ labels'[Old + 1] = RowOf(n)
          /\ \A i \in DOMAIN labels : labels'[i] = labels[i]
      BY <1>2, InsertStep
    <2> HIDE DEF n
    <2>2. /\ labels'[Old + 1].cell = n /\ labels'[Old + 1].start = ts
          /\ labels'[Old + 1].run = run /\ ~labels'[Old + 1].over
      BY <2>1 DEF RowOf
    <2> QED  BY <1>2, <2>1, <2>2
  <1>3. CASE UpdateLabel
    <2>1. PICK i \in ended :
              /\ i \in DOMAIN labels /\ DOMAIN labels' = DOMAIN labels
              /\ \A j \in DOMAIN labels \ {i} : labels'[j] = labels[j]
              /\ labels'[i].end = ts /\ labels'[i].over
      BY <1>3, UpdateStep
    <2> QED  BY <1>3, <2>1
  <1> QED  BY <1>1, <1>2, <1>3

\* A step that ends the run or begins the next one leaves no label open.
LEMMA RunStep ==
    ASSUME TypeOK, InTick, LabelsOfRun, [Next]_vars, pc' # "down",
           NEW i \in DOMAIN labels, labels[i].run = run'
    PROVE  pc # "down" /\ run' = run
  <1>1. labels[i].run <= run /\ run \in Nat
    BY DEF LabelsOfRun, TypeOK
  <1>2. ~Start
    BY <1>1 DEF Start
  <1>3. CASE Elapse \/ UNCHANGED vars
    <2>1. UNCHANGED <<pc, run>>
      BY <1>3 DEF Elapse, vars
    <2> QED  BY <2>1
  <1>4. CASE BackfillTick \/ LiveTick \/ MaybeStart \/ AdvanceAll \/ InsertLabel \/ UpdateLabel \/ Send
    BY <1>4 DEF BackfillTick, LiveTick, TickAt, MaybeStart, AdvanceAll, InsertLabel, UpdateLabel, Send
  <1>5. ~ProcessEnds
    BY DEF ProcessEnds
  <1> QED  BY <1>2, <1>3, <1>4, <1>5 DEF Next

\* Every report of a cell shows the incident its label has open.
LEMMA OpenIsExactNext ==
    ASSUME TypeOK, InTick, StartedIsNew, ActiveHaveLabels, EndedHaveLabels, LabelsOfRun,
           ReportsOfRun, OpenIsExact, [Next]_vars
    PROVE  OpenIsExact'
  <1> SUFFICES ASSUME NEW i \in DOMAIN labels', labels'[i].run = run', pc' # "down", ~labels'[i].over,
                      NEW r \in reports', r.cell = labels'[i].cell, r.run = labels'[i].run,
                      r.ts >= labels'[i].start
               PROVE  r.incident = i
    BY DEF OpenIsExact, Of
  <1>1. CASE i \in DOMAIN labels /\ labels'[i] = labels[i]
    <2>1. pc # "down" /\ run' = run
      BY <1>1, RunStep
    <2>2. Of(i, r)
      BY <1>1 DEF Of
    <2>3. CASE r \in reports
      BY <1>1, <2>1, <2>2, <2>3 DEF OpenIsExact
    <2>4. CASE Send /\ r = Report
      BY <1>1, <2>2, <2>4, ReportIsExact
    <2> QED  BY <2>3, <2>4, ReportsStep
  <1>2. CASE InsertLabel /\ labels'[i].start = ts /\ labels'[i].run = run
    <2>1. pc = "emit" /\ started # <<>> /\ UNCHANGED reports
      BY <1>2 DEF InsertLabel
    <2>2. r.ts < ts
      BY <1>2, <2>1, NoneSentYet
    <2>3. r.ts \in Int /\ ts \in Int
      BY <2>1 DEF TypeOK
    <2> QED  BY <1>2, <2>2, <2>3
  <1> QED  BY <1>1, <1>2, OverStep

\* The end written for an incident is that of its effects.
LEMMA OverIsExactNext ==
    ASSUME TypeOK, InTick, StartedIsNew, ActiveHaveLabels, EndedHaveLabels, LabelsOfRun,
           ReportsOfRun, OpenIsExact, OverIsExact, [Next]_vars
    PROVE  OverIsExact'
  <1> SUFFICES ASSUME NEW i \in DOMAIN labels', labels'[i].over,
                      NEW r \in reports', r.cell = labels'[i].cell, r.run = labels'[i].run,
                      r.ts >= labels'[i].start
               PROVE  r.incident = i <=> r.ts < labels'[i].end
    BY DEF OverIsExact, Of
  <1>1. CASE i \in DOMAIN labels /\ labels'[i] = labels[i]
    <2>1. Of(i, r)
      BY <1>1 DEF Of
    <2>2. CASE r \in reports
      BY <1>1, <2>1, <2>2 DEF OverIsExact
    <2>3. CASE Send /\ r = Report
      <3>1. r.incident # i /\ labels[i].end <= ts /\ r.ts = ts
        BY <1>1, <2>1, <2>3, ReportIsExact DEF Report
      <3>2. ts \in Int /\ labels[i].end \in Int
        <4>1. labels[i] \in Label
          BY <1>1 DEF TypeOK
        <4> QED  BY <4>1 DEF Label, TypeOK
      <3> QED  BY <1>1, <3>1, <3>2
    <2> QED  BY <2>2, <2>3, ReportsStep
  <1>2. CASE UpdateLabel /\ i \in ended /\ i \in DOMAIN labels /\ labels'[i].end = ts
    <2>1. pc = "emit" /\ ended # {} /\ UNCHANGED reports
      BY <1>2 DEF UpdateLabel
    <2>2. labels[i].run = run /\ ~labels[i].over
      BY <1>2 DEF EndedHaveLabels, Labelled
    <2>3. Of(i, r) /\ r.run = run
      BY <1>2, <2>2, ReportsStep DEF Of
    <2>4. r.incident = i
      BY <1>2, <2>1, <2>2, <2>3 DEF OpenIsExact
    <2>5. r.ts < ts
      BY <2>1, <2>3, NoneSentYet
    <2> QED  BY <1>2, <2>4, <2>5
  <1> QED  BY <1>1, <1>2, OverStep

\* A cell's next incident of the run begins after the last one is over.
LEMMA DisjointInARunNext ==
    ASSUME TypeOK, InTick, StartedIsNew, ActiveHaveLabels, EndedHaveLabels, LabelsOfRun,
           DisjointInARun, [Next]_vars
    PROVE  DisjointInARun'
  <1> SUFFICES ASSUME NEW i \in DOMAIN labels', NEW j \in DOMAIN labels', i < j,
                      labels'[i].cell = labels'[j].cell, labels'[i].run = labels'[j].run
               PROVE  labels'[i].over /\ labels'[i].end < labels'[j].start
    BY DEF DisjointInARun
  <1>0. DOMAIN labels \subseteq 1 .. Old /\ Old \in Nat
    BY DEF StartedIsNew
  <1>1. CASE i \in DOMAIN labels /\ j \in DOMAIN labels
    <2>1. labels[i].over /\ labels[i].end < labels[j].start
      BY <1>1, ReportsStep DEF DisjointInARun
    <2>2. \/ labels'[i] = labels[i]
          \/ i \in ended /\ ~labels[i].over
      BY <1>1, OverStep DEF EndedHaveLabels, Labelled
    <2> QED  BY <1>1, <2>1, <2>2, ReportsStep
  <1>2. CASE /\ InsertLabel /\ j = Old + 1 /\ j \notin DOMAIN labels
             /\ labels'[j].start = ts /\ labels'[j].run = run
             /\ labels'[j].cell \in DOMAIN active /\ active[labels'[j].cell].id = j
    <2>1. i \in DOMAIN labels /\ labels'[i] = labels[i]
      <3>1. ~UpdateLabel
        BY <1>2 DEF InsertLabel, UpdateLabel
      <3>2. i # Old + 1
        BY <1>0, <1>2
      <3> QED  BY <3>1, <3>2, OverStep
    <2>2. pc = "emit" /\ started # <<>>
      BY <1>2 DEF InsertLabel
    <2>3. i \notin ended
      BY <1>2, <2>1 DEF EndedHaveLabels, Labelled
    <2>4. \A c \in DOMAIN active : active[c].id # i
      <3> TAKE c \in DOMAIN active
      <3> SUFFICES ASSUME active[c].id = i  PROVE FALSE
        OBVIOUS
      <3>1. labels[i].cell = c
        BY <1>0, <2>1 DEF ActiveHaveLabels, Labelled
      <3> QED  BY <1>2, <2>1, <3>1
    <2>5. labels[i].over
      BY <1>2, <2>1, <2>2, <2>3, <2>4 DEF LabelsOfRun
    <2>6. labels[i].end < ts
      BY <1>2, <2>1, <2>2, <2>5 DEF LabelsOfRun
    <2> QED  BY <1>2, <2>1, <2>5, <2>6
  <1>3. CASE InsertLabel /\ i = Old + 1 /\ i \notin DOMAIN labels
    <2>1. j \in DOMAIN labels \/ j = Old + 1
      BY <1>3, OverStep
    <2> QED  BY <1>0, <1>3, <2>1
  <1> QED  BY <1>1, <1>2, <1>3, OverStep
-----------------------------------------------------------------------------
\* The reports that show an incident are finitely many; what a step does to them.
LEMMA ShowingStep ==
    ASSUME TypeOK, InTick, StartedIsNew, EndedHaveLabels, ReportsOfRun, IsFiniteSet(reports), [Next]_vars
    PROVE  /\ IsFiniteSet(reports')
           /\ \A i : IsFiniteSet(Showing(i)) /\ Cardinality(Showing(i)) \in Nat
           /\ \A i : \/ Showing(i)' = Showing(i) /\ ~(Send /\ Report.incident = i)
                     \/ /\ Send /\ Report.incident = i
                        /\ Cardinality(Showing(i)') = Cardinality(Showing(i)) + 1
  <1>1. ASSUME NEW i  PROVE IsFiniteSet(Showing(i)) /\ Cardinality(Showing(i)) \in Nat
    <2>1. Showing(i) \subseteq reports
      BY DEF Showing
    <2> QED  BY <2>1, FS_Subset, FS_CardinalityType
  <1>2. CASE ~Send
    <2>1. UNCHANGED reports
      BY <1>2, ReportsStep
    <2> QED  BY <1>1, <1>2, <2>1 DEF Showing
  <1>3. CASE Send
    <2>1. reports' = reports \cup {Report}
      BY <1>3, SendStep
    <2>2. Report \notin reports
      <3>1. Report.run = run /\ Report.ts = ts /\ Report.cell = Cells[idx] /\ pc = "emit"
        BY <1>3 DEF Report, Send
      <3>2. ASSUME Report \in reports  PROVE FALSE
        <4>1. PICK k \in 1 .. idx - 1 : Cells[k] = Cells[idx]
          BY <3>1, <3>2 DEF ReportsOfRun
        <4>2. idx \in 1 .. Len(Cells) /\ Len(Cells) \in Nat
          BY <1>3, SendStep, Places
        <4>3. k \in 1 .. Len(Cells) /\ k # idx
          BY <4>2
        <4> QED  BY <4>1, <4>2, <4>3, Places
      <3> QED  BY <3>2
    <2>3. IsFiniteSet(reports')
      BY <2>1, FS_AddElement
    <2>4. ASSUME NEW i  PROVE \/ Showing(i)' = Showing(i) /\ Report.incident # i
                              \/ /\ Report.incident = i
                                 /\ Cardinality(Showing(i)') = Cardinality(Showing(i)) + 1
      <3>1. CASE Report.incident = i
        <4>1. Showing(i)' = Showing(i) \cup {Report} /\ Report \notin Showing(i)
          BY <2>1, <2>2, <3>1 DEF Showing
        <4>2. Cardinality(Showing(i) \cup {Report}) = Cardinality(Showing(i)) + 1
          BY <1>1, <4>1, FS_AddElement
        <4> QED  BY <3>1, <4>1, <4>2
      <3>2. CASE Report.incident # i
        BY <2>1, <3>2 DEF Showing
      <3> QED  BY <3>1, <3>2
    <2> QED  BY <1>1, <1>3, <2>3, <2>4
  <1> QED  BY <1>2, <1>3

\* The cells left to report after one of them.
LEMMA UnsentStep ==
    ASSUME TypeOK, InTick, Send
    PROVE  Cells[idx] \in Unsent /\ Unsent' = Unsent \ {Cells[idx]}
  <1>1. /\ idx \in 1 .. Len(Cells) /\ Len(Cells) \in Nat
        /\ \/ idx < Len(Cells) /\ idx' = idx + 1 /\ pc' = "emit"
           \/ idx = Len(Cells) /\ pc' = "idle"
    BY SendStep, Places
  <1>2. Unsent = {Cells[k] : k \in idx .. Len(Cells)}
    BY DEF Unsent, Send
  <1>3. Cells[idx] \in Unsent
    BY <1>1, <1>2
  <1>4. \A k \in idx .. Len(Cells) : Cells[k] = Cells[idx] => k = idx
    <2> TAKE k \in idx .. Len(Cells)
    <2>1. k \in 1 .. Len(Cells)
      BY <1>1
    <2> QED  BY <1>1, <2>1, Places
  <1>5. CASE idx < Len(Cells) /\ idx' = idx + 1 /\ pc' = "emit"
    <2>1. Unsent' = {Cells[k] : k \in idx + 1 .. Len(Cells)}
      BY <1>5 DEF Unsent
    <2>2. \A k \in Int : k \in idx + 1 .. Len(Cells) <=> k \in idx .. Len(Cells) /\ k # idx
      BY <1>1
    <2>3. Unsent \ {Cells[idx]} = {Cells[k] : k \in {m \in idx .. Len(Cells) : m # idx}}
      BY <1>2, <1>4
    <2>4. {m \in idx .. Len(Cells) : m # idx} = idx + 1 .. Len(Cells)
      BY <1>1
    <2> QED  BY <1>3, <2>1, <2>3, <2>4
  <1>6. CASE idx = Len(Cells) /\ pc' = "idle"
    <2>1. Unsent' = {}
      BY <1>6 DEF Unsent
    <2>2. \A k \in idx .. Len(Cells) : k = idx
      BY <1>1, <1>6
    <2> QED  BY <1>2, <1>3, <2>1, <2>2
  <1> QED  BY <1>1, <1>3, <1>5, <1>6

\* An incident shows in one report of each tick but its last.
LEMMA OneReportPerTickNext ==
    ASSUME TypeOK, InTick, StartedIsNew, ActiveHaveLabels, EndedHaveLabels, ReportsOfRun,
           OneReportPerTick, [Next]_vars
    PROVE  OneReportPerTick'
  <1>0. /\ IsFiniteSet(reports) /\ IsFiniteSet(reports') /\ begun \in Nat
        /\ \A i : Cardinality(Showing(i)) \in Nat
    BY ShowingStep DEF OneReportPerTick, TypeOK
  <1>1. CASE ~MaybeStart /\ ~AdvanceAll /\ ~InsertLabel /\ ~UpdateLabel /\ ~Send
    <2>1. UNCHANGED <<reports, labels>>
      BY <1>1, QuietStep, ReportsStep
    <2>2. \/ UNCHANGED <<active, ended>> /\ Unsent' = Unsent
          \/ DOMAIN active' = {} /\ ended' = {}
          \/ UNCHANGED active /\ ended' = {} /\ Unsent' = Unsent
      <3>1. CASE UNCHANGED vars
        BY <3>1 DEF vars, Unsent
      <3>2. CASE Elapse
        BY <3>2 DEF Elapse, Unsent
      <3>3. CASE Start
        BY <3>3 DEF Start, InTick
      <3>4. CASE BackfillTick \/ LiveTick
        BY <3>4 DEF BackfillTick, LiveTick, TickAt, Unsent
      <3>5. CASE ProcessEnds
        <4>1. active' = <<>> /\ ended' = {}
          BY <3>5 DEF ProcessEnds
        <4> QED  BY <4>1
      <3> QED  BY <1>1, <3>1, <3>2, <3>3, <3>4, <3>5 DEF Next
    <2> QED  BY <2>1, <2>2 DEF OneReportPerTick, Showing
  <1>2. CASE MaybeStart
    <2>0. UNCHANGED <<pc, reports, labels, ended>> /\ pc = "draw" /\ ended = {}
      BY <1>2 DEF MaybeStart, InTick
    <2>1. Unsent = {} /\ Unsent' = {} /\ \A i : Showing(i)' = Showing(i)
      BY <2>0 DEF Unsent, Showing
    <2>2. CASE UNCHANGED active
      BY <1>0, <2>0, <2>1, <2>2 DEF OneReportPerTick, Showing
    <2>3. ASSUME NEW hit, NEW phases \in PhaseTables, Began(hit, phases), NEW c \in DOMAIN active'
          PROVE  Cardinality(Showing(active[c].id)') = Elapsed(active'[c])
      <3>1. CASE c \in DOMAIN active
        <4>1. active'[c] = active[c]
          BY <2>3, <3>1 DEF Began
        <4>2. Cardinality(Showing(active[c].id)) = Elapsed(active[c])
          BY <2>1, <3>1 DEF OneReportPerTick
        <4> QED  BY <2>0, <4>1, <4>2 DEF Showing
      <3>2. CASE c \in ToSet(hit)
        <4>1. PICK i \in 1 .. Len(hit) : active'[c] = NewIncident(begun + i, phases)
          BY <2>3, <3>2 DEF Began
        <4>2. active'[c].id = begun + i /\ active'[c].phase = "onset" /\ active'[c].ticks = 0
          BY <4>1 DEF NewIncident
        <4>3. begun + i > begun /\ begun + i \notin {0} \cup Ids
          <5>1. Len(hit) \in Nat
            BY <2>3 DEF Began
          <5> QED  BY <1>0, <5>1 DEF Ids
        <4>4. \A r \in reports : r.incident \in {0} \cup Ids
          BY DEF TypeOK
        <4>5. Showing(active[c].id)' = {}
          BY <2>0, <4>2, <4>3, <4>4 DEF Showing
        <4>6. Elapsed(active'[c]) = 0
          BY <4>2 DEF Elapsed
        <4> QED  BY <4>5, <4>6, FS_EmptySet
      <3> QED  BY <2>3, <3>1, <3>2 DEF Began
    <2>4. ASSUME NEW hit, NEW phases \in PhaseTables, Began(hit, phases)
          PROVE  OneReportPerTick'
      BY <1>0, <2>0, <2>1, <2>3, <2>4 DEF OneReportPerTick
    <2> QED  BY <1>2, <2>2, <2>4, MaybeStartBegins
  <1>3. CASE AdvanceAll
    <2>0. UNCHANGED <<reports, labels>> /\ pc = "draw" /\ pc' = "emit" /\ idx' = 1
      BY <1>3 DEF AdvanceAll
    <2>1. Unsent = {} /\ Unsent' = {Cells[k] : k \in 1 .. Len(Cells)}
      BY <2>0 DEF Unsent
    <2>2. \A c \in DOMAIN active : c \in Unsent'
      BY <2>1, Places DEF TypeOK
    <2>3. \A c \in DOMAIN active : /\ Cardinality(Showing(active[c].id)) = Elapsed(active[c])
                                   /\ Elapsed(active[c]) \in Nat
      BY <2>1, AdvancedOnce DEF OneReportPerTick, TypeOK
    <2>4. ASSUME NEW c \in DOMAIN active'
          PROVE  Cardinality(Showing(active[c].id)') = Elapsed(active'[c]) - 1
      <3>1. c \in DOMAIN active /\ active'[c] = Advanced(active[c]) /\ Advanced(active[c]).phase # "closed"
        BY <1>3, AdvanceStep
      <3>2. active'[c].id = active[c].id /\ Elapsed(active'[c]) = Elapsed(active[c]) + 1
        BY <3>1, AdvancedOnce DEF TypeOK
      <3>3. Showing(active[c].id)' = Showing(active[c].id)
        BY <2>0, <3>2 DEF Showing
      <3> QED  BY <2>3, <3>1, <3>2, <3>3
    <2>5. ASSUME NEW i \in ended'  PROVE Cardinality(Showing(i)') = labels'[i].total - 1
      <3>1. PICK c \in DOMAIN active \ DOMAIN active' : i = active[c].id
        BY <1>3, AdvanceStep
      <3>2. Elapsed(active[c]) + 1 = Total(active[c].phases)
        BY <1>3, AdvanceStep, AdvancedOnce DEF TypeOK
      <3>3. labels[i].total = Total(active[c].phases)
        BY <1>3, <3>1, ClosingIsOld DEF ActiveHaveLabels
      <3>4. Showing(i)' = Showing(i)
        BY <2>0 DEF Showing
      <3> QED  BY <2>0, <2>3, <3>1, <3>2, <3>3, <3>4
    <2>6. DOMAIN active' \subseteq DOMAIN active
      BY <1>3, AdvanceStep
    <2> QED  BY <1>0, <2>2, <2>4, <2>5, <2>6 DEF OneReportPerTick
  <1>4. CASE InsertLabel \/ UpdateLabel
    <2>1. UNCHANGED <<pc, idx, active, reports>>
      BY <1>4 DEF InsertLabel, UpdateLabel
    <2>2. ended' \subseteq ended
      BY <1>4 DEF InsertLabel, UpdateLabel
    <2>3. \A i \in ended : labels'[i].total = labels[i].total
      BY ReportsStep DEF EndedHaveLabels, Labelled
    <2> QED  BY <1>0, <2>1, <2>2, <2>3 DEF OneReportPerTick, Showing, Unsent
  <1>5. CASE Send
    <2>1. UNCHANGED <<active, ended>> /\ ended = {} /\ Report.incident = EffectOn(Cells[idx])
      BY <1>5 DEF Send, Report
    <2>2. Cells[idx] \in Unsent /\ Unsent' = Unsent \ {Cells[idx]}
      BY <1>5, UnsentStep
    <2>3. ASSUME NEW c \in DOMAIN active
          PROVE  Cardinality(Showing(active[c].id)') =
                     IF c \in Unsent' THEN Elapsed(active[c]) - 1 ELSE Elapsed(active[c])
      <3>0. /\ active[c].id \in 1 .. begun /\ Elapsed(active[c]) \in Nat
            /\ Cardinality(Showing(active[c].id)) =
                   IF c \in Unsent THEN Elapsed(active[c]) - 1 ELSE Elapsed(active[c])
        BY AdvancedOnce DEF ActiveHaveLabels, TypeOK, OneReportPerTick
      <3>1. CASE c = Cells[idx]
        <4>1. Report.incident = active[c].id
          BY <2>1, <3>1 DEF EffectOn
        <4>2. \A i : Report.incident = i => Cardinality(Showing(i)') = Cardinality(Showing(i)) + 1
          BY <1>0, <1>5, ShowingStep
        <4>3. Cardinality(Showing(active[c].id)') = Cardinality(Showing(active[c].id)) + 1
          BY <2>1, <4>1, <4>2
        <4> QED  BY <2>2, <3>0, <3>1, <4>3
      <3>2. CASE c # Cells[idx]
        <4>1. Report.incident # active[c].id
          BY <1>0, <2>1, <3>0, <3>2 DEF EffectOn, ActiveHaveLabels
        <4>2. Showing(active[c].id)' = Showing(active[c].id)
          BY <1>0, <2>1, <4>1, ShowingStep
        <4> QED  BY <2>2, <3>0, <3>2, <4>2
      <3> QED  BY <3>1, <3>2
    <2> QED  BY <1>0, <2>1, <2>3 DEF OneReportPerTick
  <1> QED  BY <1>1, <1>2, <1>3, <1>4, <1>5

\* The reports of an incident that is over are counted once and for all.
LEMMA RunsItsCourseNext ==
    ASSUME TypeOK, InTick, StartedIsNew, ActiveHaveLabels, EndedHaveLabels, ReportsOfRun,
           OneReportPerTick, RunsItsCourse, [Next]_vars
    PROVE  RunsItsCourse'
  <1> SUFFICES ASSUME NEW i \in DOMAIN labels', labels'[i].over
               PROVE  Cardinality(Showing(i)') = labels'[i].total - 1
    BY DEF RunsItsCourse, Showing
  <1>0. IsFiniteSet(reports)
    BY DEF OneReportPerTick
  <1>1. CASE i \in DOMAIN labels /\ labels'[i] = labels[i]
    <2>1. Cardinality(Showing(i)) = labels[i].total - 1
      BY <1>1 DEF RunsItsCourse, Showing
    <2>2. ASSUME Send  PROVE Report.incident # i
      <3>1. 0 \notin DOMAIN labels
        BY DEF StartedIsNew
      <3> QED  BY <1>1, <2>2, <3>1, ReportIsKnown DEF Labelled
    <2>3. Showing(i)' = Showing(i)
      BY <1>0, <2>2, ShowingStep
    <2> QED  BY <1>1, <2>1, <2>3
  <1>2. CASE UpdateLabel /\ i \in ended /\ i \in DOMAIN labels
    <2>1. UNCHANGED reports
      BY <1>2 DEF UpdateLabel
    <2>2. Cardinality(Showing(i)) = labels[i].total - 1
      BY <1>2 DEF OneReportPerTick
    <2>3. labels'[i].total = labels[i].total
      BY <1>2, ReportsStep
    <2> QED  BY <2>1, <2>2, <2>3 DEF Showing
  <1> QED  BY <1>1, <1>2, OverStep
-----------------------------------------------------------------------------
\* The inductive invariant holds of every reachable state.
LEMMA IncidentInvHolds == Spec => []IncidentInv
  <1>1. Init => IncidentInv
    <2> SUFFICES ASSUME Init  PROVE IncidentInv
      OBVIOUS
    <2>1. /\ DOMAIN active = {} /\ DOMAIN labels = {} /\ started = <<>> /\ Len(started) = 0
          /\ ended = {} /\ reports = {} /\ begun = 0 /\ run = 0 /\ pc = "down" /\ now = Backfill
      BY DEF Init
    <2>2. TypeOK
      <3>1. started \in Seq(ToSet(Cells) \X Ids)
        BY <2>1
      <3>2. /\ now \in 0 .. MaxTime /\ until \in 0 .. MaxTime /\ ts \in -1 .. MaxTime
            /\ idx \in 1 .. Len(Cells) + 1 /\ faults \in 0 .. MaxFaults
        BY SizesAssumption, Places DEF Init
      <3> QED  BY <2>1, <3>1, <3>2 DEF TypeOK
    <2>3. InTick /\ StartedIsNew /\ ActiveHaveLabels /\ EndedHaveLabels
      BY <2>1, SizesAssumption DEF InTick, StartedIsNew, ActiveHaveLabels, EndedHaveLabels, Old
    <2>4. LabelsOfRun /\ ReportsOfRun /\ EffectsAreKnown /\ OpenIsExact /\ OverIsExact
          /\ DisjointInARun /\ RunsItsCourse
      BY <2>1 DEF LabelsOfRun, ReportsOfRun, EffectsAreKnown, OpenIsExact, OverIsExact,
            DisjointInARun, RunsItsCourse
    <2>5. OneReportPerTick
      BY <2>1, FS_EmptySet DEF OneReportPerTick
    <2> QED  BY <2>2, <2>3, <2>4, <2>5 DEF IncidentInv
  <1>2. IncidentInv /\ [Next]_vars => IncidentInv'
    <2> SUFFICES ASSUME IncidentInv, [Next]_vars  PROVE IncidentInv'
      OBVIOUS
    <2> USE DEF IncidentInv
    <2>1. TypeOK' /\ InTick' /\ StartedIsNew'
      BY TypeOKNext, InTickNext, StartedIsNewNext
    <2>2. ActiveHaveLabels' /\ EndedHaveLabels' /\ LabelsOfRun'
      BY ActiveHaveLabelsNext, EndedHaveLabelsNext, LabelsOfRunNext
    <2>3. ReportsOfRun' /\ EffectsAreKnown'
      BY ReportsOfRunNext, EffectsAreKnownNext
    <2>4. OpenIsExact' /\ OverIsExact' /\ DisjointInARun'
      BY OpenIsExactNext, OverIsExactNext, DisjointInARunNext
    <2>5. OneReportPerTick' /\ RunsItsCourse'
      BY OneReportPerTickNext, RunsItsCourseNext
    <2> QED  BY <2>1, <2>2, <2>3, <2>4, <2>5
  <1> QED  BY <1>1, <1>2, PTL DEF Spec

\* The simulator's state stays well typed; a closed incident is never active.
THEOREM TypeCorrect == Spec => []TypeOK
  <1>1. IncidentInv => TypeOK
    BY DEF IncidentInv
  <1> QED  BY <1>1, IncidentInvHolds, PTL

\* _emit_tick: no report shows an incident whose label is not stored yet, spillovers and
\* ends of the process included.
THEOREM EffectsHaveLabels == Spec => []EffectsAreKnown
  <1>1. IncidentInv => EffectsAreKnown
    BY DEF IncidentInv
  <1> QED  BY <1>1, IncidentInvHolds, PTL

\* _persist_ended: the label of an incident that is over is exactly what was reported.
THEOREM LabelsAreExact == Spec => []OverIsExact
  <1>1. IncidentInv => OverIsExact
    BY DEF IncidentInv
  <1> QED  BY <1>1, IncidentInvHolds, PTL

\* _advance and the loops: an incident that runs its course shows in one report less than
\* its phases have ticks, whatever the pace of the ticks.
THEOREM CourseIsReported == Spec => []RunsItsCourse
  <1>1. IncidentInv => RunsItsCourse
    BY DEF IncidentInv
  <1> QED  BY <1>1, IncidentInvHolds, PTL

\* _maybe_start and its spillover: the labels a run writes for a cell are disjoint.
THEOREM LabelsAreDisjoint == Spec => []DisjointInARun
  <1>1. IncidentInv => DisjointInARun
    BY DEF IncidentInv
  <1> QED  BY <1>1, IncidentInvHolds, PTL
=============================================================================
