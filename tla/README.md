# Specifications of the telecom monitoring platform

TLA+ modules, TLC instances and TLAPS proofs for the Python services under
`src/src`. Section 1 is the inventory of the system, section 2 the modules and
their correspondence to the code, section 3 the runs, section 4 the proofs,
section 5 what is left out, section 6 the plan.

## 1. Inventory

Simulator -> Kafka `network.metrics` -> processor -> PostgreSQL
(`raw`, `clean`, `ops`) -> ML worker (`ml.anomalies`) -> alert engine
(`ops.alerts`) -> ServiceNow or the mock sink. Batch ETL, API and Grafana read
the same database. Services share state only through Kafka and PostgreSQL.

| Component | State it keeps | Operations | Interacts with | Hard behaviour | Correct when |
|---|---|---|---|---|---|
| Stream processor (`pipeline/main.py`) | batch in hand, `pending_valid`, `pending_invalid`, consumer offsets, DLQ queue | consume, validate, `_send_dlq`, `_flush` (5 attempts), retry on empty poll, shutdown | Kafka (poll, commit, DLQ), writer, quality tracker | crash at any step, rebalance in librdkafka's thread, exceptions out of the loop, lost answers, DLQ time-outs | nothing is committed that is not stored; invalid messages reach the DLQ; the log is drained once faults stop |
| Batch writer (`pipeline/writer.py`) | `_recent_keys` window | `insert_batch`: raw, clean, invalid; `_remember` | one pooled connection | statements and pages are separately durable in autocommit mode; every retry repeats all three | clean never ahead of raw; duplicates absorbed by the key |
| Connection (`common/db.py`) | pool, autocommit of the first connection only | `get_conn`: commit / rollback / put back | writer, quality, engine, API | a reconnected connection is transactional, the first is not; the pool is not made for threads | what a failure leaves behind is covered by retries in both modes |
| Validation (`validator.py`, `schemas.py`) | none | one pure function of payload and clock | processor | the verdict on a message changes with time and with the cells known; some exceptions escape | every payload gets one verdict |
| Quality tracker (`quality.py`) | counters, `last_flush` | marks, `maybe_flush` | processor, database | its exceptions end the processor | received = valid + invalid |
| Alert engine (`alerts/engine.py`) | none between passes; `ops.alerts` | query candidates, insert alert, open ticket, link | sinks, database, ML results | statements of one pass are not atomic; two engines or two model versions see the same report | one ticket per report; links only to recorded tickets; cooldown; severe alerts ticketed |
| Sinks (`alerts/sink.py`) | `ops.servicenow_incidents` | POST, fallback, count, insert | ServiceNow, database | an applied POST whose answer is lost; COUNT(*)+1 as a number | as above |
| Severity, rules (`severity.py`, `explain/`) | none | pure functions | engine, API | order of the tests, boundaries | severity agrees with cause, and never falls when things get worse |
| Simulator (`simulator/*`) | active incidents, backfill clock | tick, persist labels, send events | Kafka, `ops.injected_incidents` | labels are persisted before events; a restart forgets incidents and repeats the backfill | labels match what the events show |
| ML worker (`ml/*`) | model bundle on disk | wait, load or train, score | `clean`, `ml.anomalies` | late rows, a crash while the model is written, INSERTs that outlive their worker | every clean row is scored, once, with one model per version |
| Batch ETL (`batch/run_etl.py`) | rollup tables | hourly and daily upsert | `clean`, `ml` | two statements with snapshots of their own, statements that outlive their ETL, a reconnect that makes them one transaction | rollups are of one snapshot each and converge to the facts |
| DLQ replay (`scripts/replay_dlq.py`) | offsets of `dlq-replay` | poll, produce, flush, commit | Kafka | crash before the one commit; messages that stay invalid cycle | no payload drops out; repaired ones are stored |
| API (`api/main.py`), evaluation, seed, migrations, config, logging, Grafana | - | read-only queries, idempotent DDL, wiring | database | migrations run by two services at once | - |

`PROJECT.json` lists the same components with what is modelled of each, and
the hazards at their lines.

## 2. Modules

| Module | What it is |
|---|---|
| `AtLeastOnce` | what the processor promises: offsets move forward, over settled messages only, and nothing settled is taken back |
| `Processor` | consumer, writer, connection and DLQ producer of one processor process |
| `MCProcessor` | its instances for TLC |
| `ProcessorProofs`, `ProcessorDeliveryProofs` | theorems about `Processor` |
| `AlertEngine` | several alert engines and the ticket sinks on one database |
| `MCAlertEngine`, `AlertEngineProofs` | its instances for TLC, theorems |
| `Incidents` | the simulator: incident state machine, ground-truth labels, backfill and live ticks |
| `MCIncidents`, `IncidentsProofs` | its instances for TLC, theorems |
| `Scoring` | the ml-worker: model file, training, scoring in batches |
| `Rollups` | the batch ETL: two upserts per interval |
| `Analytics` | the two on one database: `Scoring` extended, `Rollups` instantiated with its tables as facts |
| `MCAnalytics` | its instance for TLC |
| `ScoringProofs`, `AnalyticsProofs` | lemmas about the worker, theorems about the two together |
| `Verdicts` | what simulator, validation, ml rule, severity and explanation say of one report, as operators, and the way of a report through them |
| `MCVerdicts` | its instances for TLC |
| `VerdictsProofs` | theorems about `Verdicts` |
| `Replay` | the DLQ replay script and the loop it closes |
| `MCReplay`, `ReplayProofs` | its instance for TLC, theorems |

### Processor

The process is one thread, and `pc` names the call it is in; librdkafka, the
database and the operator take steps at every `pc`.

| Variables | In the code |
|---|---|
| `committed`, `assigned`, `fetchPos`, `stored` | the group's offsets, and librdkafka's view: assignment, position, the stored offsets that `commit()` sends |
| `running`, `closing`, `attempt`, `batch`, `pendV`, `pendI` | `_running`, being in the `finally` block, `attempt` of `_flush`, the unhandled rest of `msgs`, `pending_valid`, `pending_invalid` |
| `rows`, `recent` | `clean_rows` while it is built, `_recent_keys` (and `_recent_set`, its set) |
| `autocommit`, `db`, `txn` | the mode of the pooled connection, durable rows, rows of the open transaction |
| `dlqQueue`, `dlq` | the DLQ producer's queue, the DLQ topic |
| `abandoned`, `faults` | history: what an exception tore out of the loop; fault budget |

The path of a flush is `raw -> remember -> clean -> invalid -> dbcommit ->
dlqflush -> kcommit`; any of these steps may end in `AttemptFails`, which is the
`except Exception` of `_flush`. A message is its position `<<partition,
offset>>`; its content is what the code distinguishes: `KeyOf` (cell_id,
event_ts), `Verdicts` (what validation may say of it, depending on clock and
known cells), `NotJsonb` (payloads no JSONB column takes, as with a `\u0000` or NaN
inside: the raw and the invalid INSERT are rejected) and `NoCleanRow` (valid messages
whose clean row is rejected, as with a `site_id` that is not seeded). A statement with
such a row is rejected every time (`RawRejected`, `CleanRejected`, `InvalidRejected`)
after the pages before it. `consume()` may also return error events; the loop skips them
(main.py:133-135), and since they carry no offset a poll that returns nothing else is a
`PollRetries` or `PollEmpty`. Tables are sets of messages and keys, so the number
of raw rows per message is not counted. `execute_values` sends pages, so a
statement that fails in autocommit mode can leave its first pages behind
(`PagesRun`).

`consumer.consume()` stores the offset of each message it returns (librdkafka's
`enable.auto.offset.store` default) and `commit()` without arguments sends the
stored offsets; a revoked partition loses its stored offset; `commit()` with
nothing to send raises. These facts of librdkafka, the page size of
`execute_values` and PostgreSQL's transactions are the external part of the
model.

`consumer.close()` is modelled as committing nothing (`enable.auto.commit` is
off). Heartbeat, lag and counters change nothing the processor decides on and
are left out. A start that fails (`wait_for_kafka`, the first connection,
`_load_cell_ids`) is a process that stays `down`.

### AlertEngine

One engine's pass: `Query` (CANDIDATES_SQL, with ORDER BY and LIMIT in
`Newest`), then per candidate `InsertAlert`, and for severe alerts
`PostSucceeds` / `PostFallsBack` / `CountIncidents`, `RecordIncident`,
`LinkAlert`. Each is one statement or request, so two engines interleave between
any two of them. `DbFails` and `PostRaises` cover both a call that did nothing
and one whose answer was lost; `run()` then forgets the rest of the pass.
`remote` counts the tickets in the ServiceNow instance. The row of an alert also
records the time of its pass's query (`began`), for the cooldown property only.
Two anomalies with the same cell and timestamp are two model versions' scores of
one report; `ops.alerts` has one row for them (`Alerted`).

The scheduled pause between passes is left out: a pass may begin at any time.
Severity is a constant of the report (it is a function of its clean row).

### Incidents

A tick is `BackfillTick` or `LiveTick` (which timestamp), `MaybeStart` once per
cell in the order of the topology, `AdvanceAll`, then the statements of
`_emit_tick` in their order: `InsertLabel` per incident that began, `UpdateLabel`
per incident that ended, `Send` per cell. `now` is the wall clock in intervals;
it is read only when a tick begins, so a slow tick, and the time the backfill
takes, are `Elapse` steps between ticks. `active`, `started` and `ended` are those
of `IncidentManager`, `labels` is `ops.injected_incidents`. `reports` and the
fields `run`, `over` and `total` of a label are history for the properties. A report
is what a cell's message shows (`EffectOn`); its metrics, the intensity of the
effect and the deliberate corruption of some messages are left out. `ProcessEnds`
stands for a crash, for an exception, which nothing in `run()` catches, and for
SIGTERM: in all of them the active incidents are forgotten.

### Scoring, Rollups, Analytics

`pc` is the call the worker is about to make: `seek` and `Load`, `count`,
`train` (`train_and_save` up to the fit), `open` and `write` (`joblib.dump`,
which truncates the file first), `score` and `Read`, `insert`. A model is the
set of rows it was fitted on; a score keeps the model and the time of the report
its deltas were taken from (`prev`, 0 for NULL), the two things that depend on
when it is computed. `file` and `saved` are the model file, `bundle` the worker's
variable. One model version and one worker are modelled, as in compose; a worker
whose INSERT still runs on the server when the next one starts is `unheard`.

`etl` and `statement` say where `run_once` is. A statement carries its snapshot
(`Facts`), taken when it starts, and takes effect when it ends. On the first
connection each is durable by itself; after a lost connection
(`autocommit = FALSE`) both wait in `txn` for `EtlCommit`. `unended` holds what
the server may still make durable for a connection that is gone, one statement or
a committed pair. The server ends it at any later time, or drops it. A rollup is a
table: under each key the reports its row counts (averages are functions of them) and
the anomalies. `HourlyRows` groups both by cell and hour. `DailyRows` groups reports by
the `site_id` they carry (`DayOf`, run_etl.py:69) and anomalies by the site their cell
has in `ops.cells` (`SiteDayOf`, :82, :86), as `DAILY_SQL` does; the two differ for a
report that carries another seeded site, which neither validation nor a constraint
excludes. The LEFT JOIN (:99) drops anomalies for which there is no row of reports.
`Upsert` replaces the rows that are computed and leaves the others. `HourOf` and `DayOf`
name a row as a whole: a cell with its hour, a site with its day.

### Verdicts

One report at a time: `Produce` (`generate_event` and perhaps `corrupt_event`, live
or as old as the backfill) or `ProduceForeign` (any payload of `Foreign`),
`Process` after a wait of `lag` minutes, `Score`, `Alert`, `Again`. Every threshold
and class is the code's; the formulas of the physics before the last clamps are an
arbitrary choice of raw metrics from `Raw`, so what the clamps and the incident must
guarantee is shown for all of them. Metrics are integers and 0 stands for a
throughput below 1.0; `corrupt_event`'s -12.5 is -12. The forest's prediction is
arbitrary. `Validate` is `validate_payload` plus the `known_cells` test;
`ErrorClass` is what `_classify` finds in the text of pydantic's exception: the message
of a validator, the name of a field (why a type error in `signal_strength_dbm` is a
`range_fail`) or a value the text quotes (`Quotes`: a timestamp "missing" is a
`missing_field`). `Storable` is what the raw and the clean INSERT take: any seeded site,
which need not be that of the cell, no number above INTEGER, no NUL, no NaN.

### Replay

`Start` to `Commit` are the script's calls; `queue` is its producer's queue,
`Deliver` and `DeliveryFails` what librdkafka does with it, `Quit` every way out
through `finally`. The processor is reduced to what `Processor` shows: a message is
settled, possibly twice, then committed. A topic is the set of payloads behind the
committed offset; a payload may have several records, whose number and order change
nothing the properties speak of. `Repair` stands for the one thing that turns an
invalid payload valid, seeding its cell and restarting the processor; a payload
that ages out of validity counts as one of the never valid ones.

## 3. Runs

| Run | Configuration | Shows |
|---|---|---|
| `delivery` | `FairSpec`; 2 partitions with 2 + 1 messages, the two of one partition with the same key, a valid message, one whose validity depends on when it is read, an invalid one; batch 2, page 1, 2 attempts, window 1; 2 faults | `TypeOK`, `CommittedSettled`, `CommittedRouted`, `CleanHasRaw`, that `Processor` implements `AtLeastOnce`, and `EventuallyDrained` |
| `faults` | 2 + 2 messages: one makes validation raise, one has a clean row the database rejects, one a payload JSONB does not take, and the last two may be valid or invalid; the DLQ may time out, expire or raise; 1 fault | `CommittedSettled`, `CleanHasRaw` also when batches are torn out of the loop |
| `loss` | validation raises, no faults | violates `NothingLost` |
| `poison` | 3 valid messages, the clean row of one is rejected, no faults, `FairSpec` | violates `PoisonIsolated` |
| `alerts` | 2 interchangeable engines, 3 reports (one of them scored twice; HIGH, CRITICAL and MEDIUM), real sink, clock 0..2, lookback 2, cooldown 2, limit 2, 1 fault | `OneTicketPerAlert`, `LinksMatch`, `CooldownBetweenPasses`, `SevereTicketed` |
| `alerts_tickets` | 1 engine, mock sink, 1 fault | violates `SevereAlwaysTicketed` |
| `incidents` | 2 cells of one site, phases of 2 ticks each, spillover to 1 cell, backfill 1, clock up to 6, 3 incidents, 1 end of the process | `EffectsAreKnown`, `OverIsExact`, `RunsItsCourse`, `DisjointInARun` |
| `incidents_training` | the same, clock up to 8, no faults | violates `TrainsOnNormal` |
| `analytics` | `AllSpec`; 3 reports of 2 cells of one site in one hour, one of them labelled and carrying another site, two flagged; 1 row to train, batches of 2, 1 fault of worker or ETL | `OneModelPerVersion`, `DeltasFromPredecessor`, `ScoresKept`, `EventuallyScored`, `AnomaliesAmongSamples`, `DailyCoversHourly`, `RollupsConverge` |
| `verdicts` | raw metrics on both sides of every clamp and threshold, 4 incidents or none, 5 defects or none, report ages 0 and 6 h, waits of -5, 0 and 60 min; foreign payloads that differ from a good one in at most two fields | `SimulatedIsStored`, `CorruptedIsRejected`, `OutageIsNoticed`, `OutageRulesAgree`, `SeverityIsMonotone` |
| `congestion` | the same, a baseline of 180 Mbps | violates `CongestionIsNamed` |
| `replay` | 2 payloads that can be repaired, 1 that never validates, 1 bare record, 2 idle polls, 1 fault | `NothingForgotten`, `RepairedIsStored`, `EndsOnceAllValid` |

**Why these bounds.** A batch of two over a partition of two is the smallest in
which a batch is partly handled, a page is partly written, a key is a duplicate
within its batch, and an offset moves past two messages at once. The second
partition is needed for a rebalance that takes part of a batch's offsets away.
With a window of one, remembering a key evicts another. Two attempts have a first,
a repeated and a last one. In `delivery` two faults reach the combinations that matter, such as a
reconnect (which ends autocommit) and then a failed COMMIT, a crash or a
revocation. In `faults` the log itself supplies exceptions and rejections in every
flush, before and after the one fault. For alerts, two engines and one fault include every pairwise race and
every half-finished pass; the clock has room for a cooldown to be in force and to
be over; a limit below the number of candidates makes passes partial. For incidents, six intervals
hold a whole incident of the shortest length the code makes (6 ticks) and the tick
after it, in which the cell may begin another; two cells are a source and a target
of a spillover, on either side of the loop over the cells. For analytics, two reports
of one cell have a predecessor and may arrive in either order, and the third, of
another cell, shares the daily row but not the hourly one and makes a batch of two
leave one behind; the flagged report that carries another site makes daily rows of two
sites, with and without its anomaly; one labelled report makes the two row counts of worker and training
differ. One fault is a crash, a torn file, or a statement that outlives its client
and lands after any number of later ones. Two idle polls are the least for which an
arriving record restarts a count under way. The bounds are
`MaxFaults`, `MaxTime`, `MaxIncidents` and the lengths `End`; nothing else is capped.

The `alerts` and `incidents` configurations have `CHECK_DEADLOCK FALSE`: at the last tick of the bounded clock
the engines and the simulator have nothing left to do. The other runs check deadlock.

**The five violations** are disagreements between the documents and the code,
quoted in `PROJECT.json`:

- `NothingLost`: an exception that leaves the `for` loop drops the rest of the
  batch, and the `finally` block commits past it. `CommittedSettled` is the
  property that does hold: the only messages lost are those in `abandoned`.
- `PoisonIsolated`: a valid message whose clean row the database always rejects never
  reaches the DLQ; what is flushed with it or after it is not stored either.
- `TrainsOnNormal`: the label of an active incident has a planned end that late
  ticks overrun, so training may take its last reports for normal.
- `SevereAlwaysTicketed`: alert first, ticket later, and no repair in between.
- `CongestionIsNamed`: README.md:148 of the repository lists CONGESTION among the causes
  the rules name, and `tests/test_alerts_explain.py:32` passes a baseline to get it;
  `engine.py:98` and `api/main.py:133` call `explain_anomaly` without one. `rules.py:30`
  then takes the report's own throughput (at least 1) for it, `throughput < 0.75 *
  throughput` is false, and a throughput below 1 is an OUTAGE by an earlier rule. The
  theorem `CongestionIsNeverNamed` says that no report gets past this.

**Fairness** (`FairSpec`). `WF(Process)`: the process is scheduled, and compose
restarts it (`restart: unless-stopped`; after a SIGTERM the operator does). `WF(Assign)`: the group coordinator gives
its only member every partition. `WF(DlqDeliver)`: the broker is up. `SF(Fetch)`
and `SF(PollRetries)`: a poll may return empty any number of times, so the loop
passes through states where these are disabled, but not for ever: `consume()`
returns messages that are there, and an empty poll finds `batch_wait_seconds`
elapsed once a batch has been pending long enough. Faults have no fairness and are
bounded by `MaxFaults`: progress is claimed for an environment that stops failing.

In `analytics`, `AllFairness` says that worker and ETL keep running (weak
fairness of their own steps: `restart: unless-stopped`, and loops that catch what a
pass raises) and that the server ends what it runs. Nothing makes reports arrive,
and faults are bounded, so `RollupsConverge` is about an environment that comes to
rest. `EventuallyScored` is about the same, and needs `MinRows` normal rows: with fewer the
worker waits, as it should. In `replay` the script and the processor run, deliveries end, the
operator runs the script again, and `SF(PollRecord)`: a record that is there is
fetched now and then, though ten polls in a row may find nothing.
`EndsOnceAllValid` carries its condition openly: while a payload that never validates
goes round, the script need not end (replay_dlq.py:32-39), which is the code's
behaviour, not a fault.

**Mutants.** Each checked property has a mutated definition beside the one it
replaces (`... Mutant of ...`), a plausible slip in the mapped code that makes TLC
find the property violated.

## 4. Proofs

Every invariant the passing runs check, the action property `ScoresKept` and the
refinement `AtLeastOnceDelivery` are also theorems, for every value of the constants
their modules' `ASSUME`s allow (constants have their types; sizes are positive). Where
a theorem has a further hypothesis it is in its statement, and named below. The
inductive invariants of the state machines were model-checked on the instances of
section 3 as well.

Invariance lemmas have one step per action that can disturb the invariant; actions
that leave its variables alone are grouped (`QuietSteps`, `NothingMoves`).

**Processor**, for any number of partitions, length of the log, batch and page size,
attempts, window, verdicts and faults.

- `TypeCorrect`: `Spec => []TypeOK`. It needs `RowsFollow` beside it: `clean_rows`
  is built in the order of `pending_valid` and never outgrows it, or
  `RememberRow` would index past its end.
- `CommittedIsSettled`: `Spec => []CommittedSettled`. Not inductive by itself. A
  commit moves the offset to the position of the consumer, so `DeliveryInv` adds:
  every message read from an assigned partition is settled, abandoned or still
  held in `batch`, `pendV` or `pendI` (`ReadAccounted`); `commit()` sends that
  position or nothing (`StoredIsRead`), which is never behind the group
  (`CommittedRead`); the batch is empty during a flush (`BatchInLoop`); and each
  step of a flush finds the earlier tables written, durably or in its transaction
  (`FlushProgress`). At `kcommit` nothing is held but what `FlushProgress` says is
  settled, so what a commit covers is settled or abandoned.
- `CleanIsBackedByRaw`: `Spec => []CleanHasRaw`. `CleanInv` follows the open
  transaction: its clean rows rest on durable raw rows or on its own, and in
  autocommit mode there is none. It uses `RowsFollow` and `FlushProgress`.
- `CommittedIsRouted`: `Spec => []CommittedRouted` when a DLQ delivery neither times
  out nor raises (`~DlqMayTimeOut`, `~DlqMayRaise`). `RoutedInv` repeats
  `ReadAccounted` for the topic and says that the record of every pending invalid
  message is queued or delivered (`PendingQueued`) and that the queue is empty at the
  commit (`QueueFlushed`); crashes lose the queue together with what is pending.
  Without the hypothesis it is false: `_flush` ignores what `dlq.flush(5)` returns, so a
  record that is still queued does not stop the commit and may expire afterwards. What
  is left of the message then is its row of `ops.invalid_records`, as `CommittedSettled`
  says (the run `faults` has such a DLQ).
- `NothingIsLost`: `Spec => []NothingLost` when no exception leaves the loop
  (`NothingEscapes`: no verdict "raises", and the DLQ producer does not raise). Then
  `abandoned` stays empty. Crashes, rebalances, failed statements and lost answers are
  all allowed. The run `loss` shows that the hypothesis is needed.
- `ProcessorKeepsPromise`: `Spec => AtLeastOnceDelivery` under the same hypothesis.
  Steps that write or read map to settlements or stutters (`OtherStepsSettle`: tables
  and topics grow), a commit to a commit over settled messages (`CommitsCommit`).
  `LoopInv` adds that nobody reads or commits past the end of the log.

**AlertEngine**, for any number of engines, anomalies, model versions, windows, limits
and faults, and either sink: `TypeCorrect`, `OneTicket`, `LinksAreRecorded`,
`CooldownKept`, `SevereAreTicketed`. `AlertInv` is one invariant, since its parts need
each other. The unique index gives a report one alert (`OneAlertPerReport`) and only
the engine whose INSERT returned a row goes on with it (`OneInHand`); each place a
ticket can be in, the instance and the table, is found empty for that alert by an engine
that has not been there yet (`TicketOnce`), which is what makes the second ticket
impossible, and the number in hand is one recorded for it (`LinkRecorded`).
`OutOfCooldown` keeps what the query established until the candidate is handled: an
alert inserted meanwhile is not older than the pass. `InHandOrTicketed` closes
`SevereTicketed` as long as nothing fails.

**Incidents**, for any cells and neighbours, phase lengths, clock and number of
incidents and ends of the process: `TypeCorrect`, `EffectsHaveLabels`,
`LabelsAreExact`, `CourseIsReported`, `LabelsAreDisjoint`. `IncidentInv` follows an
incident through a tick: in `started` it is new (`StartedIsNew`), from its INSERT to
its UPDATE it has one open label and is active or has just ended (`ActiveHaveLabels`,
`EndedHaveLabels`, `LabelsOfRun`), and all reports of its cell show it meanwhile
(`OpenIsExact`), those of this tick being of the cells the loop has passed
(`ReportsOfRun`). `OneReportPerTick` counts the reports of an active incident, one less
for a cell whose turn is still to come: from this the length of a course follows.
After `ProcessEnds` the labels of the old run stay as they are, open ones too, and the
properties claim no more of them.

**Scoring, Rollups, Analytics**: theorems of `Analytics!AllSpec`, for any reports,
labels, hours, thresholds and number of faults.

- `AllTypes`: `AllSpec => []AllTypeOK`. Needs that a whole file holds a model that was
  fitted (`SavedFitted`).
- `ScoresAreOfOneModel`: `AllSpec => []OneModelPerVersion`. `ModelInv` adds that
  training goes on only while there is no whole file, that the worker's bundle is the
  saved one, and that before there is a whole file nothing is scored or on its way;
  so the one step that changes `saved` finds no score of an older model.
- `DeltasAreFromPredecessor`: `AllSpec => []DeltasFromPredecessor`. `DeltaInv` says the
  same of the batch in hand and of statements still on the server. `Lag` takes the
  maximum of a set of times; that there is one (`HasLatest`) is carried as part of
  the invariant, since `clean` grows by one report at a time, so no induction over
  finite sets is needed. A report that arrives changes the predecessor of later ones
  only by becoming one itself, and then it is `late`.
- `ScoresAreNeverChanged`: `AllSpec => ScoresKept`, from `StoreKeeps` alone.
- `RollupsAreConsistent`: `AllSpec => []AnomaliesAmongSamples`. Needs that only clean
  rows are scored (`ScoredIsClean`, INSERTs nobody waits for included) and that the
  tables and every snapshot in flight are consistent (`OneSnapshot`); putting the rows of
  one snapshot into a table keeps it so (`UpsertConsistent`). `HourOf`, `DayOf` and
  `SiteDayOf` are arbitrary: a daily row claims nothing of the anomalies whose reports
  carry another site, and are samples of another row.
- `DailyFollowsHourly`: `AllSpec => []DailyCoversHourly`. `PairInOrder`: facts only
  grow, so the daily statement's snapshot covers the hourly one's, and no row of either
  table is ahead of it.

**Verdicts**, for any capacity, raw metrics and foreign payloads whose numbers are
integers.

- `VerdictTypes`, `OutageRulesDoAgree`, `SeverityGrows`, and `CongestionIsNeverNamed`
  (`Spec => [](cause # "CONGESTION")`, of the code as it is). They rest on `Numeric` (a stored report has a number in each metric, since validation and
  JSONB keep everything else out) and `AlertSaysRules`.
- `SimulatedReportsAreStored`: `Spec => []SimulatedIsStored` under `SeededAndTimely`:
  the cell and the site have names, a report's largest number of users
  (29/20 of the capacity, in `generate_event`) fits an INTEGER column, and a report
  waits from -5 to 60 minutes: the validator allows five minutes into the future and
  an hour on top of the backfill (validator.py:92, :100). The topology grants the first
  two; the third is what "timely" means, and a report that waits longer is rejected.
  Every clamp is within its field's range (`BoundsInRange`, `WellMadeComplaints`).
- `CorruptedAreRejected`: each defect spoils the one check that gives its class, and
  every check before that one finds nothing, nor does the text quote a word of another
  class (`CorruptedVerdict`, `WellMadeQuotes`). No hypothesis: the
  class is the same however long the report waits.
- `OutagesAreNoticed`: the forced loss of an outage (`EventWellMade`) is above the
  thresholds of all three rules.

**Replay**, for any payloads: `ReplayTypes` and `ReplayForgetsNothing`.
`NothingForgotten` is not inductive, since `Commit` gives up all that was polled;
`PolledFollowed` says where it is by then, and an empty queue at the commit does the rest.

Only model-checked: `EventuallyDrained`, `EventuallyScored`, `RollupsConverge`,
`RepairedIsStored` and `EndsOnceAllValid`. They are liveness under fairness, which,
like `ENABLED`, is outside what TLAPS proves. No module declares a `RECURSIVE` operator.
The violated properties are refuted by their runs; `NothingLost` is proved above where
the code does keep it.

## 5. Not modelled

The formulas of physics and topology before the last clamps (floating point, random
draws, no shared state), the isolation forest, its baselines and z-scores, model
evaluation (one query, four counts), the API's queries and its use of the connection
pool from several threads, the LLM sentence, the quality counters, dashboards, logging
and configuration. One processor is modelled; other members of the group appear as
rebalances, without commits of their own while they hold a partition. One ml-worker, one
ETL and one model version are modelled, as compose runs them. Rows in PostgreSQL are
never deleted by the services, nor here. Topic retention is ignored. The bytes of a
message that is no JSON object are kept by neither the DLQ record nor
`ops.invalid_records` (`_send_dlq` takes `raw` and does not use it): `Bare` in `Replay`
stands for such records, which cannot be replayed.

## 6. Plan

1. *(done)* `AtLeastOnce`, `Processor`; type correctness, `CommittedSettled` and
   `CleanHasRaw` proved.
2. *(done)* `AlertEngine` and `Incidents`.
3. *(done)* `Scoring`, `Rollups`, `Analytics`; one model per version, scores kept and
   consistent rollups proved.
4. *(done)* `Verdicts`; three theorems about the rules.
5. *(done)* `Replay`; type correctness and `NothingForgotten` proved.
6. *(done)* Every invariant of the passing runs and the implementation of
   `AtLeastOnce` proved.
7. If more is to be modelled: a second model version and worker (`anomaly_count` then
   counts a report twice), the API's threads on the pool, the quality counters.
