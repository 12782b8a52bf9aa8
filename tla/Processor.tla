----------------------------- MODULE Processor -----------------------------
(***************************************************************************)
(* The stream processor: one Kafka consumer of the group metrics-processor *)
(* (pipeline/main.py), the batch writer (pipeline/writer.py), the pooled   *)
(* database connection they write through (common/db.py) and the producer  *)
(* of the dead-letter topic.                                               *)
(*                                                                         *)
(* The process is one thread; pc names the call it is in.  Around it run   *)
(* librdkafka's threads (rebalances, delivery of DLQ records), the         *)
(* database and the operator, whose steps interleave with every pc.        *)
(***************************************************************************)
EXTENDS Integers, Sequences, SequencesExt

CONSTANTS
    Partitions,     \* partitions of the metrics topic
    End,            \* End[p]: length of the log of p while it is drained
    Keys,           \* values of (cell_id, event_ts)
    KeyOf,          \* KeyOf[m]: the key in the payload of m
    Verdicts,       \* Verdicts[m]: what validate_payload and the known_cells test
                    \* may say of m; several when the clock or the time of the
                    \* load decides, "raises" for a payload no except clause fits
    NotJsonb,       \* messages whose payload no JSONB column takes (\u0000, NaN)
    NoCleanRow,     \* messages whose clean row the database rejects every time
                    \* (site_id is a foreign key that validation does not look at)
    BatchSize,      \* settings.batch_size
    PageSize,       \* rows per INSERT statement of execute_values
    MaxAttempts,    \* attempts of _flush
    Window,         \* maxlen of the writer's _recent_keys
    DlqMayTimeOut,  \* dlq.flush(5) may return with records still queued
    DlqMayRaise,    \* producer.produce may raise (queue full, record too large)
    MaxFaults       \* bound on environment faults in a behaviour

Messages == UNION {{p} \X (0 .. End[p] - 1) : p \in Partitions}

ASSUME PartitionsAssumption == End \in [Partitions -> Nat]
ASSUME MessagesAssumption ==
    /\ KeyOf \in [Messages -> Keys]
    /\ Verdicts \in [Messages -> (SUBSET {"valid", "invalid", "raises"}) \ {{}}]
    /\ NotJsonb \subseteq Messages /\ NoCleanRow \subseteq Messages
ASSUME SizesAssumption ==
    /\ BatchSize \in Nat \ {0}
    /\ PageSize \in Nat \ {0}
    /\ MaxAttempts \in Nat \ {0}
    /\ Window \in Nat \ {0}
    /\ MaxFaults \in Nat
ASSUME DlqAssumption == DlqMayTimeOut \in BOOLEAN /\ DlqMayRaise \in BOOLEAN

VARIABLES
    \* Kafka: the group's offsets, and this consumer's view of its assignment
    committed,   \* committed[p]: offset the group restarts from
    assigned,    \* partitions assigned to this consumer
    fetchPos,    \* fetchPos[p]: offset after the last message handed out
    stored,      \* stored[p]: offset commit() would send, -1 for none
    \* the process
    pc, running,
    closing,     \* the flush under way is the one of the finally block
    attempt,     \* _flush's attempt, 0 outside a flush
    batch,       \* messages returned by consume() and not yet handled
    pendV, pendI,\* pending_valid, pending_invalid
    rows,        \* clean_rows built so far: the key and is_dup of each
    recent,      \* _recent_keys, oldest first
    \* PostgreSQL
    autocommit,  \* mode of the pooled connection
    db,          \* what is durable
    txn,         \* what the open transaction has added
    \* the dead-letter topic
    dlqQueue,    \* records in the producer's local queue
    dlq,         \* messages that have a record in the topic
    \* the observer
    abandoned,   \* messages that left the loop through an exception, unhandled
    faults       \* environment faults so far

kafkaVars == <<committed, assigned, fetchPos, stored>>
ctlVars   == <<pc, running, closing, attempt>>
pendVars  == <<batch, pendV, pendI>>
rowVars   == <<rows, recent>>
dbVars    == <<autocommit, db, txn>>
dlqVars   == <<dlqQueue, dlq>>
obsVars   == <<abandoned, faults>>
vars == <<kafkaVars, ctlVars, pendVars, rowVars, dbVars, dlqVars, obsVars>>

PCs == {"down", "poll", "handle", "raw", "remember", "clean", "invalid",
        "dbcommit", "dlqflush", "kcommit", "quality", "finally", "close"}

-----------------------------------------------------------------------------
(***************************************************************************)
(* The tables, as what the properties tell apart: raw.network_metrics and  *)
(* ops.invalid_records by the messages they hold a row of,                 *)
(* clean.network_metrics by its primary key, flagged for the keys whose    *)
(* row says is_duplicate.                                                  *)
(***************************************************************************)
Tables == [raw : SUBSET Messages, clean : SUBSET Keys,
           flagged : SUBSET Keys, invalid : SUBSET Messages]

NoRows == [raw |-> {}, clean |-> {}, flagged |-> {}, invalid |-> {}]

Merge(a, b) == [raw     |-> a.raw \cup b.raw,
                clean   |-> a.clean \cup b.clean,
                flagged |-> a.flagged \cup b.flagged,
                invalid |-> a.invalid \cup b.invalid]

\* A statement that succeeds: durable at once in autocommit mode.
Write(delta) ==
    /\ db'  = IF autocommit THEN Merge(db, delta) ELSE db
    /\ txn' = IF autocommit THEN txn ELSE Merge(txn, delta)
    /\ UNCHANGED <<kafkaVars, running, closing, attempt, pendVars, rowVars, autocommit, dlqVars, obsVars>>

\* A statement that raises: rollback() undoes the transaction, but what earlier
\* pages wrote in autocommit mode stays.
Unwind(delta) ==
    /\ db'  = IF autocommit THEN Merge(db, delta) ELSE db
    /\ txn' = NoRows

\* execute_values sends rows by pages; the pages of s that can have run when it
\* raises: whole pages, and none with a row of bad, which the database rejects.
PagesRun(s, bad) ==
    {k \in 0 .. Len(s) : /\ k % PageSize = 0 \/ k = Len(s)
                         /\ \A i \in 1 .. k : s[i] \notin bad}

Storable(s, bad) == \A i \in 1 .. Len(s) : s[i] \notin bad

\* The page after the first k rows is the one rejected.
Rejected(s, k, bad) ==
    \E i \in k + 1 .. k + PageSize : i <= Len(s) /\ s[i] \in bad

RawRows(k)     == [NoRows EXCEPT !.raw = {pendV[i] : i \in 1 .. k}]
InvalidRows(k) == [NoRows EXCEPT !.invalid = {pendI[i] : i \in 1 .. k}]

\* ON CONFLICT (cell_id, event_ts) DO NOTHING: the first row of a key that is not
\* there yet is inserted, with the is_dup computed for that row.
CleanRows(k) ==
    LET new   == {rows[i].key : i \in 1 .. k} \ (db.clean \cup txn.clean)
        first == {i \in 1 .. k : \A j \in 1 .. i - 1 : rows[j].key # rows[i].key}
    IN  [NoRows EXCEPT !.clean   = new,
                       !.flagged = {rows[i].key : i \in {j \in first : rows[j].dup}} \cap new]
-----------------------------------------------------------------------------
Init ==
    /\ committed = [p \in Partitions |-> 0]
    /\ assigned = {}
    /\ fetchPos = [p \in Partitions |-> 0]
    /\ stored = [p \in Partitions |-> -1]
    /\ pc = "down" /\ running = FALSE /\ closing = FALSE /\ attempt = 0
    /\ batch = <<>> /\ pendV = <<>> /\ pendI = <<>>
    /\ rows = <<>> /\ recent = <<>>
    /\ autocommit = TRUE /\ db = NoRows /\ txn = NoRows
    /\ dlqQueue = {} /\ dlq = {}
    /\ abandoned = {} /\ faults = 0

Fault == faults < MaxFaults /\ faults' = faults + 1

\* The process only moves on to its next call.
Goto(next) ==
    /\ pc' = next
    /\ UNCHANGED <<kafkaVars, running, closing, attempt, pendVars, rowVars, dbVars, dlqVars, obsVars>>

\* The process starts (again): new consumer, new pool, empty window.
Start ==
    /\ pc = "down"
    /\ pc' = "poll" /\ running' = TRUE
    /\ recent' = <<>>
    /\ autocommit' = TRUE
    /\ UNCHANGED <<kafkaVars, closing, attempt, pendVars, rows, db, txn, dlqVars, obsVars>>

\* Mutant of Assign: every assignment starts again at the earliest offset.
AssignFromEarliest(p) ==
    /\ pc # "down" /\ p \notin assigned
    /\ assigned' = assigned \cup {p}
    /\ fetchPos' = [fetchPos EXCEPT ![p] = 0]
    /\ UNCHANGED <<committed, stored, ctlVars, pendVars, rowVars, dbVars, dlqVars, obsVars>>

\* librdkafka rebalances in its own thread: no rebalance callback is registered.
Assign(p) ==
    /\ pc # "down" /\ p \notin assigned
    /\ assigned' = assigned \cup {p}
    /\ fetchPos' = [fetchPos EXCEPT ![p] = committed[p]]
    /\ UNCHANGED <<committed, stored, ctlVars, pendVars, rowVars, dbVars, dlqVars, obsVars>>

Revoke(p) ==
    /\ Fault
    /\ p \in assigned
    /\ assigned' = assigned \ {p}
    /\ fetchPos' = [fetchPos EXCEPT ![p] = 0]
    /\ stored' = [stored EXCEPT ![p] = -1]
    /\ UNCHANGED <<committed, ctlVars, pendVars, rowVars, dbVars, dlqVars, abandoned>>

-----------------------------------------------------------------------------
(***************************************************************************)
(* The consume loop of run().                                              *)
(***************************************************************************)

\* consume() puts one more message into the batch and stores its offset.  Events with
\* msg.error() carry neither; the loop skips them, so batch leaves them out.
Fetch(p) ==
    LET m == <<p, fetchPos[p]>> IN
    /\ pc = "poll" /\ (running \/ batch # <<>>)
    /\ p \in assigned /\ fetchPos[p] < End[p]
    /\ Len(batch) < BatchSize
    /\ batch' = Append(batch, m)
    /\ fetchPos' = [fetchPos EXCEPT ![p] = @ + 1]
    /\ stored' = [stored EXCEPT ![p] = fetchPos[p] + 1]
    /\ abandoned' = abandoned \ {m}
    /\ UNCHANGED <<committed, assigned, ctlVars, pendV, pendI, rowVars, dbVars, dlqVars, faults>>

\* consume() returns with messages: the batch is full, or its timeout is over.
Consumed ==
    pc = "poll" /\ batch # <<>> /\ Goto("handle")

\* Mutant of FirstStatement: a retry does not write the audit log again.
FirstStatementSkipsRaw ==
    IF pendV # <<>> THEN IF attempt > 0 THEN "remember" ELSE "raw" ELSE "invalid"

FirstStatement == IF pendV # <<>> THEN "raw" ELSE "invalid"

EnterFlush ==
    /\ attempt' = 1
    /\ rows' = <<>>
    /\ pc' = FirstStatement
    /\ UNCHANGED <<kafkaVars, running, pendVars, recent, dbVars, dlqVars, obsVars>>

\* Mutant of PollRetries: invalid records left pending are forgotten.
PollRetriesValidOnly ==
    /\ pc = "poll" /\ batch = <<>> /\ running
    /\ pendV # <<>>
    /\ EnterFlush /\ UNCHANGED closing

\* consume() returns nothing and batch_wait_seconds have passed since the last
\* batch, or it returns events with msg.error() only, which the loop skips: what a
\* failed flush left pending is tried again.
PollRetries ==
    /\ pc = "poll" /\ batch = <<>> /\ running
    /\ pendV # <<>> \/ pendI # <<>>
    /\ EnterFlush /\ UNCHANGED closing

\* consume() returns no message and there is nothing to flush, or not yet.
PollEmpty ==
    pc = "poll" /\ batch = <<>> /\ running /\ Goto("quality")

Judged(verdict) ==
    pc = "handle" /\ batch # <<>> /\ verdict \in Verdicts[Head(batch)]

HandleValid ==
    /\ Judged("valid")
    /\ pendV' = Append(pendV, Head(batch))
    /\ batch' = Tail(batch)
    /\ UNCHANGED <<kafkaVars, ctlVars, pendI, rowVars, dbVars, dlqVars, obsVars>>

HandleInvalid ==
    /\ Judged("invalid")
    /\ pendI' = Append(pendI, Head(batch))
    /\ dlqQueue' = dlqQueue \cup {Head(batch)}
    /\ batch' = Tail(batch)
    /\ UNCHANGED <<kafkaVars, ctlVars, pendV, rowVars, dbVars, dlq, obsVars>>

\* An exception leaves the loop, and what is left of the batch goes with it.
LeaveLoop(dropped) ==
    /\ batch' = <<>>
    /\ abandoned' = abandoned \cup ToSet(dropped)
    /\ pc' = "finally"

\* _send_dlq raises, after pending_invalid.append.
SendDlqRaises ==
    /\ DlqMayRaise /\ Fault
    /\ Judged("invalid")
    /\ pendI' = Append(pendI, Head(batch))
    /\ LeaveLoop(Tail(batch))
    /\ UNCHANGED <<kafkaVars, running, closing, attempt, pendV, rowVars, dbVars, dlqVars>>

\* validate_payload raises something else than the errors it catches.
ValidateRaises ==
    /\ Judged("raises")
    /\ LeaveLoop(batch)
    /\ UNCHANGED <<kafkaVars, running, closing, attempt, pendV, pendI, rowVars, dbVars, dlqVars, faults>>

\* After the last message of the batch, which always leaves something pending.
BatchHandled ==
    /\ pc = "handle" /\ batch = <<>>
    /\ EnterFlush /\ UNCHANGED closing

QualityFlushed ==
    pc = "quality" /\ Goto("poll")

\* quality.maybe_flush queries and writes the database outside of any try; a
\* connection lost there is replaced by one that is not in autocommit mode.
QualityRaises ==
    /\ Fault
    /\ pc = "quality"
    /\ pc' = "finally"
    /\ autocommit' \in {autocommit, FALSE}
    /\ UNCHANGED <<kafkaVars, running, closing, attempt, pendVars, rowVars, db, txn, dlqVars, abandoned>>

\* SIGTERM: seen by the next test of the loop condition.
Stop ==
    /\ Fault
    /\ pc # "down" /\ running
    /\ running' = FALSE
    /\ UNCHANGED <<kafkaVars, pc, closing, attempt, pendVars, rowVars, dbVars, dlqVars, abandoned>>

LoopExit ==
    pc = "poll" /\ batch = <<>> /\ ~running /\ Goto("finally")
-----------------------------------------------------------------------------
(***************************************************************************)
(* _flush: insert_batch, dlq.flush, consumer.commit, up to MaxAttempts     *)
(* times.  pendV and pendI are kept until an attempt reaches its end.      *)
(***************************************************************************)
AfterFlush == IF closing THEN "close" ELSE "quality"

\* Mutant of AttemptFails: one attempt more than the code makes.
AttemptFailsOffByOne ==
    /\ rows' = <<>>
    /\ IF attempt <= MaxAttempts
       THEN attempt' = attempt + 1 /\ pc' = FirstStatement
       ELSE attempt' = 0 /\ pc' = AfterFlush
    /\ UNCHANGED <<running, closing, pendVars, recent, dlqVars, abandoned>>

\* Mutant of AttemptFails: a batch that cannot be written is skipped.
AttemptFailsSkipsBatch ==
    /\ rows' = <<>>
    /\ IF attempt < MaxAttempts
       THEN attempt' = attempt + 1 /\ pc' = FirstStatement
       ELSE attempt' = attempt /\ pc' = "dlqflush"
    /\ UNCHANGED <<running, closing, pendVars, recent, dlqVars, abandoned>>

\* except Exception: wait and try again, or give up and keep what is pending.
AttemptFails ==
    /\ rows' = <<>>
    /\ IF attempt < MaxAttempts
       THEN attempt' = attempt + 1 /\ pc' = FirstStatement
       ELSE attempt' = 0 /\ pc' = AfterFlush
    /\ UNCHANGED <<running, closing, pendVars, recent, dlqVars, abandoned>>

InsertRaw ==
    /\ pc = "raw" /\ Storable(pendV, NotJsonb)
    /\ Write(RawRows(Len(pendV)))
    /\ pc' = "remember"

\* One round of the loop that builds clean_rows: is_dup is _remember(key).
RememberRow ==
    /\ pc = "remember" /\ Len(rows) < Len(pendV)
    /\ LET key   == KeyOf[pendV[Len(rows) + 1]]
           isDup == key \in ToSet(recent)
           kept  == IF Len(recent) = Window THEN Tail(recent) ELSE recent
       IN  /\ rows' = Append(rows, [key |-> key, dup |-> isDup])
           /\ recent' = IF isDup THEN recent ELSE Append(kept, key)
    /\ UNCHANGED <<kafkaVars, ctlVars, pendVars, dbVars, dlqVars, obsVars>>

RowsBuilt ==
    pc = "remember" /\ Len(rows) = Len(pendV) /\ Goto("clean")

InsertClean ==
    /\ pc = "clean" /\ Storable(pendV, NoCleanRow)
    /\ Write(CleanRows(Len(rows)))
    /\ pc' = IF pendI # <<>> THEN "invalid" ELSE "dbcommit"

InsertInvalid ==
    /\ pc = "invalid" /\ Storable(pendI, NotJsonb)
    /\ Write(InvalidRows(Len(pendI)))
    /\ pc' = "dbcommit"

\* The database rejects a row of the statement: the connection survives and the
\* attempt fails.
RawRejected ==
    /\ pc = "raw"
    /\ \E k \in PagesRun(pendV, NotJsonb) :
          Rejected(pendV, k, NotJsonb) /\ Unwind(RawRows(k))
    /\ AttemptFails
    /\ UNCHANGED <<kafkaVars, autocommit, faults>>

CleanRejected ==
    /\ pc = "clean"
    /\ \E k \in PagesRun(pendV, NoCleanRow) :
          Rejected(pendV, k, NoCleanRow) /\ Unwind(CleanRows(k))
    /\ AttemptFails
    /\ UNCHANGED <<kafkaVars, autocommit, faults>>

InvalidRejected ==
    /\ pc = "invalid"
    /\ \E k \in PagesRun(pendI, NotJsonb) :
          Rejected(pendI, k, NotJsonb) /\ Unwind(InvalidRows(k))
    /\ AttemptFails
    /\ UNCHANGED <<kafkaVars, autocommit, faults>>

\* The database fails under a statement: some pages may have run, the last one
\* even if its answer was lost.  A new connection is not in autocommit mode.
StatementFails ==
    /\ Fault
    /\ \/ /\ pc = "raw"
          /\ \E k \in PagesRun(pendV, NotJsonb) : Unwind(RawRows(k))
       \/ /\ pc = "clean"
          /\ \E k \in PagesRun(pendV, NoCleanRow) : Unwind(CleanRows(k))
       \/ /\ pc = "invalid"
          /\ \E k \in PagesRun(pendI, NotJsonb) : Unwind(InvalidRows(k))
    /\ autocommit' \in {autocommit, FALSE}
    /\ AttemptFails
    /\ UNCHANGED kafkaVars

\* conn.commit() at the end of get_conn: a no-op in autocommit mode.
DbCommit ==
    /\ pc = "dbcommit"
    /\ db' = Merge(db, txn)
    /\ txn' = NoRows
    /\ pc' = "dlqflush"
    /\ UNCHANGED <<kafkaVars, running, closing, attempt, pendVars, rowVars, autocommit, dlqVars, obsVars>>

\* COMMIT fails, or succeeds and its answer is lost.
DbCommitFails ==
    /\ Fault
    /\ pc = "dbcommit" /\ ~autocommit
    /\ db' \in {db, Merge(db, txn)}
    /\ txn' = NoRows
    /\ AttemptFails
    /\ UNCHANGED <<kafkaVars, autocommit>>

\* Mutant of DlqFlush: the offsets are committed without waiting for the DLQ.
DlqFlushSkipped ==
    pc = "dlqflush" /\ Goto("kcommit")

\* dlq.flush(5): its result, the number of records still queued, is ignored.
DlqFlush ==
    /\ pc = "dlqflush"
    /\ dlqQueue = {} \/ DlqMayTimeOut
    /\ Goto("kcommit")

ToCommit == {p \in Partitions : stored[p] # -1}

\* consumer.commit(asynchronous=False) sends what is stored for the assignment.
KCommit ==
    /\ pc = "kcommit" /\ ToCommit # {}
    /\ committed' = [p \in Partitions |-> IF p \in ToCommit THEN stored[p] ELSE committed[p]]
    /\ stored' = [p \in Partitions |-> -1]
    /\ pendV' = <<>> /\ pendI' = <<>>
    /\ attempt' = 0 /\ pc' = AfterFlush
    /\ UNCHANGED <<assigned, fetchPos, running, closing, batch, rowVars, dbVars, dlqVars, obsVars>>

\* _NO_OFFSET: the partitions of the batch were revoked since it was consumed.
NothingToCommit ==
    /\ pc = "kcommit" /\ ToCommit = {}
    /\ AttemptFails
    /\ UNCHANGED <<kafkaVars, dbVars, faults>>

\* The commit request fails; the broker may have applied it to some partitions.
KCommitFails ==
    /\ Fault
    /\ pc = "kcommit"
    /\ \E applied \in SUBSET ToCommit :
          committed' = [p \in Partitions |-> IF p \in applied THEN stored[p] ELSE committed[p]]
    /\ AttemptFails
    /\ UNCHANGED <<assigned, fetchPos, stored, dbVars>>
-----------------------------------------------------------------------------
(***************************************************************************)
(* The finally block, the crash, and the DLQ producer's thread.            *)
(***************************************************************************)
FinallyFlush ==
    /\ pc = "finally"
    /\ pendV # <<>> \/ pendI # <<>>
    /\ EnterFlush /\ closing' = TRUE

FinallyNothing ==
    pc = "finally" /\ pendV = <<>> /\ pendI = <<>> /\ Goto("close")

\* What the process had in memory is gone, and with it its place in the group.
ProcessEnds ==
    /\ pc' = "down" /\ running' = FALSE /\ closing' = FALSE /\ attempt' = 0
    /\ assigned' = {}
    /\ fetchPos' = [p \in Partitions |-> 0]
    /\ stored' = [p \in Partitions |-> -1]
    /\ batch' = <<>> /\ pendV' = <<>> /\ pendI' = <<>>
    /\ rows' = <<>> /\ recent' = <<>>
    /\ txn' = NoRows /\ autocommit' = TRUE
    /\ dlqQueue' = {}

\* consumer.close(), dlq.flush(5) and close_pool(): closing commits no offset.
Close ==
    /\ pc = "close"
    /\ dlqQueue = {} \/ DlqMayTimeOut
    /\ ProcessEnds
    /\ UNCHANGED <<committed, db, dlq, obsVars>>

Crash ==
    /\ Fault
    /\ pc # "down"
    /\ ProcessEnds
    /\ UNCHANGED <<committed, db, dlq, abandoned>>

DlqDeliver(m) ==
    /\ m \in dlqQueue
    /\ dlqQueue' = dlqQueue \ {m}
    /\ dlq' = dlq \cup {m}
    /\ UNCHANGED <<kafkaVars, ctlVars, pendVars, rowVars, dbVars, obsVars>>

\* message.timeout.ms passes: no delivery callback is there to notice.
DlqExpire(m) ==
    /\ DlqMayTimeOut /\ Fault
    /\ m \in dlqQueue
    /\ dlqQueue' = dlqQueue \ {m}
    /\ UNCHANGED <<kafkaVars, ctlVars, pendVars, rowVars, dbVars, dlq, abandoned>>
-----------------------------------------------------------------------------
Consume == (\E p \in Partitions : Fetch(p)) \/ Consumed \/ PollRetries \/ PollEmpty

Handle == HandleValid \/ HandleInvalid \/ SendDlqRaises \/ ValidateRaises
          \/ BatchHandled

Flush == \/ InsertRaw \/ RememberRow \/ RowsBuilt \/ InsertClean \/ InsertInvalid
         \/ RawRejected \/ CleanRejected \/ InvalidRejected \/ StatementFails
         \/ DbCommit \/ DbCommitFails \/ DlqFlush
         \/ KCommit \/ NothingToCommit \/ KCommitFails

Process == \/ Start \/ Consume \/ Handle \/ Flush
           \/ QualityFlushed \/ QualityRaises \/ LoopExit
           \/ FinallyFlush \/ FinallyNothing \/ Close

Environment == \/ \E p \in Partitions : Assign(p) \/ Revoke(p)
               \/ \E m \in Messages : DlqDeliver(m) \/ DlqExpire(m)
               \/ Stop \/ Crash

Next == Process \/ Environment

Spec == Init /\ [][Next]_vars
-----------------------------------------------------------------------------
(***************************************************************************)
(* Fairness: the process keeps running and is restarted, the group gives   *)
(* it its partitions, the DLQ producer delivers.  A poll that times out    *)
(* returns to the loop for ever, so what polls must eventually find (a     *)
(* message, the end of batch_wait_seconds) needs strong fairness.          *)
(***************************************************************************)
Fairness ==
    /\ WF_vars(Process)
    /\ \A p \in Partitions : WF_vars(Assign(p)) /\ SF_vars(Fetch(p))
    /\ SF_vars(PollRetries)
    /\ \A m \in Messages : WF_vars(DlqDeliver(m))

FairSpec == Spec /\ Fairness
-----------------------------------------------------------------------------
(***************************************************************************)
(* Properties                                                              *)
(***************************************************************************)

\* Every variable has its type.  (The shape of the process's and the tables' state.)
TypeOK ==
    /\ committed \in [Partitions -> Nat]
    /\ assigned \subseteq Partitions
    /\ fetchPos \in [Partitions -> Nat]
    /\ stored \in [Partitions -> Nat \cup {-1}]
    /\ pc \in PCs
    /\ running \in BOOLEAN /\ closing \in BOOLEAN
    /\ attempt \in 0 .. MaxAttempts
    /\ batch \in Seq(Messages) /\ pendV \in Seq(Messages) /\ pendI \in Seq(Messages)
    /\ rows \in Seq([key : Keys, dup : BOOLEAN])
    /\ recent \in Seq(Keys)
    /\ autocommit \in BOOLEAN /\ db \in Tables /\ txn \in Tables
    /\ dlqQueue \subseteq Messages /\ dlq \subseteq Messages
    /\ abandoned \subseteq Messages
    /\ faults \in 0 .. MaxFaults

\* Where a message ends up when it is settled: a raw and a clean row (its own, or the
\* row of an earlier message with its key), or an invalid record.
StoredClean(m)   == m \in db.raw /\ KeyOf[m] \in db.clean
StoredInvalid(m) == m \in db.invalid
Settled(m) == StoredClean(m) \/ StoredInvalid(m)

\* The messages the group will never read again.
Behind == {m \in Messages : m[2] < committed[m[1]]}

\* An offset is committed only after what precedes it is in the database, through
\* every crash, rebalance, retry and half-applied statement; the only exception is a
\* batch that an exception tore out of the loop of run().
CommittedSettled == \A m \in Behind : Settled(m) \/ m \in abandoned

\* A message that is behind the committed offset only because it was invalid has its
\* record in the DLQ topic (_send_dlq, dlq.flush before commit in _flush).
CommittedRouted ==
    \A m \in Behind : StoredClean(m) \/ m \in dlq \/ m \in abandoned

\* Every row of clean.network_metrics has its payload in the audit log: raw is
\* written before clean, and no failure in between leaves clean ahead of raw.
CleanHasRaw == \A k \in db.clean : \E m \in db.raw : KeyOf[m] = k

\* No message is lost: what the group will never read again is in the database.
NothingLost == \A m \in Behind : Settled(m)

\* What the processor promises (AtLeastOnce), read off its state.
Promise == INSTANCE AtLeastOnce WITH settled <- {m \in Messages : Settled(m)}
AtLeastOnceDelivery == Promise!Spec

\* Everything in the log is eventually settled and committed, once the environment
\* stops failing: no retry, rebalance or restart leaves the processor stuck.
EventuallyDrained == <>[](committed = End /\ \A m \in Messages : Settled(m))

\* A message the database rejects every time ends up in the DLQ (docs/architecture.md:60,
\* "invalid / poison messages"), or at least holds up no other message.
Poison == NotJsonb \cup NoCleanRow
PoisonIsolated ==
    <>[](Poison \subseteq dlq \/ \A m \in Messages \ Poison : Settled(m))
=============================================================================
