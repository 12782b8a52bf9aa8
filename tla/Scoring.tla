------------------------------ MODULE Scoring ------------------------------
(***************************************************************************)
(* The ml-worker (ml/worker.py): it loads the model, or trains one on the  *)
(* normal rows of clean.network_metrics and saves it (ml/train.py), then   *)
(* scores what the model's version has not scored yet (ml/infer.py).       *)
(*                                                                         *)
(* A report is a pair <<cell, time>>, its primary key.  A model is the set *)
(* of rows it was fitted on; of a score the module keeps the two things    *)
(* that change from one computation to the next: the model, and the report *)
(* whose latency and throughput the deltas were taken from.                *)
(***************************************************************************)
EXTENDS Integers, FiniteSets, FiniteSetsExt, Functions

CONSTANTS
    Reports,        \* the reports the processor will store, in some order
    Labelled,       \* those inside an injected incident's window
    MinRows,        \* settings.ml_min_train_rows
    BatchSize,      \* batch_size of score_unscored
    MaxFaults       \* bound on failed statements, failed dumps and crashes

ASSUME ReportsAssumption ==
    /\ \A r \in Reports : r = <<r[1], r[2]>> /\ r[2] \in Nat \ {0}
    /\ Labelled \subseteq Reports
ASSUME BoundsAssumption ==
    MinRows \in Nat \ {0} /\ BatchSize \in Nat \ {0} /\ MaxFaults \in Nat

VARIABLES
    clean,    \* rows of clean.network_metrics
    late,     \* those that arrived after a later report of their cell
    file,     \* the model file: "absent", "torn" (joblib cannot load it), "whole"
    saved,    \* the model in it
    pc,       \* the call the worker is about to make, "seek" at its start
    fitted,   \* the model train_and_save has fitted and not returned yet
    bundle,   \* run()'s bundle, {} for None
    batch,    \* the scores computed and not yet inserted
    unheard,  \* tables of scores the server still inserts, and nobody waits for
    scores,   \* ml.anomalies for the worker's model version
    faults

workVars == <<pc, fitted, bundle, batch>>
fileVars == <<file, saved>>
vars == <<clean, late, fileVars, workVars, unheard, scores, faults>>

Nothing == [r \in {} |-> 0]       \* a table without rows

\* LAG(...) OVER (PARTITION BY cell_id ORDER BY event_ts), 0 for NULL.
Lag(rows, r) ==
    LET earlier == {q[2] : q \in {p \in rows : p[1] = r[1] /\ p[2] < r[2]}}
    IN  IF earlier = {} THEN 0 ELSE Max(earlier)

Normal == clean \ Labelled

Unscored == clean \ DOMAIN scores

\* ORDER BY event_ts LIMIT batch_size; the order of equal times is the database's.
FirstOf(rows) ==
    {s \in SUBSET rows :
        /\ Cardinality(s) = Min({BatchSize, Cardinality(rows)})
        /\ \A r \in s, q \in rows \ s : r[2] <= q[2]}

\* Mutant of Store: ON CONFLICT ... DO UPDATE.
StoreOverwrites(b) ==
    [r \in DOMAIN scores \cup DOMAIN b |-> IF r \in DOMAIN b THEN b[r] ELSE scores[r]]

\* INSERT ... ON CONFLICT (cell_id, event_ts, model_version) DO NOTHING.
Store(b) ==
    [r \in DOMAIN scores \cup DOMAIN b |->
        IF r \in DOMAIN scores THEN scores[r] ELSE b[r]]

Pages(b) ==
    {rows \in SUBSET DOMAIN b : \A r \in rows, q \in DOMAIN b \ rows : r[2] <= q[2]}

Fault == faults < MaxFaults /\ faults' = faults + 1
-----------------------------------------------------------------------------
Init ==
    /\ clean = {} /\ late = {}
    /\ file = "absent" /\ saved = {}
    /\ pc = "seek" /\ fitted = {} /\ bundle = {} /\ batch = Nothing
    /\ unheard = {} /\ scores = Nothing /\ faults = 0

\* The processor stores a report, possibly after later ones of its cell.
Arrive(r) ==
    /\ r \notin clean
    /\ clean' = clean \cup {r}
    /\ late' = IF \E q \in clean : q[1] = r[1] /\ q[2] > r[2]
               THEN late \cup {r} ELSE late
    /\ UNCHANGED <<fileVars, workVars, unheard, scores, faults>>

\* Mutant of Load: the worker trains a model of its own at every start.
LoadIgnored ==
    /\ pc = "seek"
    /\ pc' = "count"
    /\ UNCHANGED <<clean, late, fileVars, fitted, bundle, batch, unheard, scores, faults>>

\* Mutant of Load: it trains only when there is no file.
LoadTrusts ==
    /\ pc = "seek"
    /\ CASE file = "whole"  -> pc' = "score" /\ bundle' = saved
         [] file = "absent" -> pc' = "count" /\ UNCHANGED bundle
         [] file = "torn"   -> pc' = "seek" /\ UNCHANGED bundle
    /\ UNCHANGED <<clean, late, fileVars, fitted, batch, unheard, scores, faults>>

\* model_path.exists(), and load_bundle() raises unless the file is whole.
Load ==
    /\ pc = "seek"
    /\ IF file = "whole" THEN pc' = "score" /\ bundle' = saved
                         ELSE pc' = "count" /\ UNCHANGED bundle
    /\ UNCHANGED <<clean, late, fileVars, fitted, batch, unheard, scores, faults>>

\* _clean_count() counts every row, the labelled ones too.
Count ==
    /\ pc = "count"
    /\ pc' = IF Cardinality(clean) >= MinRows THEN "train" ELSE "seek"
    /\ UNCHANGED <<clean, late, fileVars, fitted, bundle, batch, unheard, scores, faults>>

\* train_and_save counts again, the normal rows, and raises when they are too few.
Train ==
    /\ pc = "train"
    /\ IF Cardinality(Normal) >= MinRows THEN pc' = "open" /\ fitted' = Normal
                                         ELSE pc' = "seek" /\ UNCHANGED fitted
    /\ UNCHANGED <<clean, late, fileVars, bundle, batch, unheard, scores, faults>>

\* joblib.dump opens the file in place, which empties it, and writes it.
OpenFile ==
    /\ pc = "open"
    /\ pc' = "write" /\ file' = "torn"
    /\ UNCHANGED <<clean, late, saved, fitted, bundle, batch, unheard, scores, faults>>

\* Mutant of Save: train_and_save returns before it hands out the bundle.
SaveWithoutBundle ==
    /\ pc = "write"
    /\ file' = "whole" /\ saved' = fitted
    /\ pc' = "score" /\ fitted' = {}
    /\ UNCHANGED <<clean, late, bundle, batch, unheard, scores, faults>>

Save ==
    /\ pc = "write"
    /\ file' = "whole" /\ saved' = fitted
    /\ pc' = "score" /\ bundle' = fitted /\ fitted' = {}
    /\ UNCHANGED <<clean, late, batch, unheard, scores, faults>>

\* mkdir, open or write raises: the loop catches it, sleeps and starts over.
DumpFails ==
    /\ pc \in {"open", "write"}
    /\ Fault
    /\ pc' = "seek" /\ fitted' = {}
    /\ UNCHANGED <<clean, late, fileVars, bundle, batch, unheard, scores>>

\* Mutant of Read: the window function runs over the rows that are still unscored.
ReadFilteredFirst ==
    /\ pc = "score"
    /\ Unscored # {}
    /\ \E rows \in FirstOf(Unscored) :
          batch' = [r \in rows |-> [model |-> bundle, prev |-> Lag(Unscored, r)]]
    /\ pc' = "insert"
    /\ UNCHANGED <<clean, late, fileVars, fitted, bundle, unheard, scores, faults>>

\* UNSCORED_SQL and the scores of what it returns.  LAG sees every clean row.
Read ==
    /\ pc = "score"
    /\ Unscored # {}
    /\ \E rows \in FirstOf(Unscored) :
          batch' = [r \in rows |-> [model |-> bundle, prev |-> Lag(clean, r)]]
    /\ pc' = "insert"
    /\ UNCHANGED <<clean, late, fileVars, fitted, bundle, unheard, scores, faults>>

\* A pass that finds nothing to score, or whose query fails, sleeps.
Sleep ==
    /\ pc = "score"
    /\ Unscored = {}
    /\ UNCHANGED vars

Insert ==
    /\ pc = "insert"
    /\ scores' = Store(batch)
    /\ pc' = "score" /\ batch' = Nothing
    /\ UNCHANGED <<clean, late, fileVars, fitted, bundle, unheard, faults>>

\* The INSERT goes out page by page, in order of event_ts.  Of an INSERT cut short the
\* first pages are durable, and the server may be at the next ones still.
CutShort ==
    /\ pc = "insert"
    /\ \E done, sent \in Pages(batch) :
          /\ done \subseteq sent
          /\ scores' = Store(Restrict(batch, done))
          /\ unheard' = unheard \cup ({Restrict(batch, sent \ done)} \ {Nothing})
    /\ batch' = Nothing

\* It raises, the connection possibly lost: the loop sleeps and reads again.
InsertFails ==
    /\ CutShort
    /\ Fault
    /\ pc' = "score"
    /\ UNCHANGED <<clean, late, fileVars, fitted, bundle>>

\* The process ends, killed, stopped, or by _clean_count() raising outside of any try,
\* and is started again.
Crash ==
    /\ Fault
    /\ CutShort \/ (pc # "insert" /\ UNCHANGED <<scores, unheard, batch>>)
    /\ pc' = "seek" /\ fitted' = {} /\ bundle' = {}
    /\ UNCHANGED <<clean, late, fileVars>>

InsertedUnheard(t) ==
    /\ t \in unheard
    /\ scores' = Store(t)
    /\ unheard' = unheard \ {t}
    /\ UNCHANGED <<clean, late, fileVars, workVars, faults>>

Work == Load \/ Count \/ Train \/ OpenFile \/ Save \/ Read \/ Sleep \/ Insert

Next ==
    \/ \E r \in Reports : Arrive(r)
    \/ Work
    \/ DumpFails \/ InsertFails \/ Crash
    \/ \E t \in unheard : InsertedUnheard(t)

\* The worker runs and is restarted (docker-compose: restart: unless-stopped).
Fairness == WF_vars(Work)

Spec == Init /\ [][Next]_vars
FairSpec == Spec /\ Fairness
-----------------------------------------------------------------------------
Scored == [model : SUBSET Reports, prev : {0} \cup {r[2] : r \in Reports}]

\* Every variable has its type.  (The worker's and the tables' state.)
TypeOK ==
    /\ clean \subseteq Reports /\ late \subseteq clean
    /\ file \in {"absent", "torn", "whole"} /\ saved \subseteq Reports
    /\ pc \in {"seek", "count", "train", "open", "write", "score", "insert"}
    /\ fitted \subseteq Reports
    /\ fitted # {} <=> pc \in {"open", "write"}
    /\ bundle \subseteq Reports
    /\ bundle # {} <=> pc \in {"score", "insert"}
    /\ \A t \in {batch, scores} \cup unheard :
          /\ DOMAIN t \subseteq Reports
          /\ \A r \in DOMAIN t : t[r] \in Scored
    /\ faults \in 0 .. MaxFaults

\* All scores of one model version come from one and the same model, however often
\* training was cut short and repeated: the model is used only once it is saved, and
\* a saved model is never trained again.  (train.py: dump before return; worker.py:
\* load before train.)
OneModelPerVersion ==
    \A r, q \in DOMAIN scores : scores[r].model = scores[q].model

\* The deltas of a score were taken from the report before it, unless that report
\* came late: scoring in batches, again after a failure, or before a crash, never
\* skips a predecessor that was there.  (infer.py, LAG over all of clean.)
DeltasFromPredecessor ==
    \A r \in DOMAIN scores :
        LET p == Lag(clean, r)
        IN  scores[r].prev # p => <<r[1], p>> \in late

\* A score is written once: a batch read before another one was stored, or an INSERT
\* that lands after its worker died, changes no score.  (infer.py, ON CONFLICT.)
ScoresKept ==
    [][\A r \in DOMAIN scores : r \in DOMAIN scores' /\ scores'[r] = scores[r]]_vars

\* When reports stop coming, and there are enough normal ones, each of them has its
\* score in the end, whatever was torn, failed or crashed in between.
\* (worker.py: a file that does not load is replaced.)
EventuallyScored ==
    <>[](Cardinality(Normal) >= MinRows => Unscored = {})
=============================================================================
