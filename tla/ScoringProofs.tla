---------------------------- MODULE ScoringProofs ---------------------------
(***************************************************************************)
(* Lemmas about the ml-worker, for any reports, labels, thresholds, batch  *)
(* size and number of faults; AnalyticsProofs draws the theorems from them *)
(* for the worker and the ETL together.                                    *)
(***************************************************************************)
EXTENDS Scoring, FiniteSetTheorems, TLAPS

\* The worker uses the model that is in the file, and trains only while no whole file
\* is there.
UsesSaved ==
    /\ pc \in {"score", "insert"} => file = "whole" /\ bundle = saved
    /\ pc \in {"count", "train", "open", "write"} => file # "whole"
    /\ pc # "insert" => DOMAIN batch = {}

\* Before there is a whole file nothing was scored.
NoneBeforeSaved ==
    file # "whole" => DOMAIN scores = {} /\ unheard = {}

\* Every score that is stored, computed or on its way is of the model in the file.
AllOfSaved ==
    /\ \A r \in DOMAIN scores : scores[r].model = saved
    /\ \A r \in DOMAIN batch : batch[r].model = saved
    /\ \A t \in unheard : \A r \in DOMAIN t : t[r].model = saved

ModelInv == UsesSaved /\ NoneBeforeSaved /\ AllOfSaved

\* Store keeps what was there and adds nothing but rows of its argument.
LEMMA StoreKeeps ==
    ASSUME NEW b
    PROVE  /\ DOMAIN Store(b) = DOMAIN scores \cup DOMAIN b
           /\ \A r \in DOMAIN scores : Store(b)[r] = scores[r]
           /\ \A r \in DOMAIN b \ DOMAIN scores : Store(b)[r] = b[r]
BY DEF Store

\* Rows of the model in the file, once stored, leave the table of that model only.
LEMMA StoreOfSaved ==
    ASSUME NEW b, AllOfSaved, \A r \in DOMAIN b : b[r].model = saved
    PROVE  \A r \in DOMAIN Store(b) : Store(b)[r].model = saved
<1> TAKE r \in DOMAIN Store(b)
<1>1. CASE r \in DOMAIN scores BY <1>1, StoreKeeps DEF AllOfSaved
<1>2. CASE r \notin DOMAIN scores
  <2>1. r \in DOMAIN b \ DOMAIN scores BY <1>2, StoreKeeps
  <2> QED BY <2>1, StoreKeeps
<1> QED BY <1>1, <1>2

\* What an INSERT that was cut short stored and left behind comes out of the batch.
LEMMA CutShortOfSaved ==
    ASSUME CutShort, AllOfSaved, saved' = saved
    PROVE  AllOfSaved' /\ DOMAIN batch' = {}
<1>1. PICK done, sent \in Pages(batch) :
          /\ scores' = Store(Restrict(batch, done))
          /\ unheard' = unheard \cup ({Restrict(batch, sent \ done)} \ {Nothing})
  BY DEF CutShort
<1>2. done \subseteq DOMAIN batch /\ sent \subseteq DOMAIN batch
  BY DEF Pages
<1>3. \A s : s \subseteq DOMAIN batch =>
          /\ DOMAIN Restrict(batch, s) = s
          /\ \A r \in s : Restrict(batch, s)[r] = batch[r]
  BY DEF Restrict
<1>4. \A r \in DOMAIN scores' : scores'[r].model = saved
  <2>1. \A r \in DOMAIN Restrict(batch, done) : Restrict(batch, done)[r].model = saved
    BY <1>2, <1>3 DEF AllOfSaved
  <2> QED BY <1>1, <2>1, StoreOfSaved
<1>5. \A t \in unheard' : \A r \in DOMAIN t : t[r].model = saved
  <2>1. sent \ done \subseteq DOMAIN batch BY <1>2
  <2>2. \A r \in DOMAIN Restrict(batch, sent \ done) : Restrict(batch, sent \ done)[r].model = saved
    BY <2>1, <1>3 DEF AllOfSaved
  <2> QED BY <1>1, <2>2 DEF AllOfSaved
<1>6. batch' = Nothing /\ DOMAIN Nothing = {} BY DEF CutShort, Nothing
<1> QED BY <1>4, <1>5, <1>6 DEF AllOfSaved

\* The invariant holds after every step.
LEMMA ModelStep ==
    ASSUME ModelInv, Next
    PROVE  ModelInv'
<1> USE DEF ModelInv, UsesSaved, NoneBeforeSaved
<1>1. CASE \E r \in Reports : Arrive(r)
  BY <1>1 DEF Arrive, AllOfSaved, fileVars, workVars
<1>2. CASE Load
  BY <1>2 DEF Load, AllOfSaved, fileVars
<1>3. CASE Count \/ Train \/ OpenFile
  BY <1>3 DEF Count, Train, OpenFile, AllOfSaved, fileVars
<1>4. CASE Save
  BY <1>4 DEF Save, AllOfSaved
<1>5. CASE Read
  <2>1. \A r \in DOMAIN batch' : batch'[r].model = bundle
    BY <1>5 DEF Read
  <2>2. AllOfSaved' BY <1>5, <2>1 DEF Read, AllOfSaved, fileVars
  <2> QED BY <1>5, <2>2 DEF Read, fileVars
<1>6. CASE Sleep
  BY <1>6 DEF Sleep, vars, AllOfSaved, fileVars, workVars
<1>7. CASE Insert
  <2>1. DOMAIN batch' = {} BY <1>7 DEF Insert, Nothing
  <2>2. \A r \in DOMAIN scores' : scores'[r].model = saved
    BY <1>7, StoreOfSaved DEF Insert, AllOfSaved
  <2>3. AllOfSaved' BY <1>7, <2>1, <2>2 DEF Insert, AllOfSaved, fileVars
  <2> QED BY <1>7, <2>1, <2>3 DEF Insert, fileVars
<1>8. CASE DumpFails
  BY <1>8 DEF DumpFails, AllOfSaved, fileVars
<1>9. CASE InsertFails
  <2>1. AllOfSaved' /\ DOMAIN batch' = {}
    BY <1>9, CutShortOfSaved DEF InsertFails, fileVars
  <2> QED BY <1>9, <2>1 DEF InsertFails, CutShort, fileVars
<1>10. CASE Crash
  <2>1. CASE CutShort
    <3>1. AllOfSaved' /\ DOMAIN batch' = {}
      BY <1>10, <2>1, CutShortOfSaved DEF Crash, fileVars
    <3> QED BY <1>10, <2>1, <3>1 DEF Crash, CutShort, fileVars
  <2>2. CASE pc # "insert" /\ UNCHANGED <<scores, unheard, batch>>
    BY <1>10, <2>2 DEF Crash, AllOfSaved, fileVars
  <2> QED BY <1>10, <2>1, <2>2 DEF Crash
<1>11. CASE \E t \in unheard : InsertedUnheard(t)
  <2>1. PICK t \in unheard : InsertedUnheard(t) BY <1>11
  <2>2. \A r \in DOMAIN scores' : scores'[r].model = saved
    BY <2>1, StoreOfSaved DEF InsertedUnheard, AllOfSaved
  <2>3. file = "whole" BY <2>1
  <2> QED BY <2>1, <2>2, <2>3 DEF InsertedUnheard, AllOfSaved, fileVars, workVars
<1> QED BY <1>1, <1>2, <1>3, <1>4, <1>5, <1>6, <1>7, <1>8, <1>9, <1>10, <1>11 DEF Next, Work

\* What no step of the worker may do to a score.
Kept == \A r \in DOMAIN scores : r \in DOMAIN scores' /\ scores'[r] = scores[r]

\* No step changes or removes a score.
LEMMA KeptByNext ==
    ASSUME Next
    PROVE  Kept
<1>1. CASE UNCHANGED scores BY <1>1 DEF Kept
<1>2. CASE \E b : scores' = Store(b)
  BY <1>2, StoreKeeps DEF Kept
<1>3. scores' = scores \/ \E b : scores' = Store(b)
  <2>1. CASE Insert BY <2>1 DEF Insert
  <2>2. CASE InsertFails \/ (Crash /\ CutShort)
    BY <2>2 DEF InsertFails, CutShort
  <2>3. CASE Crash /\ UNCHANGED <<scores, unheard, batch>> BY <2>3
  <2>4. CASE \E t \in unheard : InsertedUnheard(t)
    BY <2>4 DEF InsertedUnheard
  <2>5. CASE \/ \E r \in Reports : Arrive(r)
             \/ Load \/ Count \/ Train \/ OpenFile \/ Save \/ Read \/ Sleep \/ DumpFails
    BY <2>5 DEF Arrive, Load, Count, Train, OpenFile, Save, Read, Sleep, DumpFails, vars
  <2> QED BY <2>1, <2>2, <2>3, <2>4, <2>5 DEF Next, Work, Crash
<1> QED BY <1>1, <1>2, <1>3
-----------------------------------------------------------------------------
\* Only rows of clean.network_metrics are scored, also by an INSERT nobody waits for.
ScoredIsClean ==
    /\ DOMAIN scores \subseteq clean /\ DOMAIN batch \subseteq clean
    /\ \A t \in unheard : DOMAIN t \subseteq clean

\* The worker's steps keep ScoredIsClean.
LEMMA ScoredIsCleanStep ==
    ASSUME ScoredIsClean, Next
    PROVE  ScoredIsClean'
<1> USE DEF ScoredIsClean
<1>1. CASE \E r \in Reports : Arrive(r)
  BY <1>1 DEF Arrive, workVars
<1>2. CASE Read
  <2>1. PICK rows \in FirstOf(Unscored) :
            batch' = [r \in rows |-> [model |-> bundle, prev |-> Lag(clean, r)]]
    BY <1>2 DEF Read
  <2>2. DOMAIN batch' \subseteq clean BY <2>1 DEF FirstOf, Unscored
  <2> QED BY <1>2, <2>2 DEF Read
<1>3. CASE Insert
  BY <1>3, StoreKeeps DEF Insert, Nothing
<1>4. CASE InsertFails \/ (Crash /\ CutShort)
  <2>1. CutShort /\ clean' = clean BY <1>4 DEF InsertFails, Crash
  <2>2. PICK done, sent \in Pages(batch) :
            /\ scores' = Store(Restrict(batch, done))
            /\ unheard' = unheard \cup ({Restrict(batch, sent \ done)} \ {Nothing})
    BY <2>1 DEF CutShort
  <2>3. done \subseteq DOMAIN batch /\ sent \subseteq DOMAIN batch BY DEF Pages
  <2>4. DOMAIN Restrict(batch, done) = done /\ DOMAIN Restrict(batch, sent \ done) = sent \ done
    BY DEF Restrict
  <2>5. DOMAIN batch' = {} BY <2>1 DEF CutShort, Nothing
  <2>6. DOMAIN scores' \subseteq clean BY <2>2, <2>3, <2>4, StoreKeeps
  <2> QED BY <2>1, <2>2, <2>3, <2>4, <2>5, <2>6
<1>5. CASE \E t \in unheard : InsertedUnheard(t)
  BY <1>5, StoreKeeps DEF InsertedUnheard, workVars
<1>6. CASE UNCHANGED <<clean, scores, batch, unheard>>
  BY <1>6
<1>7. CASE Load \/ Count \/ Train \/ OpenFile \/ Save \/ Sleep \/ DumpFails
           \/ (Crash /\ UNCHANGED <<scores, unheard, batch>>)
  BY <1>6, <1>7 DEF Load, Count, Train, OpenFile, Save, Sleep, DumpFails, Crash, vars, workVars
<1> QED BY <1>1, <1>2, <1>3, <1>4, <1>5, <1>7 DEF Next, Work, Crash
-----------------------------------------------------------------------------
(***************************************************************************)
(* The deltas.  LAG is a maximum, and a maximum need not exist: it does    *)
(* because reports arrive one by one, which HasLatest keeps track of.      *)
(***************************************************************************)
Earlier(rows, r) == {q[2] : q \in {p \in rows : p[1] = r[1] /\ p[2] < r[2]}}

HasLatest(rows) ==
    \A T \in SUBSET {q[2] : q \in rows} : T # {} => \E x \in T : \A y \in T : x >= y

\* What was taken for the predecessor of a score is it, unless that one came late.
FromPredecessor(t) ==
    \A r \in DOMAIN t : t[r].prev # Lag(clean, r) => <<r[1], Lag(clean, r)>> \in late

DeltaInv ==
    /\ HasLatest(clean)
    /\ FromPredecessor(scores) /\ FromPredecessor(batch)
    /\ \A t \in unheard : FromPredecessor(t)

\* LAG is the time of the last report of the cell before this one, or 0.
LEMMA LagIsLatest ==
    ASSUME NEW rows, HasLatest(rows), NEW r
    PROVE  /\ Earlier(rows, r) = {} => Lag(rows, r) = 0
           /\ Earlier(rows, r) # {} => /\ Lag(rows, r) \in Earlier(rows, r)
                                        /\ \A y \in Earlier(rows, r) : Lag(rows, r) >= y
<1> DEFINE E == Earlier(rows, r)
<1>1. Lag(rows, r) = IF E = {} THEN 0 ELSE Max(E) BY DEF Lag, Earlier
<1>2. ASSUME E # {}  PROVE Max(E) \in E /\ \A y \in E : Max(E) >= y
  <2>1. E \in SUBSET {q[2] : q \in rows} BY DEF Earlier
  <2>2. \E x \in E : \A y \in E : x >= y BY <1>2, <2>1 DEF HasLatest
  <2> HIDE DEF E
  <2> QED BY <2>2 DEF Max
<1> HIDE DEF E
<1>3. /\ E = {} => Lag(rows, r) = 0
      /\ E # {} => Lag(rows, r) \in E /\ \A y \in E : Lag(rows, r) >= y
  BY <1>1, <1>2
<1> QED BY <1>3 DEF E

\* The time of a predecessor is that of a report, or 0.
LEMMA LagType ==
    ASSUME HasLatest(clean), clean \subseteq Reports, NEW r
    PROVE  Lag(clean, r) \in {0} \cup {q[2] : q \in Reports} /\ Lag(clean, r) \in Nat
<1>1. Earlier(clean, r) \subseteq {q[2] : q \in Reports} BY DEF Earlier
<1>2. \A q \in Reports : q[2] \in Nat BY ReportsAssumption
<1> QED BY <1>1, <1>2, LagIsLatest

\* One more report leaves every set of times with a latest one.
LEMMA HasLatestStep ==
    ASSUME HasLatest(clean), clean \subseteq Reports, NEW r \in Reports, clean' = clean \cup {r}
    PROVE  HasLatest(clean')
<1> SUFFICES ASSUME NEW T \in SUBSET {q[2] : q \in clean \cup {r}}, T # {}
             PROVE  \E x \in T : \A y \in T : x >= y
  BY DEF HasLatest
<1> DEFINE U == T \ {r[2]}
<1>1. \A q \in Reports : q[2] \in Nat BY ReportsAssumption
<1>2. T \subseteq Nat BY <1>1
<1>3. U \in SUBSET {q[2] : q \in clean} OBVIOUS
<1>4. CASE U = {}
  <2>1. T = {r[2]} BY <1>4
  <2> QED BY <1>2, <2>1
<1>5. CASE U # {}
  <2>1. PICK x \in U : \A y \in U : x >= y BY <1>3, <1>5 DEF HasLatest
  <2>2. x \in T /\ x \in Nat /\ r[2] \in Nat BY <1>1, <1>2, <2>1
  <2>3. CASE r[2] \in T /\ r[2] > x
    <3>1. \A y \in T : r[2] >= y BY <1>2, <2>1, <2>2, <2>3
    <3> QED BY <2>3, <3>1
  <2>4. CASE r[2] \notin T \/ ~(r[2] > x)
    <3>1. \A y \in T : x >= y BY <1>2, <2>1, <2>2, <2>4
    <3> QED BY <2>2, <3>1
  <2> QED BY <2>3, <2>4
<1> QED BY <1>4, <1>5

\* A report that arrives before one that is there already is late, so it may come
\* between a score and its predecessor.
LEMMA ArriveKeepsDeltas ==
    ASSUME HasLatest(clean), clean \subseteq Reports, NEW q \in Reports, Arrive(q),
           NEW t, DOMAIN t \subseteq clean, FromPredecessor(t)
    PROVE  FromPredecessor(t)'
<1>1. clean' = clean \cup {q} /\ late \subseteq late' BY DEF Arrive
<1>2. HasLatest(clean') BY <1>1, HasLatestStep
<1> SUFFICES ASSUME NEW r \in DOMAIN t
             PROVE  t[r].prev # Lag(clean', r) => <<r[1], Lag(clean', r)>> \in late'
  BY DEF FromPredecessor
<1>3. /\ Earlier(clean', r) = {} => Lag(clean', r) = 0
      /\ Earlier(clean', r) # {} => /\ Lag(clean', r) \in Earlier(clean', r)
                                    /\ \A y \in Earlier(clean', r) : Lag(clean', r) >= y
  BY <1>2, LagIsLatest
<1>4. q = <<q[1], q[2]>> /\ q[2] \in Nat /\ r \in clean BY ReportsAssumption
<1>5. CASE q[1] = r[1] /\ q[2] < r[2]
  <2>1. q \in late' BY <1>4, <1>5 DEF Arrive
  <2>2. Earlier(clean', r) = Earlier(clean, r) \cup {q[2]} BY <1>1, <1>5 DEF Earlier
  <2>3. CASE Lag(clean', r) = q[2] BY <1>4, <1>5, <2>1, <2>3
  <2>4. CASE Lag(clean', r) # q[2]
    <3>1. Lag(clean', r) \in Earlier(clean, r) BY <1>3, <2>2, <2>4
    <3>2. \A y \in Earlier(clean, r) : Lag(clean', r) >= y BY <1>3, <2>2
    <3>3. Lag(clean, r) \in Earlier(clean, r) /\ Lag(clean, r) >= Lag(clean', r)
      BY <3>1, LagIsLatest
    <3>4. Earlier(clean, r) \subseteq Nat BY ReportsAssumption DEF Earlier
    <3>5. Lag(clean, r) = Lag(clean', r) BY <3>1, <3>2, <3>3, <3>4
    <3> QED BY <1>1, <3>5 DEF FromPredecessor
  <2> QED BY <2>3, <2>4
<1>6. CASE ~(q[1] = r[1] /\ q[2] < r[2])
  <2>1. {p \in clean' : p[1] = r[1] /\ p[2] < r[2]} = {p \in clean : p[1] = r[1] /\ p[2] < r[2]}
    BY <1>1, <1>6
  <2>2. Lag(clean', r) = Lag(clean, r) BY <2>1 DEF Lag
  <2> QED BY <1>1, <2>2 DEF FromPredecessor
<1> QED BY <1>5, <1>6

\* Storing keeps the deltas right: of the rows that are there, and of those it adds.
LEMMA StoreFromPredecessor ==
    ASSUME NEW b, FromPredecessor(scores), FromPredecessor(b)
    PROVE  FromPredecessor(Store(b))
<1> DEFINE new == Store(b)
<1>1. /\ DOMAIN new = DOMAIN scores \cup DOMAIN b
      /\ \A r \in DOMAIN scores : new[r] = scores[r]
      /\ \A r \in DOMAIN b \ DOMAIN scores : new[r] = b[r]
  BY StoreKeeps
<1> HIDE DEF new
<1>2. FromPredecessor(new) BY <1>1 DEF FromPredecessor
<1> QED BY <1>2 DEF new

\* So does cutting an INSERT short: what is stored and what is left are rows of the batch.
LEMMA CutShortFromPredecessor ==
    ASSUME CutShort, FromPredecessor(scores), FromPredecessor(batch),
           \A t \in unheard : FromPredecessor(t), UNCHANGED <<clean, late>>
    PROVE  /\ FromPredecessor(scores') /\ FromPredecessor(batch')
           /\ \A t \in unheard' : FromPredecessor(t)
<1>1. PICK done, sent \in Pages(batch) :
          /\ scores' = Store(Restrict(batch, done))
          /\ unheard' = unheard \cup ({Restrict(batch, sent \ done)} \ {Nothing})
  BY DEF CutShort
<1>2. done \subseteq DOMAIN batch /\ sent \ done \subseteq DOMAIN batch BY DEF Pages
<1>3. \A s : s \subseteq DOMAIN batch => FromPredecessor(Restrict(batch, s))
  BY DEF Restrict, FromPredecessor
<1>4. FromPredecessor(scores') BY <1>1, <1>2, <1>3, StoreFromPredecessor
<1>5. \A t \in unheard' : FromPredecessor(t) BY <1>1, <1>2, <1>3
<1>6. FromPredecessor(batch') BY DEF CutShort, Nothing, FromPredecessor
<1> QED BY <1>4, <1>5, <1>6

\* Every step of the worker and of the processor keeps the deltas right.
LEMMA DeltaStep ==
    ASSUME clean \subseteq Reports, ScoredIsClean, DeltaInv, Next
    PROVE  DeltaInv'
<1> USE DEF DeltaInv
<1>1. CASE \E r \in Reports : Arrive(r)
  <2>1. PICK r \in Reports : Arrive(r) BY <1>1
  <2>2. clean' = clean \cup {r} /\ UNCHANGED <<scores, batch, unheard>> BY <2>1 DEF Arrive, workVars
  <2>3. HasLatest(clean') BY <2>2, HasLatestStep
  <2>4. \A t : DOMAIN t \subseteq clean /\ FromPredecessor(t) =>
            \A s \in DOMAIN t : t[s].prev # Lag(clean', s) => <<s[1], Lag(clean', s)>> \in late'
    <3> SUFFICES ASSUME NEW t, DOMAIN t \subseteq clean, FromPredecessor(t)
                 PROVE  \A s \in DOMAIN t : t[s].prev # Lag(clean', s)
                                               => <<s[1], Lag(clean', s)>> \in late'
      OBVIOUS
    <3> QED BY <2>1, ArriveKeepsDeltas DEF FromPredecessor
  <2>5. FromPredecessor(scores)' /\ FromPredecessor(batch)'
    BY <2>2, <2>4 DEF ScoredIsClean, FromPredecessor
  <2>6. (\A t \in unheard : FromPredecessor(t))'
    BY <2>2, <2>4 DEF ScoredIsClean, FromPredecessor
  <2> QED BY <2>3, <2>5, <2>6
<1>2. CASE UNCHANGED <<clean, late, scores, batch, unheard>>
  BY <1>2 DEF FromPredecessor
<1>3. CASE Read
  <2>1. PICK rows \in FirstOf(Unscored) :
            batch' = [r \in rows |-> [model |-> bundle, prev |-> Lag(clean, r)]]
    BY <1>3 DEF Read
  <2>2. UNCHANGED <<clean, late, scores, unheard>> BY <1>3 DEF Read
  <2>3. FromPredecessor(batch') BY <2>1 DEF FromPredecessor
  <2> QED BY <2>2, <2>3 DEF FromPredecessor
<1>4. CASE Insert
  <2>1. UNCHANGED <<clean, late, unheard>> /\ scores' = Store(batch) /\ batch' = Nothing
    BY <1>4 DEF Insert
  <2>2. FromPredecessor(Store(batch)) BY StoreFromPredecessor
  <2>3. FromPredecessor(Nothing) BY DEF Nothing, FromPredecessor
  <2> QED BY <2>1, <2>2, <2>3 DEF FromPredecessor
<1>5. CASE InsertFails \/ (Crash /\ CutShort)
  <2>1. CutShort /\ UNCHANGED <<clean, late>> BY <1>5 DEF InsertFails, Crash
  <2>2. /\ FromPredecessor(scores') /\ FromPredecessor(batch')
        /\ \A t \in unheard' : FromPredecessor(t)
    BY <2>1, CutShortFromPredecessor
  <2> QED BY <2>1, <2>2 DEF FromPredecessor
<1>6. CASE \E t \in unheard : InsertedUnheard(t)
  <2>1. PICK t \in unheard : InsertedUnheard(t) BY <1>6
  <2>2. UNCHANGED <<clean, late, batch>> /\ scores' = Store(t) /\ unheard' \subseteq unheard
    BY <2>1 DEF InsertedUnheard, workVars
  <2>3. FromPredecessor(Store(t)) BY <2>1, StoreFromPredecessor
  <2> QED BY <2>2, <2>3 DEF FromPredecessor
<1>7. CASE Load \/ Count \/ Train \/ OpenFile \/ Save \/ Sleep \/ DumpFails
           \/ (Crash /\ UNCHANGED <<scores, unheard, batch>>)
  BY <1>2, <1>7 DEF Load, Count, Train, OpenFile, Save, Sleep, DumpFails, Crash, vars, workVars
<1> QED BY <1>1, <1>3, <1>4, <1>5, <1>6, <1>7 DEF Next, Work, Crash

\* What the invariant says of the stored scores is the property.
LEMMA DeltasHold ==
    DeltaInv => DeltasFromPredecessor
BY DEF DeltaInv, FromPredecessor, DeltasFromPredecessor
-----------------------------------------------------------------------------
(***************************************************************************)
(* TypeOK.  A model is a set of rows that is not empty: the worker knows   *)
(* by this that it has one, and so must the file.                          *)
(***************************************************************************)
SavedFitted == file = "whole" => saved # {}

ScoreTable(t) == DOMAIN t \subseteq Reports /\ \A r \in DOMAIN t : t[r] \in Scored

ControlOK ==
    /\ clean \subseteq Reports /\ late \subseteq clean
    /\ file \in {"absent", "torn", "whole"} /\ saved \subseteq Reports
    /\ pc \in {"seek", "count", "train", "open", "write", "score", "insert"}
    /\ fitted \subseteq Reports
    /\ fitted # {} <=> pc \in {"open", "write"}
    /\ bundle \subseteq Reports
    /\ bundle # {} <=> pc \in {"score", "insert"}
    /\ faults \in 0 .. MaxFaults

TablesOK == ScoreTable(scores) /\ ScoreTable(batch) /\ \A t \in unheard : ScoreTable(t)

LEMMA TypeOKParts == TypeOK <=> ControlOK /\ TablesOK
BY DEF TypeOK, ControlOK, TablesOK, ScoreTable

\* What training yields is not empty, since MinRows is at least 1.
LEMMA TrainedIsSome == Cardinality(Normal) >= MinRows => Normal # {}
<1>1. MinRows \in Nat /\ MinRows >= 1 BY BoundsAssumption
<1>2. Cardinality({}) = 0 BY FS_EmptySet
<1>3. Normal = {} => Cardinality(Normal) = 0 BY <1>2
<1> QED BY <1>1, <1>3

LEMMA ControlStep ==
    ASSUME ControlOK, SavedFitted, Next
    PROVE  ControlOK' /\ SavedFitted'
<1> USE DEF ControlOK, SavedFitted, fileVars, workVars
<1>1. CASE \E r \in Reports : Arrive(r)
  BY <1>1 DEF Arrive
<1>2. CASE Load
  BY <1>2 DEF Load
<1>3. CASE Count
  BY <1>3 DEF Count
<1>4. CASE Train
  BY <1>4, TrainedIsSome DEF Train, Normal
<1>5. CASE OpenFile
  BY <1>5 DEF OpenFile
<1>6. CASE Save
  BY <1>6 DEF Save
<1>7. CASE Read
  BY <1>7 DEF Read
<1>8. CASE Sleep
  BY <1>8 DEF Sleep, vars
<1>9. CASE Insert
  BY <1>9 DEF Insert
<1>10. Fault => faults' \in 0 .. MaxFaults
  BY BoundsAssumption DEF Fault
<1>11. CASE DumpFails
  BY <1>10, <1>11 DEF DumpFails
<1>12. CASE InsertFails
  BY <1>10, <1>12 DEF InsertFails, CutShort
<1>13. CASE Crash
  BY <1>10, <1>13 DEF Crash
<1>14. CASE \E t \in unheard : InsertedUnheard(t)
  BY <1>14 DEF InsertedUnheard
<1> QED BY <1>1, <1>2, <1>3, <1>4, <1>5, <1>6, <1>7, <1>8, <1>9, <1>11, <1>12, <1>13, <1>14
        DEF Next, Work

LEMMA StoreIsTable ==
    ASSUME NEW b, ScoreTable(scores), ScoreTable(b)
    PROVE  ScoreTable(Store(b))
<1> DEFINE new == Store(b)
<1>1. /\ DOMAIN new = DOMAIN scores \cup DOMAIN b
      /\ \A r \in DOMAIN scores : new[r] = scores[r]
      /\ \A r \in DOMAIN b \ DOMAIN scores : new[r] = b[r]
  BY StoreKeeps
<1> HIDE DEF new
<1>2. ScoreTable(new) BY <1>1 DEF ScoreTable
<1> QED BY <1>2 DEF new

LEMMA CutShortTables ==
    ASSUME CutShort, TablesOK
    PROVE  TablesOK'
<1> USE DEF TablesOK
<1>1. PICK done, sent \in Pages(batch) :
          /\ scores' = Store(Restrict(batch, done))
          /\ unheard' = unheard \cup ({Restrict(batch, sent \ done)} \ {Nothing})
  BY DEF CutShort
<1>2. done \subseteq DOMAIN batch /\ sent \ done \subseteq DOMAIN batch BY DEF Pages
<1>3. \A s : s \subseteq DOMAIN batch => ScoreTable(Restrict(batch, s))
  BY DEF Restrict, ScoreTable
<1>4. ScoreTable(scores') BY <1>1, <1>2, <1>3, StoreIsTable
<1>5. \A t \in unheard' : ScoreTable(t) BY <1>1, <1>2, <1>3
<1>6. ScoreTable(batch') BY DEF CutShort, Nothing, ScoreTable
<1> QED BY <1>4, <1>5, <1>6

LEMMA TablesStep ==
    ASSUME ControlOK, TablesOK, HasLatest(clean), Next
    PROVE  TablesOK'
<1> USE DEF TablesOK
<1>1. CASE UNCHANGED <<scores, batch, unheard>>
  BY <1>1
<1>2. CASE Read
  <2>1. PICK rows \in FirstOf(Unscored) :
            batch' = [r \in rows |-> [model |-> bundle, prev |-> Lag(clean, r)]]
    BY <1>2 DEF Read
  <2>2. rows \subseteq Reports BY <2>1 DEF FirstOf, Unscored, ControlOK
  <2>3. \A r \in rows : [model |-> bundle, prev |-> Lag(clean, r)] \in Scored
    <3>1. \A r \in rows : Lag(clean, r) \in {0} \cup {q[2] : q \in Reports}
      BY LagType DEF ControlOK
    <3>2. bundle \in SUBSET Reports BY DEF ControlOK
    <3> QED BY <3>1, <3>2 DEF Scored
  <2>4. ScoreTable(batch') BY <2>1, <2>2, <2>3 DEF ScoreTable
  <2> QED BY <1>2, <2>4 DEF Read
<1>3. CASE Insert
  <2>1. ScoreTable(scores') BY <1>3, StoreIsTable DEF Insert
  <2>2. ScoreTable(batch') BY <1>3 DEF Insert, Nothing, ScoreTable
  <2> QED BY <1>3, <2>1, <2>2 DEF Insert
<1>4. CASE InsertFails \/ (Crash /\ CutShort)
  BY <1>4, CutShortTables DEF InsertFails
<1>5. CASE \E t \in unheard : InsertedUnheard(t)
  <2>1. PICK t \in unheard : InsertedUnheard(t) BY <1>5
  <2>2. ScoreTable(scores') BY <2>1, StoreIsTable DEF InsertedUnheard
  <2> QED BY <2>1, <2>2 DEF InsertedUnheard, workVars
<1>6. CASE \/ \E r \in Reports : Arrive(r)
           \/ Load \/ Count \/ Train \/ OpenFile \/ Save \/ Sleep \/ DumpFails
           \/ (Crash /\ UNCHANGED <<scores, unheard, batch>>)
  BY <1>1, <1>6 DEF Arrive, Load, Count, Train, OpenFile, Save, Sleep, DumpFails, Crash, vars, workVars
<1> QED BY <1>2, <1>3, <1>4, <1>5, <1>6 DEF Next, Work, Crash

\* The worker's steps keep the types.
LEMMA ScoringTypesStep ==
    ASSUME TypeOK, SavedFitted, HasLatest(clean), Next
    PROVE  TypeOK' /\ SavedFitted'
<1>1. ControlOK /\ TablesOK BY TypeOKParts
<1>2. ControlOK' /\ SavedFitted' /\ TablesOK' BY <1>1, ControlStep, TablesStep
<1>3. (TypeOK <=> ControlOK /\ TablesOK)' BY TypeOKParts, PTL
<1> QED BY <1>2, <1>3
=============================================================================
