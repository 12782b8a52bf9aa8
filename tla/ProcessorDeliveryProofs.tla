---------------------- MODULE ProcessorDeliveryProofs ----------------------
(***************************************************************************)
(* The delivery guarantees of Processor, proved for every log, number of   *)
(* partitions, batch and page size, number of attempts and of faults:      *)
(* CommittedSettled; that clean.network_metrics never runs ahead of        *)
(* raw.network_metrics, CleanHasRaw; CommittedRouted, as long as the DLQ   *)
(* works; and, as long as no exception leaves the loop, NothingLost and    *)
(* that Processor implements AtLeastOnce.                                  *)
(*                                                                         *)
(* CommittedSettled alone is not inductive: a commit moves the offsets to  *)
(* what has been read, so the invariant must say what becomes of every     *)
(* message that was read (ReadAccounted), that a commit sends no other     *)
(* offset (StoredIsRead), and what an attempt of _flush has written when   *)
(* it reaches each of its steps (FlushProgress).                           *)
(***************************************************************************)
EXTENDS ProcessorProofs

Accounted(m) == Settled(m) \/ m \in abandoned

Held(m) == m \in ToSet(batch) \/ m \in ToSet(pendV) \/ m \in ToSet(pendI)

\* What was read from an assigned partition is settled or still in memory.
ReadAccounted ==
    \A m \in Messages :
        m[1] \in assigned /\ m[2] < fetchPos[m[1]] => Accounted(m) \/ Held(m)

\* The group is never ahead of what this consumer has read.
CommittedRead == \A p \in assigned : committed[p] <= fetchPos[p]

\* commit() would send the offset after the last message read, or none.
StoredIsRead ==
    \A p \in Partitions : stored[p] # -1 => p \in assigned /\ stored[p] = fetchPos[p]

\* The batch is handled completely, or dropped, before anything is flushed.
BatchInLoop == pc \notin {"poll", "handle"} => batch = <<>>

\* What the attempt under way has written when it gets to each step.
RawWritten     == \A i \in 1 .. Len(pendV) : pendV[i] \in db.raw \cup txn.raw
CleanWritten   == \A i \in 1 .. Len(pendV) : KeyOf[pendV[i]] \in db.clean \cup txn.clean
InvalidWritten == \A i \in 1 .. Len(pendI) : pendI[i] \in db.invalid \cup txn.invalid
PendingSettled == /\ \A i \in 1 .. Len(pendV) : StoredClean(pendV[i])
                  /\ \A i \in 1 .. Len(pendI) : StoredInvalid(pendI[i])

FlushProgress ==
    /\ pc \in {"remember", "clean", "invalid", "dbcommit"} => RawWritten
    /\ pc \in {"invalid", "dbcommit"} => CleanWritten
    /\ pc = "dbcommit" => InvalidWritten
    /\ pc \in {"dlqflush", "kcommit"} => PendingSettled

DeliveryInv ==
    /\ CommittedSettled
    /\ ReadAccounted /\ CommittedRead /\ StoredIsRead
    /\ BatchInLoop /\ FlushProgress
-----------------------------------------------------------------------------
\* No step takes a row out of the database, so what is settled stays settled.
LEMMA TablesGrow ==
    ASSUME [Next]_vars
    PROVE  /\ db.raw \subseteq db'.raw /\ db.clean \subseteq db'.clean
           /\ db.invalid \subseteq db'.invalid
  <1> USE DEF kafkaVars, ctlVars, pendVars, rowVars, dbVars, dlqVars, obsVars
  <1>1. CASE UNCHANGED db
    BY <1>1
  <1>2. CASE \E more : db' = Merge(db, more)
    BY <1>2 DEF Merge
  <1>3. CASE InsertRaw \/ InsertClean \/ InsertInvalid
    BY <1>1, <1>2, <1>3 DEF InsertRaw, InsertClean, InsertInvalid, Write
  <1>4. CASE RawRejected \/ CleanRejected \/ InvalidRejected \/ StatementFails
    BY <1>1, <1>2, <1>4 DEF RawRejected, CleanRejected, InvalidRejected, StatementFails, Unwind
  <1>5. CASE DbCommit \/ DbCommitFails
    BY <1>1, <1>2, <1>5 DEF DbCommit, DbCommitFails
  <1>6. CASE Start \/ Consumed \/ PollRetries \/ PollEmpty \/ HandleValid \/ HandleInvalid
             \/ SendDlqRaises \/ ValidateRaises \/ BatchHandled \/ RememberRow \/ RowsBuilt
    BY <1>1, <1>6 DEF Start, Consumed, PollRetries, PollEmpty, HandleValid, HandleInvalid,
          SendDlqRaises, ValidateRaises, BatchHandled, RememberRow, RowsBuilt, Goto, EnterFlush
  <1>7. CASE DlqFlush \/ KCommit \/ NothingToCommit \/ KCommitFails \/ QualityFlushed
             \/ QualityRaises \/ LoopExit \/ FinallyFlush \/ FinallyNothing \/ Close
             \/ Stop \/ Crash \/ UNCHANGED vars
    BY <1>1, <1>7 DEF DlqFlush, KCommit, NothingToCommit, KCommitFails, QualityFlushed,
          QualityRaises, LoopExit, FinallyFlush, FinallyNothing, Close, Stop, Crash,
          Goto, EnterFlush, vars
  <1>8. ASSUME NEW p \in Partitions, Assign(p) \/ Revoke(p) \/ Fetch(p)  PROVE UNCHANGED db
    BY <1>8 DEF Assign, Revoke, Fetch
  <1>9. ASSUME NEW m \in Messages, DlqDeliver(m) \/ DlqExpire(m)  PROVE UNCHANGED db
    BY <1>9 DEF DlqDeliver, DlqExpire
  <1> QED
    BY <1>1, <1>3, <1>4, <1>5, <1>6, <1>7, <1>8, <1>9
       DEF Next, Process, Environment, Consume, Handle, Flush

\* A settled message is settled after every step: no row is ever deleted.
LEMMA SettledStays ==
    ASSUME [Next]_vars, NEW m, Settled(m)  PROVE Settled(m)'
  BY TablesGrow DEF Settled, StoredClean, StoredInvalid
-----------------------------------------------------------------------------
\* The actions by what they leave alone.  These neither read, nor handle, nor forget
\* a message, and commit nothing.
LEMMA QuietSteps ==
    ASSUME \/ Start \/ Consumed \/ PollRetries \/ PollEmpty \/ BatchHandled \/ QualityFlushed
           \/ QualityRaises \/ Stop \/ LoopExit \/ InsertRaw \/ RememberRow \/ RowsBuilt
           \/ InsertClean \/ InsertInvalid \/ RawRejected \/ CleanRejected \/ InvalidRejected \/ StatementFails
           \/ DbCommit \/ DbCommitFails \/ DlqFlush \/ NothingToCommit
           \/ FinallyFlush \/ FinallyNothing \/ UNCHANGED vars
           \/ \E m \in Messages : DlqDeliver(m) \/ DlqExpire(m)
    PROVE  UNCHANGED <<committed, assigned, fetchPos, stored, batch, pendV, pendI, abandoned>>
  <1> USE DEF kafkaVars, ctlVars, pendVars, rowVars, dbVars, dlqVars, obsVars
  <1>1. CASE Start \/ Consumed \/ PollRetries \/ PollEmpty \/ BatchHandled \/ QualityFlushed
             \/ QualityRaises \/ Stop \/ LoopExit \/ FinallyFlush \/ FinallyNothing
    BY <1>1 DEF Start, Consumed, PollRetries, PollEmpty, BatchHandled, QualityFlushed,
          QualityRaises, Stop, LoopExit, FinallyFlush, FinallyNothing, Goto, EnterFlush
  <1>2. CASE InsertRaw \/ RememberRow \/ RowsBuilt \/ InsertClean \/ InsertInvalid
             \/ DbCommit \/ DlqFlush
    BY <1>2 DEF InsertRaw, RememberRow, RowsBuilt, InsertClean, InsertInvalid, DbCommit,
          DlqFlush, Goto, Write
  <1>3. CASE RawRejected \/ CleanRejected \/ InvalidRejected \/ StatementFails \/ DbCommitFails \/ NothingToCommit
    BY <1>3 DEF RawRejected, CleanRejected, InvalidRejected, StatementFails, DbCommitFails, NothingToCommit,
          AttemptFails
  <1>4. CASE \E m \in Messages : DlqDeliver(m) \/ DlqExpire(m)
    BY <1>4 DEF DlqDeliver, DlqExpire
  <1>5. CASE UNCHANGED vars
    BY <1>5 DEF vars
  <1> QED  BY <1>1, <1>2, <1>3, <1>4, <1>5

\* The batch is empty when a flush starts and stays so until the next poll.
LEMMA BatchInLoopNext == TypeOK /\ BatchInLoop /\ [Next]_vars => BatchInLoop'
  <1> SUFFICES ASSUME TypeOK, BatchInLoop, [Next]_vars  PROVE BatchInLoop'
    OBVIOUS
  <1> USE DEF kafkaVars, ctlVars, pendVars, rowVars, dbVars, dlqVars, obsVars
  <1>1. CASE batch' = <<>>
    BY <1>1 DEF BatchInLoop
  <1>2. CASE UNCHANGED batch /\ pc' \in {"poll", "handle", pc}
    BY <1>2 DEF BatchInLoop
  <1>3. CASE UNCHANGED batch /\ pc \notin {"poll", "handle"}
    BY <1>3, <1>1 DEF BatchInLoop
  <1>4. CASE Start \/ Consumed \/ HandleValid \/ HandleInvalid \/ QualityFlushed \/ Stop
             \/ UNCHANGED vars
    BY <1>2, <1>4 DEF Start, Consumed, HandleValid, HandleInvalid, Judged, QualityFlushed, Stop,
          Goto, vars, BatchInLoop
  <1>5. CASE PollRetries \/ PollEmpty \/ BatchHandled \/ LoopExit
    BY <1>1, <1>5 DEF PollRetries, PollEmpty, BatchHandled, LoopExit, Goto, EnterFlush
  <1>6. CASE SendDlqRaises \/ ValidateRaises \/ Close \/ Crash
    BY <1>1, <1>6 DEF SendDlqRaises, ValidateRaises, LeaveLoop, Close, Crash, ProcessEnds
  <1>7. CASE InsertRaw \/ RememberRow \/ RowsBuilt \/ InsertClean \/ InsertInvalid \/ DbCommit
             \/ DlqFlush \/ KCommit \/ QualityRaises \/ FinallyFlush \/ FinallyNothing
    BY <1>3, <1>7 DEF InsertRaw, RememberRow, RowsBuilt, InsertClean, InsertInvalid, DbCommit,
          DlqFlush, KCommit, QualityRaises, FinallyFlush, FinallyNothing, Goto, Write, EnterFlush
  <1>8. CASE RawRejected \/ CleanRejected \/ InvalidRejected \/ StatementFails \/ DbCommitFails
             \/ NothingToCommit \/ KCommitFails
    BY <1>3, <1>8 DEF RawRejected, CleanRejected, InvalidRejected, StatementFails, DbCommitFails,
          NothingToCommit, KCommitFails, AttemptFails
  <1>9. ASSUME NEW p \in Partitions, Assign(p) \/ Revoke(p)  PROVE BatchInLoop'
    BY <1>2, <1>9 DEF Assign, Revoke
  <1>10. ASSUME NEW p \in Partitions, Fetch(p)  PROVE BatchInLoop'
    BY <1>10 DEF Fetch, BatchInLoop
  <1>11. ASSUME NEW m \in Messages, DlqDeliver(m) \/ DlqExpire(m)  PROVE BatchInLoop'
    BY <1>2, <1>11 DEF DlqDeliver, DlqExpire
  <1> QED
    BY <1>4, <1>5, <1>6, <1>7, <1>8, <1>9, <1>10, <1>11
       DEF Next, Process, Environment, Consume, Handle, Flush

\* A commit, applied in full or in part, changes an offset only to the stored one.
LEMMA CommitSends ==
    ASSUME KCommit \/ KCommitFails
    PROVE  \A p \in Partitions : \/ committed'[p] = committed[p]
                                 \/ stored[p] # -1 /\ committed'[p] = stored[p]
  <1>1. \A p \in ToCommit : stored[p] # -1
    BY DEF ToCommit
  <1>2. ASSUME NEW applied, applied \subseteq ToCommit,
               committed' = [p \in Partitions |-> IF p \in applied THEN stored[p] ELSE committed[p]],
               NEW p \in Partitions
        PROVE  committed'[p] = committed[p] \/ (stored[p] # -1 /\ committed'[p] = stored[p])
    <2>1. committed'[p] = IF p \in applied THEN stored[p] ELSE committed[p]
      BY <1>2, Zenon
    <2> QED  BY <1>1, <1>2, <2>1
  <1>3. CASE KCommit
    BY <1>2, <1>3 DEF KCommit
  <1>4. CASE KCommitFails
    BY <1>2, <1>4 DEF KCommitFails
  <1> QED  BY <1>3, <1>4

\* Assignments, reads and commits keep the committed, the stored and the read offset of
\* a partition in order.
LEMMA OffsetsNext ==
    TypeOK /\ CommittedRead /\ StoredIsRead /\ [Next]_vars => CommittedRead' /\ StoredIsRead'
  <1> SUFFICES ASSUME TypeOK, CommittedRead, StoredIsRead, [Next]_vars
               PROVE  CommittedRead' /\ StoredIsRead'
    OBVIOUS
  <1> USE DEF kafkaVars, ctlVars, pendVars, rowVars, dbVars, dlqVars, obsVars
  <1>1. CASE UNCHANGED <<committed, assigned, fetchPos, stored>>
    BY <1>1 DEF CommittedRead, StoredIsRead
  <1>2. CASE HandleValid \/ HandleInvalid \/ SendDlqRaises \/ ValidateRaises
    BY <1>1, <1>2 DEF HandleValid, HandleInvalid, SendDlqRaises, ValidateRaises
  <1>3. ASSUME NEW p \in Partitions, Assign(p)  PROVE CommittedRead' /\ StoredIsRead'
    BY <1>3 DEF TypeOK, Assign, CommittedRead, StoredIsRead
  <1>4. ASSUME NEW p \in Partitions, Revoke(p)  PROVE CommittedRead' /\ StoredIsRead'
    BY <1>4 DEF TypeOK, Revoke, CommittedRead, StoredIsRead
  <1>5. ASSUME NEW p \in Partitions, Fetch(p)  PROVE CommittedRead' /\ StoredIsRead'
    <2>1. /\ p \in assigned /\ UNCHANGED <<committed, assigned>>
          /\ fetchPos' = [fetchPos EXCEPT ![p] = @ + 1]
          /\ stored' = [stored EXCEPT ![p] = fetchPos[p] + 1]
      BY <1>5 DEF Fetch
    <2>2. CommittedRead'
      BY <2>1 DEF TypeOK, CommittedRead
    <2>3. StoredIsRead'
      BY <2>1 DEF TypeOK, StoredIsRead
    <2> QED  BY <2>2, <2>3
  <1>6. CASE KCommit \/ KCommitFails
    <2>1. UNCHANGED <<assigned, fetchPos>>
      BY <1>6 DEF KCommit, KCommitFails
    <2>2. \A p \in Partitions : \/ committed'[p] = committed[p]
                                \/ stored[p] # -1 /\ committed'[p] = stored[p]
      BY <1>6, CommitSends
    <2>3. stored' = stored \/ \A p \in Partitions : stored'[p] = -1
      BY <1>6 DEF KCommit, KCommitFails
    <2>4. CommittedRead'
      <3> SUFFICES ASSUME NEW p \in assigned  PROVE committed'[p] <= fetchPos[p]
        BY <2>1 DEF CommittedRead
      <3>1. p \in Partitions /\ fetchPos[p] \in Nat
        BY DEF TypeOK
      <3> QED  BY <2>2, <3>1 DEF CommittedRead, StoredIsRead
    <2>5. StoredIsRead'
      BY <2>1, <2>3 DEF StoredIsRead
    <2> QED  BY <2>4, <2>5
  <1>7. CASE Close \/ Crash
    BY <1>7 DEF TypeOK, Close, Crash, ProcessEnds, CommittedRead, StoredIsRead
  <1> QED
    BY <1>1, <1>2, <1>3, <1>4, <1>5, <1>6, <1>7, QuietSteps
       DEF Next, Process, Environment, Consume, Handle, Flush

\* Each step of an attempt finds written what the steps before it had to write.
LEMMA FlushProgressNext ==
    TypeOK /\ RowsFollow /\ FlushProgress /\ [Next]_vars => FlushProgress'
  <1> SUFFICES ASSUME TypeOK, RowsFollow, FlushProgress, [Next]_vars  PROVE FlushProgress'
    OBVIOUS
  <1> USE DEF kafkaVars, ctlVars, pendVars, rowVars, dbVars, dlqVars, obsVars
  <1>1. CASE UNCHANGED <<pc, pendV, pendI, db, txn>>
    BY <1>1 DEF FlushProgress, RawWritten, CleanWritten, InvalidWritten, PendingSettled,
                StoredClean, StoredInvalid
  <1>2. CASE pc' \notin {"remember", "clean", "invalid", "dbcommit", "dlqflush", "kcommit"}
    BY <1>2 DEF FlushProgress
  <1>3. CASE UNCHANGED <<pendV, pendI>> /\ pc' = FirstStatement
    <2>1. pc' = "invalid" => pendV' = <<>>
      BY <1>3 DEF FirstStatement
    <2>2. pc' \in {"raw", "invalid"}
      BY <1>3 DEF FirstStatement
    <2> QED  BY <2>1, <2>2 DEF FlushProgress, RawWritten, CleanWritten
  <1>4. CASE InsertRaw
    <2>1. /\ UNCHANGED <<pendV, pendI>> /\ pc' = "remember"
          /\ db'.raw \cup txn'.raw = db.raw \cup txn.raw \cup {pendV[i] : i \in 1 .. Len(pendV)}
      BY <1>4 DEF InsertRaw, Write, Merge, RawRows, NoRows
    <2> QED  BY <2>1 DEF FlushProgress, RawWritten
  <1>5. CASE RowsBuilt
    BY <1>5 DEF RowsBuilt, Goto, FlushProgress, RawWritten
  <1>6. CASE InsertClean
    <2>1. UNCHANGED <<pendV, pendI>> /\ pc = "clean" /\ pc' \in {"invalid", "dbcommit"}
      BY <1>6 DEF InsertClean, Write
    <2>2. db'.raw \cup txn'.raw = db.raw \cup txn.raw
      BY <1>6 DEF InsertClean, Write, Merge, CleanRows, NoRows
    <2>3. db'.clean \cup txn'.clean = db.clean \cup txn.clean \cup {rows[i].key : i \in 1 .. Len(rows)}
      BY <1>6 DEF InsertClean, Write, Merge, CleanRows, NoRows
    <2>4. \A i \in 1 .. Len(pendV) : KeyOf[pendV[i]] \in {rows[j].key : j \in 1 .. Len(rows)}
      BY <2>1 DEF RowsFollow
    <2>5. pc' = "dbcommit" => pendI' = <<>>
      BY <1>6, <2>1 DEF InsertClean
    <2> QED  BY <2>1, <2>2, <2>3, <2>4, <2>5
             DEF FlushProgress, RawWritten, CleanWritten, InvalidWritten
  <1>7. CASE InsertInvalid
    <2>1. UNCHANGED <<pendV, pendI>> /\ pc = "invalid" /\ pc' = "dbcommit"
      BY <1>7 DEF InsertInvalid, Write
    <2>2. /\ db'.raw \cup txn'.raw = db.raw \cup txn.raw
          /\ db'.clean \cup txn'.clean = db.clean \cup txn.clean
          /\ {pendI[i] : i \in 1 .. Len(pendI)} \subseteq db'.invalid \cup txn'.invalid
      BY <1>7 DEF InsertInvalid, Write, Merge, InvalidRows, NoRows
    <2> QED  BY <2>1, <2>2 DEF FlushProgress, RawWritten, CleanWritten, InvalidWritten
  <1>8. CASE DbCommit
    BY <1>8 DEF DbCommit, Merge, FlushProgress, RawWritten, CleanWritten, InvalidWritten,
                PendingSettled, StoredClean, StoredInvalid
  <1>9. CASE DlqFlush
    BY <1>9 DEF DlqFlush, Goto, FlushProgress, PendingSettled, StoredClean, StoredInvalid
  <1>10. CASE PollRetries \/ BatchHandled \/ FinallyFlush
    BY <1>3, <1>10 DEF PollRetries, BatchHandled, FinallyFlush, EnterFlush
  <1>11. CASE RawRejected \/ CleanRejected \/ InvalidRejected \/ StatementFails \/ DbCommitFails
              \/ NothingToCommit \/ KCommitFails
    <2>1. AttemptFails
      BY <1>11 DEF RawRejected, CleanRejected, InvalidRejected, StatementFails, DbCommitFails,
                   NothingToCommit, KCommitFails
    <2> QED  BY <1>2, <1>3, <2>1 DEF AttemptFails, AfterFlush
  <1>12. CASE Start \/ Consumed \/ PollEmpty \/ SendDlqRaises \/ ValidateRaises \/ QualityFlushed
              \/ QualityRaises \/ LoopExit \/ FinallyNothing \/ KCommit \/ Close \/ Crash
    BY <1>2, <1>12 DEF Start, Consumed, PollEmpty, SendDlqRaises, ValidateRaises, LeaveLoop,
          QualityFlushed, QualityRaises, LoopExit, FinallyNothing, KCommit, AfterFlush,
          Close, Crash, ProcessEnds, Goto
  <1>13. CASE HandleValid \/ HandleInvalid
    BY <1>2, <1>13 DEF HandleValid, HandleInvalid, Judged
  <1>14. CASE RememberRow \/ Stop \/ UNCHANGED vars
    BY <1>1, <1>14 DEF RememberRow, Stop, vars
  <1>15. ASSUME NEW p \in Partitions, Assign(p) \/ Revoke(p) \/ Fetch(p)  PROVE FlushProgress'
    BY <1>1, <1>15 DEF Assign, Revoke, Fetch
  <1>16. ASSUME NEW m \in Messages, DlqDeliver(m) \/ DlqExpire(m)  PROVE FlushProgress'
    BY <1>1, <1>16 DEF DlqDeliver, DlqExpire
  <1> QED
    BY <1>4, <1>5, <1>6, <1>7, <1>8, <1>9, <1>10, <1>11, <1>12, <1>13, <1>14, <1>15, <1>16
       DEF Next, Process, Environment, Consume, Handle, Flush
-----------------------------------------------------------------------------
\* Where a message is, when a step neither commits nor loses anything.
LEMMA NothingMoves ==
    ASSUME TypeOK, DeliveryInv, [Next]_vars,
           UNCHANGED <<committed, abandoned>>,
           \A p \in assigned' : p \in assigned /\ fetchPos'[p] = fetchPos[p],
           \A m \in Messages : Held(m) => Held(m)'
    PROVE  CommittedSettled' /\ ReadAccounted'
  <1>1. \A m \in Messages : Accounted(m) => Accounted(m)'
    BY SettledStays DEF Accounted
  <1>2. CommittedSettled'
    BY <1>1 DEF DeliveryInv, CommittedSettled, Behind, Accounted
  <1>3. ReadAccounted'
    BY <1>1 DEF DeliveryInv, ReadAccounted
  <1> QED  BY <1>2, <1>3

\* Moving messages from the batch to what is pending keeps them held.
LEMMA HandlingHolds ==
    ASSUME TypeOK, HandleValid \/ HandleInvalid  PROVE \A m \in Messages : Held(m) => Held(m)'
  <1>1. Head(batch) \in Messages /\ ToSet(batch) = {Head(batch)} \cup ToSet(Tail(batch))
    BY ToSetHeadTail DEF TypeOK, HandleValid, HandleInvalid, Judged
  <1>2. /\ ToSet(Append(pendV, Head(batch))) = ToSet(pendV) \cup {Head(batch)}
        /\ ToSet(Append(pendI, Head(batch))) = ToSet(pendI) \cup {Head(batch)}
    BY <1>1, ToSetAppend DEF TypeOK
  <1> QED  BY <1>1, <1>2 DEF Held, HandleValid, HandleInvalid

\* Every step keeps track of every message that was read or committed.
LEMMA AccountingNext ==
    TypeOK /\ DeliveryInv /\ [Next]_vars => CommittedSettled' /\ ReadAccounted'
  <1> SUFFICES ASSUME TypeOK, DeliveryInv, [Next]_vars  PROVE CommittedSettled' /\ ReadAccounted'
    OBVIOUS
  <1> USE DEF kafkaVars, ctlVars, pendVars, rowVars, dbVars, dlqVars, obsVars
  <1>1. \A m \in Messages : Settled(m) => Settled(m)'
    BY SettledStays
  <1>2. CASE UNCHANGED <<committed, assigned, fetchPos, stored, batch, pendV, pendI, abandoned>>
    BY <1>2, NothingMoves DEF Held
  <1>3. CASE HandleValid \/ HandleInvalid
    <2>1. UNCHANGED <<committed, assigned, fetchPos, abandoned>>
      BY <1>3 DEF HandleValid, HandleInvalid
    <2> QED  BY <1>3, <2>1, HandlingHolds, NothingMoves
  <1>4. CASE SendDlqRaises \/ ValidateRaises
    <2>1. /\ UNCHANGED <<committed, assigned, fetchPos, pendV>>
          /\ abandoned \subseteq abandoned'
      BY <1>4 DEF SendDlqRaises, ValidateRaises, LeaveLoop
    <2>2. \A m \in Messages : Held(m) => Held(m)' \/ m \in abandoned'
      <3>1. CASE ValidateRaises
        BY <3>1 DEF ValidateRaises, LeaveLoop, Held
      <3>2. CASE SendDlqRaises
        <4>1. Head(batch) \in Messages /\ ToSet(batch) = {Head(batch)} \cup ToSet(Tail(batch))
          BY <3>2, ToSetHeadTail DEF TypeOK, SendDlqRaises, Judged
        <4>2. ToSet(Append(pendI, Head(batch))) = ToSet(pendI) \cup {Head(batch)}
          BY <4>1, ToSetAppend DEF TypeOK
        <4> QED  BY <3>2, <4>1, <4>2 DEF SendDlqRaises, LeaveLoop, Held
      <3> QED  BY <1>4, <3>1, <3>2
    <2> QED  BY <1>1, <2>1, <2>2 DEF DeliveryInv, CommittedSettled, Behind, ReadAccounted, Accounted
  <1>5. ASSUME NEW p \in Partitions, Assign(p)  PROVE CommittedSettled' /\ ReadAccounted'
    <2>1. /\ UNCHANGED <<committed, batch, pendV, pendI, abandoned>>
          /\ assigned' = assigned \cup {p}
          /\ \A q \in Partitions : fetchPos'[q] = IF q = p THEN committed[p] ELSE fetchPos[q]
      BY <1>5 DEF Assign, TypeOK
    <2>2. CommittedSettled'
      BY <1>1, <2>1 DEF DeliveryInv, CommittedSettled, Behind
    <2>3. \A m \in Messages : m[1] \in Partitions
      BY MessageIsPosition
    <2>4. ReadAccounted'
      BY <1>1, <2>1, <2>3 DEF DeliveryInv, CommittedSettled, Behind, ReadAccounted, Accounted, Held
    <2> QED  BY <2>2, <2>4
  <1>6. ASSUME NEW p \in Partitions, Revoke(p)  PROVE CommittedSettled' /\ ReadAccounted'
    <2>1. /\ UNCHANGED <<committed, batch, pendV, pendI, abandoned>>
          /\ \A q \in assigned' : q \in assigned /\ fetchPos'[q] = fetchPos[q]
      BY <1>6 DEF Revoke, TypeOK
    <2> QED  BY <2>1, NothingMoves DEF Held
  <1>7. ASSUME NEW p \in Partitions, Fetch(p)  PROVE CommittedSettled' /\ ReadAccounted'
    <2> DEFINE new == <<p, fetchPos[p]>>
    <2>1. new \in Messages /\ p \in assigned
      BY <1>7, MessageIsPosition DEF Fetch, TypeOK
    <2>2. /\ UNCHANGED <<committed, assigned, pendV, pendI>>
          /\ abandoned' = abandoned \ {new}
          /\ ToSet(batch') = ToSet(batch) \cup {new}
          /\ \A q \in Partitions : fetchPos'[q] = IF q = p THEN fetchPos[p] + 1 ELSE fetchPos[q]
      <3>1. ToSet(Append(batch, new)) = ToSet(batch) \cup {new}
        <4>1. batch \in Seq(Messages)
          BY DEF TypeOK
        <4> HIDE DEF new
        <4> QED  BY <2>1, <4>1, ToSetAppend
      <3>2. /\ UNCHANGED <<committed, assigned, pendV, pendI>>
            /\ abandoned' = abandoned \ {new} /\ batch' = Append(batch, new)
            /\ fetchPos' = [fetchPos EXCEPT ![p] = @ + 1]
        BY <1>7 DEF Fetch
      <3> QED  BY <3>1, <3>2 DEF TypeOK
    <2>3. new \notin Behind
      BY <2>1 DEF Behind, DeliveryInv, CommittedRead, TypeOK
    <2>4. CommittedSettled'
      BY <1>1, <2>2, <2>3 DEF DeliveryInv, CommittedSettled, Behind
    <2>5. ASSUME NEW m \in Messages, m[1] \in assigned, m[2] < fetchPos'[m[1]], m # new
          PROVE  Accounted(m)' \/ Held(m)'
      <3>1. m[2] < fetchPos[m[1]]
        <4>1. m[1] \in Partitions /\ m[2] \in Nat /\ m = <<m[1], m[2]>>
          BY MessageIsPosition
        <4>2. m[1] # p \/ m[2] # fetchPos[p]
          BY ONLY <2>5, <4>1
        <4>3. fetchPos[p] \in Nat
          BY DEF TypeOK
        <4> QED  BY ONLY <2>2, <2>5, <4>1, <4>2, <4>3
      <3> QED  BY <1>1, <2>2, <2>5, <3>1 DEF DeliveryInv, ReadAccounted, Accounted, Held
    <2>6. ReadAccounted'
      BY <2>2, <2>5 DEF ReadAccounted, Held
    <2> QED  BY <2>4, <2>6
  <1>8. CASE KCommit \/ KCommitFails
    <2>1. /\ UNCHANGED <<assigned, fetchPos, abandoned>>
          /\ pc = "kcommit" /\ batch = <<>>
      BY <1>8 DEF KCommit, KCommitFails, AttemptFails, DeliveryInv, BatchInLoop
    <2>2. \A m \in Messages : Held(m) => Settled(m)
      <3>1. /\ ToSet(pendV) = {pendV[i] : i \in 1 .. Len(pendV)}
            /\ ToSet(pendI) = {pendI[i] : i \in 1 .. Len(pendI)}
        BY ToSetOfSeq DEF TypeOK
      <3> QED  BY <2>1, <3>1, ToSetEmpty
               DEF DeliveryInv, FlushProgress, PendingSettled, Held, Settled
    <2>3. \A p \in Partitions : \/ committed'[p] = committed[p]
                                \/ p \in assigned /\ committed'[p] = fetchPos[p]
      BY <1>8, CommitSends DEF DeliveryInv, StoredIsRead
    <2>4. CommittedSettled'
      <3> SUFFICES ASSUME NEW m \in Messages, m[2] < committed'[m[1]]
                   PROVE  Settled(m)' \/ m \in abandoned
        BY <2>1 DEF CommittedSettled, Behind
      <3>1. m[1] \in Partitions
        BY MessageIsPosition
      <3>2. Accounted(m) \/ Held(m)
        BY <2>3, <3>1 DEF DeliveryInv, CommittedSettled, Behind, ReadAccounted, Accounted
      <3> QED  BY <1>1, <2>2, <3>2 DEF Accounted
    <2>5. ReadAccounted'
      BY <1>1, <2>1, <2>2 DEF DeliveryInv, ReadAccounted, Accounted
    <2> QED  BY <2>4, <2>5
  <1>9. CASE Close \/ Crash
    <2>1. UNCHANGED <<committed, db, abandoned>> /\ assigned' = {}
      BY <1>9 DEF Close, Crash, ProcessEnds
    <2> QED  BY <1>1, <2>1 DEF DeliveryInv, CommittedSettled, Behind, ReadAccounted
  <1> QED
    BY <1>2, <1>3, <1>4, <1>5, <1>6, <1>7, <1>8, <1>9, QuietSteps
       DEF Next, Process, Environment, Consume, Handle, Flush
-----------------------------------------------------------------------------
\* The invariant of the delivery proof holds initially and is kept by every step.
LEMMA DeliveryInvHolds == Spec => [](TypeOK /\ RowsFollow /\ DeliveryInv)
  <1>1. Init => TypeOK /\ RowsFollow /\ DeliveryInv
    <2> SUFFICES ASSUME Init  PROVE TypeOK /\ RowsFollow /\ DeliveryInv
      OBVIOUS
    <2>1. TypeOK /\ RowsFollow
      BY TypeOKInit DEF Init, RowsFollow
    <2>2. \A m \in Messages : ~(m[2] < committed[m[1]])
      BY MessageIsPosition DEF Init
    <2> QED  BY <2>1, <2>2 DEF Init, DeliveryInv, CommittedSettled, Behind, ReadAccounted,
               CommittedRead, StoredIsRead, BatchInLoop, FlushProgress
  <1>2. TypeOK /\ RowsFollow /\ DeliveryInv /\ [Next]_vars => (TypeOK /\ RowsFollow /\ DeliveryInv)'
    BY TypeOKNext, RowsFollowNext, AccountingNext, OffsetsNext, BatchInLoopNext, FlushProgressNext
       DEF DeliveryInv
  <1> QED  BY <1>1, <1>2, PTL DEF Spec

\* An offset is committed only after what precedes it is in the database, whatever the
\* crashes, rebalances, retries and half-applied statements; the only exception is a
\* batch that an exception tore out of the loop of run().
THEOREM CommittedIsSettled == Spec => []CommittedSettled
  BY DeliveryInvHolds, PTL DEF DeliveryInv
-----------------------------------------------------------------------------
(***************************************************************************)
(* CleanHasRaw.  The strengthening follows the open transaction: its clean *)
(* rows may rest on raw rows of its own, and in autocommit mode there is   *)
(* no transaction whose raw rows a rollback could take away.               *)
(***************************************************************************)
CleanInv ==
    /\ CleanHasRaw
    /\ \A k \in txn.clean : \E m \in db.raw \cup txn.raw : KeyOf[m] = k
    /\ autocommit \/ pc = "down" => txn = NoRows

\* The rows of a clean INSERT rest on raw rows of the same attempt.
LEMMA CleanRowsHaveRaw ==
    ASSUME TypeOK, RowsFollow, FlushProgress, pc = "clean", NEW k \in 0 .. Len(rows)
    PROVE  \A key \in CleanRows(k).clean : \E m \in db.raw \cup txn.raw : KeyOf[m] = key
  <1>1. CleanRows(k).clean \subseteq {rows[i].key : i \in 1 .. k}
    BY DEF CleanRows, NoRows
  <1>2. \A i \in 1 .. k : i \in 1 .. Len(pendV) /\ rows[i].key = KeyOf[pendV[i]]
    BY DEF RowsFollow, TypeOK
  <1>3. \A i \in 1 .. Len(pendV) : pendV[i] \in db.raw \cup txn.raw
    BY DEF FlushProgress, RawWritten
  <1> QED  BY <1>1, <1>2, <1>3

\* A statement keeps CleanInv if the clean rows it writes rest on raw rows.
LEMMA WriteKeepsCleanInv ==
    ASSUME CleanInv, NEW delta,
           \A key \in delta.clean : \E m \in db.raw \cup txn.raw : KeyOf[m] = key
    PROVE  /\ Write(delta) /\ pc' # "down" => CleanInv'
           /\ Unwind(delta) => CleanInv'
  <1>1. ASSUME autocommit
        PROVE  /\ txn = NoRows
               /\ \A key \in Merge(db, delta).clean : \E m \in Merge(db, delta).raw : KeyOf[m] = key
    BY <1>1 DEF CleanInv, CleanHasRaw, NoRows, Merge
  <1>2. \A key \in Merge(txn, delta).clean : \E m \in db.raw \cup Merge(txn, delta).raw : KeyOf[m] = key
    BY DEF CleanInv, Merge
  <1>3. ASSUME Write(delta), pc' # "down"  PROVE CleanInv'
    <2>1. CASE autocommit
      <3>1. db' = Merge(db, delta) /\ txn' = NoRows
        BY <1>1, <1>3, <2>1 DEF Write
      <3>2. NoRows.clean = {}
        BY DEF NoRows
      <3> QED  BY <1>1, <2>1, <3>1, <3>2 DEF CleanInv, CleanHasRaw
    <2>2. CASE ~autocommit
      <3>1. db' = db /\ txn' = Merge(txn, delta) /\ ~autocommit'
        BY <1>3, <2>2 DEF Write
      <3> QED  BY <1>2, <1>3, <3>1 DEF CleanInv, CleanHasRaw
    <2> QED  BY <2>1, <2>2
  <1>4. ASSUME Unwind(delta)  PROVE CleanInv'
    BY <1>1, <1>4 DEF Unwind, CleanInv, CleanHasRaw, NoRows
  <1> QED  BY <1>3, <1>4

\* Every step keeps clean.network_metrics behind raw.network_metrics.
LEMMA CleanInvNext ==
    TypeOK /\ RowsFollow /\ FlushProgress /\ CleanInv /\ [Next]_vars => CleanInv'
  <1> SUFFICES ASSUME TypeOK, RowsFollow, FlushProgress, CleanInv, [Next]_vars  PROVE CleanInv'
    OBVIOUS
  <1> USE DEF kafkaVars, ctlVars, pendVars, rowVars, dbVars, dlqVars, obsVars
  <1>1. CASE UNCHANGED <<db, txn>> /\ autocommit' \in {autocommit, FALSE} /\ (pc' = "down" => pc = "down")
    <2>1. autocommit' => autocommit
      BY <1>1, Zenon
    <2> QED  BY <1>1, <2>1 DEF CleanInv, CleanHasRaw
  <1>2. CASE UNCHANGED db /\ txn' = NoRows
    BY <1>2 DEF CleanInv, CleanHasRaw, NoRows
  <1>3. \A k : RawRows(k).clean = {} /\ InvalidRows(k).clean = {}
    BY DEF RawRows, InvalidRows, NoRows
  <1>4. CASE InsertRaw
    BY <1>3, <1>4, WriteKeepsCleanInv DEF InsertRaw
  <1>5. CASE InsertClean
    <2>1. pc = "clean" /\ pc' # "down" /\ Write(CleanRows(Len(rows))) /\ Len(rows) \in 0 .. Len(rows)
      BY <1>5 DEF InsertClean, TypeOK
    <2> QED  BY <2>1, CleanRowsHaveRaw, WriteKeepsCleanInv
  <1>6. CASE InsertInvalid
    BY <1>3, <1>6, WriteKeepsCleanInv DEF InsertInvalid
  <1>7. CASE RawRejected \/ CleanRejected \/ InvalidRejected \/ StatementFails
    <2>1. \/ \E k : Unwind(RawRows(k)) \/ Unwind(InvalidRows(k))
          \/ pc = "clean" /\ \E k \in 0 .. Len(rows) : Unwind(CleanRows(k))
      BY <1>7 DEF RawRejected, CleanRejected, InvalidRejected, StatementFails, PagesRun, RowsFollow
    <2> QED  BY <1>3, <2>1, CleanRowsHaveRaw, WriteKeepsCleanInv
  <1>8. CASE DbCommit
    BY <1>8 DEF DbCommit, CleanInv, CleanHasRaw, Merge, NoRows
  <1>9. CASE DbCommitFails
    BY <1>9 DEF DbCommitFails, CleanInv, CleanHasRaw, Merge, NoRows
  <1>10. CASE Start
    BY <1>10 DEF Start, CleanInv, CleanHasRaw
  <1>11. CASE Close \/ Crash
    BY <1>2, <1>11 DEF Close, Crash, ProcessEnds
  <1>12. CASE Consumed \/ PollRetries \/ PollEmpty \/ BatchHandled \/ QualityFlushed \/ LoopExit
              \/ FinallyFlush \/ FinallyNothing \/ RowsBuilt \/ DlqFlush
    BY <1>1, <1>12 DEF Consumed, PollRetries, PollEmpty, BatchHandled, QualityFlushed, LoopExit,
          FinallyFlush, FinallyNothing, RowsBuilt, DlqFlush, Goto, EnterFlush, FirstStatement
  <1>13. CASE HandleValid \/ HandleInvalid \/ SendDlqRaises \/ ValidateRaises \/ QualityRaises
              \/ Stop \/ RememberRow \/ UNCHANGED vars
    BY <1>1, <1>13 DEF HandleValid, HandleInvalid, SendDlqRaises, ValidateRaises, LeaveLoop,
          QualityRaises, Stop, RememberRow, vars
  <1>14. CASE KCommit \/ NothingToCommit \/ KCommitFails
    BY <1>1, <1>14 DEF KCommit, NothingToCommit, KCommitFails, AttemptFails, AfterFlush, FirstStatement
  <1>15. ASSUME NEW p \in Partitions, Assign(p) \/ Revoke(p) \/ Fetch(p)  PROVE CleanInv'
    BY <1>1, <1>15 DEF Assign, Revoke, Fetch
  <1>16. ASSUME NEW m \in Messages, DlqDeliver(m) \/ DlqExpire(m)  PROVE CleanInv'
    BY <1>1, <1>16 DEF DlqDeliver, DlqExpire
  <1> QED
    BY <1>4, <1>5, <1>6, <1>7, <1>8, <1>9, <1>10, <1>11, <1>12, <1>13, <1>14, <1>15, <1>16
       DEF Next, Process, Environment, Consume, Handle, Flush

\* Every row of clean.network_metrics has its payload in the audit log, in autocommit mode
\* as well as in a transaction, whichever statement or COMMIT fails.
THEOREM CleanIsBackedByRaw == Spec => []CleanHasRaw
  <1>1. Init => CleanInv
    BY DEF Init, CleanInv, CleanHasRaw, NoRows
  <1>2. TypeOK /\ RowsFollow /\ DeliveryInv /\ CleanInv /\ [Next]_vars => CleanInv'
    BY CleanInvNext DEF DeliveryInv
  <1>3. CleanInv => CleanHasRaw
    BY DEF CleanInv
  <1> QED  BY <1>1, <1>2, <1>3, DeliveryInvHolds, PTL DEF Spec
-----------------------------------------------------------------------------
(***************************************************************************)
(* CommittedRouted, for a DLQ producer that neither raises nor times out:  *)
(* a record that expires, or that produce() did not take after             *)
(* pending_invalid.append, is committed past (MCProcessorDlqLoss).  The    *)
(* argument is that of CommittedSettled with another account of what was   *)
(* read, and with where the DLQ record of a pending invalid message is: in *)
(* the local queue or in the topic, and after dlq.flush in the topic.      *)
(***************************************************************************)
Routed(m) == StoredClean(m) \/ m \in dlq \/ m \in abandoned

ReadRouted ==
    \A m \in Messages :
        m[1] \in assigned /\ m[2] < fetchPos[m[1]] => Routed(m) \/ Held(m)

\* The records of what is pending were handed to the producer, and dlq.flush waits
\* for all of them.
PendingQueued == ToSet(pendI) \subseteq dlqQueue \cup dlq
QueueFlushed  == pc = "kcommit" => dlqQueue = {}

RoutedInv == CommittedRouted /\ ReadRouted /\ PendingQueued /\ QueueFlushed

\* What the producer holds is not lost while the message is pending, and nothing is
\* handed to it between dlq.flush and the commit.
LEMMA QueueNext ==
    ASSUME ~DlqMayTimeOut, ~DlqMayRaise
    PROVE  TypeOK /\ PendingQueued /\ QueueFlushed /\ [Next]_vars
              => dlq \subseteq dlq' /\ PendingQueued' /\ QueueFlushed'
  <1> SUFFICES ASSUME TypeOK, PendingQueued, QueueFlushed, [Next]_vars
               PROVE  dlq \subseteq dlq' /\ PendingQueued' /\ QueueFlushed'
    OBVIOUS
  <1> USE DEF kafkaVars, ctlVars, pendVars, rowVars, dbVars, dlqVars, obsVars
  <1> DEFINE Goal == dlq \subseteq dlq' /\ PendingQueued' /\ QueueFlushed'
  <1>1. CASE UNCHANGED <<pendI, dlqQueue, dlq>> /\ (pc' = "kcommit" => pc = "kcommit")
    BY <1>1 DEF PendingQueued, QueueFlushed
  <1>2. CASE Start \/ Consumed \/ PollRetries \/ PollEmpty \/ HandleValid \/ BatchHandled
             \/ ValidateRaises \/ QualityFlushed \/ QualityRaises \/ Stop \/ LoopExit
             \/ FinallyFlush \/ FinallyNothing \/ UNCHANGED vars
    BY <1>1, <1>2 DEF Start, Consumed, PollRetries, PollEmpty, HandleValid, BatchHandled,
          ValidateRaises, LeaveLoop, QualityFlushed, QualityRaises, Stop, LoopExit,
          FinallyFlush, FinallyNothing, Goto, EnterFlush, FirstStatement, vars
  <1>3. CASE InsertRaw \/ RememberRow \/ RowsBuilt \/ InsertClean \/ InsertInvalid \/ DbCommit
    BY <1>1, <1>3 DEF InsertRaw, RememberRow, RowsBuilt, InsertClean, InsertInvalid, DbCommit,
          Goto, Write
  <1>4. CASE RawRejected \/ CleanRejected \/ InvalidRejected \/ StatementFails \/ DbCommitFails
             \/ NothingToCommit \/ KCommitFails
    BY <1>1, <1>4 DEF RawRejected, CleanRejected, InvalidRejected, StatementFails, DbCommitFails,
          NothingToCommit, KCommitFails, AttemptFails, AfterFlush, FirstStatement
  <1>5. CASE DlqFlush
    BY <1>5 DEF DlqFlush, Goto, PendingQueued, QueueFlushed
  <1>6. CASE HandleInvalid
    <2>1. /\ pendI' = Append(pendI, Head(batch)) /\ dlqQueue' = dlqQueue \cup {Head(batch)}
          /\ UNCHANGED <<dlq, pc>> /\ pc = "handle"
      BY <1>6 DEF HandleInvalid, Judged
    <2>2. Head(batch) \in Messages
      BY <1>6, ToSetHeadTail DEF TypeOK, HandleInvalid, Judged
    <2>3. ToSet(Append(pendI, Head(batch))) = ToSet(pendI) \cup {Head(batch)}
      BY <2>2, ToSetAppend DEF TypeOK
    <2> QED  BY <2>1, <2>3 DEF PendingQueued, QueueFlushed
  <1>7. CASE SendDlqRaises
    BY <1>7 DEF SendDlqRaises
  <1>8. CASE KCommit
    <2>1. pendI' = <<>> /\ UNCHANGED <<dlqQueue, dlq>> /\ pc' # "kcommit"
      BY <1>8 DEF KCommit, AfterFlush
    <2> QED  BY <2>1, ToSetEmpty DEF PendingQueued, QueueFlushed
  <1>9. CASE Close \/ Crash
    <2>1. pendI' = <<>> /\ UNCHANGED dlq /\ pc' = "down"
      BY <1>9 DEF Close, Crash, ProcessEnds
    <2> QED  BY <2>1, ToSetEmpty DEF PendingQueued, QueueFlushed
  <1>10. ASSUME NEW p \in Partitions, Assign(p) \/ Revoke(p) \/ Fetch(p)  PROVE Goal
    BY <1>1, <1>10 DEF Assign, Revoke, Fetch
  <1>11. ASSUME NEW m \in Messages, DlqDeliver(m) \/ DlqExpire(m)  PROVE Goal
    BY <1>11 DEF DlqDeliver, DlqExpire, PendingQueued, QueueFlushed
  <1> QED
    BY <1>2, <1>3, <1>4, <1>5, <1>6, <1>7, <1>8, <1>9, <1>10, <1>11
       DEF Next, Process, Environment, Consume, Handle, Flush

\* When the commit is sent, everything this consumer holds has reached its place.
LEMMA HeldAreRouted ==
    ASSUME TypeOK, DeliveryInv, PendingQueued, QueueFlushed, pc = "kcommit"
    PROVE  \A m \in Messages : Held(m) => Routed(m)
  <1>1. batch = <<>> /\ dlqQueue = {}
    BY DEF DeliveryInv, BatchInLoop, QueueFlushed
  <1>2. \A m \in ToSet(pendI) : m \in dlq
    BY <1>1 DEF PendingQueued
  <1>3. ToSet(pendV) = {pendV[i] : i \in 1 .. Len(pendV)}
    BY ToSetOfSeq DEF TypeOK
  <1>4. \A m \in ToSet(pendV) : StoredClean(m)
    BY <1>3 DEF DeliveryInv, FlushProgress, PendingSettled
  <1> QED  BY <1>1, <1>2, <1>4, ToSetEmpty DEF Held, Routed

\* Every step keeps track of where the messages behind the offsets went.
LEMMA RoutingNext ==
    ASSUME ~DlqMayTimeOut, ~DlqMayRaise
    PROVE  TypeOK /\ DeliveryInv /\ RoutedInv /\ [Next]_vars => CommittedRouted' /\ ReadRouted'
  <1> SUFFICES ASSUME TypeOK, DeliveryInv, RoutedInv, [Next]_vars
               PROVE  CommittedRouted' /\ ReadRouted'
    OBVIOUS
  <1> USE DEF kafkaVars, ctlVars, pendVars, rowVars, dbVars, dlqVars, obsVars
  <1>1. \A m \in Messages : StoredClean(m) \/ m \in dlq => (StoredClean(m) \/ m \in dlq)'
    BY TablesGrow, QueueNext DEF StoredClean, RoutedInv
  <1>2. ASSUME UNCHANGED <<committed, abandoned>>,
               \A p \in assigned' : p \in assigned /\ fetchPos'[p] = fetchPos[p],
               \A m \in Messages : Held(m) => Held(m)'
        PROVE  CommittedRouted' /\ ReadRouted'
    BY <1>1, <1>2 DEF RoutedInv, CommittedRouted, ReadRouted, Behind, Routed
  <1>3. CASE UNCHANGED <<committed, assigned, fetchPos, stored, batch, pendV, pendI, abandoned>>
    BY <1>2, <1>3 DEF Held
  <1>4. CASE HandleValid \/ HandleInvalid
    <2>1. UNCHANGED <<committed, assigned, fetchPos, abandoned>>
      BY <1>4 DEF HandleValid, HandleInvalid
    <2>2. \A m \in Messages : Held(m) => Held(m)'
      BY <1>4, HandlingHolds
    <2> QED  BY <1>2, <2>1, <2>2
  <1>5. CASE SendDlqRaises \/ ValidateRaises
    <2>1. /\ UNCHANGED <<committed, assigned, fetchPos, pendV, pendI>>
          /\ abandoned' = abandoned \cup ToSet(batch)
      BY <1>5 DEF SendDlqRaises, ValidateRaises, LeaveLoop
    <2>2. \A m \in Messages : Routed(m) \/ Held(m) => Routed(m)' \/ Held(m)'
      BY <1>1, <2>1 DEF Routed, Held
    <2>3. \A m \in Messages : Routed(m) => Routed(m)'
      BY <1>1, <2>1 DEF Routed
    <2>4. CommittedRouted'
      BY <2>1, <2>3 DEF RoutedInv, CommittedRouted, Behind, Routed
    <2>5. ReadRouted'
      BY <2>1, <2>2 DEF RoutedInv, ReadRouted
    <2> QED  BY <2>4, <2>5
  <1>6. ASSUME NEW p \in Partitions, Assign(p)  PROVE CommittedRouted' /\ ReadRouted'
    <2>1. /\ UNCHANGED <<committed, batch, pendV, pendI, abandoned>>
          /\ assigned' = assigned \cup {p}
          /\ \A q \in Partitions : fetchPos'[q] = IF q = p THEN committed[p] ELSE fetchPos[q]
      BY <1>6 DEF Assign, TypeOK
    <2>2. CommittedRouted'
      BY <1>1, <2>1 DEF RoutedInv, CommittedRouted, Behind
    <2>3. \A m \in Messages : m[1] \in Partitions
      BY MessageIsPosition
    <2>4. ReadRouted'
      BY <1>1, <2>1, <2>3 DEF RoutedInv, CommittedRouted, Behind, ReadRouted, Routed, Held
    <2> QED  BY <2>2, <2>4
  <1>7. ASSUME NEW p \in Partitions, Revoke(p)  PROVE CommittedRouted' /\ ReadRouted'
    <2>1. /\ UNCHANGED <<committed, batch, pendV, pendI, abandoned>>
          /\ \A q \in assigned' : q \in assigned /\ fetchPos'[q] = fetchPos[q]
      BY <1>7 DEF Revoke, TypeOK
    <2> QED  BY <1>2, <2>1 DEF Held
  <1>8. ASSUME NEW p \in Partitions, Fetch(p)  PROVE CommittedRouted' /\ ReadRouted'
    <2> DEFINE new == <<p, fetchPos[p]>>
    <2>1. new \in Messages /\ p \in assigned
      BY <1>8, MessageIsPosition DEF Fetch, TypeOK
    <2>2. /\ UNCHANGED <<committed, assigned, pendV, pendI>>
          /\ abandoned' = abandoned \ {new}
          /\ ToSet(batch') = ToSet(batch) \cup {new}
          /\ \A q \in Partitions : fetchPos'[q] = IF q = p THEN fetchPos[p] + 1 ELSE fetchPos[q]
      <3>1. ToSet(Append(batch, new)) = ToSet(batch) \cup {new}
        <4>1. batch \in Seq(Messages)
          BY DEF TypeOK
        <4> HIDE DEF new
        <4> QED  BY <2>1, <4>1, ToSetAppend
      <3>2. /\ UNCHANGED <<committed, assigned, pendV, pendI>>
            /\ abandoned' = abandoned \ {new} /\ batch' = Append(batch, new)
            /\ fetchPos' = [fetchPos EXCEPT ![p] = @ + 1]
        BY <1>8 DEF Fetch
      <3> QED  BY <3>1, <3>2 DEF TypeOK
    <2>3. new \notin Behind
      BY <2>1 DEF Behind, DeliveryInv, CommittedRead, TypeOK
    <2>4. CommittedRouted'
      BY <1>1, <2>2, <2>3 DEF RoutedInv, CommittedRouted, Behind
    <2>5. ASSUME NEW m \in Messages, m[1] \in assigned, m[2] < fetchPos'[m[1]], m # new
          PROVE  Routed(m)' \/ Held(m)'
      <3>1. m[2] < fetchPos[m[1]]
        <4>1. m[1] \in Partitions /\ m[2] \in Nat /\ m = <<m[1], m[2]>>
          BY MessageIsPosition
        <4>2. m[1] # p \/ m[2] # fetchPos[p]
          BY ONLY <2>5, <4>1
        <4>3. fetchPos[p] \in Nat
          BY DEF TypeOK
        <4> QED  BY ONLY <2>2, <2>5, <4>1, <4>2, <4>3
      <3> QED  BY <1>1, <2>2, <2>5, <3>1 DEF RoutedInv, ReadRouted, Routed, Held
    <2>6. ReadRouted'
      BY <2>2, <2>5 DEF ReadRouted, Held
    <2> QED  BY <2>4, <2>6
  <1>9. CASE KCommit \/ KCommitFails
    <2>1. UNCHANGED <<assigned, fetchPos, abandoned>> /\ pc = "kcommit"
      BY <1>9 DEF KCommit, KCommitFails, AttemptFails
    <2>2. \A m \in Messages : Held(m) => Routed(m)
      BY <2>1, HeldAreRouted DEF RoutedInv
    <2>3. \A p \in Partitions : \/ committed'[p] = committed[p]
                                \/ p \in assigned /\ committed'[p] = fetchPos[p]
      BY <1>9, CommitSends DEF DeliveryInv, StoredIsRead
    <2>4. \A m \in Messages : Routed(m) => Routed(m)'
      BY <1>1, <2>1 DEF Routed
    <2>5. CommittedRouted'
      <3> SUFFICES ASSUME NEW m \in Messages, m[2] < committed'[m[1]]  PROVE Routed(m)'
        BY DEF CommittedRouted, Behind, Routed
      <3>1. m[1] \in Partitions
        BY MessageIsPosition
      <3>2. Routed(m) \/ Held(m)
        BY <2>3, <3>1 DEF RoutedInv, CommittedRouted, Behind, ReadRouted, Routed
      <3> QED  BY <2>2, <2>4, <3>2
    <2>6. ReadRouted'
      BY <2>1, <2>2, <2>4 DEF RoutedInv, ReadRouted
    <2> QED  BY <2>5, <2>6
  <1>10. CASE Close \/ Crash
    <2>1. UNCHANGED <<committed, abandoned>> /\ assigned' = {}
      BY <1>10 DEF Close, Crash, ProcessEnds
    <2> QED  BY <1>1, <2>1 DEF RoutedInv, CommittedRouted, Behind, ReadRouted
  <1> QED
    BY <1>3, <1>4, <1>5, <1>6, <1>7, <1>8, <1>9, <1>10, QuietSteps
       DEF Next, Process, Environment, Consume, Handle, Flush

\* Whatever is behind the committed offset and has no clean row has its record in the
\* DLQ topic, or was torn out of the loop: dlq.flush precedes the commit in _flush, and
\* a crash in between sends the group back over the message.
THEOREM CommittedIsRouted ==
    ASSUME ~DlqMayTimeOut, ~DlqMayRaise
    PROVE  Spec => []CommittedRouted
  <1>1. Init => RoutedInv
    <2> SUFFICES ASSUME Init  PROVE RoutedInv
      OBVIOUS
    <2>1. \A m \in Messages : ~(m[2] < committed[m[1]])
      BY MessageIsPosition DEF Init
    <2> QED  BY <2>1, ToSetEmpty DEF Init, RoutedInv, CommittedRouted, Behind, ReadRouted,
               PendingQueued, QueueFlushed
  <1>2. TypeOK /\ RowsFollow /\ DeliveryInv /\ RoutedInv /\ [Next]_vars => RoutedInv'
    BY QueueNext, RoutingNext DEF RoutedInv
  <1>3. RoutedInv => CommittedRouted
    BY DEF RoutedInv
  <1> QED  BY <1>1, <1>2, <1>3, DeliveryInvHolds, PTL DEF Spec
-----------------------------------------------------------------------------
(***************************************************************************)
(* The promise of AtLeastOnce, kept when no exception leaves the loop: the *)
(* payloads are such that validate_payload raises only what it catches,    *)
(* and producer.produce does not raise.  Otherwise what is left of the     *)
(* batch is lost (MCProcessorLoss).                                        *)
(***************************************************************************)
NothingEscapes == ~DlqMayRaise /\ \A m \in Messages : "raises" \notin Verdicts[m]

\* No message is torn out of the loop, and nobody reads or commits past the log's end.
LoopInv ==
    /\ abandoned = {}
    /\ \A p \in Partitions : committed[p] <= End[p] /\ fetchPos[p] <= End[p]

\* Only the two exceptions drop messages; reads stop at the end of the log and commits
\* at what was read.
LEMMA LoopInvNext ==
    ASSUME NothingEscapes
    PROVE  TypeOK /\ DeliveryInv /\ LoopInv /\ [Next]_vars => LoopInv'
  <1> SUFFICES ASSUME TypeOK, DeliveryInv, LoopInv, [Next]_vars  PROVE LoopInv'
    OBVIOUS
  <1> USE DEF kafkaVars, ctlVars, pendVars, rowVars, dbVars, dlqVars, obsVars
  <1>1. CASE UNCHANGED <<committed, fetchPos, abandoned>>
    BY <1>1 DEF LoopInv
  <1>2. CASE HandleValid \/ HandleInvalid
    BY <1>1, <1>2 DEF HandleValid, HandleInvalid
  <1>3. CASE SendDlqRaises \/ ValidateRaises
    <2>1. Judged("raises")
      BY <1>3 DEF NothingEscapes, SendDlqRaises, ValidateRaises
    <2>2. Head(batch) \in Messages /\ "raises" \in Verdicts[Head(batch)]
      BY <2>1, ToSetHeadTail DEF Judged, TypeOK
    <2> QED  BY <2>2 DEF NothingEscapes
  <1>4. ASSUME NEW p \in Partitions, Assign(p)  PROVE LoopInv'
    BY <1>4 DEF Assign, LoopInv, TypeOK
  <1>5. ASSUME NEW p \in Partitions, Revoke(p)  PROVE LoopInv'
    <2>1. /\ UNCHANGED <<committed, abandoned>>
          /\ \A q \in Partitions : fetchPos'[q] = IF q = p THEN 0 ELSE fetchPos[q]
      BY <1>5 DEF Revoke, TypeOK
    <2>2. End[p] \in Nat
      BY PartitionsAssumption
    <2> QED  BY <2>1, <2>2 DEF LoopInv
  <1>6. ASSUME NEW p \in Partitions, Fetch(p)  PROVE LoopInv'
    <2>1. /\ fetchPos[p] < End[p] /\ fetchPos' = [fetchPos EXCEPT ![p] = @ + 1]
          /\ committed' = committed /\ abandoned' = abandoned \ {<<p, fetchPos[p]>>}
      BY <1>6 DEF Fetch
    <2>2. /\ \A q \in Partitions : fetchPos'[q] = IF q = p THEN fetchPos[p] + 1 ELSE fetchPos[q]
          /\ End[p] \in Nat /\ fetchPos[p] \in Nat
      BY <2>1, PartitionsAssumption DEF TypeOK
    <2>3. fetchPos[p] + 1 <= End[p]
      BY <2>1, <2>2
    <2> QED  BY <2>1, <2>2, <2>3 DEF LoopInv
  <1>7. CASE KCommit \/ KCommitFails
    <2>1. UNCHANGED <<fetchPos, abandoned>>
      BY <1>7 DEF KCommit, KCommitFails, AttemptFails
    <2>2. \A p \in Partitions : committed'[p] = committed[p] \/ committed'[p] = fetchPos[p]
      BY <1>7, CommitSends DEF DeliveryInv, StoredIsRead
    <2> QED  BY <2>1, <2>2 DEF LoopInv
  <1>8. CASE Close \/ Crash
    BY <1>8, PartitionsAssumption DEF Close, Crash, ProcessEnds, LoopInv
  <1> QED
    BY <1>1, <1>2, <1>3, <1>4, <1>5, <1>6, <1>7, <1>8, QuietSteps
       DEF Next, Process, Environment, Consume, Handle, Flush

\* A step that commits nothing is a Settle of AtLeastOnce: it only adds to what is stored.
LEMMA OtherStepsSettle ==
    ASSUME [Next]_vars, UNCHANGED committed  PROVE Promise!Settle
  <1> DEFINE S == {m \in Messages : Settled(m)}
  <1>1. S' \in SUBSET Promise!Messages
    BY DEF Messages, Promise!Messages
  <1>2. S' = S \cup S'
    BY SettledStays
  <1>3. S' = S \cup S' /\ UNCHANGED committed
    BY <1>2
  <1> QED  BY <1>1, <1>3 DEF Promise!Settle

\* A commit is a Commit of AtLeastOnce: forward, within the log, over settled messages.
LEMMA CommitsCommit ==
    ASSUME TypeOK, TypeOK', DeliveryInv, CommittedSettled', LoopInv, LoopInv', KCommit \/ KCommitFails
    PROVE  Promise!Commit
  <1> USE DEF dbVars
  <1>1. committed' \in [Partitions -> Nat]
    BY DEF TypeOK
  <1>2. UNCHANGED db
    BY DEF KCommit, KCommitFails
  <1>3. UNCHANGED {m \in Messages : Settled(m)}
    BY <1>2 DEF Settled, StoredClean, StoredInvalid
  <1>4. ASSUME NEW p \in Partitions  PROVE committed[p] <= committed'[p] /\ committed'[p] <= End[p]
    <2>1. \/ committed'[p] = committed[p]
          \/ p \in assigned /\ committed'[p] = fetchPos[p]
      BY CommitSends DEF DeliveryInv, StoredIsRead
    <2>2. committed[p] \in Nat /\ committed[p] <= End[p] /\ fetchPos[p] <= End[p]
      BY DEF LoopInv, TypeOK
    <2>3. p \in assigned => committed[p] <= fetchPos[p]
      BY DEF DeliveryInv, CommittedRead
    <2> QED  BY ONLY <2>1, <2>2, <2>3
  <1>5. ASSUME NEW p \in Partitions, NEW o \in 0 .. committed'[p] - 1
        PROVE  <<p, o>> \in {m \in Messages : Settled(m)}
    <2>1. o \in 0 .. End[p] - 1 /\ o < committed'[p]
      BY <1>1, <1>4, PartitionsAssumption
    <2>2. <<p, o>> \in Messages
      BY <2>1 DEF Messages
    <2>3. Settled(<<p, o>>)' \/ <<p, o>> \in abandoned'
      BY <2>1, <2>2 DEF CommittedSettled, Behind
    <2>4. Settled(<<p, o>>)
      BY <1>2, <2>3 DEF LoopInv, Settled, StoredClean, StoredInvalid
    <2> QED  BY <2>2, <2>4
  <1> QED  BY <1>1, <1>3, <1>4, <1>5 DEF Promise!Commit

\* The invariant of this part holds initially and is kept by every step.
LEMMA LoopInvHolds ==
    ASSUME NothingEscapes
    PROVE  Spec => []LoopInv
  <1>1. Init => LoopInv
    BY PartitionsAssumption DEF Init, LoopInv
  <1>2. TypeOK /\ RowsFollow /\ DeliveryInv /\ LoopInv /\ [Next]_vars => LoopInv'
    BY LoopInvNext
  <1> QED  BY <1>1, <1>2, DeliveryInvHolds, PTL DEF Spec

\* No message is lost, when no exception leaves the loop: what the group will never
\* read again is in the database, through crashes, rebalances and retries.
THEOREM NothingIsLost ==
    ASSUME NothingEscapes
    PROVE  Spec => []NothingLost
  <1>1. DeliveryInv /\ LoopInv => NothingLost
    BY DEF DeliveryInv, LoopInv, CommittedSettled, NothingLost
  <1> QED  BY <1>1, DeliveryInvHolds, LoopInvHolds, PTL

\* The processor implements AtLeastOnce: through crashes, rebalances and retries, what
\* is stored stays stored and an offset only moves forward over stored messages.
THEOREM ProcessorKeepsPromise ==
    ASSUME NothingEscapes
    PROVE  Spec => AtLeastOnceDelivery
  <1>1. Init => Promise!Init
    <2> SUFFICES ASSUME Init  PROVE Promise!Init
      OBVIOUS
    <2>1. {m \in Messages : Settled(m)} = {}
      BY DEF Init, NoRows, Settled, StoredClean, StoredInvalid
    <2> QED  BY <2>1 DEF Init, Promise!Init
  <1>2. TypeOK /\ TypeOK' /\ DeliveryInv /\ DeliveryInv' /\ LoopInv /\ LoopInv' /\ [Next]_vars
           => [Promise!Next]_Promise!vars
    <2> SUFFICES ASSUME TypeOK, TypeOK', DeliveryInv, DeliveryInv', LoopInv, LoopInv', [Next]_vars
                 PROVE  Promise!Next
      OBVIOUS
    <2>1. CASE UNCHANGED committed
      BY <2>1, OtherStepsSettle DEF Promise!Next
    <2>2. CASE KCommit \/ KCommitFails
      BY <2>2, CommitsCommit DEF Promise!Next, DeliveryInv
    <2>3. KCommit \/ KCommitFails \/ UNCHANGED committed
      <3> USE DEF kafkaVars
      <3>1. CASE HandleValid \/ HandleInvalid \/ SendDlqRaises \/ ValidateRaises \/ Close \/ Crash
        BY <3>1 DEF HandleValid, HandleInvalid, SendDlqRaises, ValidateRaises, Close, Crash
      <3>2. ASSUME NEW p \in Partitions, Assign(p) \/ Revoke(p) \/ Fetch(p)  PROVE UNCHANGED committed
        BY <3>2 DEF Assign, Revoke, Fetch
      <3> QED
        BY <3>1, <3>2, QuietSteps DEF Next, Process, Environment, Consume, Handle, Flush
    <2> QED  BY <2>1, <2>2, <2>3
  <1> QED
    BY <1>1, <1>2, DeliveryInvHolds, LoopInvHolds, PTL DEF Spec, AtLeastOnceDelivery, Promise!Spec
=============================================================================
