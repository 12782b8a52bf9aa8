-------------------------- MODULE ProcessorProofs --------------------------
(***************************************************************************)
(* Proofs about Processor, for every log, batch size, number of attempts   *)
(* and bound on the faults.                                                *)
(***************************************************************************)
EXTENDS Processor, TLAPS

\* A message is a position in the log of a partition.
LEMMA MessageIsPosition ==
    /\ \A m \in Messages : /\ m[1] \in Partitions /\ m[2] \in Nat /\ m[2] < End[m[1]]
                           /\ m = <<m[1], m[2]>>
    /\ \A p \in Partitions, o \in Nat : o < End[p] => <<p, o>> \in Messages
  BY PartitionsAssumption DEF Messages

\* What a sequence of elements of S holds: its range, a subset of S.
LEMMA ToSetOfSeq ==
    ASSUME NEW S, NEW s \in Seq(S)
    PROVE  ToSet(s) = {s[i] : i \in 1 .. Len(s)} /\ ToSet(s) \subseteq S
  BY DEF ToSet

\* An index within the length of a sequence picks one of its elements.
LEMMA SeqElement ==
    ASSUME NEW S, NEW s \in Seq(S), NEW i \in 1 .. Len(s)  PROVE s[i] \in S
  OBVIOUS

\* The empty sequence holds nothing (an empty batch, nothing pending).
LEMMA ToSetEmpty == ToSet(<<>>) = {}
  BY DEF ToSet

\* Appending a message adds it to what the sequence holds, and nothing else.
LEMMA ToSetAppend ==
    ASSUME NEW S, NEW s \in Seq(S), NEW x \in S
    PROVE  ToSet(Append(s, x)) = ToSet(s) \cup {x}
  <1>1. /\ Append(s, x) \in Seq(S)
        /\ Len(Append(s, x)) = Len(s) + 1
        /\ Append(s, x)[Len(s) + 1] = x
        /\ \A i \in 1 .. Len(s) : Append(s, x)[i] = s[i]
    OBVIOUS
  <1>2. /\ ToSet(s) = {s[i] : i \in 1 .. Len(s)}
        /\ ToSet(Append(s, x)) = {Append(s, x)[i] : i \in 1 .. Len(s) + 1}
    BY <1>1, ToSetOfSeq
  <1>3. 1 .. Len(s) + 1 = 1 .. Len(s) \cup {Len(s) + 1}
    OBVIOUS
  <1> QED  BY <1>1, <1>2, <1>3

\* A sequence holds its head and what its tail holds: handling the head loses no other.
LEMMA ToSetHeadTail ==
    ASSUME NEW S, NEW s \in Seq(S), s # <<>>
    PROVE  /\ Head(s) \in S /\ Tail(s) \in Seq(S)
           /\ ToSet(s) = {Head(s)} \cup ToSet(Tail(s))
  <1>1. /\ Head(s) = s[1] /\ Head(s) \in S /\ Tail(s) \in Seq(S)
        /\ Len(Tail(s)) = Len(s) - 1 /\ Len(s) \in Nat \ {0}
        /\ \A i \in 1 .. Len(Tail(s)) : Tail(s)[i] = s[i + 1]
    OBVIOUS
  <1>2. /\ ToSet(s) = {s[i] : i \in 1 .. Len(s)}
        /\ ToSet(Tail(s)) = {Tail(s)[i] : i \in 1 .. Len(Tail(s))}
    BY <1>1, ToSetOfSeq
  <1>3. ToSet(s) \subseteq {Head(s)} \cup ToSet(Tail(s))
    <2> SUFFICES ASSUME NEW i \in 1 .. Len(s), i # 1  PROVE s[i] \in ToSet(Tail(s))
      BY <1>1, <1>2
    <2>1. i - 1 \in 1 .. Len(Tail(s)) /\ s[i] = Tail(s)[i - 1]
      BY <1>1
    <2> QED  BY <1>2, <2>1
  <1>4. {Head(s)} \cup ToSet(Tail(s)) \subseteq ToSet(s)
    <2>1. \A i \in 1 .. Len(Tail(s)) : i + 1 \in 1 .. Len(s)  BY <1>1
    <2> QED  BY <1>1, <1>2, <2>1
  <1> QED  BY <1>1, <1>3, <1>4
-----------------------------------------------------------------------------
\* The statements' rows, and what the tables hold after them, have the tables' type.
LEMMA RowsType ==
    ASSUME TypeOK
    PROVE  /\ NoRows \in Tables
           /\ \A k \in 0 .. Len(pendV) : RawRows(k) \in Tables
           /\ \A k \in 0 .. Len(pendI) : InvalidRows(k) \in Tables
           /\ \A k \in 0 .. Len(rows) : CleanRows(k) \in Tables
           /\ \A a, b \in Tables : Merge(a, b) \in Tables
  <1>1. NoRows \in Tables /\ \A a, b \in Tables : Merge(a, b) \in Tables
    BY DEF NoRows, Tables, Merge
  <1>2. ASSUME NEW k \in 0 .. Len(pendV)  PROVE RawRows(k) \in Tables
    <2>1. {pendV[i] : i \in 1 .. k} \subseteq Messages
      BY DEF TypeOK
    <2> QED  BY <2>1 DEF RawRows, NoRows, Tables
  <1>3. ASSUME NEW k \in 0 .. Len(pendI)  PROVE InvalidRows(k) \in Tables
    <2>1. {pendI[i] : i \in 1 .. k} \subseteq Messages
      BY DEF TypeOK
    <2> QED  BY <2>1 DEF InvalidRows, NoRows, Tables
  <1>4. ASSUME NEW k \in 0 .. Len(rows)  PROVE CleanRows(k) \in Tables
    <2> DEFINE new == {rows[i].key : i \in 1 .. k} \ (db.clean \cup txn.clean)
    <2>0. ASSUME NEW i \in 1 .. k  PROVE rows[i].key \in Keys
      <3>1. rows \in Seq([key : Keys, dup : BOOLEAN]) /\ i \in 1 .. Len(rows)
        BY DEF TypeOK
      <3>2. rows[i] \in [key : Keys, dup : BOOLEAN]
        BY <3>1, SeqElement
      <3> QED  BY <3>2
    <2>1. new \subseteq Keys
      BY <2>0
    <2> QED  BY <2>1 DEF CleanRows, NoRows, Tables
  <1> QED  BY <1>1, <1>2, <1>3, <1>4

\* While an attempt builds clean_rows, rows follow pending_valid.  (Strengthening:
\* CleanRows(k) is only meaningful for the first Len(rows) rows.)
RowsFollow ==
    /\ pc = "raw" => rows = <<>>
    /\ pc \in {"remember", "clean"} =>
          /\ Len(rows) <= Len(pendV)
          /\ \A i \in 1 .. Len(rows) : rows[i].key = KeyOf[pendV[i]]
    /\ pc = "clean" => Len(rows) = Len(pendV)

\* One attempt of _flush less, or the flush given up: the control stays well typed.
LEMMA FlushControlType ==
    ASSUME TypeOK, AttemptFails
    PROVE  attempt' \in 0 .. MaxAttempts /\ pc' \in PCs /\ rows' \in Seq([key : Keys, dup : BOOLEAN])
  BY SizesAssumption DEF TypeOK, AttemptFails, AfterFlush, FirstStatement, PCs

\* The budget of environment faults is never exceeded.
LEMMA FaultType ==
    ASSUME TypeOK, Fault  PROVE faults' \in 0 .. MaxFaults
  BY SizesAssumption DEF TypeOK, Fault

\* The initial state is well typed.
LEMMA TypeOKInit == Init => TypeOK
  <1> SUFFICES ASSUME Init  PROVE TypeOK
    OBVIOUS
  <1>1. NoRows \in Tables
    BY DEF NoRows, Tables
  <1>2. <<>> \in Seq(Messages) /\ <<>> \in Seq(Keys) /\ <<>> \in Seq([key : Keys, dup : BOOLEAN])
    OBVIOUS
  <1>3. /\ committed \in [Partitions -> Nat] /\ fetchPos \in [Partitions -> Nat]
        /\ stored \in [Partitions -> Nat \cup {-1}]
    BY DEF Init
  <1>4. attempt \in 0 .. MaxAttempts /\ faults \in 0 .. MaxFaults /\ pc \in PCs
    BY SizesAssumption DEF Init, PCs
  <1> QED  BY <1>1, <1>2, <1>3, <1>4 DEF Init, TypeOK

\* Every step keeps the state well typed.
LEMMA TypeOKNext == TypeOK /\ RowsFollow /\ [Next]_vars => TypeOK'
  <1> SUFFICES ASSUME TypeOK, RowsFollow, [Next]_vars  PROVE TypeOK'
    OBVIOUS
  <1> USE DEF kafkaVars, ctlVars, pendVars, rowVars, dbVars, dlqVars, obsVars
  <1>0. CASE UNCHANGED vars
    BY <1>0 DEF TypeOK, vars
  <1>1. CASE Start
    BY <1>1 DEF TypeOK, Start, PCs
  <1>2. ASSUME NEW p \in Partitions, Assign(p)  PROVE TypeOK'
    BY <1>2 DEF TypeOK, Assign
  <1>3. ASSUME NEW p \in Partitions, Revoke(p)  PROVE TypeOK'
    BY <1>3, SizesAssumption DEF TypeOK, Revoke, Fault
  <1>4. ASSUME NEW p \in Partitions, Fetch(p)  PROVE TypeOK'
    <2>1. <<p, fetchPos[p]>> \in Messages
      BY <1>4, MessageIsPosition DEF TypeOK, Fetch
    <2> QED  BY <1>4, <2>1 DEF TypeOK, Fetch
  <1>5. CASE Consumed \/ PollEmpty \/ RowsBuilt \/ DlqFlush \/ QualityFlushed
             \/ LoopExit \/ FinallyNothing
    BY <1>5 DEF TypeOK, Consumed, PollEmpty, RowsBuilt, DlqFlush, QualityFlushed,
                LoopExit, FinallyNothing, Goto, PCs
  <1>6. CASE PollRetries \/ BatchHandled \/ FinallyFlush
    <2>1. EnterFlush /\ closing' \in BOOLEAN
      BY <1>6 DEF TypeOK, PollRetries, BatchHandled, FinallyFlush
    <2>2. pc' \in PCs /\ attempt' \in 0 .. MaxAttempts /\ rows' \in Seq([key : Keys, dup : BOOLEAN])
      BY <2>1, SizesAssumption DEF EnterFlush, FirstStatement, PCs
    <2> QED  BY <2>1, <2>2 DEF TypeOK, EnterFlush
  <1>7. CASE HandleValid \/ HandleInvalid
    <2>1. Head(batch) \in Messages /\ Tail(batch) \in Seq(Messages)
      BY <1>7, ToSetHeadTail DEF TypeOK, HandleValid, HandleInvalid, Judged
    <2>2. CASE HandleValid
      <3>1. Append(pendV, Head(batch)) \in Seq(Messages)
        BY <2>1 DEF TypeOK
      <3> QED  BY <2>1, <2>2, <3>1 DEF TypeOK, HandleValid
    <2>3. CASE HandleInvalid
      BY <2>1, <2>3 DEF TypeOK, HandleInvalid
    <2> QED  BY <1>7, <2>2, <2>3
  <1>8. CASE SendDlqRaises
    <2>1. Head(batch) \in Messages /\ ToSet(Tail(batch)) \subseteq Messages
      BY <1>8, ToSetHeadTail, ToSetOfSeq DEF TypeOK, SendDlqRaises, Judged
    <2> QED  BY <1>8, <2>1, SizesAssumption DEF TypeOK, SendDlqRaises, LeaveLoop, Fault, PCs
  <1>9. CASE ValidateRaises
    <2>1. ToSet(batch) \subseteq Messages
      BY ToSetOfSeq DEF TypeOK
    <2> QED  BY <1>9, <2>1 DEF TypeOK, ValidateRaises, LeaveLoop, PCs
  <1>10. CASE QualityRaises \/ Stop
    <2>1. faults' \in 0 .. MaxFaults
      <3>1. Fault
        BY <1>10 DEF QualityRaises, Stop
      <3> QED  BY <3>1, FaultType
    <2>2. CASE QualityRaises
      BY <2>1, <2>2 DEF TypeOK, QualityRaises, PCs
    <2>3. CASE Stop
      BY <2>1, <2>3 DEF TypeOK, Stop
    <2> QED  BY <1>10, <2>2, <2>3
  <1>11. CASE InsertRaw \/ InsertClean \/ InsertInvalid
    <2>1. /\ RawRows(Len(pendV)) \in Tables /\ CleanRows(Len(rows)) \in Tables
          /\ InvalidRows(Len(pendI)) \in Tables
      BY RowsType DEF TypeOK
    <2>2. db' \in Tables /\ txn' \in Tables
      BY <1>11, <2>1, RowsType DEF TypeOK, InsertRaw, InsertClean, InsertInvalid, Write
    <2> QED  BY <1>11, <2>2 DEF TypeOK, InsertRaw, InsertClean, InsertInvalid, Write, PCs
  <1>12. CASE RememberRow
    <2>1. KeyOf[pendV[Len(rows) + 1]] \in Keys
      BY <1>12, MessagesAssumption DEF TypeOK, RememberRow
    <2>2. recent # <<>> => Tail(recent) \in Seq(Keys)
      BY DEF TypeOK
    <2>3. Len(recent) = Window => recent # <<>>
      BY SizesAssumption DEF TypeOK
    <2>4. rows' \in Seq([key : Keys, dup : BOOLEAN])
      BY <1>12, <2>1 DEF TypeOK, RememberRow
    <2>5. recent' \in Seq(Keys)
      BY <1>12, <2>1, <2>2, <2>3 DEF TypeOK, RememberRow
    <2> QED  BY <1>12, <2>4, <2>5 DEF TypeOK, RememberRow
  <1>13. CASE RawRejected \/ CleanRejected \/ InvalidRejected \/ StatementFails
    <2>1. \E rowsRun \in Tables : Unwind(rowsRun)
      <3>0. CASE RawRejected
        BY <3>0, RowsType DEF RowsFollow, RawRejected, PagesRun
      <3>1. CASE CleanRejected
        BY <3>1, RowsType DEF RowsFollow, CleanRejected, PagesRun
      <3>2. CASE InvalidRejected
        BY <3>2, RowsType DEF InvalidRejected, PagesRun
      <3>3. CASE StatementFails
        BY <3>3, RowsType DEF RowsFollow, StatementFails, PagesRun
      <3> QED  BY <1>13, <3>0, <3>1, <3>2, <3>3
    <2>2. db' \in Tables /\ txn' \in Tables
      BY <2>1, RowsType DEF TypeOK, Unwind
    <2>3. AttemptFails /\ UNCHANGED kafkaVars /\ autocommit' \in BOOLEAN
      BY <1>13 DEF TypeOK, RawRejected, CleanRejected, InvalidRejected, StatementFails
    <2>4. faults' \in 0 .. MaxFaults
      BY <1>13, FaultType DEF TypeOK, RawRejected, CleanRejected, InvalidRejected, StatementFails
    <2> QED  BY <2>2, <2>3, <2>4, FlushControlType DEF TypeOK, AttemptFails
  <1>14. CASE DbCommit
    BY <1>14, RowsType DEF TypeOK, DbCommit, PCs
  <1>15. CASE DbCommitFails
    BY <1>15, RowsType, FlushControlType, SizesAssumption
       DEF TypeOK, DbCommitFails, AttemptFails, Fault
  <1>16. CASE KCommit
    BY <1>16, SizesAssumption DEF TypeOK, KCommit, ToCommit, AfterFlush, PCs
  <1>17. CASE NothingToCommit
    BY <1>17, FlushControlType DEF TypeOK, NothingToCommit, AttemptFails
  <1>18. CASE KCommitFails
    BY <1>18, FlushControlType, SizesAssumption
       DEF TypeOK, KCommitFails, AttemptFails, ToCommit, Fault
  <1>19. CASE Close \/ Crash
    <2>1. faults' \in 0 .. MaxFaults /\ NoRows \in Tables
      BY <1>19, RowsType, SizesAssumption DEF TypeOK, Close, Crash, Fault
    <2>2. /\ ProcessEnds
          /\ UNCHANGED <<committed, db, dlq, abandoned>>
      BY <1>19 DEF Close, Crash
    <2>3. /\ fetchPos' \in [Partitions -> Nat] /\ stored' \in [Partitions -> Nat \cup {-1}]
          /\ assigned' \subseteq Partitions /\ dlqQueue' \subseteq Messages
      BY <2>2 DEF ProcessEnds
    <2>4. pc' \in PCs /\ attempt' \in 0 .. MaxAttempts
      BY <2>2, SizesAssumption DEF ProcessEnds, PCs
    <2>5. /\ running' \in BOOLEAN /\ closing' \in BOOLEAN /\ autocommit' \in BOOLEAN
          /\ batch' = <<>> /\ pendV' = <<>> /\ pendI' = <<>> /\ rows' = <<>> /\ recent' = <<>>
          /\ txn' = NoRows
      BY <2>2 DEF ProcessEnds
    <2> QED  BY <2>1, <2>2, <2>3, <2>4, <2>5 DEF TypeOK
  <1>20. ASSUME NEW m \in Messages, DlqDeliver(m) \/ DlqExpire(m)  PROVE TypeOK'
    BY <1>20, SizesAssumption DEF TypeOK, DlqDeliver, DlqExpire, Fault
  <1> QED
    BY <1>0, <1>1, <1>2, <1>3, <1>4, <1>5, <1>6, <1>7, <1>8, <1>9, <1>10, <1>11, <1>12,
       <1>13, <1>14, <1>15, <1>16, <1>17, <1>18, <1>19, <1>20
       DEF Next, Process, Environment, Consume, Handle, Flush

\* Every step keeps the rows in step with pending_valid.
LEMMA RowsFollowNext == TypeOK /\ RowsFollow /\ [Next]_vars => RowsFollow'
  <1> SUFFICES ASSUME TypeOK, RowsFollow, [Next]_vars  PROVE RowsFollow'
    OBVIOUS
  <1> USE DEF kafkaVars, ctlVars, pendVars, rowVars, dbVars, dlqVars, obsVars
  <1>1. CASE UNCHANGED <<pc, rows, pendV>>
    BY <1>1 DEF RowsFollow
  <1>2. CASE InsertRaw
    BY <1>2 DEF RowsFollow, InsertRaw, Write
  <1>3. CASE RememberRow
    <2>1. /\ UNCHANGED <<pc, pendV>> /\ pc = "remember" /\ Len(rows) < Len(pendV)
          /\ rows' = Append(rows, [key |-> KeyOf[pendV[Len(rows) + 1]],
                                   dup |-> KeyOf[pendV[Len(rows) + 1]] \in ToSet(recent)])
      BY <1>3 DEF RememberRow
    <2>2. /\ Len(rows') = Len(rows) + 1
          /\ rows'[Len(rows) + 1].key = KeyOf[pendV[Len(rows) + 1]]
          /\ \A i \in 1 .. Len(rows) : rows'[i] = rows[i]
      BY <2>1 DEF TypeOK
    <2> QED  BY <2>1, <2>2 DEF RowsFollow, TypeOK
  <1>4. CASE RowsBuilt
    BY <1>4 DEF RowsFollow, RowsBuilt, Goto
  <1>5. CASE rows' = <<>> /\ pc' \notin {"remember", "clean"}
    BY <1>5 DEF RowsFollow
  <1>6. CASE pc' \notin {"raw", "remember", "clean"}
    BY <1>6 DEF RowsFollow
  <1>7. CASE EnterFlush \/ AttemptFails
    <2>1. rows' = <<>> /\ pc' \notin {"remember", "clean"}
      BY <1>7 DEF EnterFlush, AttemptFails, FirstStatement, AfterFlush
    <2> QED  BY <2>1, <1>5
  <1>8. CASE PollRetries \/ BatchHandled \/ FinallyFlush \/ RawRejected \/ CleanRejected \/ InvalidRejected
             \/ StatementFails \/ DbCommitFails \/ NothingToCommit \/ KCommitFails
    BY <1>7, <1>8 DEF PollRetries, BatchHandled, FinallyFlush, RawRejected, CleanRejected, InvalidRejected,
                      StatementFails, DbCommitFails, NothingToCommit, KCommitFails
  <1>9. CASE Start \/ Consumed \/ PollEmpty \/ SendDlqRaises \/ ValidateRaises \/ QualityFlushed
             \/ QualityRaises \/ LoopExit \/ FinallyNothing \/ InsertClean \/ InsertInvalid
    BY <1>6, <1>9 DEF Start, Consumed, PollEmpty, SendDlqRaises, ValidateRaises, LeaveLoop,
          QualityFlushed, QualityRaises, LoopExit, FinallyNothing, InsertClean, InsertInvalid, Goto
  <1>10. CASE DbCommit \/ DlqFlush \/ KCommit \/ Close \/ Crash
    BY <1>6, <1>10 DEF DbCommit, DlqFlush, Goto, KCommit, AfterFlush, Close, Crash, ProcessEnds
  <1>11. CASE HandleValid \/ HandleInvalid
    BY <1>6, <1>11 DEF HandleValid, HandleInvalid, Judged
  <1>12. ASSUME NEW p \in Partitions, Assign(p) \/ Revoke(p) \/ Fetch(p)  PROVE RowsFollow'
    BY <1>1, <1>12 DEF Assign, Revoke, Fetch
  <1>13. ASSUME NEW m \in Messages, DlqDeliver(m) \/ DlqExpire(m)  PROVE RowsFollow'
    BY <1>1, <1>13 DEF DlqDeliver, DlqExpire
  <1>14. CASE Stop \/ UNCHANGED vars
    BY <1>1, <1>14 DEF Stop, vars
  <1> QED
    BY <1>2, <1>3, <1>4, <1>8, <1>9, <1>10, <1>11, <1>12, <1>13, <1>14
       DEF Next, Process, Environment, Consume, Handle, Flush

\* The state of the processor, the broker's view of it and the tables is always well
\* typed: in particular _flush never makes more than MaxAttempts attempts.
THEOREM TypeCorrect == Spec => []TypeOK
  <1>1. Init => TypeOK /\ RowsFollow
    BY TypeOKInit DEF Init, RowsFollow
  <1>2. TypeOK /\ RowsFollow /\ [Next]_vars => TypeOK' /\ RowsFollow'
    BY TypeOKNext, RowsFollowNext
  <1> QED  BY <1>1, <1>2, PTL DEF Spec
=============================================================================
