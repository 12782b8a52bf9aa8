---------------------------- MODULE ReplayProofs ----------------------------
(***************************************************************************)
(* For any payloads, any number of idle polls and any number of faults: a  *)
(* payload never drops out of the loop.  NothingForgotten alone is not     *)
(* inductive: Commit gives up everything that was polled, so what was      *)
(* polled must be somewhere else by then.                                  *)
(***************************************************************************)
EXTENDS Replay, TLAPS

\* What was polled is still queued, or came out of the queue into the metrics topic and
\* from there into the database or back to the DLQ, or its delivery failed.
PolledFollowed ==
    read \ Bare \subseteq queue \cup backlog \cup stored \cup unread \cup expired

IInv == TypeOK /\ PolledFollowed /\ NothingForgotten

\* Type correctness of a step of the script.
LEMMA ScriptTypes ==
    ASSUME TypeOK,
           Start \/ (\E p \in Payloads : PollRecord(p)) \/ PollNothing \/ Flush \/ Commit \/ Quit
    PROVE  TypeOK'
<1> USE ReplayAssumption DEF TypeOK
<1>1. CASE Start BY <1>1 DEF Start
<1>2. CASE \E p \in Payloads : PollRecord(p) BY <1>2 DEF PollRecord
<1>3. CASE PollNothing
  <2>1. idle' \in 0 .. MaxIdle /\ pc' \in {"poll", "flush"}
    BY <1>3 DEF PollNothing
  <2> QED BY <1>3, <2>1 DEF PollNothing
<1>4. CASE Flush BY <1>4 DEF Flush
<1>5. CASE Commit BY <1>5 DEF Commit
<1>6. CASE Quit BY <1>6 DEF Quit, Fault
<1> QED BY <1>1, <1>2, <1>3, <1>4, <1>5, <1>6

\* Type correctness of a step of the broker, the producers, or the processor.
LEMMA EnvironmentTypes ==
    ASSUME TypeOK, NEW p \in Payloads,
           Publish(p) \/ Deliver(p) \/ DeliveryFails(p) \/ Process(p) \/ ProcessAgain(p)
    PROVE  TypeOK'
<1> USE ReplayAssumption DEF TypeOK, script
<1>1. CASE Publish(p) BY <1>1 DEF Publish
<1>2. CASE Deliver(p) BY <1>2 DEF Deliver
<1>3. CASE DeliveryFails(p) BY <1>3 DEF DeliveryFails, Fault
<1>4. CASE Process(p) BY <1>4 DEF Process, Settle, Valid
<1>5. CASE ProcessAgain(p) BY <1>5 DEF ProcessAgain, Settle, Valid, Fault
<1> QED BY <1>1, <1>2, <1>3, <1>4, <1>5

\* What was polled is followed through every step.
LEMMA PolledStep ==
    ASSUME TypeOK, PolledFollowed, Next
    PROVE  PolledFollowed'
<1> USE DEF PolledFollowed, script
<1>1. CASE Start \/ PollNothing \/ Flush \/ Repair
  BY <1>1 DEF Start, PollNothing, Flush, Repair
<1>2. CASE \E p \in Payloads : PollRecord(p)
  BY <1>2 DEF PollRecord
<1>3. CASE Commit \/ Quit
  BY <1>3 DEF Commit, Quit
<1>4. CASE \E p \in Payloads : Publish(p) \/ Deliver(p) \/ DeliveryFails(p)
  BY <1>4 DEF Publish, Deliver, DeliveryFails
<1>5. CASE \E p \in Payloads : Process(p) \/ ProcessAgain(p)
  BY <1>5 DEF Process, ProcessAgain, Settle
<1> QED BY <1>1, <1>2, <1>3, <1>4, <1>5 DEF Next, Script

\* No step lets a payload drop out; Commit relies on PolledFollowed and on an empty queue.
LEMMA NothingForgottenStep ==
    ASSUME TypeOK, PolledFollowed, NothingForgotten, Next
    PROVE  NothingForgotten'
<1> USE DEF NothingForgotten, script
<1>1. CASE Start \/ PollNothing \/ Flush \/ Repair
  BY <1>1 DEF Start, PollNothing, Flush, Repair
<1>2. CASE \E p \in Payloads : PollRecord(p)
  BY <1>2 DEF PollRecord
<1>3. CASE Commit
  <2>1. queue = {} BY <1>3 DEF Commit, TypeOK
  <2>2. read \ Bare \subseteq backlog \cup stored \cup unread \cup expired
    BY <2>1 DEF PolledFollowed
  <2> QED BY <1>3, <2>2 DEF Commit
<1>4. CASE Quit
  BY <1>4 DEF Quit
<1>5. CASE \E p \in Payloads : Publish(p) \/ Deliver(p) \/ DeliveryFails(p)
  BY <1>5 DEF Publish, Deliver, DeliveryFails
<1>6. CASE \E p \in Payloads : Process(p) \/ ProcessAgain(p)
  BY <1>6 DEF Process, ProcessAgain, Settle
<1> QED BY <1>1, <1>2, <1>3, <1>4, <1>5, <1>6 DEF Next, Script

\* The inductive invariant.
LEMMA Inductive == Spec => []IInv
<1>1. Init => IInv
  <2> SUFFICES ASSUME Init PROVE IInv OBVIOUS
  <2>1. TypeOK
    <3>1. repaired \in BOOLEAN BY DEF Init
    <3>2. idle \in 0 .. MaxIdle /\ (pc = "poll" => idle < MaxIdle) /\ faults \in 0 .. MaxFaults
      BY ReplayAssumption DEF Init
    <3>3. queue \subseteq read \ Bare /\ expired \subseteq Payloads \ Bare /\ stored \subseteq Repairable
      BY DEF Init
    <3>4. pc \in {"off", "poll", "flush", "commit"} BY DEF Init
    <3>5. arrived \subseteq Payloads /\ unread \subseteq arrived /\ read \subseteq arrived /\ backlog \subseteq arrived
      BY DEF Init
    <3> QED BY <3>1, <3>2, <3>3, <3>4, <3>5 DEF Init, TypeOK
  <2>2. PolledFollowed /\ NothingForgotten BY DEF Init, PolledFollowed, NothingForgotten
  <2> QED BY <2>1, <2>2 DEF IInv
<1>2. IInv /\ [Next]_vars => IInv'
  <2> SUFFICES ASSUME IInv, [Next]_vars PROVE IInv' OBVIOUS
  <2>1. CASE Next
    <3>1. TypeOK'
      <4> TypeOK BY DEF IInv
      <4>1. CASE Start \/ Script \/ Quit
        BY <4>1, ScriptTypes DEF Script
      <4>2. CASE Repair
        BY <4>2 DEF Repair, TypeOK, script
      <4>3. CASE \E p \in Payloads : Publish(p) \/ Deliver(p) \/ DeliveryFails(p) \/ Process(p) \/ ProcessAgain(p)
        BY <4>3, EnvironmentTypes
      <4> QED BY <2>1, <4>1, <4>2, <4>3 DEF Next
    <3> QED BY <2>1, <3>1, PolledStep, NothingForgottenStep DEF IInv
  <2>2. CASE UNCHANGED vars
    BY <2>2 DEF IInv, TypeOK, PolledFollowed, NothingForgotten, vars, script
  <2> QED BY <2>1, <2>2
<1> QED BY <1>1, <1>2, PTL DEF Spec

\* Every variable has its type, and a payload in the producer's queue was polled in this
\* run of the script.
THEOREM ReplayTypes == Spec => []TypeOK
BY Inductive, PTL DEF IInv

\* However often the script or the processor dies, and with any number of payloads that
\* never validate, a payload that is not stored is behind no committed offset of one of
\* the two topics, unless its delivery failed.
THEOREM ReplayForgetsNothing == Spec => []NothingForgotten
BY Inductive, PTL DEF IInv
=============================================================================
