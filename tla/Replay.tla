------------------------------- MODULE Replay ------------------------------
(***************************************************************************)
(* The loop metrics topic -> processor -> dead-letter topic ->             *)
(* scripts/replay_dlq.py -> metrics topic.  The processor is taken at what *)
(* Processor shows of it: a message is settled at least once, and its      *)
(* offset committed afterwards.                                            *)
(*                                                                         *)
(* A topic is the set of payloads with a record that is not committed yet: *)
(* several records of one payload, and their order, make no difference to  *)
(* what becomes of it.                                                     *)
(***************************************************************************)
EXTENDS Integers, FiniteSets

CONSTANTS
    Payloads,
    Bare,         \* DLQ records without a payload: the message was no JSON object, or an empty one
    Repairable,   \* payloads that are valid once their cell is seeded; the other
                  \* ones fail validation for ever
    MaxIdle,      \* empty polls in a row that end the script (10)
    MaxFaults

ASSUME ReplayAssumption ==
    /\ Bare \subseteq Payloads /\ Repairable \subseteq Payloads \ Bare
    /\ MaxIdle \in Nat \ {0} /\ MaxFaults \in Nat

VARIABLES
    arrived,   \* payloads that were ever published
    unread,    \* the DLQ from the script's position on
    read,      \* polled, and not committed
    pc, idle,  \* the script: "off", "poll", "flush", "commit"
    queue,     \* produced, and still in the producer's queue
    backlog,   \* the metrics topic from the processor's committed offset on
    stored,    \* payloads with a clean row
    repaired,  \* the missing cells are seeded, and the processor was restarted
    expired,   \* payloads whose delivery to the metrics topic failed
    faults

script == <<read, pc, idle, queue>>
vars == <<arrived, unread, script, backlog, stored, repaired, expired, faults>>

Valid(p) == repaired /\ p \in Repairable

Fault == faults < MaxFaults /\ faults' = faults + 1
-----------------------------------------------------------------------------
Init ==
    /\ arrived = {} /\ unread = {} /\ backlog = {}
    /\ read = {} /\ pc = "off" /\ idle = 0 /\ queue = {}
    /\ stored = {} /\ repaired = FALSE /\ expired = {} /\ faults = 0

\* A producer sends a report, once, as the processor sees it.
Publish(p) ==
    /\ p \notin arrived
    /\ arrived' = arrived \cup {p} /\ backlog' = backlog \cup {p}
    /\ UNCHANGED <<unread, script, stored, repaired, expired, faults>>

\* An operator runs the script: it starts at the group's committed offsets.
Start ==
    /\ pc = "off"
    /\ pc' = "poll" /\ idle' = 0
    /\ UNCHANGED <<arrived, unread, read, queue, backlog, stored, repaired, expired, faults>>

\* Mutant of PollRecord: null payloads are produced as well.
PollRecordBare(p) ==
    /\ pc = "poll" /\ p \in unread
    /\ unread' = unread \ {p} /\ read' = read \cup {p}
    /\ idle' = 0
    /\ queue' = queue \cup {p}
    /\ UNCHANGED <<arrived, pc, backlog, stored, repaired, expired, faults>>

\* A record; one without payload is skipped, its offset is stored all the same.
PollRecord(p) ==
    /\ pc = "poll" /\ p \in unread
    /\ unread' = unread \ {p} /\ read' = read \cup {p}
    /\ idle' = 0
    /\ queue' = IF p \in Bare THEN queue ELSE queue \cup {p}
    /\ UNCHANGED <<arrived, pc, backlog, stored, repaired, expired, faults>>

\* Mutant of PollNothing: the count of empty polls starts over each time.
PollNothingForgets ==
    /\ pc = "poll"
    /\ idle' = 1
    /\ pc' = IF idle' = MaxIdle THEN "flush" ELSE "poll"
    /\ UNCHANGED <<arrived, unread, read, queue, backlog, stored, repaired, expired, faults>>

\* poll(1.0) returns None: the end of the topic, or nothing fetched in time.
PollNothing ==
    /\ pc = "poll"
    /\ idle' = idle + 1
    /\ pc' = IF idle' = MaxIdle THEN "flush" ELSE "poll"
    /\ UNCHANGED <<arrived, unread, read, queue, backlog, stored, repaired, expired, faults>>

\* Mutant of Flush: flush(timeout), and what is still queued is lost at the exit.
FlushTimesOut ==
    /\ pc = "flush"
    /\ pc' = "commit" /\ queue' = {}
    /\ UNCHANGED <<arrived, unread, read, idle, backlog, stored, repaired, expired, faults>>

\* producer.flush() returns when nothing is queued, delivered or not.
Flush ==
    /\ pc = "flush" /\ queue = {}
    /\ pc' = "commit"
    /\ UNCHANGED <<arrived, unread, read, idle, queue, backlog, stored, repaired, expired, faults>>

\* Of all that was polled; with nothing polled it raises, to the same effect.
Commit ==
    /\ pc = "commit"
    /\ read' = {} /\ pc' = "off"
    /\ UNCHANGED <<arrived, unread, idle, queue, backlog, stored, repaired, expired, faults>>

\* Mutant of Quit: offsets are committed by close(), as with enable.auto.commit.
QuitCommits ==
    /\ pc # "off"
    /\ Fault
    /\ read' = {}
    /\ pc' = "off" /\ queue' = {}
    /\ UNCHANGED <<arrived, unread, idle, backlog, stored, repaired, expired>>

\* An error of poll, produce or commit, or the end of the process: close() without
\* commit, and what is still queued is lost.
Quit ==
    /\ pc # "off"
    /\ Fault
    /\ unread' = unread \cup read /\ read' = {}
    /\ pc' = "off" /\ queue' = {}
    /\ UNCHANGED <<arrived, idle, backlog, stored, repaired, expired>>

Deliver(p) ==
    /\ p \in queue
    /\ queue' = queue \ {p} /\ backlog' = backlog \cup {p}
    /\ UNCHANGED <<arrived, unread, read, pc, idle, stored, repaired, expired, faults>>

\* Nobody looks at the outcome of a delivery: there is no callback.
DeliveryFails(p) ==
    /\ p \in queue
    /\ Fault
    /\ queue' = queue \ {p} /\ expired' = expired \cup {p}
    /\ UNCHANGED <<arrived, unread, read, pc, idle, backlog, stored, repaired>>

\* The processor: a valid payload is stored, any other gets a DLQ record.
Settle(p) ==
    /\ p \in backlog
    /\ stored' = IF Valid(p) THEN stored \cup {p} ELSE stored
    /\ unread' = IF Valid(p) THEN unread ELSE unread \cup {p}

Process(p) ==
    /\ Settle(p)
    /\ backlog' = backlog \ {p}
    /\ UNCHANGED <<arrived, script, repaired, expired, faults>>

\* It crashes before the commit and reads the message again.
ProcessAgain(p) ==
    /\ Settle(p)
    /\ Fault
    /\ UNCHANGED <<arrived, script, backlog, repaired, expired>>

Repair ==
    /\ ~repaired
    /\ repaired' = TRUE
    /\ UNCHANGED <<arrived, unread, script, backlog, stored, expired, faults>>

Script == (\E p \in Payloads : PollRecord(p)) \/ PollNothing \/ Flush \/ Commit

Next ==
    \/ Start \/ Script \/ Quit \/ Repair
    \/ \E p \in Payloads : Publish(p) \/ Deliver(p) \/ DeliveryFails(p) \/ Process(p) \/ ProcessAgain(p)

\* The script and the processor run, deliveries end, the script is run again, and a
\* record that is there is fetched within MaxIdle polls now and then.
Fairness ==
    /\ WF_vars(Start) /\ WF_vars(Script)
    /\ \A p \in Payloads : /\ SF_vars(PollRecord(p))
                           /\ WF_vars(Deliver(p)) /\ WF_vars(Process(p))

Spec == Init /\ [][Next]_vars /\ Fairness
-----------------------------------------------------------------------------
\* Every variable has its type; what is queued was polled in this run of the script.
TypeOK ==
    /\ arrived \subseteq Payloads /\ unread \subseteq arrived /\ read \subseteq arrived
    /\ queue \subseteq read \ Bare
    /\ pc \in {"off", "poll", "flush", "commit"} /\ idle \in 0 .. MaxIdle
    /\ pc = "poll" => idle < MaxIdle
    /\ pc \in {"off", "commit"} => queue = {}
    /\ pc = "off" => read = {}
    /\ backlog \subseteq arrived /\ stored \subseteq Repairable
    /\ repaired \in BOOLEAN /\ expired \subseteq Payloads \ Bare
    /\ faults \in 0 .. MaxFaults

\* A payload never drops out of the loop: until it is stored it is in one of the two
\* topics behind no committed offset, whatever the script or the processor dies of;
\* only a delivery that failed unnoticed is committed past.  (replay_dlq.py: flush
\* before the one commit at the end.)
NothingForgotten ==
    arrived \ Bare \subseteq stored \cup unread \cup read \cup backlog \cup expired

\* Once its cell is seeded, and as long as the script is run again, a payload gets its
\* clean row, also while payloads that stay invalid go round and round.
RepairedIsStored ==
    \A p \in Repairable : repaired /\ p \in arrived ~> p \in stored \cup expired

\* The script ends, provided that what is still in the loop is valid: each payload that
\* fails again comes back to the DLQ and restarts the count of idle polls.
EndsOnceAllValid ==
    <>[](\A p \in unread \cup read \cup queue \cup backlog : p \in Bare \/ Valid(p))
        => (pc = "poll" ~> pc = "off")
=============================================================================
