---------------------------- MODULE AtLeastOnce ----------------------------
(***************************************************************************)
(* What the stream processor promises to the rest of the platform, without *)
(* saying how: "offset commit after a successful DB write (at-least-once)" *)
(* (docs/architecture.md, "Processor").  A log position is committed only  *)
(* when every message before it has been settled, i.e. is stored where it  *)
(* belongs, and neither of the two is ever taken back.                     *)
(***************************************************************************)
EXTENDS Integers

CONSTANTS Partitions,   \* partitions of the topic network.metrics
          End           \* End[p]: number of messages in the log of p

Messages == UNION {{p} \X (0 .. End[p] - 1) : p \in Partitions}

VARIABLES settled,      \* the messages that are stored for good
          committed     \* committed[p]: the group's offset of partition p

vars == <<settled, committed>>

Init ==
    /\ settled = {}
    /\ committed = [p \in Partitions |-> 0]

\* Some messages get stored; how many at a time is the implementation's choice.
Settle ==
    \E S \in SUBSET Messages :
        /\ settled' = settled \cup S
        /\ UNCHANGED committed

\* The group's offsets move forward, over settled messages only.
Commit ==
    /\ committed' \in [Partitions -> Nat]
    /\ \A p \in Partitions :
          /\ committed[p] <= committed'[p]
          /\ committed'[p] <= End[p]
          /\ \A o \in 0 .. committed'[p] - 1 : <<p, o>> \in settled
    /\ UNCHANGED settled

Next == Settle \/ Commit

Spec == Init /\ [][Next]_vars
=============================================================================
