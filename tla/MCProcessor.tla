---------------------------- MODULE MCProcessor ----------------------------
(***************************************************************************)
(* Instances of Processor for TLC.  Partition a carries two reports of the *)
(* same key (a duplicate sent by a retry or a replay), partition b one or  *)
(* two of another.                                                         *)
(***************************************************************************)
EXTENDS Processor

TwoPartitions == {"a", "b"}
TwoAndOne == [p \in TwoPartitions |-> IF p = "a" THEN 2 ELSE 1]
TwoKeys == {"k1", "k2"}

KeysByPartition == [m \in Messages |-> IF m[1] = "a" THEN "k1" ELSE "k2"]

\* Whether the second report on a is valid depends on the clock; b's is invalid.
MixedVerdicts ==
    [m \in Messages |-> IF m = <<"a", 0>> THEN {"valid"}
                        ELSE IF m[1] = "a" THEN {"valid", "invalid"}
                        ELSE {"invalid"}]

Nothing == {}

\* A harder log: the second report on a makes validation raise, the clean row of b's
\* first has a site that is not seeded, and no JSONB column takes b's second; whether
\* b's are valid depends on the clock.
TwoAndTwo == [p \in TwoPartitions |-> 2]
HarderVerdicts ==
    [m \in Messages |-> IF m = <<"a", 1>> THEN {"raises"}
                        ELSE IF m = <<"a", 0>> THEN {"valid"}
                        ELSE {"valid", "invalid"}]
FirstOnB == {<<"b", 0>>}
SecondOnB == {<<"b", 1>>}

\* All reports are valid.
AllValid == [m \in Messages |-> {"valid"}]
=============================================================================
