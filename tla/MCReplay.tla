----------------------------- MODULE MCReplay ------------------------------
(***************************************************************************)
(* Two payloads whose cell is seeded later, one that never validates, and  *)
(* a record without a payload; a run ends after two idle polls.            *)
(***************************************************************************)
EXTENDS Replay

FourPayloads == {"r1", "r2", "never", "bare"}
BareOnes == {"bare"}
RepairableOnes == {"r1", "r2"}
=============================================================================
