------------------------------ MODULE MCKvRun -------------------------------
(* Small instances of KvRun for TLC. *)
EXTENDS KvRun

\* The third case is of the other shard; an earlier run may have left the
\* directory of the fourth.
MCIndex == [c \in 1..NCases |-> IF c = 3 THEN 1 ELSE 2 * c]
MCDirs == [c \in 1..NCases |-> c]
MCLeftovers == {{}, {4}}
MCConfigs == [dry_run : BOOLEAN, allow_live_target : BOOLEAN, stop_on_failure : BOOLEAN]
=============================================================================
