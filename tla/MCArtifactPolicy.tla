-------------------------- MODULE MCArtifactPolicy --------------------------
(* A small instance of ArtifactPolicy for TLC. *)
EXTENDS ArtifactPolicy

MCCases == 1..4
MCBucketKey == [c \in MCCases |-> IF c = 2 THEN NoBucket ELSE IF c = 3 THEN "hang" ELSE "safety"]

Default == [enabled |-> TRUE, keep_first |-> 1, keep_every |-> 2, compress |-> TRUE,
            keep_full |-> FALSE, keep_payload |-> FALSE, keep_pcap |-> FALSE]
MCPolicies == {Default,
               [Default EXCEPT !.keep_first = 0, !.keep_every = 0, !.compress = FALSE],
               [Default EXCEPT !.keep_first = 2, !.keep_full = TRUE],
               [Default EXCEPT !.keep_first = 0, !.keep_every = 1, !.keep_payload = TRUE],
               [Default EXCEPT !.enabled = FALSE]}
=============================================================================
