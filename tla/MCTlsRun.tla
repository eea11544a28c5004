------------------------------ MODULE MCTlsRun ------------------------------
(* Small instances of TlsRun for TLC. *)
EXTENDS TlsRun

\* The campaign generator numbers the cases 0, 1, 2, ...
MCSequential == [c \in 1..NCases |-> c - 1]
\* A fresh artifacts directory; one that holds a run of the first two cases.
MCNone == {}
MCFirstTwo == {0, 1}
=============================================================================
