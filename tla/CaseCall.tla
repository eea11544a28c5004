------------------------------ MODULE CaseCall ------------------------------
(***************************************************************************)
(* The contract of one call of _run_one_case as its caller sees it, and as *)
(* TlsRun assumes it of every case: the case directory is opened before    *)
(* anything is concluded, summary.json carries the verdict before the call *)
(* returns, the verdict never changes, and an exception can end the call   *)
(* at any point.  TlsCase is shown to implement it.                        *)
(***************************************************************************)
CONSTANTS
    Calls,
    VerdictNames    \* the verdicts of the mode; "none" is not one of them

VARIABLES
    state,      \* call -> "idle", "running", "returned" or "raised"
    dir,        \* call -> "none", "yaml" or "summary"
    result      \* call -> verdict in summary.json, or "none"

callVars == <<state, dir, result>>

CallInit ==
    /\ state = [c \in Calls |-> "idle"]
    /\ dir = [c \in Calls |-> "none"]
    /\ result = [c \in Calls |-> "none"]

Begin(c) ==
    /\ state[c] = "idle"
    /\ state' = [state EXCEPT ![c] = "running"]
    /\ UNCHANGED <<dir, result>>

Open(c) ==
    /\ state[c] = "running" /\ dir[c] = "none"
    /\ dir' = [dir EXCEPT ![c] = "yaml"]
    /\ UNCHANGED <<state, result>>

Conclude(c) ==
    /\ state[c] = "running" /\ dir[c] = "yaml"
    /\ dir' = [dir EXCEPT ![c] = "summary"]
    /\ \E v \in VerdictNames : result' = [result EXCEPT ![c] = v]
    /\ UNCHANGED state

Return(c) ==
    /\ state[c] = "running" /\ dir[c] = "summary" /\ result[c] # "none"
    /\ state' = [state EXCEPT ![c] = "returned"]
    /\ UNCHANGED <<dir, result>>

\* A summary.json that could not be written to its end carries no verdict.
Tear(c) ==
    /\ state[c] = "running" /\ dir[c] = "yaml"
    /\ dir' = [dir EXCEPT ![c] = "summary"]
    /\ UNCHANGED <<state, result>>

\* The write that raises may have created the file it was to write.
Raise(c) ==
    /\ state[c] = "running"
    /\ state' = [state EXCEPT ![c] = "raised"]
    /\ dir' \in {dir, [dir EXCEPT ![c] = IF @ = "none" THEN "yaml" ELSE "summary"]}
    /\ UNCHANGED result

CallNext ==
    \E c \in Calls :
        Begin(c) \/ Open(c) \/ Conclude(c) \/ Tear(c) \/ Return(c) \/ Raise(c)

CallSpec == CallInit /\ [][CallNext]_callVars
=============================================================================
