--------------------------- MODULE CaseLifecycle ---------------------------
(***************************************************************************)
(* What an orchestrator promises about the cases of a campaign, whatever   *)
(* its mode and however it schedules them.  Cases are read in the order of *)
(* the campaign file; each one is passed over, skipped, or started; a      *)
(* started case is recorded with a verdict at most once; nothing is        *)
(* started once a case has been skipped (the stop conditions - limit, disk *)
(* floor, fuse - are final); and a run that ends normally leaves no case   *)
(* without its outcome.                                                    *)
(*                                                                         *)
(* TlsRun, KvRun and the send of NetRun are shown to implement it.         *)
(***************************************************************************)
EXTENDS Integers

CONSTANTS
    NCases,     \* number of cases in the campaign file
    Mine        \* the cases of this shard, a subset of 1..NCases

CampaignCases == 1..NCases

VARIABLES
    status,     \* how far each case has got
    run         \* "open", "complete" (ended normally) or "broken"

promiseVars == <<status, run>>

PromiseInit ==
    /\ status = [c \in CampaignCases |-> "unread"]
    /\ run = "open"

Move(c, from, to) ==
    /\ status[c] = from
    /\ status' = [status EXCEPT ![c] = to]
    /\ UNCHANGED run

\* c is the case the campaign is at.
Latest(c) == \A d \in CampaignCases : c < d => status[d] = "unread"

\* The campaign is read in order.
PlanCase(c) ==
    /\ \A d \in CampaignCases : d < c => status[d] # "unread"
    /\ Move(c, "unread", "planned")

SkipCase(c) == Latest(c) /\ Move(c, "planned", "skipped")

StartCase(c) ==
    /\ c \in Mine /\ Latest(c)
    /\ \A d \in CampaignCases : status[d] # "skipped"
    /\ Move(c, "planned", "started")

\* Verdicts may arrive in any order.
RecordCase(c) == Move(c, "started", "recorded")

\* A normal end: the campaign is read and every case of the shard has its
\* outcome.
CompleteRun ==
    /\ \A c \in CampaignCases : status[c] \notin {"unread", "started"}
    /\ \A c \in Mine : status[c] \in {"skipped", "recorded"}
    /\ run' = "complete"
    /\ UNCHANGED status

\* An exception or a kill may end the run at any point.
BreakRun == run' = "broken" /\ UNCHANGED status

PromiseNext ==
    /\ run = "open"
    /\ \/ \E c \in CampaignCases :
            PlanCase(c) \/ SkipCase(c) \/ StartCase(c) \/ RecordCase(c)
       \/ CompleteRun
       \/ BreakRun

PromiseSpec == PromiseInit /\ [][PromiseNext]_promiseVars
=============================================================================
