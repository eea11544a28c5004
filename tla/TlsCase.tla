------------------------------ MODULE TlsCase -------------------------------
(***************************************************************************)
(* _run_one_case of nvmetcp_tls_fuzz/run.py, as the workers of one run     *)
(* execute it side by side: the safety gates, the TLS key import, the      *)
(* nvme discover / connect, the workload, the disconnect of the finally    *)
(* clause, and the summary.  The cases share one thing, the host's         *)
(* controller for the one subsystem NQN all of them name; nvme-cli and the *)
(* kernel behind it are external.                                          *)
(***************************************************************************)
EXTENDS Integers, FiniteSets, RunArtifacts

CONSTANTS
    Calls,          \* the cases of the run
    CommandOf,      \* case -> its "command"
    Configs         \* the configurations a run may have: records of
                    \* workers, engine, template, lifecycle, dry_run, allow_write,
                    \* import_key, discover, disconnect_after_case

Verdicts == {"PASS_VALID", "PASS_REJECTED", "FAIL_INFRA", "FAIL_HANG"}
Tools == {"keyctl", "discover", "connect", "workload", "disconnect"}

VARIABLES
    config,         \* the _WorkerConfig of the run
    pc,             \* case -> where its call is
    dirs,           \* case -> its directory (see RunArtifacts)
    verdict,        \* case -> verdict in its summary.json, or "none"
    rc,             \* case -> tool -> "none" (not run), "ok", "failed" or,
                    \* for connect, "busy"
    connected,      \* case -> connection_started
    outcome,        \* case -> how the workload statement is left
    owner           \* the case whose connect created the controller, or "nobody"

vars == <<config, pc, dirs, verdict, rc, connected, outcome, owner>>

\* What the fio template makes of a case: the default one, and a --fio-template
\* with {rw} in it, follow the case; any other does what it says for every case.
Templates == {"follows", "reads", "writes"}

\* RunConfig.__post_init__.
ValidConfig(cfg) ==
    /\ cfg.engine \in {"fio", "vdbench"} /\ cfg.lifecycle \in {"none", "per-case"}
    /\ cfg.template \in Templates
    /\ cfg.workers \in Nat \ {0}

ASSUME CaseAssumption ==
    /\ "nobody" \notin Calls /\ IsFiniteSet(Calls)
    /\ \A cfg \in Configs : ValidConfig(cfg)

Phases == {"idle", "open", "plan", "keyctl", "discover", "connect", "launch",
           "workload", "summarise", "disconnect", "logs", "conclude", "return",
           "returned", "raised"}
Over == {"returned", "raised"}
Active == {c \in Calls : pc[c] \notin Over \cup {"idle"}}

\* The connection commands planned for a case, recorded in command.json.
ConnectionPlan ==
    [enabled |-> config.lifecycle # "none",
     discover |-> config.discover,
     disconnect |-> config.disconnect_after_case]
PerCase == ConnectionPlan.enabled

\* _rw_for_case and _is_write_case.
Rw(c) == CASE CommandOf[c] = "write" -> "write"
           [] CommandOf[c] \in {"rw", "randrw"} -> "randrw"
           [] OTHER -> "read"
\* Seeded fault: mixed workloads do not count as writes.
IsWriteCase_PureOnly(c) == Rw(c) = "write"
IsWriteCase(c) == Rw(c) \in {"write", "randrw"}

\* What the built command does.  vdbench knows no template, and reads only, except
\* for pure writes.
TemplateWrites == config.engine = "fio" /\ config.template = "writes"
WorkloadWrites(c) ==
    \/ config.engine = "vdbench" /\ Rw(c) = "write"
    \/ config.engine = "fio" /\ config.template = "follows" /\ Rw(c) \in {"write", "randrw"}
    \/ TemplateWrites

Init ==
    /\ config \in Configs
    /\ pc = [c \in Calls |-> "idle"]
    /\ dirs = [c \in Calls |-> "none"]
    /\ verdict = [c \in Calls |-> "none"]
    /\ rc = [c \in Calls |-> [t \in Tools |-> "none"]]
    /\ connected = [c \in Calls |-> FALSE]
    /\ outcome = [c \in Calls |-> "none"]
    /\ owner = "nobody"

Goto(c, phase) == pc' = [pc EXCEPT ![c] = phase]
Ran(c, tool, result) == rc' = [rc EXCEPT ![c][tool] = result]
Summarise(c, v) ==
    /\ verdict' = [verdict EXCEPT ![c] = v]
    /\ dirs' = [dirs EXCEPT ![c] = "summary"]

\* A free worker takes the case.
Begin(c) ==
    /\ pc[c] = "idle" /\ Cardinality(Active) < config.workers
    /\ Goto(c, "open")
    /\ UNCHANGED <<config, dirs, verdict, rc, connected, outcome, owner>>

\* mkdir and case.yaml.
Open(c) ==
    /\ pc[c] = "open"
    /\ dirs' = [dirs EXCEPT ![c] = "yaml"]
    /\ Goto(c, "plan")
    /\ UNCHANGED <<config, verdict, rc, connected, outcome, owner>>

\* The command is built and command.json written; then the safety gates, in
\* this order, decide without touching the host.
Gate(c) ==
    /\ pc[c] = "plan"
    /\ IF IsWriteCase(c) /\ ~config.allow_write
       THEN Summarise(c, "FAIL_INFRA") /\ Goto(c, "return")
       ELSE IF config.dry_run
       THEN Summarise(c, "PASS_VALID") /\ Goto(c, "return")
       ELSE Goto(c, IF PerCase THEN "keyctl" ELSE "launch") /\ UNCHANGED <<verdict, dirs>>
    /\ UNCHANGED <<config, rc, connected, outcome, owner>>

\* Nothing to import, or keyctl padd succeeds.
KeyReady(c) ==
    /\ pc[c] = "keyctl"
    /\ IF config.import_key THEN Ran(c, "keyctl", "ok") ELSE UNCHANGED rc
    /\ Goto(c, IF ConnectionPlan.discover THEN "discover" ELSE "connect")
    /\ UNCHANGED <<config, dirs, verdict, connected, outcome, owner>>

\* No key material, no keyctl, its timeout, or a non-zero exit.
KeyFails(c) ==
    /\ pc[c] = "keyctl" /\ config.import_key
    /\ \/ Ran(c, "keyctl", "failed")
       \/ UNCHANGED rc                       \* the key source is not available
    /\ Summarise(c, "FAIL_INFRA")
    /\ Goto(c, "return")
    /\ UNCHANGED <<config, connected, outcome, owner>>

\* The result of discover is not looked at.
Discover(c) ==
    /\ pc[c] = "discover"
    /\ \E result \in {"ok", "failed"} : Ran(c, "discover", result)
    /\ Goto(c, "connect")
    /\ UNCHANGED <<config, dirs, verdict, connected, outcome, owner>>

\* nvme connect exits 0: the kernel had no controller for this NQN.
Connect(c) ==
    /\ pc[c] = "connect" /\ owner = "nobody"
    /\ owner' = c
    /\ Ran(c, "connect", "ok")
    /\ connected' = [connected EXCEPT ![c] = TRUE]
    /\ Goto(c, "launch")
    /\ UNCHANGED <<config, dirs, verdict, outcome>>

\* Seeded fault: connection_started is set whatever connect returned.
ConnectFails_Started(c) ==
    /\ pc[c] = "connect"
    /\ owner' \in {owner, IF owner = "nobody" THEN c ELSE owner}
    /\ Ran(c, "connect", IF owner = "nobody" THEN "failed" ELSE "busy")
    /\ Summarise(c, "PASS_REJECTED")
    /\ connected' = [connected EXCEPT ![c] = TRUE]
    /\ outcome' = [outcome EXCEPT ![c] = "return"]
    /\ Goto(c, "disconnect")
    /\ UNCHANGED config

\* nvme connect exits non-zero (the target rejects it, or the host is already
\* connected: "busy"), is missing (127), or times out (124), in which case
\* the controller may be up all the same.  The code does not tell them apart.
ConnectFails(c) ==
    /\ pc[c] = "connect"
    /\ owner' \in {owner, IF owner = "nobody" THEN c ELSE owner}
    /\ Ran(c, "connect", IF owner = "nobody" THEN "failed" ELSE "busy")
    /\ Summarise(c, "PASS_REJECTED")
    /\ Goto(c, "return")
    /\ UNCHANGED <<config, connected, outcome>>

\* subprocess.run starts the workload.
Launch(c) ==
    /\ pc[c] = "launch"
    /\ Goto(c, "workload")
    /\ UNCHANGED <<config, dirs, verdict, rc, connected, outcome, owner>>

\* Seeded fault: the except clause returns without writing the summary.
ToolMissing_NoSummary(c) ==
    /\ pc[c] = "launch"
    /\ Ran(c, "workload", "failed")
    /\ verdict' = [verdict EXCEPT ![c] = "FAIL_INFRA"]
    /\ outcome' = [outcome EXCEPT ![c] = "return"]
    /\ Goto(c, "disconnect")
    /\ UNCHANGED <<config, dirs, connected, owner>>

\* The tool is not there: the summary is written by the except clause, before
\* the finally clause runs.
ToolMissing(c) ==
    /\ pc[c] = "launch"
    /\ Ran(c, "workload", "failed")
    /\ Summarise(c, "FAIL_INFRA")
    /\ outcome' = [outcome EXCEPT ![c] = "return"]
    /\ Goto(c, "disconnect")
    /\ UNCHANGED <<config, connected, owner>>

\* Seeded fault: a hung workload is summarised and returned from outside the
\* try statement, past the disconnect.
WorkloadTimesOut_NoFinally(c) ==
    /\ pc[c] = "workload"
    /\ Ran(c, "workload", "failed")
    /\ Summarise(c, "FAIL_HANG")
    /\ Goto(c, "return")
    /\ UNCHANGED <<config, connected, outcome, owner>>

\* Seeded fault: a verdict outside the vocabulary of the mode.
WorkloadTimesOut_OtherName(c) ==
    /\ pc[c] = "workload"
    /\ Ran(c, "workload", "failed")
    /\ Summarise(c, "FAIL_TIMEOUT")
    /\ outcome' = [outcome EXCEPT ![c] = "return"]
    /\ Goto(c, "disconnect")
    /\ UNCHANGED <<config, connected, owner>>

WorkloadTimesOut(c) ==
    /\ pc[c] = "workload"
    /\ Ran(c, "workload", "failed")
    /\ Summarise(c, "FAIL_HANG")
    /\ outcome' = [outcome EXCEPT ![c] = "return"]
    /\ Goto(c, "disconnect")
    /\ UNCHANGED <<config, connected, owner>>

WorkloadEnds(c) ==
    /\ pc[c] = "workload"
    /\ \E result \in {"ok", "failed"} : Ran(c, "workload", result)
    /\ outcome' = [outcome EXCEPT ![c] = "continue"]
    /\ Goto(c, "disconnect")
    /\ UNCHANGED <<config, dirs, verdict, connected, owner>>

\* Any other exception of the try statement: it passes through finally.  A
\* write of the except clauses may have left a torn summary.json.
WorkloadRaises(c) ==
    /\ pc[c] \in {"launch", "workload"}
    /\ outcome' = [outcome EXCEPT ![c] = "raise"]
    /\ dirs' \in {dirs, [dirs EXCEPT ![c] = "summary"]}
    /\ Goto(c, "disconnect")
    /\ UNCHANGED <<config, verdict, rc, connected, owner>>

LeaveTry(c) ==
    Goto(c, CASE outcome[c] = "continue" -> "logs"
              [] outcome[c] = "return"   -> "return"
              [] OTHER                   -> "raised")

NoDisconnect(c) ==
    /\ pc[c] = "disconnect"
    /\ ~(connected[c] /\ ConnectionPlan.disconnect)
    /\ LeaveTry(c)
    /\ UNCHANGED <<config, dirs, verdict, rc, connected, outcome, owner>>

\* nvme disconnect -n NQN removes every controller of the subsystem, whoever
\* connected it.  Its result is not looked at.
Disconnect(c) ==
    /\ pc[c] = "disconnect" /\ connected[c] /\ ConnectionPlan.disconnect
    /\ \/ Ran(c, "disconnect", "ok") /\ owner' = "nobody"
       \/ Ran(c, "disconnect", "failed") /\ owner' \in {owner, "nobody"}
    /\ LeaveTry(c)
    /\ UNCHANGED <<config, dirs, verdict, connected, outcome>>

\* The logs of the workload, then the verdict from its exit code.
Conclude(c) ==
    /\ pc[c] = "logs"
    /\ Summarise(c, IF rc[c]["workload"] = "ok" THEN "PASS_VALID" ELSE "PASS_REJECTED")
    /\ Goto(c, "return")
    /\ UNCHANGED <<config, rc, connected, outcome, owner>>

Return(c) ==
    /\ pc[c] = "return"
    /\ Goto(c, "returned")
    /\ UNCHANGED <<config, dirs, verdict, rc, connected, outcome, owner>>

\* The file a failing write leaves behind, by phase.
TornFile(c) == CASE pc[c] = "open"                              -> "yaml"
                 [] pc[c] \in {"plan", "keyctl", "connect", "logs"} -> "summary"
                 [] OTHER                                        -> dirs[c]

\* A write of the artifacts raises, or a tool cannot be executed: outside the
\* try statement nothing is undone.  nvme may have done its work by then.
Raise(c) ==
    /\ \/ pc[c] \in {"open", "plan", "keyctl", "discover", "connect", "logs"}
       \/ pc[c] = "disconnect" /\ connected[c] /\ ConnectionPlan.disconnect
    /\ dirs' \in {dirs, [dirs EXCEPT ![c] = TornFile(c)]}
    /\ owner' \in {owner} \cup
                  (IF pc[c] = "connect" /\ owner = "nobody" THEN {c} ELSE {}) \cup
                  (IF pc[c] = "disconnect" THEN {"nobody"} ELSE {})
    /\ IF pc[c] \in Tools THEN Ran(c, pc[c], "failed") ELSE UNCHANGED rc
    /\ Goto(c, "raised")
    /\ UNCHANGED <<config, verdict, connected, outcome>>

Stopped ==
    /\ \A c \in Calls : pc[c] \in Over
    /\ UNCHANGED vars

Step(c) ==
    \/ Begin(c) \/ Open(c) \/ Gate(c)
    \/ KeyReady(c) \/ KeyFails(c) \/ Discover(c) \/ Connect(c) \/ ConnectFails(c)
    \/ Launch(c) \/ ToolMissing(c) \/ WorkloadTimesOut(c) \/ WorkloadEnds(c)
    \/ WorkloadRaises(c) \/ NoDisconnect(c) \/ Disconnect(c)
    \/ Conclude(c) \/ Return(c) \/ Raise(c)

Next == (\E c \in Calls : Step(c)) \/ Stopped

Spec == Init /\ [][Next]_vars
-----------------------------------------------------------------------------
TypeOK ==
    /\ config \in Configs
    /\ pc \in [Calls -> Phases]
    /\ dirs \in [Calls -> DirStates]
    /\ verdict \in [Calls -> Verdicts \cup {"none"}]
    /\ rc \in [Calls -> [Tools -> {"none", "ok", "failed", "busy"}]]
    /\ connected \in [Calls -> BOOLEAN]
    /\ outcome \in [Calls -> {"none", "continue", "return", "raise"}]
    /\ owner \in Calls \cup {"nobody"}

\* The safety gates.  A dry run executes nothing at all, and without
\* --allow-write a write case does not touch the host.  The gate asks the case,
\* not the command that was built: without --allow-write the only workload that
\* writes is one whose fio template writes of its own accord, for a case that
\* reads (README: write workloads are forbidden by default; not these).  In the
\* per-case lifecycle a workload is launched only over a connection the case
\* made itself, after its key import succeeded.
Launched(c) == pc[c] \in {"launch", "workload"} \/ rc[c]["workload"] # "none"

GatesHold ==
    \A c \in Calls :
        /\ config.dry_run \/ (IsWriteCase(c) /\ ~config.allow_write) =>
             ~Launched(c) /\ \A t \in Tools : rc[c][t] = "none"
        /\ Launched(c) /\ WorkloadWrites(c) /\ ~config.allow_write => TemplateWrites
        /\ PerCase /\ (pc[c] = "workload" \/ rc[c]["workload"] # "none") =>
             /\ connected[c] /\ rc[c]["connect"] = "ok"
             /\ config.import_key => rc[c]["keyctl"] = "ok"

\* A case that connected does not end before disconnect was attempted,
\* whatever became of its workload (the finally clause): a controller that is
\* left behind is one whose connect or disconnect went wrong.
LeakHasCause ==
    \A c \in Calls :
        pc[c] \in Over /\ owner = c /\ config.disconnect_after_case =>
            "failed" \in {rc[c]["connect"], rc[c]["disconnect"]}

\* A workload runs over the controller its own case connected: no other
\* worker's disconnect takes it away.
OwnConnection ==
    \A c \in Calls : PerCase /\ pc[c] = "workload" => owner = c

\* A case is turned away by a controller that is already there only when
\* another case failed to connect or to disconnect properly (README: in this
\* lifecycle every case covers connect, IO and disconnect).
BusyHasCause ==
    \A c \in Calls :
        rc[c]["connect"] = "busy" /\ config.disconnect_after_case =>
            \E d \in Calls : "failed" \in {rc[d]["connect"], rc[d]["disconnect"]}

\* Every controller is accounted for: one that outlives its case has a cause,
\* and with one worker so has one that is in a later case's way.
ControllersAccounted == LeakHasCause /\ (config.workers = 1 => BusyHasCause)

\* The call keeps the contract TlsRun relies on.
Contract == INSTANCE CaseCall
            WITH VerdictNames <- Verdicts, dir <- dirs, result <- verdict,
                 state <- [c \in Calls |-> IF pc[c] \in Over \cup {"idle"}
                                           THEN pc[c] ELSE "running"]
KeepsContract == Contract!CallSpec
=============================================================================
