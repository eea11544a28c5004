------------------------------- MODULE KvRun --------------------------------
(***************************************************************************)
(* The run loop of the NVMe KV mode: RunOrchestrator.run and _run_one_case *)
(* of nvme_kv_fuzz/run.py with the executor, the oracle and the artifact   *)
(* writer they call.  One process runs the cases one after the other,      *)
(* paces them, and stops sending through a fuse.  Unlike the TLS loop      *)
(* there is no finally clause: an exception leaves the run without its     *)
(* summary.  The device and nvme-cli are external.                         *)
(*                                                                         *)
(* Time is in units of which 1/max_qps is a multiple; it passes in the     *)
(* command and in the pacing sleep.                                        *)
(***************************************************************************)
EXTENDS Integers, FiniteSets

CONSTANTS
    NCases,                 \* lines of the campaign file
    CaseIndex,              \* position -> campaign_index
    DirOf,                  \* position -> name of the case directory (index and seed)
    ShardCount, ShardIndex,
    Limit, NoLimit,
    MaxConsecutiveTimeouts,
    Interval,               \* 1 / max_qps
    Durations,              \* how long a command may take
    Leftovers,              \* sets of case directories an earlier run may have left
    Configs                 \* records of dry_run, allow_live_target, stop_on_failure

Cases == 1..NCases

ASSUME KvCampaignAssumption ==
    /\ NCases \in Nat
    /\ CaseIndex \in [Cases -> Nat]
    /\ DOMAIN DirOf = Cases

\* RunConfig.__post_init__.
ValidRunConfig ==
    /\ ShardCount \in Nat \ {0} /\ ShardIndex \in 0..(ShardCount - 1)
    /\ NoLimit \notin Int /\ Limit \in (Nat \ {0}) \cup {NoLimit}

\* load_config and validate_config: max_qps and timeout_ms are positive.
ValidKvConfig == Interval \in Nat \ {0} /\ Durations \subseteq Nat

ASSUME KvConfigAssumption ==
    ValidRunConfig /\ ValidKvConfig /\ MaxConsecutiveTimeouts \in Int

VARIABLES
    config,         \* RunConfig
    pc,             \* where run() or _run_one_case() is
    read, selected, executed,
    fuse,           \* fuse_reason, "none" while it is closed
    hangs,          \* consecutive_timeouts
    now, nextAllowed,
    lastEnd,        \* when the previous case was recorded (-1: no case yet)
    obs,            \* what the command of the current case showed
    sent,           \* cases whose command reached the device
    dirs,           \* case directory -> "none", "yaml", "command" or "summary"
    verdict,        \* case -> verdict, "none" before the oracle
    ledger,         \* case -> stages appended for it
    skips,          \* skip_reason_counts
    fatal,          \* fatal_stop_reason
    files           \* run-level files

loopVars == <<read, selected, executed, fuse, hangs>>
timeVars == <<now, nextAllowed, lastEnd>>
caseVars == <<obs, sent, dirs, verdict>>
bookVars == <<ledger, skips, fatal, files>>
vars == <<config, pc, loopVars, timeVars, caseVars, bookVars>>

Dirs == {DirOf[c] : c \in Cases}
Ended == {"done", "failed", "killed"}
FuseReasons == {"disk_budget", "consecutive_timeouts", "verdict"}
SkipReasons == FuseReasons \cup {"limit_reached"}
Stages == {"planned", "skipped", "selected", "started", "precheck_started", "command_built",
           "io_passthru_started", "io_passthru_finished", "oracle_collected", "cleanup_finished",
           "artifact_finalized", "verdict_finalized"}
KvVerdicts == {"PASS_VALID", "PASS_REJECTED", "PASS_RECOVERED", "FAIL_SAFETY",
               "FAIL_HANG", "FAIL_CLEANUP", "FAIL_ORACLE", "FAIL_INFRA"}
Failures == {"FAIL_SAFETY", "FAIL_HANG", "FAIL_CLEANUP", "FAIL_ORACLE", "FAIL_INFRA"}

InShard(c) == CaseIndex[c] % ShardCount = ShardIndex
LimitReached == Limit # NoLimit /\ selected >= Limit

\* What NvmeCliExecutor.run can return: no tool, a timeout, an exit; with the
\* kind of message found in stderr.
Observations ==
    [exit : {"no_tool"}, text : {"clean"}]
      \cup [exit : {"timeout", "zero", "nonzero"},
            text : {"clean", "safety", "hang", "reconnect"}]

\* Seeded fault: a timeout is judged before the log is searched, under a name
\* of its own.
Analyze_Timeout(o, successAllowed) ==
    CASE o.exit = "no_tool" -> "FAIL_INFRA"
      [] o.exit = "timeout" -> "FAIL_TIMEOUT"
      [] o.text = "safety" -> "FAIL_SAFETY"
      [] o.text = "hang" -> "FAIL_HANG"
      [] o.exit = "zero" /\ o.text \in {"clean", "reconnect"} ->
           IF successAllowed THEN "PASS_VALID" ELSE "FAIL_ORACLE"
      [] o.exit = "nonzero" /\ o.text = "reconnect" -> "PASS_RECOVERED"
      [] o.exit = "nonzero" /\ o.text = "clean" -> "PASS_REJECTED"

\* OracleAnalyzer.analyze, on what the loop passes it: neither the controller
\* lists nor a semantic error, so FAIL_CLEANUP has no way in.  Whether success
\* is allowed belongs to the case.
Analyze(o, successAllowed) ==
    CASE o.exit = "no_tool" -> "FAIL_INFRA"
      [] o.text = "safety" -> "FAIL_SAFETY"
      [] o.exit = "timeout" \/ o.text = "hang" -> "FAIL_HANG"
      [] o.exit = "zero" /\ o.text \in {"clean", "reconnect"} ->
           IF successAllowed THEN "PASS_VALID" ELSE "FAIL_ORACLE"
      [] o.exit = "nonzero" /\ o.text = "reconnect" -> "PASS_RECOVERED"
      [] o.exit = "nonzero" /\ o.text = "clean" -> "PASS_REJECTED"

NoObs == [exit |-> "none", text |-> "clean"]

Init ==
    /\ config \in Configs
    /\ pc = "precheck"
    /\ read = 0 /\ selected = 0 /\ executed = 0 /\ fuse = "none" /\ hangs = 0
    /\ now = 0 /\ nextAllowed = 0 /\ lastEnd = -1
    /\ obs = NoObs /\ sent = {}
    /\ \E left \in Leftovers :
          dirs = [d \in Dirs |-> IF d \in left THEN "summary" ELSE "none"]
    /\ verdict = [c \in Cases |-> "none"]
    /\ ledger = [c \in Cases |-> {}]
    /\ skips = [r \in SkipReasons |-> 0]
    /\ fatal = "none"
    /\ files = {}

Log(c, stages) == ledger' = [ledger EXCEPT ![c] = @ \cup stages]
Skip(reason) ==
    /\ Log(read, {"skipped"})
    /\ skips' = [skips EXCEPT ![reason] = @ + 1]
-----------------------------------------------------------------------------
\* What the captured output of nvme list and list-subsys must show; it shows
\* nothing when the tool cannot be run.
Identity == {"device", "model or serial", "target nqn"}
LivePrecheck(shown) == Identity \subseteq shown

\* Seeded fault: the run starts without its gates.
Precheck_Ungated ==
    /\ pc = "precheck"
    /\ pc' = "read"
    /\ files' = {"run-manifest.json"}
    /\ UNCHANGED <<config, loopVars, timeVars, caseVars, ledger, skips, fatal>>

\* A live run needs --allow-live-target and the device; a dry run needs neither.
Precheck ==
    /\ pc = "precheck"
    /\ \/ /\ \/ config.dry_run
             \/ config.allow_live_target /\ \E shown \in SUBSET Identity : LivePrecheck(shown)
          /\ pc' = "read"
          /\ files' = {"run-manifest.json"}
       \/ /\ pc' = "failed"       \* refused, not found, a bad config, a failed write
          /\ files' \in {files, {"run-manifest.json"}}
    /\ UNCHANGED <<config, loopVars, timeVars, caseVars, ledger, skips, fatal>>

ReadCase ==
    /\ pc = "read" /\ read < NCases
    /\ read' = read + 1
    /\ Log(read + 1, {"planned"})
    /\ pc' = "decide"
    /\ UNCHANGED <<config, selected, executed, fuse, hangs, timeVars, caseVars,
                   skips, fatal, files>>

\* The tests of the loop in their order: shard, limit, fuse, disk.
OtherShard ==
    /\ pc = "decide" /\ ~InShard(read)
    /\ pc' = "read"
    /\ UNCHANGED <<config, loopVars, timeVars, caseVars, bookVars>>

SkipForLimit ==
    /\ pc = "decide" /\ InShard(read) /\ LimitReached
    /\ Skip("limit_reached")
    /\ pc' = "read"
    /\ UNCHANGED <<config, loopVars, timeVars, caseVars, fatal, files>>

\* Seeded fault: a fused run passes the remaining cases over silently.
SkipForFuse_Silent ==
    /\ pc = "decide" /\ InShard(read) /\ ~LimitReached /\ fuse # "none"
    /\ pc' = "read"
    /\ UNCHANGED <<config, loopVars, timeVars, caseVars, bookVars>>

SkipForFuse ==
    /\ pc = "decide" /\ InShard(read) /\ ~LimitReached /\ fuse # "none"
    /\ Skip(fuse)
    /\ pc' = "read"
    /\ UNCHANGED <<config, loopVars, timeVars, caseVars, fatal, files>>

StopForDisk ==
    /\ pc = "decide" /\ InShard(read) /\ ~LimitReached /\ fuse = "none"
    /\ fatal' = "disk_budget_exhausted"
    /\ fuse' = "disk_budget"
    /\ Skip("disk_budget")
    /\ pc' = "read"
    /\ UNCHANGED <<config, read, selected, executed, hangs, timeVars, caseVars, files>>

SelectCase ==
    /\ pc = "decide" /\ InShard(read) /\ ~LimitReached /\ fuse = "none"
    /\ selected' = selected + 1
    /\ Log(read, {"selected", "started"})
    /\ pc' = "pace"
    /\ UNCHANGED <<config, read, executed, fuse, hangs, timeVars, caseVars,
                   skips, fatal, files>>

\* time.sleep until next_allowed_start.
Pace ==
    /\ pc = "pace"
    /\ now' = IF now < nextAllowed THEN nextAllowed ELSE now
    /\ pc' = "open"
    /\ UNCHANGED <<config, loopVars, nextAllowed, lastEnd, caseVars, bookVars>>

\* start_case creates the directory, which must not exist (exist_ok=False).
OpenCase ==
    /\ pc = "open"
    /\ IF dirs[DirOf[read]] = "none"
       THEN /\ dirs' = [dirs EXCEPT ![DirOf[read]] = "yaml"]
            /\ Log(read, {"precheck_started"})
            /\ pc' = "build"
       ELSE pc' = "failed" /\ UNCHANGED <<dirs, ledger>>
    /\ UNCHANGED <<config, loopVars, timeVars, obs, sent, verdict, skips, fatal, files>>

\* payload.bin and command.json, then command_built; the state of the host
\* before the command is captured.
BuildCommand ==
    /\ pc = "build"
    /\ dirs' = [dirs EXCEPT ![DirOf[read]] = "command"]
    /\ Log(read, {"command_built"})
    /\ pc' = "announce"
    /\ UNCHANGED <<config, loopVars, timeVars, obs, sent, verdict, skips, fatal, files>>

\* Seeded fault: the ledger entry is written when the command is back.
Announce_Late ==
    /\ pc = "announce"
    /\ pc' = "io"
    /\ UNCHANGED <<config, loopVars, timeVars, caseVars, bookVars>>

Announce ==
    /\ pc = "announce"
    /\ Log(read, {"io_passthru_started"})
    /\ pc' = "io"
    /\ UNCHANGED <<config, loopVars, timeVars, caseVars, skips, fatal, files>>

\* nvme io-passthru; a dry run plans it only.
SendIo ==
    /\ pc = "io"
    /\ IF config.dry_run
       THEN UNCHANGED <<obs, sent, now>>
       ELSE /\ obs' \in Observations
            /\ sent' = IF obs'.exit = "no_tool" THEN sent ELSE sent \cup {read}
            /\ \E d \in Durations : now' = now + d
    /\ pc' = "analyze"
    /\ UNCHANGED <<config, loopVars, nextAllowed, lastEnd, dirs, verdict, bookVars>>

\* The logs, the host state after the command, the oracle, and summary.json.
AnalyzeCase ==
    /\ pc = "analyze"
    /\ \E successAllowed \in BOOLEAN :
          verdict' = [verdict EXCEPT ![read] =
                        IF config.dry_run THEN "PASS_VALID" ELSE Analyze(obs, successAllowed)]
    /\ dirs' = [dirs EXCEPT ![DirOf[read]] = "summary"]
    /\ Log(read, {"io_passthru_finished", "oracle_collected", "cleanup_finished"})
    /\ obs' = NoObs
    /\ pc' = "record"
    /\ UNCHANGED <<config, loopVars, timeVars, sent, skips, fatal, files>>

\* consecutive_timeouts, then the two tests that open the fuse: the second
\* one overwrites the reason of the first.
HangsAfter(v) == IF v = "FAIL_HANG" THEN hangs + 1 ELSE 0

\* Seeded fault: the hangs are tested with > instead of >=.
FuseAfter_Late(v) ==
    IF v \in {"FAIL_SAFETY", "FAIL_CLEANUP"} \/ (config.stop_on_failure /\ v \in Failures)
    THEN "verdict"
    ELSE IF HangsAfter(v) > MaxConsecutiveTimeouts THEN "consecutive_timeouts" ELSE fuse

FuseAfter(v) ==
    IF v \in {"FAIL_SAFETY", "FAIL_CLEANUP"} \/ (config.stop_on_failure /\ v \in Failures)
    THEN "verdict"
    ELSE IF HangsAfter(v) >= MaxConsecutiveTimeouts THEN "consecutive_timeouts" ELSE fuse

\* Seeded fault: the pacing mark is not moved.
RecordCase_Unpaced ==
    /\ pc = "record"
    /\ Log(read, {"artifact_finalized", "verdict_finalized"})
    /\ executed' = executed + 1
    /\ lastEnd' = now
    /\ hangs' = HangsAfter(verdict[read])
    /\ fuse' = FuseAfter(verdict[read])
    /\ pc' = "read"
    /\ UNCHANGED <<config, read, selected, now, nextAllowed, caseVars, skips, fatal, files>>

\* case_finished, the pacing mark, the counters and the fuse.
RecordCase ==
    /\ pc = "record"
    /\ Log(read, {"artifact_finalized", "verdict_finalized"})
    /\ executed' = executed + 1
    /\ nextAllowed' = now + Interval
    /\ lastEnd' = now
    /\ hangs' = HangsAfter(verdict[read])
    /\ fuse' = FuseAfter(verdict[read])
    /\ pc' = "read"
    /\ UNCHANGED <<config, read, selected, now, caseVars, skips, fatal, files>>

\* Seeded fault: finalize is not told the fuse reason.
Finalize_NoReason ==
    /\ pc = "read" /\ read = NCases
    /\ files' = files \cup {"run-summary.json", "index.json"}
    /\ pc' = "done"
    /\ UNCHANGED <<config, loopVars, timeVars, caseVars, ledger, skips, fatal>>

\* finalize(fatal_stop_reason=fuse_reason) after the loop.
Finalize ==
    /\ pc = "read" /\ read = NCases
    /\ fatal' = IF fuse # "none" THEN fuse ELSE fatal
    /\ files' = files \cup {"run-summary.json", "index.json"}
    /\ pc' = "done"
    /\ UNCHANGED <<config, loopVars, timeVars, caseVars, ledger, skips>>

\* finalize writes its files one after the other; what it was told stays.
FinalizeTorn ==
    /\ pc = "read" /\ read = NCases
    /\ fatal' \in {fatal, IF fuse # "none" THEN fuse ELSE fatal}
    /\ files' \in {files, files \cup {"run-summary.json"},
                  files \cup {"run-summary.json", "index.json"}}
    /\ UNCHANGED <<loopVars, ledger, skips, verdict, dirs>>

\* An operation that writes several times is interrupted: the counters move
\* before the ledger entry they go with, entries are appended one by one.
CaseTorn ==
    \/ /\ pc = "read" /\ read < NCases
       /\ read' = read + 1
       /\ UNCHANGED <<selected, executed, fuse, hangs, ledger, skips, fatal, verdict, dirs>>
    \/ /\ pc = "decide" /\ InShard(read) /\ (LimitReached \/ fuse # "none")
       /\ skips' = [skips EXCEPT ![IF LimitReached THEN "limit_reached" ELSE fuse] = @ + 1]
       /\ UNCHANGED <<loopVars, ledger, fatal, verdict, dirs>>
    \/ /\ pc = "decide" /\ InShard(read) /\ ~LimitReached /\ fuse = "none"
       /\ \/ /\ fatal' = "disk_budget_exhausted"
             /\ fuse' \in {"none", "disk_budget"}
             /\ skips' = IF fuse' = "none" THEN skips ELSE [skips EXCEPT ![fuse'] = @ + 1]
             /\ UNCHANGED <<selected, ledger>>
          \/ /\ selected' = selected + 1
             /\ \E stages \in {{}, {"selected"}} : Log(read, stages)
             /\ UNCHANGED <<fuse, skips, fatal>>
       /\ UNCHANGED <<read, executed, hangs, verdict, dirs>>
    \/ /\ pc = "open" /\ dirs[DirOf[read]] = "none"
       /\ dirs' = [dirs EXCEPT ![DirOf[read]] = "yaml"]
       /\ UNCHANGED <<loopVars, ledger, skips, fatal, verdict>>
    \/ /\ pc = "build"
       /\ dirs' = [dirs EXCEPT ![DirOf[read]] = "command"]
       /\ UNCHANGED <<loopVars, ledger, skips, fatal, verdict>>
    \/ /\ pc = "analyze"
       /\ \E stages \in {{"io_passthru_finished"},
                         {"io_passthru_finished", "oracle_collected"},
                         {"io_passthru_finished", "oracle_collected", "cleanup_finished"}} :
             Log(read, stages)
       /\ dirs' \in {dirs, [dirs EXCEPT ![DirOf[read]] = "summary"]}
       /\ UNCHANGED <<loopVars, skips, fatal, verdict>>
    \/ /\ pc = "record"
       /\ \E stages \in {{"artifact_finalized"}, {"artifact_finalized", "verdict_finalized"}} :
             Log(read, stages)
       /\ UNCHANGED <<loopVars, skips, fatal, verdict, dirs>>

Torn ==
    /\ FinalizeTorn \/ (CaseTorn /\ UNCHANGED files)
    /\ pc' = "unwind"
    /\ UNCHANGED <<config, timeVars, obs, sent>>

\* Any exception after the start - a bad line, a failed write, nvme not
\* executable - leaves run() at once: there is no finally clause.
RunRaises ==
    /\ pc \notin Ended \cup {"precheck", "pace"}
    /\ pc' = "failed"
    /\ UNCHANGED <<config, loopVars, timeVars, caseVars, bookVars>>

\* The process is killed; a command it has launched reaches the device anyhow.
Kill ==
    /\ pc \notin Ended
    /\ pc' = "killed"
    /\ sent' \in {sent} \cup (IF pc = "io" /\ ~config.dry_run THEN {sent \cup {read}} ELSE {})
    /\ UNCHANGED <<config, loopVars, timeVars, obs, dirs, verdict, bookVars>>

Stopped == pc \in Ended /\ UNCHANGED vars

Next ==
    \/ Precheck \/ ReadCase
    \/ OtherShard \/ SkipForLimit \/ SkipForFuse \/ StopForDisk \/ SelectCase
    \/ Pace \/ OpenCase \/ BuildCommand \/ Announce \/ SendIo \/ AnalyzeCase
    \/ RecordCase \/ Finalize \/ Torn \/ RunRaises \/ Kill \/ Stopped

Spec == Init /\ [][Next]_vars
-----------------------------------------------------------------------------
TypeOK ==
    /\ config \in Configs
    /\ pc \in {"precheck", "read", "decide", "pace", "open", "build", "announce",
               "io", "analyze", "record", "unwind"} \cup Ended
    /\ read \in 0..NCases /\ selected \in 0..NCases /\ executed \in 0..NCases
    /\ fuse \in FuseReasons \cup {"none"} /\ hangs \in 0..NCases
    /\ now \in Nat /\ nextAllowed \in Nat /\ lastEnd \in Nat \cup {-1}
    /\ obs \in Observations \cup {NoObs}
    /\ sent \subseteq Cases
    /\ dirs \in [Dirs -> {"none", "yaml", "command", "summary"}]
    /\ verdict \in [Cases -> KvVerdicts \cup {"none"}]
    /\ ledger \in [Cases -> SUBSET Stages]
    /\ skips \in [SkipReasons -> 0..NCases]
    /\ fatal \in FuseReasons \cup {"none", "disk_budget_exhausted"}
    /\ files \subseteq {"run-manifest.json", "run-summary.json", "index.json"}

Recorded == {c \in Cases : "verdict_finalized" \in ledger[c]}

\* The hangs that end at c without another verdict between them.
HangStreak(c) ==
    {d \in Recorded : d <= c /\ \A e \in Recorded :
                                   d <= e /\ e <= c => verdict[e] = "FAIL_HANG"}

OpensFuse(c) ==
    /\ c \in Recorded
    /\ \/ verdict[c] \in {"FAIL_SAFETY", "FAIL_CLEANUP"}
       \/ config.stop_on_failure /\ verdict[c] \in Failures
       \/ Cardinality(HangStreak(c)) >= MaxConsecutiveTimeouts

\* The fuse: after a safety finding, after the configured number of hangs in
\* a row - whatever cases of other shards lie between them - or after any
\* failure when asked to stop on one, no later case is started.
FuseHolds ==
    \A c, d \in Cases : OpensFuse(c) /\ c < d => "started" \notin ledger[d]

\* Write-ahead evidence: a command that reached the device is announced in
\* the ledger and in command.json, whatever interrupts the run.
EvidenceFirst ==
    \A c \in sent : /\ "io_passthru_started" \in ledger[c]
                    /\ dirs[DirOf[c]] \in {"command", "summary"}

\* Nothing reaches the device in a dry run, without --allow-live-target, or
\* for a case that was not selected for this shard and within the limit.
ConsentFirst ==
    /\ sent # {} => ~config.dry_run /\ config.allow_live_target
    /\ \A c \in sent : InShard(c)
    /\ Limit # NoLimit => Cardinality(sent) <= Limit

\* max_qps: a case goes to the device no sooner than the interval after the
\* one before it was recorded.
Paced == pc \in {"open", "build", "announce", "io"} /\ lastEnd # -1 => now >= lastEnd + Interval

\* A finished run accounts for every case of its shard: without a stop reason
\* in the summary, whatever was not executed was skipped for the limit.
StopExplained ==
    pc = "done" /\ fatal = "none" =>
        \A c \in Cases : InShard(c) =>
            c \in Recorded \/ ("skipped" \in ledger[c] /\ LimitReached)

\* A run that has executed cases and was not killed leaves a run-summary.json
\* (README: each execution generates one).
EveryRunSummarised ==
    pc \in {"done", "failed"} /\ Recorded # {} => "run-summary.json" \in files

StatusOf(c) ==
    CASE ledger[c] = {}                     -> "unread"
      [] "verdict_finalized" \in ledger[c]  -> "recorded"
      [] "skipped" \in ledger[c] /\ "verdict_finalized" \notin ledger[c] -> "skipped"
      [] "started" \in ledger[c]
           /\ ledger[c] \cap {"skipped", "verdict_finalized"} = {} -> "started"
      [] OTHER                              -> "planned"

Promise == INSTANCE CaseLifecycle
           WITH status <- [c \in Cases |-> StatusOf(c)],
                run <- CASE pc = "done"                 -> "complete"
                         [] pc \in {"failed", "killed"} -> "broken"
                         [] OTHER                       -> "open",
                Mine <- {c \in Cases : InShard(c)}

\* The run keeps the promise every orchestrator makes.
KeepsPromise == Promise!PromiseSpec
=============================================================================
