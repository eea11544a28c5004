------------------------------- MODULE TlsRun -------------------------------
(***************************************************************************)
(* The run loop of the NVMe/TCP TLS mode: RunOrchestrator.run of           *)
(* nvmetcp_tls_fuzz/run.py with the RunContext of pangea_fuzz/runtime.py   *)
(* it drives.  One process reads the campaign and keeps the counters, the  *)
(* ledger and the run files; with more than one worker the cases run in a  *)
(* process pool and their futures come back in any order.  What a case     *)
(* does is abstracted to its directory, its verdict, and whether it raised *)
(* (module TlsCase opens it up).                                           *)
(*                                                                         *)
(* Cases are numbered by their position in the campaign file.  An OSError  *)
(* can interrupt any write, a campaign line can fail to parse, a case can  *)
(* raise what _run_one_case does not catch, a pool worker can die, and the *)
(* main process can be killed.                                             *)
(***************************************************************************)
EXTENDS Integers, FiniteSets, RunArtifacts

CONSTANTS
    NCases,             \* lines of the campaign file
    CaseIndex,          \* position -> campaign_index of the case
    ShardCount, ShardIndex,
    Workers,            \* --workers
    InflightPerWorker,  \* 4 in the code
    Limit,              \* --limit, or NoLimit
    NoLimit,
    Verdicts,           \* the verdicts a case can return
    Prior               \* indices an earlier, complete run left in the directory

Cases == 1..NCases
Indices == {CaseIndex[c] : c \in Cases}

ASSUME CampaignAssumption ==
    /\ NCases \in Nat
    /\ CaseIndex \in [Cases -> Nat]
ASSUME ConfigAssumption ==        \* RunConfig.__post_init__
    /\ ShardCount \in Nat \ {0}
    /\ ShardIndex \in 0..(ShardCount - 1)
    /\ Workers \in Nat \ {0}
    /\ InflightPerWorker \in Nat \ {0}
    /\ NoLimit \notin Int
    /\ Limit \in Int \cup {NoLimit}
ASSUME PriorAssumption == Prior \subseteq Indices

VARIABLES
    pc,             \* where the main process is in run()
    read,           \* planned: lines read so far
    selected,       \* selected_count
    executed,       \* executed_count
    stopping,       \* selected_limit_reached
    aborted,        \* an exception is propagating out of the loop
    inflight,       \* cases whose future is in the inflight dict
    batch,          \* done futures of the last wait() not looked at yet
    cur,            \* the case being recorded (0: none)
    job,            \* case -> state of its call of _run_one_case
    verdict,        \* case -> verdict of its summary, "none" before it is written
    broken,         \* the pool is a BrokenProcessPool
    dirs,           \* case index -> case directory (see RunArtifacts)
    ledger,         \* case -> stages this run appended for it
    counted,        \* context.verdict_counts: verdict -> number of cases
    skips,          \* context.skip_reason_counts
    fatal,          \* context.fatal_stop_reason
    summary,        \* contents of this run's run-summary.json
    files           \* run-level files in the artifacts directory

loopVars == <<read, selected, executed, stopping, inflight, batch, cur>>
jobVars  == <<job, verdict, broken, dirs>>
bookVars == <<ledger, counted, skips, fatal>>
endVars  == <<summary, files>>
vars == <<pc, aborted, loopVars, jobVars, bookVars, endVars>>

Pooled == Workers > 1
MaxInflight == Workers * InflightPerWorker

JobStates == {"none", "queued", "running", "returned", "raised", "lost"}
SkipReasons == {"limit reached", "disk budget exhausted"}
Stages == {"planned", "skipped", "selected", "started", "command_built",
           "artifact_finalized", "verdict_finalized"}
Ended == {"done", "failed", "killed"}
NoSummary == [written |-> FALSE]

StartStages == {"selected", "started", "command_built"}
VerdictStages == {"artifact_finalized", "verdict_finalized"}

InShard(c) == CaseIndex[c] % ShardCount = ShardIndex
\* Seeded fault: the limit is tested with > instead of >=.
LimitHit_Late(n) == Limit # NoLimit /\ n > Limit
LimitHit(n) == Limit # NoLimit /\ n >= Limit

JobsIn(state) == {c \in Cases : job[c] = state}
Finished(c) == job[c] \in {"returned", "raised"}

\* The stages the ledger file names for a case index, an earlier run's included.
StagesAt == [i \in Indices |->
    UNION {ledger[c] : c \in {d \in Cases : CaseIndex[d] = i}}
      \cup (IF i \in Prior THEN {"planned"} \cup StartStages \cup VerdictStages ELSE {})]

\* context.start() has written the manifest; an earlier run into the same
\* directory left its ledger, its summaries and its index behind.
Init ==
    /\ pc = "read" /\ aborted = FALSE
    /\ read = 0 /\ selected = 0 /\ executed = 0 /\ stopping = FALSE
    /\ inflight = {} /\ batch = {} /\ cur = 0
    /\ job = [c \in Cases |-> "none"]
    /\ verdict = [c \in Cases |-> "none"]
    /\ broken = FALSE
    /\ dirs = [i \in Indices |-> IF i \in Prior THEN "summary" ELSE "none"]
    /\ ledger = [c \in Cases |-> {}]
    /\ counted = [v \in Verdicts |-> 0]
    /\ skips = [r \in SkipReasons |-> 0]
    /\ fatal = "none"
    /\ summary = NoSummary
    /\ files = IF Prior = {} THEN {"run-manifest.json"} ELSE RunFiles

Log(c, stages) == ledger' = [ledger EXCEPT ![c] = @ \cup stages]
Inc(f, x) == [f EXCEPT ![x] = @ + 1]
-----------------------------------------------------------------------------
(* The main process *)

\* for ordinal, case in enumerate(_read_campaign(...)): the next line.
ReadCase ==
    /\ pc = "read" /\ read < NCases
    /\ read' = read + 1
    /\ Log(read + 1, {"planned"})
    /\ pc' = "decide"
    /\ UNCHANGED <<selected, executed, stopping, inflight, batch, cur,
                   aborted, counted, skips, fatal, jobVars, endVars>>

\* Not this shard's case, or the loop only drains the campaign file.
PassOver ==
    /\ pc = "decide"
    /\ ~InShard(read) \/ stopping
    /\ IF stopping
       THEN /\ Log(read, {"skipped"})
            /\ skips' = Inc(skips, "limit reached")
       ELSE UNCHANGED <<ledger, skips>>
    /\ pc' = "read"
    /\ UNCHANGED <<loopVars, aborted, counted, fatal, jobVars, endVars>>

\* Seeded fault: the disk stop does not set selected_limit_reached.
StopForDisk_Forgets ==
    /\ pc = "decide" /\ InShard(read) /\ ~stopping
    /\ fatal' = "disk_budget_exhausted"
    /\ Log(read, {"skipped"})
    /\ skips' = Inc(skips, "disk budget exhausted")
    /\ pc' = "read"
    /\ UNCHANGED <<loopVars, aborted, counted, jobVars, endVars>>

\* should_stop_for_disk() finds less free space than the floor.
StopForDisk ==
    /\ pc = "decide" /\ InShard(read) /\ ~stopping
    /\ fatal' = "disk_budget_exhausted"
    /\ Log(read, {"skipped"})
    /\ skips' = Inc(skips, "disk budget exhausted")
    /\ stopping' = TRUE
    /\ pc' = "read"
    /\ UNCHANGED <<read, selected, executed, inflight, batch, cur, aborted,
                   counted, jobVars, endVars>>

\* Seeded fault: the stop flag is not looked at.
SelectCase_Unstoppable ==
    /\ pc = "decide" /\ InShard(read)
    /\ selected' = selected + 1
    /\ Log(read, StartStages)
    /\ pc' = "dispatch"
    /\ UNCHANGED <<read, executed, stopping, inflight, batch, cur, aborted,
                   counted, skips, fatal, jobVars, endVars>>

\* The disk check passes: case_selected, case_started, command_built.
SelectCase ==
    /\ pc = "decide" /\ InShard(read) /\ ~stopping
    /\ selected' = selected + 1
    /\ Log(read, StartStages)
    /\ pc' = "dispatch"
    /\ UNCHANGED <<read, executed, stopping, inflight, batch, cur, aborted,
                   counted, skips, fatal, jobVars, endVars>>

\* Seeded fault: the window is tested with > instead of >=.
Submit_OneMore ==
    /\ pc = "dispatch" /\ Pooled /\ ~broken
    /\ job' = [job EXCEPT ![read] = "queued"]
    /\ inflight' = inflight \cup {read}
    /\ stopping' = LimitHit(selected)
    /\ pc' = IF Cardinality(inflight') > MaxInflight THEN "wait" ELSE "read"
    /\ UNCHANGED <<read, selected, executed, batch, cur, aborted, bookVars,
                   verdict, broken, dirs, endVars>>

\* executor.submit, the limit test, and the wait() the full window forces.
Submit ==
    /\ pc = "dispatch" /\ Pooled /\ ~broken
    /\ job' = [job EXCEPT ![read] = "queued"]
    /\ inflight' = inflight \cup {read}
    /\ stopping' = LimitHit(selected)
    /\ pc' = IF Cardinality(inflight') >= MaxInflight THEN "wait" ELSE "read"
    /\ UNCHANGED <<read, selected, executed, batch, cur, aborted, bookVars,
                   verdict, broken, dirs, endVars>>

\* submit() on a broken pool raises; the case is started in the ledger.
SubmitRaises ==
    /\ pc = "dispatch" /\ Pooled /\ broken
    /\ aborted' = TRUE
    /\ pc' = "shutdown"
    /\ UNCHANGED <<loopVars, bookVars, jobVars, endVars>>

\* With one worker the case runs in the main process.
CallInline ==
    /\ pc = "dispatch" /\ ~Pooled
    /\ job' = [job EXCEPT ![read] = "running"]
    /\ pc' = "inline"
    /\ UNCHANGED <<loopVars, aborted, bookVars, verdict, broken, dirs, endVars>>

\* Case c leaves the inflight dict and case_finished begins: the counters of
\* the context move before the ledger is written.
BeginRecord(c) ==
    /\ cur' = c
    /\ counted' = Inc(counted, verdict[c])
    /\ pc' = "record"

InlineReturned ==
    /\ pc = "inline" /\ job[read] = "returned"
    /\ BeginRecord(read)
    /\ UNCHANGED <<read, selected, executed, stopping, inflight, batch,
                   aborted, ledger, skips, fatal, jobVars, endVars>>

\* Seeded fault: the loop after the campaign does not wait for the window.
Wait_NoDrain ==
    /\ pc = "wait"
    /\ batch' = {c \in inflight : Finished(c)}
    /\ batch' # {}
    /\ pc' = "collect"
    /\ UNCHANGED <<read, selected, executed, stopping, inflight, cur, aborted,
                   bookVars, jobVars, endVars>>

\* wait(..., FIRST_COMPLETED): every future that is done by now.
Wait ==
    /\ pc = "wait" \/ (pc = "read" /\ read = NCases /\ inflight # {})
    /\ batch' = {c \in inflight : Finished(c)}
    /\ batch' # {}
    /\ pc' = "collect"
    /\ UNCHANGED <<read, selected, executed, stopping, inflight, cur, aborted,
                   bookVars, jobVars, endVars>>

\* Seeded fault: one result of the batch is recorded, the others are dropped.
Collect_DropsRest(c) ==
    /\ pc = "collect" /\ c \in batch
    /\ inflight' = inflight \ batch
    /\ batch' = {}
    /\ IF job[c] = "returned"
       THEN BeginRecord(c) /\ UNCHANGED aborted
       ELSE /\ aborted' = TRUE
            /\ pc' = "shutdown"
            /\ UNCHANGED <<cur, counted>>
    /\ UNCHANGED <<read, selected, executed, stopping, ledger, skips, fatal,
                   jobVars, endVars>>

\* Seeded fault: a done future is recorded without asking for its result.
Collect_NoResult(c) ==
    /\ pc = "collect" /\ c \in batch
    /\ inflight' = inflight \ {c}
    /\ batch' = batch \ {c}
    /\ cur' = c
    /\ pc' = "record"
    /\ UNCHANGED <<read, selected, executed, stopping, aborted, bookVars,
                   jobVars, endVars>>

\* Seeded fault: the future leaves inflight but stays in the batch.
Collect_KeepsSlot(c) ==
    /\ pc = "collect" /\ c \in batch
    /\ inflight' = inflight \ {c}
    /\ UNCHANGED batch
    /\ IF job[c] = "returned"
       THEN BeginRecord(c) /\ UNCHANGED aborted
       ELSE /\ aborted' = TRUE
            /\ pc' = "shutdown"
            /\ UNCHANGED <<cur, counted>>
    /\ UNCHANGED <<read, selected, executed, stopping, ledger, skips, fatal,
                   jobVars, endVars>>

\* One future of the batch, in the order the set yields them.
Collect(c) ==
    /\ pc = "collect" /\ c \in batch
    /\ inflight' = inflight \ {c}
    /\ batch' = batch \ {c}
    /\ IF job[c] = "returned"
       THEN BeginRecord(c) /\ UNCHANGED aborted
       ELSE /\ aborted' = TRUE            \* future.result() raises
            /\ pc' = "shutdown"
            /\ UNCHANGED <<cur, counted>>
    /\ UNCHANGED <<read, selected, executed, stopping, ledger, skips, fatal,
                   jobVars, endVars>>

BatchDone ==
    /\ pc = "collect" /\ batch = {}
    /\ pc' = "read"
    /\ UNCHANGED <<loopVars, aborted, bookVars, jobVars, endVars>>

\* case_finished appends artifact_finalized and verdict_finalized.
AppendVerdict ==
    /\ pc = "record"
    /\ Log(cur, VerdictStages)
    /\ pc' = "tally"
    /\ UNCHANGED <<loopVars, aborted, counted, skips, fatal, jobVars, endVars>>

\* Seeded fault: once the limit is reached a result is not counted.
Tally_LimitForgets ==
    /\ pc = "tally"
    /\ executed' = IF LimitHit(selected) THEN executed ELSE executed + 1
    /\ cur' = 0
    /\ IF Pooled
       THEN pc' = "collect" /\ UNCHANGED stopping
       ELSE pc' = "read" /\ stopping' = LimitHit(selected)
    /\ UNCHANGED <<read, selected, inflight, batch, aborted, bookVars, jobVars,
                   endVars>>

\* case_finished has returned: executed_count; the serial loop then tests
\* the limit.
Tally ==
    /\ pc = "tally"
    /\ executed' = executed + 1
    /\ cur' = 0
    /\ IF Pooled
       THEN pc' = "collect" /\ UNCHANGED stopping
       ELSE pc' = "read" /\ stopping' = LimitHit(selected)
    /\ UNCHANGED <<read, selected, inflight, batch, aborted, bookVars, jobVars,
                   endVars>>

\* The campaign is read and no future is left.
LoopEnds ==
    /\ pc = "read" /\ read = NCases /\ inflight = {}
    /\ pc' = "shutdown"
    /\ UNCHANGED <<loopVars, aborted, bookVars, jobVars, endVars>>

\* Seeded fault: the pool is left without waiting, shutdown(wait=False).
Shutdown_NoWait ==
    /\ pc = "shutdown"
    /\ pc' = "finalize"
    /\ UNCHANGED <<loopVars, aborted, bookVars, jobVars, endVars>>

\* Leaving the with block waits for every queued and running call, also when
\* an exception is propagating.
Shutdown ==
    /\ pc = "shutdown"
    /\ Pooled => JobsIn("queued") \cup JobsIn("running") = {}
    /\ pc' = "finalize"
    /\ UNCHANGED <<loopVars, aborted, bookVars, jobVars, endVars>>

\* The finally clause: the counters of the loop replace the context's, then
\* finalize() writes run-summary.json and index.json.
RunSummary ==
    [written |-> TRUE, planned |-> read, selected |-> selected,
     finished |-> executed, verdict_counts |-> counted,
     skip_reason_counts |-> skips, fatal_stop_reason |-> fatal,
     missing_summary_cases |-> MissingSummaries(dirs)]

Finalize ==
    /\ pc = "finalize"
    /\ summary' = RunSummary
    /\ files' = files \cup {"run-summary.json", "index.json"}
    /\ pc' = IF aborted THEN "failed" ELSE "done"
    /\ UNCHANGED <<loopVars, aborted, bookVars, jobVars>>

\* A write of finalize() raises; write_text opens the file first, so a torn
\* file is there too.
FinalizeFails ==
    /\ pc = "finalize"
    /\ \/ UNCHANGED endVars
       \/ /\ summary' \in {summary, RunSummary}
          /\ files' = files \cup {"run-summary.json"}
       \/ /\ summary' = RunSummary
          /\ files' = files \cup {"run-summary.json", "index.json"}
    /\ aborted' = TRUE
    /\ pc' = "failed"
    /\ UNCHANGED <<loopVars, bookVars, jobVars>>
-----------------------------------------------------------------------------
(* Exceptions in the main process *)

Abort == aborted' = TRUE /\ pc' = "shutdown"

\* A line that does not parse, or a failed write of an event, of
\* progress.json or of a ledger entry whose operation has changed nothing yet.
LoopRaises ==
    /\ pc \in {"read", "decide", "record", "tally"}
    /\ Abort
    /\ UNCHANGED <<loopVars, bookVars, jobVars, endVars>>

\* The planned counter has moved, the ledger entry has not been written.
PlanTorn ==
    /\ pc = "read" /\ read < NCases
    /\ read' = read + 1
    /\ Abort
    /\ UNCHANGED <<selected, executed, stopping, inflight, batch, cur,
                   bookVars, jobVars, endVars>>

\* case_skipped counts the skip before it appends the entry.
SkipTorn ==
    /\ pc = "decide"
    /\ \/ /\ stopping
          /\ skips' = Inc(skips, "limit reached")
          /\ UNCHANGED fatal
       \/ /\ InShard(read) /\ ~stopping
          /\ skips' \in {skips, Inc(skips, "disk budget exhausted")}
          /\ fatal' = "disk_budget_exhausted"
    /\ Abort
    /\ UNCHANGED <<loopVars, ledger, counted, jobVars, endVars>>

\* Some of the entries of case_selected and case_started are written.
SelectTorn ==
    /\ pc = "decide" /\ InShard(read) /\ ~stopping
    /\ selected' = selected + 1
    /\ \E stages \in {{}, {"selected"}, {"selected", "started"}} : Log(read, stages)
    /\ Abort
    /\ UNCHANGED <<read, executed, stopping, inflight, batch, cur,
                   counted, skips, fatal, jobVars, endVars>>

\* The call of _run_one_case in the main process raises.
InlineRaised ==
    /\ pc = "inline" /\ job[read] = "raised"
    /\ Abort
    /\ UNCHANGED <<loopVars, bookVars, jobVars, endVars>>

\* The submitted calls wait in the memory of the main process, whose executor
\* thread feeds the oldest of them, workers + 1 at most, to the call queue the
\* workers read.  The others are lost with it.
Fed(c, n) == Cardinality({d \in JobsIn("queued") : d < c}) < n

Kill ==
    /\ pc \notin Ended
    /\ pc' = "killed"
    /\ \E n \in 0..(Workers + 1) :
          job' = [c \in Cases |-> IF job[c] = "queued" /\ ~Fed(c, n) THEN "lost" ELSE job[c]]
    /\ UNCHANGED <<aborted, loopVars, bookVars, verdict, broken, dirs, endVars>>
-----------------------------------------------------------------------------
(* The calls of _run_one_case.  A worker is a process of its own: it ends    *)
(* the call it has taken, and may take one that was fed to it, also when    *)
(* the main process is gone.                                               *)

\* The pool hands out the queued calls in order.
WorkerTakes(c) ==
    /\ job[c] = "queued"
    /\ \A d \in JobsIn("queued") : c <= d
    /\ Cardinality(JobsIn("running")) < Workers
    /\ job' = [job EXCEPT ![c] = "running"]
    /\ UNCHANGED <<pc, aborted, loopVars, verdict, broken, dirs, bookVars, endVars>>

Runs(c) == job[c] = "running" /\ (Pooled \/ pc = "inline")

\* mkdir(exist_ok=True) and case.yaml; an old summary.json stays.
CaseOpens(c) ==
    /\ Runs(c) /\ dirs[CaseIndex[c]] = "none"
    /\ dirs' = [dirs EXCEPT ![CaseIndex[c]] = "yaml"]
    /\ UNCHANGED <<pc, aborted, loopVars, job, verdict, broken, bookVars, endVars>>

\* Every path through _run_one_case that returns writes summary.json first.
CaseConcludes(c) ==
    /\ Runs(c) /\ dirs[CaseIndex[c]] # "none" /\ verdict[c] = "none"
    /\ dirs' = [dirs EXCEPT ![CaseIndex[c]] = "summary"]
    /\ \E v \in Verdicts : verdict' = [verdict EXCEPT ![c] = v]
    /\ UNCHANGED <<pc, aborted, loopVars, job, broken, bookVars, endVars>>

CaseReturns(c) ==
    /\ Runs(c) /\ verdict[c] # "none"
    /\ job' = [job EXCEPT ![c] = "returned"]
    /\ UNCHANGED <<pc, aborted, loopVars, verdict, broken, dirs, bookVars, endVars>>

\* An exception _run_one_case does not catch, before or after summary.json
\* (the disconnect of the finally clause runs after it).  A write that raises
\* may have created its file.
CaseRaises(c) ==
    /\ Runs(c)
    /\ job' = [job EXCEPT ![c] = "raised"]
    /\ dirs' \in {dirs, [dirs EXCEPT ![CaseIndex[c]] = IF @ = "none" THEN "yaml" ELSE "summary"]}
    /\ UNCHANGED <<pc, aborted, loopVars, verdict, broken, bookVars, endVars>>

\* A worker process dies: every call that is not finished fails with
\* BrokenProcessPool and submit() raises from now on.
PoolBreaks ==
    /\ Pooled /\ ~broken /\ JobsIn("running") # {}
    /\ broken' = TRUE
    /\ job' = [c \in Cases |-> IF job[c] \in {"queued", "running"} THEN "raised" ELSE job[c]]
    /\ UNCHANGED <<pc, aborted, loopVars, verdict, dirs, bookVars, endVars>>
-----------------------------------------------------------------------------
MainStep ==
    \/ ReadCase \/ PassOver \/ StopForDisk \/ SelectCase
    \/ Submit \/ SubmitRaises \/ CallInline \/ InlineReturned \/ InlineRaised
    \/ Wait \/ (\E c \in Cases : Collect(c)) \/ BatchDone
    \/ AppendVerdict \/ Tally
    \/ LoopEnds \/ Shutdown \/ Finalize

Failure ==
    LoopRaises \/ PlanTorn \/ SkipTorn \/ SelectTorn \/ FinalizeFails \/ Kill

\* The only way this system may come to rest: nothing is left to run, except
\* that nobody need take what a killed main process left in the call queue.
Stopped ==
    /\ pc \in Ended
    /\ \A c \in Cases : ~Runs(c) /\ (job[c] = "queued" => pc = "killed")
    /\ UNCHANGED vars

CaseStep(c) == CaseOpens(c) \/ CaseConcludes(c) \/ CaseReturns(c)

Next ==
    \/ MainStep
    \/ Failure
    \/ \E c \in Cases : WorkerTakes(c) \/ CaseStep(c) \/ CaseRaises(c)
    \/ PoolBreaks
    \/ Stopped

\* The main process keeps running; the subprocess timeouts of _run_one_case
\* make every call finish; and while the main process lives to feed the pool,
\* an idle worker takes the next queued call.
Fairness ==
    /\ WF_vars(MainStep)
    /\ \A c \in Cases : /\ WF_vars(pc # "killed" /\ WorkerTakes(c))
                       /\ WF_vars(CaseStep(c))

Spec == Init /\ [][Next]_vars
FairSpec == Spec /\ Fairness
-----------------------------------------------------------------------------
(* Properties *)

TypeOK ==
    /\ pc \in {"read", "decide", "dispatch", "inline", "wait", "collect", "record",
               "tally", "shutdown", "finalize"} \cup Ended
    /\ aborted \in BOOLEAN /\ stopping \in BOOLEAN /\ broken \in BOOLEAN
    /\ read \in 0..NCases /\ selected \in Nat /\ executed \in Nat
    /\ inflight \subseteq Cases /\ batch \subseteq inflight
    /\ cur \in Cases \cup {0}
    /\ job \in [Cases -> JobStates]
    /\ verdict \in [Cases -> Verdicts \cup {"none"}]
    /\ dirs \in [Indices -> DirStates]
    /\ ledger \in [Cases -> SUBSET Stages]
    /\ counted \in [Verdicts -> Nat]
    /\ skips \in [SkipReasons -> Nat]
    /\ fatal \in {"none", "disk_budget_exhausted"}
    /\ files \subseteq RunFiles

Recorded == {c \in Cases : "verdict_finalized" \in ledger[c]}
StartedCases == {c \in Cases : "started" \in ledger[c]}

\* The window of submitted calls whose result is not collected never exceeds
\* four per worker (run.py max_inflight), and is below it whenever the loop
\* goes back to reading: one more submit never overruns it.
InflightBounded ==
    /\ Cardinality(inflight) <= MaxInflight
    /\ pc = "dispatch" => Cardinality(inflight) < MaxInflight

\* No started case falls between the loop, the window and the books: while
\* the run has not been aborted or killed, it is being dispatched, in flight,
\* being recorded, or it has its verdict.
NoCaseForgotten ==
    ~aborted /\ pc # "killed" =>
        \A c \in StartedCases :
            \/ pc \in {"dispatch", "inline"} /\ c = read
            \/ c \in inflight
            \/ c = cur
            \/ c \in Recorded

\* A verdict in the ledger is backed by evidence: the call has returned and
\* summary.json is in the case directory.
VerdictBacked ==
    \A c \in Recorded : job[c] = "returned" /\ dirs[CaseIndex[c]] = "summary"

\* The stop conditions are final: after a case is skipped (limit or disk) no
\* later case of the campaign is started, and a skipped case is never started.
StopIsFinal ==
    \A c, d \in Cases :
        "skipped" \in ledger[c] /\ c <= d => "started" \notin ledger[d]

\* --limit bounds the selected cases.  The test follows the selection, so a
\* limit below one still lets one case through.
LimitRespected ==
    Limit # NoLimit => selected <= IF Limit < 1 THEN 1 ELSE Limit

\* The run summary agrees with the ledger, verdict by verdict.  Without an
\* exception: every selected case is finished and counted under its verdict,
\* and none else.  With one, a single verdict may be counted that the ledger
\* does not have, or the executed counter be one behind the ledger, not both.
RecordedAs(v) == {c \in Recorded : verdict[c] = v}

Agrees(counts, finished) ==
    LET Ahead(v) == counts[v] = Cardinality(RecordedAs(v)) + 1
    IN /\ \A v \in Verdicts : Ahead(v) \/ counts[v] = Cardinality(RecordedAs(v))
       /\ \A v, w \in Verdicts : Ahead(v) /\ Ahead(w) => v = w
       /\ \/ finished = Cardinality(Recorded)
          \/ /\ finished + 1 = Cardinality(Recorded)
             /\ \A v \in Verdicts : ~Ahead(v)

AgreesExactly(counts, finished) ==
    /\ \A v \in Verdicts : counts[v] = Cardinality(RecordedAs(v))
    /\ finished = Cardinality(Recorded)

SummaryFaithful ==
    summary.written =>
        /\ Agrees(summary.verdict_counts, summary.finished)
        /\ ~aborted => /\ AgreesExactly(summary.verdict_counts, summary.finished)
                       /\ summary.selected = summary.finished
                       /\ summary.planned = NCases

\* A stop for disk space is reported once and exactly when it happened.
DiskStopReported ==
    pc = "done" => /\ (fatal = "none") <=> (skips["disk budget exhausted"] = 0)
                   /\ skips["disk budget exhausted"] <= 1

\* A stop of the loop, for the limit or for the disk, is final for every case
\* behind it, and a stop for the disk is in the books of the run.
StopHonoured == StopIsFinal /\ DiskStopReported

\* With distinct campaign indices and a fresh directory, inspect-run says
\* "complete" only when every case the run started has returned.
DistinctIndices == \A c, d \in Cases : CaseIndex[c] = CaseIndex[d] => c = d

CompleteMeansRan ==
    DistinctIndices /\ Prior = {} /\ InspectComplete(files, dirs, StagesAt) =>
        \A c \in StartedCases : job[c] = "returned"

\* inspect-run says "complete" of an ended run only when every case it started has returned,
\* whatever the directory held before (README: it checks the missing ledger
\* stages and the cases without summary).
InspectFindsLoss ==
    pc \in Ended /\ InspectComplete(files, dirs, StagesAt) =>
        \A c \in StartedCases : job[c] = "returned"

\* The run files are written only when no call of the pool is left: the
\* artifact policy and the index never race a worker that still writes.
FinalizeAlone ==
    [][summary' # summary /\ Pooled => JobsIn("queued") \cup JobsIn("running") = {}]_vars

\* A run comes to an end, also after an exception, and every submitted call is
\* run to its end, even when nobody will record it, unless the main process,
\* which holds the queued calls, is killed first.
Termination ==
    /\ <>(pc \in Ended)
    /\ \A c \in Cases : job[c] = "queued" ~> (Finished(c) \/ pc = "killed")
-----------------------------------------------------------------------------
(* TlsRun implements the promise of CaseLifecycle. *)

StatusOf(c) ==
    CASE ledger[c] = {}                     -> "unread"
      [] "verdict_finalized" \in ledger[c]  -> "recorded"
      [] "skipped" \in ledger[c]            -> "skipped"
      [] "started" \in ledger[c]
           /\ "verdict_finalized" \notin ledger[c] -> "started"
      [] OTHER                              -> "planned"

RunStatus == CASE pc = "done"              -> "complete"
               [] pc \in {"failed", "killed"} -> "broken"
               [] OTHER                    -> "open"

Promise == INSTANCE CaseLifecycle
           WITH status <- [c \in Cases |-> StatusOf(c)], run <- RunStatus,
                Mine <- {c \in Cases : InShard(c)}

\* The run keeps the promise.
KeepsPromise == Promise!PromiseSpec
=============================================================================
