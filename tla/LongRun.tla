------------------------------ MODULE LongRun -------------------------------
(***************************************************************************)
(* A long run as an operator sees it: generate-campaign writes the         *)
(* campaign file, several hosts each launch a run of one shard of it, in   *)
(* a directory of their own under a common root, and generate-report       *)
(* counts what lies there.  The inside of a run is the business of TlsRun, *)
(* KvRun and NetRun; here a case of a run is read, opened and concluded.   *)
(*                                                                         *)
(* The generator writes line by line, so a run may read the file while it  *)
(* grows, and a kill may leave half a line.  A killed run may be launched  *)
(* again into its directory.                                               *)
(***************************************************************************)
EXTENDS CaseGen, Settings

CONSTANTS
    Modes,          \* of {"tls", "kv", "net"}
    Jobs,           \* [count, ratio in tenths] of generate-campaign
    Hosts,          \* 1..n, launched in their order
    Launches,       \* <<host, phase>> -> the [mode, cli, file] it may be launched
                    \* with, in phase "off" first, "killed" after a kill
    MaxKills        \* bound: runs that are killed

ASSUME LongRunAssumption ==
    /\ IsFiniteSet(Hosts) /\ Hosts # {}
    /\ \A j \in Jobs : j.count \in Int

NoLaunch == [mode |-> "none"]

VARIABLES
    mode, job,
    flagged,        \* random_indexes
    gen,            \* "writing", "closed", "broken"
    lines,          \* the campaign file: [index, random, random_value]
    torn,           \* it ends in half a line
    last,           \* the case generated last, until the file is closed
    launch,         \* the command a host was given, until its run starts
    shard,          \* host -> [index, count] its run took from its settings
    early,          \* hosts that started while the file was not closed
    phase,          \* host -> "off", "run", "case", "done", "failed", "killed"
    pos,            \* host -> lines read by its run
    finished,       \* host -> finished_cases
    dirs,           \* host -> index -> "none", "yaml", "torn", "summary"
    summary,        \* host -> run-summary.json: its finished_cases, or {}
    kills           \* runs killed

genVars == <<gen, lines, torn, last>>
runVars == <<shard, early, phase, pos, finished, dirs, summary>>
vars == <<mode, job, flagged, genVars, launch, runVars, kills>>

Indices == {0} \cup UNION {0..(j.count - 1) : j \in Jobs}
Ended == {"done", "failed", "killed"}

\* Seeded fault: the draw may hit an index twice.
Draws_Repeat(j) == {S \in SUBSET (0..(j.count - 1)) : Cardinality(S) <= RandomBudget(j)}
Draws(j) == {S \in SUBSET (0..(j.count - 1)) : Cardinality(S) = RandomBudget(j)}

Init ==
    /\ mode \in Modes /\ job \in Jobs
    /\ flagged \in IF JobRaises(mode, job) THEN {{}} ELSE Draws(job)
    /\ gen = "writing" /\ lines = <<>> /\ torn = FALSE /\ last = {}
    /\ launch = NoLaunch
    /\ shard = [h \in Hosts |-> [index |-> 0, count |-> 1]]
    /\ early = {}
    /\ phase = [h \in Hosts |-> "off"]
    /\ pos = [h \in Hosts |-> 0]
    /\ finished = [h \in Hosts |-> 0]
    /\ dirs = [h \in Hosts |-> [i \in Indices |-> "none"]]
    /\ summary = [h \in Hosts |-> {}]
    /\ kills = 0
-----------------------------------------------------------------------------
(* generate-campaign *)

GenStep ==
    /\ gen = "writing" /\ launch = NoLaunch
    /\ UNCHANGED <<mode, job, flagged, launch, runVars, kills>>

\* iter_cases yields the next case,
YieldCase ==
    /\ GenStep
    /\ last = {} /\ ~JobRaises(mode, job) /\ Len(lines) < job.count
    /\ \E c \in CasesOf(mode, Len(lines) \in flagged) : last' = {c}
    /\ UNCHANGED <<gen, lines, torn>>

\* and its line is written.
WriteLine ==
    /\ GenStep
    /\ \E c \in last : lines' =
          Append(lines, [index |-> Len(lines), random |-> Len(lines) \in flagged,
                         random_value |-> c.strategy = "random_value"])
    /\ last' = {}
    /\ UNCHANGED <<gen, torn>>

CloseCampaign ==
    /\ GenStep
    /\ last = {} /\ ~JobRaises(mode, job) /\ Len(lines) = job.count
    /\ gen' = "closed"
    /\ UNCHANGED <<lines, torn, last>>

\* The process ends early: refused after it emptied the file, a full disk, a
\* kill.  What no run has read yet may be lost, up to the middle of a line.
GenBreaks ==
    /\ GenStep
    /\ last = {}
    /\ gen' = "broken"
    /\ \E n \in 0..Len(lines) :
          /\ \A h \in Hosts : pos[h] <= n /\ \A i \in Indices : dirs[h][i] # "none" => i < n
          /\ lines' = SubSeq(lines, 1, n) /\ torn' \in {n < Len(lines), FALSE}
    /\ UNCHANGED last
-----------------------------------------------------------------------------
(* A run.  What a generator has in memory makes no difference to it: runs   *)
(* move only between two cases.                                             *)

RunStep == last = {} /\ UNCHANGED <<mode, job, flagged, genVars>>

\* Host h is launched after the hosts before it, and again after a kill.
Launch(h) ==
    /\ RunStep
    /\ launch = NoLaunch
    /\ phase[h] \in {"off", "killed"} /\ \A g \in Hosts : g < h => phase[g] # "off"
    /\ \E l \in Launches[<<h, phase[h]>>] :
          l.mode = mode /\ launch' = [host |-> h, mode |-> mode, cli |-> l.cli, file |-> l.file]
    /\ UNCHANGED <<runVars, kills>>

\* The run configuration is refused.
Refuse ==
    /\ RunStep
    /\ launch # NoLaunch /\ ~Valid(mode, launch.cli, launch.file)
    /\ launch' = NoLaunch
    /\ UNCHANGED <<runVars, kills>>

Start(h) ==
    /\ RunStep
    /\ launch # NoLaunch /\ launch.host = h /\ Valid(mode, launch.cli, launch.file)
    /\ launch' = NoLaunch
    /\ LET e == Effective(mode, launch.cli, launch.file)
       IN  \E i \in e.shard_index, n \in e.shard_count :
              shard' = [shard EXCEPT ![h] = [index |-> i, count |-> n]]
    /\ early' = IF gen = "closed" THEN early \ {h} ELSE early \cup {h}
    /\ phase' = [phase EXCEPT ![h] = "run"]
    /\ pos' = [pos EXCEPT ![h] = 0] /\ finished' = [finished EXCEPT ![h] = 0]
    /\ UNCHANGED <<dirs, summary, kills>>

\* Seeded fault: shards count from one.
Selected_FromOne(index, s) == (index + 1) % s.count = s.index - 1
Selected(index, s) == index % s.count = s.index

Step(h, from, to) ==
    /\ RunStep
    /\ launch = NoLaunch
    /\ phase[h] = from /\ phase' = [phase EXCEPT ![h] = to]
    /\ UNCHANGED <<launch, shard, early, kills>>

PassOver(h) ==
    /\ Step(h, "run", "run")
    /\ pos[h] < Len(lines) /\ shard[h].count # 0 /\ ~Selected(pos[h], shard[h])
    /\ pos' = [pos EXCEPT ![h] = @ + 1]
    /\ UNCHANGED <<finished, dirs, summary>>

\* Nothing removes what an earlier run has left in the case directory.
OpenCase(h) ==
    /\ Step(h, "run", "case")
    /\ pos[h] < Len(lines) /\ shard[h].count # 0 /\ Selected(pos[h], shard[h])
    /\ mode = "kv" => dirs[h][pos[h]] = "none"
    /\ dirs' = [dirs EXCEPT ![h][pos[h]] = IF @ = "none" THEN "yaml" ELSE @]
    /\ UNCHANGED <<pos, finished, summary>>

ConcludeCase(h) ==
    /\ Step(h, "case", "run")
    /\ dirs' = [dirs EXCEPT ![h][pos[h]] = "summary"]
    /\ finished' = [finished EXCEPT ![h] = @ + 1]
    /\ pos' = [pos EXCEPT ![h] = @ + 1]
    /\ UNCHANGED summary

WriteSummary(h) ==
    summary' = [summary EXCEPT ![h] =
        {[finished |-> finished[h], missing |-> \E i \in Indices : dirs[h][i] = "yaml"]}]

FinishRun(h) ==
    /\ Step(h, "run", "done")
    /\ pos[h] = Len(lines) /\ ~torn
    /\ WriteSummary(h)
    /\ UNCHANGED <<pos, finished, dirs>>

\* Half a line, or a shard count of zero, raises; a KV case directory that is
\* there already does.  Only the KV run has no finally clause.
RunFails(h) ==
    /\ Step(h, "run", "failed")
    /\ \/ pos[h] = Len(lines) /\ (torn \/ gen = "writing")
       \/ pos[h] < Len(lines) /\ shard[h].count = 0
       \/ /\ pos[h] < Len(lines) /\ mode = "kv"
          /\ Selected(pos[h], shard[h]) /\ dirs[h][pos[h]] # "none"
    /\ IF mode = "kv" THEN UNCHANGED summary ELSE WriteSummary(h)
    /\ UNCHANGED <<pos, finished, dirs>>

KillRun(h) ==
    /\ RunStep /\ launch = NoLaunch
    /\ phase[h] \in {"run", "case"} /\ kills < MaxKills
    /\ phase' = [phase EXCEPT ![h] = "killed"] /\ kills' = kills + 1
    /\ dirs' \in {dirs} \cup IF phase[h] = "case" THEN {[dirs EXCEPT ![h][pos[h]] = "torn"]} ELSE {}
    /\ UNCHANGED <<launch, shard, early, pos, finished, summary>>

Rest ==
    /\ gen # "writing" /\ launch = NoLaunch /\ \A h \in Hosts : phase[h] \in Ended
    /\ UNCHANGED vars

Next ==
    \/ YieldCase \/ WriteLine \/ CloseCampaign \/ GenBreaks \/ Refuse \/ Rest
    \/ \E h \in Hosts :
          \/ Launch(h) \/ Start(h) \/ PassOver(h) \/ OpenCase(h) \/ ConcludeCase(h)
          \/ FinishRun(h) \/ RunFails(h) \/ KillRun(h)

Spec == Init /\ [][Next]_vars
-----------------------------------------------------------------------------
(* The reports *)

Summaries == {c \in Hosts \X Indices : dirs[c[1]][c[2]] = "summary"}

\* Seeded fault: a case counts as executed once its directory is there.
Executed_Opened == Cardinality({c \in Hosts \X Indices : dirs[c[1]][c[2]] # "none"})

\* executed_cases of the multi-mode report, which skips what does not parse;
\* and its run_count and incomplete_runs (no run of this module stops itself).
Executed == Cardinality(Summaries)
RunCount == Cardinality({h \in Hosts : summary[h] # {}})
IncompleteRuns == Cardinality({h \in Hosts : \E s \in summary[h] : s.missing})

\* The report of a mode over the campaign and the root: planned_cases and
\* executed_cases.  The network report looks for case directories in the root
\* itself, where runs with directories of their own have none.
ModeReportRaises ==
    torn \/ (mode # "net" /\ \E h \in Hosts, i \in Indices : dirs[h][i] = "torn")
ModeReport == [planned |-> Len(lines), random |-> Cardinality({k \in DOMAIN lines : lines[k].random}),
               executed |-> IF mode = "net" THEN 0 ELSE Executed]
-----------------------------------------------------------------------------
(* Properties *)

\* A setting of a launched run comes from where the documents say (README:139).
SettingsPrecede ==
    launch # NoLaunch => Precedence(launch.mode, launch.cli, launch.file)

\* The campaign file is numbered without a gap whatever ends its writing.  When
\* it is whole it holds as many cases as asked for, exactly the share of random
\* mutations that summary() announces, and all of these draw a random value;
\* only where the catalog lists that strategy itself do others draw one as well.
CampaignExact ==
    /\ \A k \in DOMAIN lines :
         /\ lines[k].index = k - 1
         /\ lines[k].random => lines[k].random_value
         /\ lines[k].random_value => lines[k].random \/ mode # "tls"
    /\ gen = "closed" =>
         Len(lines) = job.count /\ ModeReport.random = Round(job.count * job.ratio, 10)

\* A generated case fits its catalog and says what it does.  A TLS field belongs
\* to the PDU and travels in the direction of the case; a KV field belongs to the
\* operation, unless the operation has no field for the strategy; the command of
\* a KV case differs from the plain one only where the field of its mutation is.
CasesFit == \A c \in last :
    /\ c.strategy \in c.field.strategies \cup {"random_value"}
    /\ mode = "tls" =>
         /\ c.field.pdu_type = c.pdu_type
         /\ c.direction # "both" => c.field.direction \in {c.direction, "both"}
         /\ c.mutated.is = "bit" => c.mutated.n < c.field.bit_width
         /\ "PASS_VALID" \notin c.allowed
    /\ mode = "kv" =>
         /\ \/ c.field.operation \in {c.operation, "any"}
            \/ \A f \in KvCatalog : f.operation \in {c.operation, "any"} => c.strategy \notin f.strategies
         /\ Argv(c).opcode # PlainArgv(c).opcode => c.field.path = "kv.opcode"
         /\ Argv(c).nsid # PlainArgv(c).nsid => c.field.path = "kv.nsid" /\ c.nsid # 0
         /\ \A w \in DOMAIN Argv(c).cdw :
              Argv(c).cdw[w] # PlainArgv(c).cdw[w] => w = Lands(c.field, c.strategy)
         /\ Argv(c) = PlainArgv(c) /\ "PASS_VALID" \notin c.allowed =>
              c.field.path \in SilentFields

\* The hosts share the campaign out: one shard each, and all of them.
Partition ==
    /\ \A h \in Hosts : shard[h].count = Cardinality(Hosts)
    /\ {shard[h].index : h \in Hosts} = 0..(Cardinality(Hosts) - 1)

\* Host h's directory holds cases of a shard it ran before.
Stale(h) ==
    \E i \in Indices : dirs[h][i] # "none" /\ (shard[h].count = 0 \/ ~Selected(i, shard[h]))

Settled == gen = "closed" /\ \A h \in Hosts : phase[h] \in Ended
Lost == {i \in 0..(Len(lines) - 1) : \A h \in Hosts : dirs[h][i] # "summary"}

\* Hosts that ran one shard each of a whole campaign file to their end, some of
\* them a second time after a kill, have executed every case exactly once.
EachCaseOnce ==
    Settled /\ early = {} /\ Partition /\ (\A h \in Hosts : phase[h] = "done" /\ ~Stale(h)) =>
        \A i \in 0..(Len(lines) - 1) : Cardinality({h \in Hosts : dirs[h][i] = "summary"}) = 1

\* The reports agree with each other and with what happened.  A run that ends
\* normally has as many case summaries as finished cases; an execution rate of
\* one, and run summaries for all hosts none of which misses a case, both mean
\* that nothing of a campaign shared out properly is lost.
ReportsAgree ==
    /\ \A h \in Hosts : phase[h] = "done" /\ ~Stale(h) =>
         \A s \in summary[h] : s.finished = Cardinality({i \in Indices : dirs[h][i] = "summary"})
    /\ Settled /\ Partition /\ (\A h \in Hosts : ~Stale(h)) =>
         /\ ~ModeReportRaises /\ ModeReport.executed >= ModeReport.planned => Lost = {}
         /\ early = {} /\ RunCount = Cardinality(Hosts) /\ IncompleteRuns = 0 => Lost = {}
=============================================================================
