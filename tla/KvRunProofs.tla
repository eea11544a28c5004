----------------------------- MODULE KvRunProofs ----------------------------
(***************************************************************************)
(* The safety of the KV run loop, proved for every campaign, shard, limit, *)
(* pacing interval and number of timeouts, and that the loop implements    *)
(* CaseLifecycle.                                                          *)
(*                                                                         *)
(* The inductive invariant joins what the place in the loop says about the *)
(* case at hand (Place), the counters (Counts), the pacing mark (Clock),   *)
(* what reached the device (EvidenceFirst, Consent), the fuse and the      *)
(* hangs it counts (Fuse), and the outcome of every case read so far       *)
(* (Outcomes).                                                             *)
(***************************************************************************)
EXTENDS KvRun, TLAPS, FiniteSetTheorems

\* The places of _run_one_case, those before the command, and those where no
\* handler of the loop runs any more.
InCase == {"pace", "open", "build", "announce", "io", "analyze", "record"}
Unsent == {"pace", "open", "build", "announce", "io"}
Dead == {"unwind", "done", "failed", "killed"}

Place ==
    /\ pc \in InCase \cup {"decide"} => read \in Cases
    /\ pc = "precheck" => read = 0
    /\ pc = "decide" => ledger[read] = {"planned"}
    /\ pc \in InCase => /\ InShard(read) /\ "started" \in ledger[read]
                        /\ ledger[read] \cap {"skipped", "verdict_finalized"} = {}
    /\ pc \in Unsent \cup {"decide"} => read \notin sent
    /\ pc \in {"announce", "io"} => dirs[DirOf[read]] = "command"
    /\ pc = "io" => "io_passthru_started" \in ledger[read]
    /\ pc = "analyze" /\ ~config.dry_run => obs \in Observations
    /\ pc \notin Dead \cup {"precheck"} => config.dry_run \/ config.allow_live_target
    /\ \A c \in Cases : c > read => ledger[c] = {} /\ c \notin sent

Counts ==
    /\ selected <= read /\ executed <= selected /\ hangs <= executed
    /\ \A r \in SkipReasons : skips[r] <= read
    /\ pc = "decide" => selected < read /\ \A r \in SkipReasons : skips[r] < read
    /\ pc \in InCase => executed < selected
    /\ Limit # NoLimit => selected <= Limit
    /\ Cardinality(sent) <= selected
    /\ pc \in Unsent => Cardinality(sent) < selected

Clock ==
    /\ lastEnd # -1 => nextAllowed = lastEnd + Interval
    /\ pc \in {"open", "build", "announce", "io"} => now >= nextAllowed

Consent ==
    /\ sent # {} => ~config.dry_run /\ config.allow_live_target
    /\ \A c \in sent : InShard(c)

\* The hangs the loop has counted: those no other verdict has come after.
Streak == {d \in Recorded : \A e \in Recorded : d <= e => verdict[e] = "FAIL_HANG"}

Fuse ==
    /\ pc \notin Dead => /\ hangs = Cardinality(Streak)
                         /\ \A c \in Cases : OpensFuse(c) => fuse # "none"
    /\ FuseHolds

Outcomes ==
    /\ pc \notin Dead =>
         /\ \A c \in Cases : c <= read => ledger[c] # {}
         /\ \A c \in Cases : "started" \in ledger[c] =>
               c \in Recorded \/ (pc \in InCase /\ c = read)
         /\ \A c \in Cases : c <= read /\ InShard(c) =>
               c \in Recorded \/ "skipped" \in ledger[c]
                 \/ (pc \in InCase \cup {"decide"} /\ c = read)
         /\ \A c \in Cases : "skipped" \in ledger[c] => fuse # "none" \/ LimitReached
    /\ StopExplained

Inv == TypeOK /\ Place /\ Counts /\ Clock /\ EvidenceFirst /\ Consent /\ Fuse /\ Outcomes

-----------------------------------------------------------------------------
(* Types and counters *)

\* What RunConfig and load_config guarantee of the constants.
LEMMA ConstantFacts ==
    /\ NCases \in Nat /\ Interval \in Nat /\ Durations \subseteq Nat
    /\ Limit # NoLimit => Limit \in Nat
BY KvCampaignAssumption, KvConfigAssumption DEF ValidKvConfig, ValidRunConfig

\* A ledger entry changes the stages of its case and of no other.
LEMMA LogType ==
    ASSUME ledger \in [Cases -> SUBSET Stages], NEW c \in Cases, NEW stages \in SUBSET Stages,
           Log(c, stages)
    PROVE  /\ ledger' \in [Cases -> SUBSET Stages]
           /\ ledger'[c] = ledger[c] \cup stages
           /\ \A d \in Cases \ {c} : ledger'[d] = ledger[d]
BY DEF Log

\* The entries the loop writes are in the vocabulary of the ledger.
LEMMA StageSets ==
    /\ {"planned"} \in SUBSET Stages /\ {"skipped"} \in SUBSET Stages
    /\ {"selected"} \in SUBSET Stages /\ {"selected", "started"} \in SUBSET Stages
    /\ {"precheck_started"} \in SUBSET Stages /\ {"command_built"} \in SUBSET Stages
    /\ {"io_passthru_started"} \in SUBSET Stages
    /\ {"io_passthru_finished", "oracle_collected", "cleanup_finished"} \in SUBSET Stages
    /\ {"artifact_finalized", "verdict_finalized"} \in SUBSET Stages
BY DEF Stages

\* What an interrupted operation may leave behind: never less than was there,
\* nothing of another case, and no case started.
TornEffect ==
    /\ pc' = "unwind" /\ UNCHANGED <<config, timeVars, obs, sent, executed, hangs, verdict>>
    /\ read' \in 0..NCases /\ read <= read' /\ selected' \in 0..NCases
    /\ selected <= selected' /\ selected' <= read'
    /\ Limit # NoLimit => selected' <= Limit
    /\ fuse' \in FuseReasons \cup {"none"}
    /\ skips' \in [SkipReasons -> 0..NCases] /\ \A r \in SkipReasons : skips'[r] <= read'
    /\ ledger' \in [Cases -> SUBSET Stages]
    /\ \A c \in Cases : /\ ledger[c] \subseteq ledger'[c]
                        /\ "started" \in ledger'[c] => "started" \in ledger[c]
                        /\ c > read => ledger'[c] = ledger[c]
                        /\ pc # "record" => ("verdict_finalized" \in ledger'[c] <=> "verdict_finalized" \in ledger[c])
    /\ dirs' \in [Dirs -> {"none", "yaml", "command", "summary"}]
    /\ \A d \in Dirs : dirs[d] \in {"command", "summary"} => dirs'[d] \in {"command", "summary"}
    /\ fatal' \in FuseReasons \cup {"none", "disk_budget_exhausted"}
    /\ files' \subseteq {"run-manifest.json", "run-summary.json", "index.json"}
    /\ \A c \in Cases \ {read} : ledger'[c] = ledger[c]

\* Every way an operation can be torn has that effect.
LEMMA TornFacts ==
    ASSUME TypeOK, Place, Counts, Torn
    PROVE  TornEffect
<1>0. /\ NCases \in Nat /\ FuseReasons \subseteq SkipReasons /\ "limit_reached" \in SkipReasons
      /\ "disk_budget" \in FuseReasons /\ read \in 0..NCases /\ selected \in 0..NCases
      /\ selected <= read
  BY ConstantFacts DEF SkipReasons, FuseReasons, TypeOK, Counts
<1>1. pc' = "unwind" /\ UNCHANGED <<config, timeVars, obs, sent>>
  BY DEF Torn
<1>2. ASSUME NEW stages \in SUBSET Stages, read \in Cases, Log(read, stages), "started" \notin stages,
             pc # "record" => "verdict_finalized" \notin stages
      PROVE  /\ ledger' \in [Cases -> SUBSET Stages]
             /\ \A c \in Cases : /\ ledger[c] \subseteq ledger'[c]
                                 /\ "started" \in ledger'[c] => "started" \in ledger[c]
                                 /\ c > read => ledger'[c] = ledger[c]
                                 /\ pc # "record" => ("verdict_finalized" \in ledger'[c] <=> "verdict_finalized" \in ledger[c])
             /\ \A c \in Cases \ {read} : ledger'[c] = ledger[c]
  <2>1. read \in Int /\ Cases \subseteq Int
    BY <1>0 DEF Cases
  <2>2. QED
    BY <1>2, <2>1, LogType DEF TypeOK
<1>3. pc \in InCase \cup {"decide"} => read \in Cases /\ DirOf[read] \in Dirs
  BY DEF Place, Dirs
<1> USE DEF TypeOK, Counts, TornEffect, loopVars, timeVars
<1>4. CASE FinalizeTorn
  BY <1>0, <1>1, <1>4 DEF FinalizeTorn, loopVars
<1>5. CASE CaseTorn /\ UNCHANGED files /\ pc = "read"
  BY <1>0, <1>1, <1>5 DEF CaseTorn
<1>6. CASE CaseTorn /\ UNCHANGED files /\ pc = "decide"
  <2>0. /\ \A r \in SkipReasons : skips[r] < read /\ skips[r] \in 0..NCases
        /\ selected < read
    BY <1>6
  <2>1. CASE LimitReached \/ fuse # "none"
    <3>1. PICK r \in SkipReasons : skips' = [skips EXCEPT ![r] = @ + 1]
      BY <1>0, <1>6, <2>1 DEF CaseTorn
    <3>2. skips' \in [SkipReasons -> 0..NCases] /\ \A q \in SkipReasons : skips'[q] <= read
      BY <1>0, <2>0, <3>1
    <3>3. UNCHANGED <<read, selected, executed, fuse, hangs, ledger, fatal, verdict, dirs>>
      BY <1>6, <2>1 DEF CaseTorn
    <3>4. QED
      BY <1>0, <1>1, <1>6, <3>2, <3>3
  <2>2. CASE ~LimitReached /\ fuse = "none"
    <3>1. read' = read /\ executed' = executed /\ hangs' = hangs /\ verdict' = verdict /\ dirs' = dirs
      BY <1>6, <2>2 DEF CaseTorn
    <3>2. CASE selected' = selected + 1
      <4>1. /\ \E stages \in {{}, {"selected"}} : Log(read, stages)
            /\ fuse' = fuse /\ skips' = skips /\ fatal' = fatal
        BY <1>0, <1>6, <2>2, <3>2 DEF CaseTorn
      <4>2. PICK stages \in {{}, {"selected"}} : Log(read, stages)
        BY <4>1
      <4>3. stages \in SUBSET Stages /\ "started" \notin stages /\ "verdict_finalized" \notin stages
        BY <4>2, StageSets
      <4>4. Limit # NoLimit => selected' <= Limit
        BY <1>0, <2>2, <3>2, ConstantFacts DEF LimitReached
      <4>5. QED
        BY <1>0, <1>1, <1>2, <1>3, <1>6, <2>0, <3>1, <3>2, <4>1, <4>2, <4>3, <4>4 DEF InCase
    <3>3. CASE selected' # selected + 1
      <4>1. /\ selected' = selected /\ ledger' = ledger /\ fatal' = "disk_budget_exhausted"
            /\ fuse' \in {"none", "disk_budget"}
            /\ skips' \in {skips, [skips EXCEPT !["disk_budget"] = @ + 1]}
        BY <1>6, <2>2, <3>3 DEF CaseTorn
      <4>2. skips' \in [SkipReasons -> 0..NCases] /\ \A q \in SkipReasons : skips'[q] <= read
        BY <1>0, <2>0, <4>1
      <4>3. QED
        BY <1>0, <1>1, <1>6, <3>1, <4>1, <4>2
    <3>4. QED
      BY <3>2, <3>3
  <2>3. QED
    BY <2>1, <2>2
<1>7. CASE CaseTorn /\ UNCHANGED files /\ pc \in {"open", "build"}
  <2>1. /\ UNCHANGED <<read, selected, executed, fuse, hangs, ledger, skips, fatal, verdict>>
        /\ dirs' \in {[dirs EXCEPT ![DirOf[read]] = d] : d \in {"yaml", "command"}}
        /\ dirs[DirOf[read]] = "none" \/ dirs' = [dirs EXCEPT ![DirOf[read]] = "command"]
    BY <1>7 DEF CaseTorn
  <2>2. QED
    BY <1>0, <1>1, <1>3, <1>7, <2>1 DEF InCase
<1>8. CASE CaseTorn /\ UNCHANGED files /\ pc \in {"analyze", "record"}
  <2>1. /\ UNCHANGED <<read, selected, executed, fuse, hangs, skips, fatal, verdict>>
        /\ dirs' \in {dirs, [dirs EXCEPT ![DirOf[read]] = "summary"]}
    BY <1>8 DEF CaseTorn
  <2>2. PICK stages \in SUBSET Stages :
           /\ Log(read, stages) /\ "started" \notin stages
           /\ pc # "record" => "verdict_finalized" \notin stages
    BY <1>8 DEF CaseTorn, Stages
  <2>3. QED
    BY <1>0, <1>1, <1>2, <1>3, <1>8, <2>1, <2>2 DEF InCase
<1>9. QED
  BY <1>4, <1>5, <1>6, <1>7, <1>8 DEF Torn, CaseTorn

\* The types hold; the counters stay in range for what Counts says of them.
LEMMA TypeStep ==
    ASSUME TypeOK, Place, Counts, [Next]_vars
    PROVE  TypeOK'
<1>0. /\ NCases \in Nat /\ Interval \in Nat /\ Durations \subseteq Nat
      /\ "limit_reached" \in SkipReasons /\ FuseReasons \subseteq SkipReasons
  BY ConstantFacts DEF SkipReasons
<1> USE DEF TypeOK, Ended, loopVars, timeVars, caseVars, bookVars
<1>1. CASE Precheck
  BY <1>1 DEF Precheck
<1>2. CASE ReadCase
  <2>0. read + 1 \in Cases /\ read + 1 \in 0..NCases
    BY <1>2, <1>0 DEF ReadCase, Cases
  <2>1. ledger' \in [Cases -> SUBSET Stages]
    BY <1>2, <2>0, LogType, StageSets DEF ReadCase
  <2>2. QED
    BY <1>2, <1>0, <2>0, <2>1 DEF ReadCase
<1>3. CASE OtherShard
  BY <1>3 DEF OtherShard
<1>4. CASE SkipForLimit
  <2>0. read \in Cases /\ read \in Nat /\ read <= NCases /\ (\A r \in SkipReasons : skips[r] \in Nat /\ skips[r] < read)
    BY <1>4, <1>0 DEF SkipForLimit, Place, Counts, Cases
  <2>1. ledger' \in [Cases -> SUBSET Stages]
    BY <1>4, <2>0, LogType, StageSets DEF SkipForLimit, Skip
  <2>2. QED
    BY <1>4, <1>0, <2>0, <2>1 DEF SkipForLimit, Skip
<1>5. CASE SkipForFuse
  <2>0. read \in Cases /\ read \in Nat /\ read <= NCases /\ (\A r \in SkipReasons : skips[r] \in Nat /\ skips[r] < read)
    BY <1>5, <1>0 DEF SkipForFuse, Place, Counts, Cases
  <2>1. ledger' \in [Cases -> SUBSET Stages]
    BY <1>5, <2>0, LogType, StageSets DEF SkipForFuse, Skip
  <2>2. QED
    BY <1>5, <1>0, <2>0, <2>1 DEF SkipForFuse, Skip
<1>6. CASE StopForDisk
  <2>0. read \in Cases /\ read \in Nat /\ read <= NCases /\ (\A r \in SkipReasons : skips[r] \in Nat /\ skips[r] < read)
    BY <1>6, <1>0 DEF StopForDisk, Place, Counts, Cases
  <2>1. ledger' \in [Cases -> SUBSET Stages]
    BY <1>6, <2>0, LogType, StageSets DEF StopForDisk, Skip
  <2>2. QED
    BY <1>6, <1>0, <2>0, <2>1 DEF StopForDisk, Skip, FuseReasons
<1>7. CASE SelectCase
  <2>0. read \in Cases /\ selected + 1 \in 0..NCases
    BY <1>7, <1>0 DEF SelectCase, Place, Counts, Cases
  <2>1. ledger' \in [Cases -> SUBSET Stages]
    BY <1>7, <2>0, LogType, StageSets DEF SelectCase
  <2>2. QED
    BY <1>7, <1>0, <2>0, <2>1 DEF SelectCase
<1>8. CASE Pace
  BY <1>8 DEF Pace
<1>9. CASE OpenCase
  <2>0. read \in Cases
    BY <1>9, <1>0 DEF OpenCase, Place, InCase
  <2>1. ledger' \in [Cases -> SUBSET Stages]
    BY <1>9, <2>0, LogType, StageSets DEF OpenCase
  <2>2. QED
    BY <1>9, <1>0, <2>0, <2>1 DEF OpenCase, Dirs
<1>10. CASE BuildCommand
  <2>0. read \in Cases
    BY <1>10, <1>0 DEF BuildCommand, Place, InCase
  <2>1. ledger' \in [Cases -> SUBSET Stages]
    BY <1>10, <2>0, LogType, StageSets DEF BuildCommand
  <2>2. QED
    BY <1>10, <1>0, <2>0, <2>1 DEF BuildCommand, Dirs
<1>11. CASE Announce
  <2>0. read \in Cases
    BY <1>11, <1>0 DEF Announce, Place, InCase
  <2>1. ledger' \in [Cases -> SUBSET Stages]
    BY <1>11, <2>0, LogType, StageSets DEF Announce
  <2>2. QED
    BY <1>11, <1>0, <2>0, <2>1 DEF Announce
<1>12. CASE SendIo
  <2>0. read \in Cases
    BY <1>12 DEF SendIo, Place, InCase
  <2>1. CASE config.dry_run
    BY <1>12, <2>1 DEF SendIo
  <2>2. CASE ~config.dry_run
    <3>1. /\ obs' \in Observations /\ (sent' = sent \/ sent' = sent \cup {read})
          /\ \E d \in Durations : now' = now + d
      BY <1>12, <2>2 DEF SendIo
    <3>2. now' \in Nat
      BY <1>0, <3>1
    <3>3. sent' \subseteq Cases
      BY <2>0, <3>1
    <3>4. QED
      BY <1>12, <3>1, <3>2, <3>3 DEF SendIo
  <2>3. QED
    BY <2>1, <2>2
<1>13. CASE AnalyzeCase
  <2>0. read \in Cases /\ (~config.dry_run => obs \in Observations)
    BY <1>13 DEF AnalyzeCase, Place, InCase
  <2>1. ledger' \in [Cases -> SUBSET Stages]
    BY <1>13, <2>0, LogType, StageSets DEF AnalyzeCase
  <2>2. \A b \in BOOLEAN : ~config.dry_run => Analyze(obs, b) \in KvVerdicts
    BY <2>0 DEF Analyze, Observations, KvVerdicts
  <2>3. verdict' \in [Cases -> KvVerdicts \cup {"none"}]
    BY <1>13, <2>0, <2>2 DEF AnalyzeCase, KvVerdicts
  <2>4. QED
    BY <1>13, <2>0, <2>1, <2>3 DEF AnalyzeCase, Dirs
<1>14. CASE RecordCase
  <2>0. read \in Cases /\ executed + 1 \in 0..NCases /\ hangs + 1 \in 0..NCases
    BY <1>14, <1>0 DEF RecordCase, Place, Counts, InCase, Cases
  <2>1. ledger' \in [Cases -> SUBSET Stages]
    BY <1>14, <2>0, LogType, StageSets DEF RecordCase
  <2>2. FuseAfter(verdict[read]) \in FuseReasons \cup {"none"}
    BY DEF FuseAfter, FuseReasons
  <2>3. HangsAfter(verdict[read]) \in 0..NCases
    BY <1>0, <2>0 DEF HangsAfter
  <2>4. QED
    BY <1>14, <1>0, <2>0, <2>1, <2>2, <2>3 DEF RecordCase
<1>15. CASE Finalize
  BY <1>15, <1>0 DEF Finalize
<1>16. CASE Torn
  <2>1. QED
    BY <1>16, <1>0, TornFacts DEF TornEffect
<1>17. CASE RunRaises
  BY <1>17 DEF RunRaises
<1>18. CASE Kill
  <2>1. sent' \subseteq Cases
    BY <1>18 DEF Kill, Place, InCase
  <2>2. QED
    BY <1>18, <2>1 DEF Kill
<1>19. CASE UNCHANGED vars
  BY <1>19 DEF vars
<1>20. QED
  BY <1>1, <1>2, <1>3, <1>4, <1>5, <1>6, <1>7, <1>8, <1>9, <1>10,
     <1>11, <1>12, <1>13, <1>14, <1>15, <1>16, <1>17, <1>18, <1>19 DEF Next, Stopped

\* The place in the loop: nothing of a later case is written, and each step of
\* a case leaves what the next one relies on.
LEMMA PlaceStep ==
    ASSUME TypeOK, Place, Counts, [Next]_vars
    PROVE  Place'
<1>0. NCases \in Nat /\ read \in 0..NCases /\ Cases \subseteq Int
  BY ConstantFacts DEF TypeOK, Cases
<1> USE DEF Place, InShard, InCase, Unsent, Dead, Ended, loopVars, timeVars, caseVars, bookVars
<1>1. CASE Precheck
  BY <1>1, <1>0 DEF Precheck, TypeOK
<1>2. CASE ReadCase
  <2>0. read + 1 \in Cases /\ read' = read + 1
    BY <1>2, <1>0 DEF ReadCase, Cases
  <2>1. /\ ledger'[read + 1] = ledger[read + 1] \cup {"planned"}
        /\ \A c \in Cases \ {read + 1} : ledger'[c] = ledger[c]
    BY <1>2, <2>0, LogType, StageSets DEF ReadCase, TypeOK
  <2>2. ledger[read + 1] = {}
    BY <1>0, <2>0
  <2>3. ledger'[read'] = {"planned"} /\ read' \in Cases /\ read' \in Int
    BY <1>0, <2>0, <2>1, <2>2
  <2>4. \A c \in Cases : c > read' => ledger'[c] = {} /\ c \notin sent
    <3>1. SUFFICES ASSUME NEW c \in Cases, c > read' PROVE ledger'[c] = {} /\ c \notin sent
      OBVIOUS
    <3>2. c > read /\ c # read + 1
      BY <1>0, <2>0, <3>1
    <3>3. QED
      BY <2>1, <3>1, <3>2
  <2>5. read' \notin sent
    BY <1>0, <2>0
  <2>6. pc' = "decide" /\ UNCHANGED <<config, sent, dirs, obs>> /\ pc = "read"
    BY <1>2 DEF ReadCase
  <2>7. QED
    BY <1>0, <2>3, <2>4, <2>5, <2>6
<1>3. CASE OtherShard
  BY <1>3, <1>0 DEF OtherShard
<1>4. CASE SkipForLimit
  <2>0. read \in Cases /\ read \in Int
    BY <1>4, <1>0 DEF SkipForLimit, Skip, Place, InCase, Cases, TypeOK
  <2>1. /\ ledger'[read] = ledger[read] \cup {"skipped"}
        /\ \A c \in Cases \ {read} : ledger'[c] = ledger[c]
    BY <1>4, <2>0, LogType, StageSets DEF SkipForLimit, Skip, TypeOK
  <2>2. QED
    BY <1>4, <1>0, <2>0, <2>1 DEF SkipForLimit, Skip
<1>5. CASE SkipForFuse
  <2>0. read \in Cases /\ read \in Int
    BY <1>5, <1>0 DEF SkipForFuse, Skip, Place, InCase, Cases, TypeOK
  <2>1. /\ ledger'[read] = ledger[read] \cup {"skipped"}
        /\ \A c \in Cases \ {read} : ledger'[c] = ledger[c]
    BY <1>5, <2>0, LogType, StageSets DEF SkipForFuse, Skip, TypeOK
  <2>2. QED
    BY <1>5, <1>0, <2>0, <2>1 DEF SkipForFuse, Skip
<1>6. CASE StopForDisk
  <2>0. read \in Cases /\ read \in Int
    BY <1>6, <1>0 DEF StopForDisk, Skip, Place, InCase, Cases, TypeOK
  <2>1. /\ ledger'[read] = ledger[read] \cup {"skipped"}
        /\ \A c \in Cases \ {read} : ledger'[c] = ledger[c]
    BY <1>6, <2>0, LogType, StageSets DEF StopForDisk, Skip, TypeOK
  <2>2. QED
    BY <1>6, <1>0, <2>0, <2>1 DEF StopForDisk, Skip
<1>7. CASE SelectCase
  <2>0. read \in Cases /\ read \in Int
    BY <1>7, <1>0 DEF SelectCase, Place, InCase, Cases, TypeOK
  <2>1. /\ ledger'[read] = ledger[read] \cup {"selected", "started"}
        /\ \A c \in Cases \ {read} : ledger'[c] = ledger[c]
    BY <1>7, <2>0, LogType, StageSets DEF SelectCase, TypeOK
  <2>2. QED
    BY <1>7, <1>0, <2>0, <2>1 DEF SelectCase
<1>8. CASE Pace
  BY <1>8, <1>0 DEF Pace
<1>9. CASE OpenCase
  <2>0. read \in Cases /\ read \in Int
    BY <1>9, <1>0 DEF OpenCase
  <2>1. CASE dirs[DirOf[read]] = "none"
    <3>1. /\ ledger'[read] = ledger[read] \cup {"precheck_started"}
          /\ \A c \in Cases \ {read} : ledger'[c] = ledger[c]
      BY <1>9, <2>0, <2>1, LogType, StageSets DEF OpenCase, TypeOK
    <3>2. QED
      BY <1>9, <1>0, <2>0, <2>1, <3>1 DEF OpenCase
  <2>2. CASE dirs[DirOf[read]] # "none"
    BY <1>9, <2>2 DEF OpenCase
  <2>3. QED
    BY <2>1, <2>2
<1>10. CASE BuildCommand
  <2>0. read \in Cases /\ read \in Int /\ DirOf[read] \in Dirs
    BY <1>10, <1>0 DEF BuildCommand, Dirs
  <2>1. /\ ledger'[read] = ledger[read] \cup {"command_built"}
        /\ \A c \in Cases \ {read} : ledger'[c] = ledger[c]
    BY <1>10, <2>0, LogType, StageSets DEF BuildCommand, TypeOK
  <2>2. dirs'[DirOf[read]] = "command"
    BY <1>10, <2>0 DEF BuildCommand, TypeOK
  <2>3. QED
    BY <1>10, <1>0, <2>0, <2>1, <2>2 DEF BuildCommand
<1>11. CASE Announce
  <2>0. read \in Cases /\ read \in Int
    BY <1>11, <1>0 DEF Announce, Place, InCase, Cases, TypeOK
  <2>1. /\ ledger'[read] = ledger[read] \cup {"io_passthru_started"}
        /\ \A c \in Cases \ {read} : ledger'[c] = ledger[c]
    BY <1>11, <2>0, LogType, StageSets DEF Announce, TypeOK
  <2>2. QED
    BY <1>11, <1>0, <2>0, <2>1 DEF Announce
<1>12. CASE SendIo
  <2>0. /\ read \in Cases /\ read \in Int /\ sent' \subseteq sent \cup {read}
        /\ ~config.dry_run => obs' \in Observations
    BY <1>12, <1>0 DEF SendIo
  <2>1. QED
    BY <1>12, <1>0, <2>0 DEF SendIo
<1>13. CASE AnalyzeCase
  <2>0. read \in Cases /\ read \in Int
    BY <1>13, <1>0 DEF AnalyzeCase, Place, InCase, Cases, TypeOK
  <2>1. /\ ledger'[read] = ledger[read] \cup {"io_passthru_finished", "oracle_collected", "cleanup_finished"}
        /\ \A c \in Cases \ {read} : ledger'[c] = ledger[c]
    BY <1>13, <2>0, LogType, StageSets DEF AnalyzeCase, TypeOK
  <2>2. QED
    BY <1>13, <1>0, <2>0, <2>1 DEF AnalyzeCase
<1>14. CASE RecordCase
  <2>0. read \in Cases /\ read \in Int
    BY <1>14, <1>0 DEF RecordCase, Place, InCase, Cases, TypeOK
  <2>1. /\ ledger'[read] = ledger[read] \cup {"artifact_finalized", "verdict_finalized"}
        /\ \A c \in Cases \ {read} : ledger'[c] = ledger[c]
    BY <1>14, <2>0, LogType, StageSets DEF RecordCase, TypeOK
  <2>2. QED
    BY <1>14, <1>0, <2>0, <2>1 DEF RecordCase
<1>15. CASE Finalize
  BY <1>15, <1>0 DEF Finalize
<1>16. CASE Torn
  <2>1. TornEffect /\ (\A c \in Cases : c > read => ledger'[c] = ledger[c])
    BY <1>16, TornFacts DEF TornEffect
  <2>2. QED
    BY <1>16, <1>0, <2>1 DEF TornEffect
<1>17. CASE RunRaises
  BY <1>17, <1>0 DEF RunRaises
<1>18. CASE Kill
  <2>1. sent' \subseteq sent \cup {read}
    BY <1>18 DEF Kill
  <2>2. QED
    BY <1>18, <1>0, <2>1 DEF Kill
<1>19. CASE UNCHANGED vars
  BY <1>19, <1>0 DEF vars
<1>20. QED
  BY <1>1, <1>2, <1>3, <1>4, <1>5, <1>6, <1>7, <1>8, <1>9, <1>10,
     <1>11, <1>12, <1>13, <1>14, <1>15, <1>16, <1>17, <1>18, <1>19 DEF Next, Stopped

\* No counter runs ahead of the cases read, and no more commands have reached
\* the device than cases were selected.
LEMMA CountsStep ==
    ASSUME TypeOK, Place, Counts, [Next]_vars
    PROVE  Counts'
<1>0. /\ read \in Nat /\ selected \in Nat /\ executed \in Nat /\ hangs \in Nat
      /\ skips \in [SkipReasons -> Nat] /\ fuse \in FuseReasons \cup {"none"}
      /\ IsFiniteSet(sent) /\ Cardinality(sent) \in Nat
      /\ FuseReasons \subseteq SkipReasons /\ "limit_reached" \in SkipReasons
      /\ "disk_budget" \in FuseReasons
      /\ IsFiniteSet(sent \cup {read}) /\ Cardinality(sent \cup {read}) \in Nat
      /\ Cardinality(sent \cup {read}) <= Cardinality(sent) + 1
  <2>1. NCases \in Nat /\ IsFiniteSet(Cases)
    BY ConstantFacts, FS_Interval DEF Cases
  <2>2. IsFiniteSet(sent) /\ Cardinality(sent) \in Nat
    BY <2>1, FS_Subset, FS_CardinalityType DEF TypeOK
  <2>3. /\ IsFiniteSet(sent \cup {read}) /\ Cardinality(sent \cup {read}) \in Nat
        /\ Cardinality(sent \cup {read}) <= Cardinality(sent) + 1
    BY <2>2, FS_AddElement, FS_CardinalityType
  <2>4. QED
    BY <2>1, <2>2, <2>3 DEF TypeOK, SkipReasons, FuseReasons
<1> USE DEF Counts, InCase, Unsent, Ended, loopVars, timeVars, caseVars, bookVars
<1>1. CASE Precheck
  BY <1>1, <1>0 DEF Precheck
<1>2. CASE ReadCase
  BY <1>2, <1>0 DEF ReadCase
<1>3. CASE OtherShard
  BY <1>3, <1>0 DEF OtherShard
<1>4. CASE SkipForLimit
  <2>1. skips' = [skips EXCEPT !["limit_reached"] = skips["limit_reached"] + 1]
    BY <1>4 DEF SkipForLimit, Skip
  <2>2. QED
    BY <1>4, <1>0, <2>1 DEF SkipForLimit
<1>5. CASE SkipForFuse
  <2>1. skips' = [skips EXCEPT ![fuse] = skips[fuse] + 1]
    BY <1>5 DEF SkipForFuse, Skip
  <2>2. QED
    BY <1>5, <1>0, <2>1 DEF SkipForFuse
<1>6. CASE StopForDisk
  <2>1. skips' = [skips EXCEPT !["disk_budget"] = skips["disk_budget"] + 1]
    BY <1>6 DEF StopForDisk, Skip
  <2>2. QED
    BY <1>6, <1>0, <2>1 DEF StopForDisk
<1>7. CASE SelectCase
  BY <1>7, <1>0, ConstantFacts DEF SelectCase, LimitReached
<1>8. CASE Pace
  BY <1>8, <1>0 DEF Pace
<1>9. CASE OpenCase
  BY <1>9, <1>0 DEF OpenCase, Log
<1>10. CASE BuildCommand
  BY <1>10, <1>0 DEF BuildCommand, Log
<1>11. CASE Announce
  BY <1>11, <1>0 DEF Announce, Log
<1>12. CASE SendIo
  <2>1. sent' = sent \/ sent' = sent \cup {read}
    BY <1>12 DEF SendIo
  <2>2. Cardinality(sent') \in {Cardinality(sent), Cardinality(sent \cup {read})}
    BY <2>1
  <2>3. QED
    BY <1>12, <1>0, <2>2 DEF SendIo
<1>13. CASE AnalyzeCase
  BY <1>13, <1>0 DEF AnalyzeCase, Log
<1>14. CASE RecordCase
  <2>1. hangs' <= hangs + 1 /\ executed' = executed + 1 /\ executed < selected
    BY <1>14, <1>0 DEF RecordCase, HangsAfter
  <2>2. hangs' \in Nat
    BY <1>14, <1>0 DEF RecordCase, HangsAfter
  <2>3. QED
    BY <1>14, <1>0, <2>1, <2>2 DEF RecordCase
<1>15. CASE Finalize
  BY <1>15, <1>0 DEF Finalize
<1>16. CASE Torn
  <2>1. TornEffect
    BY <1>16, TornFacts
  <2>2. QED
    BY <1>0, <2>1 DEF TornEffect, timeVars
<1>17. CASE RunRaises
  BY <1>17 DEF RunRaises
<1>18. CASE Kill
  <2>1. sent' = sent \/ (sent' = sent \cup {read} /\ pc = "io")
    BY <1>18 DEF Kill
  <2>2. /\ Cardinality(sent') \in {Cardinality(sent), Cardinality(sent \cup {read})}
        /\ pc # "io" => Cardinality(sent') = Cardinality(sent)
    BY <2>1
  <2>3. QED
    BY <1>18, <1>0, <2>2 DEF Kill
<1>19. CASE UNCHANGED vars
  BY <1>19, <1>0 DEF vars
<1>20. QED
  BY <1>1, <1>2, <1>3, <1>4, <1>5, <1>6, <1>7, <1>8, <1>9, <1>10,
     <1>11, <1>12, <1>13, <1>14, <1>15, <1>16, <1>17, <1>18, <1>19 DEF Next, Stopped

\* The pacing mark lies one interval behind the last recorded case.
LEMMA ClockStep ==
    ASSUME TypeOK, Place, Clock, [Next]_vars
    PROVE  Clock'
<1>0. now \in Nat /\ nextAllowed \in Nat
  BY DEF TypeOK
<1> USE DEF Clock, Ended, loopVars, timeVars, caseVars, bookVars
<1>1. CASE Precheck
  BY <1>1, <1>0 DEF Precheck
<1>2. CASE ReadCase
  BY <1>2, <1>0 DEF ReadCase, Log
<1>3. CASE OtherShard
  BY <1>3, <1>0 DEF OtherShard
<1>4. CASE SkipForLimit
  BY <1>4, <1>0 DEF SkipForLimit, Skip, Log
<1>5. CASE SkipForFuse
  BY <1>5, <1>0 DEF SkipForFuse, Skip, Log
<1>6. CASE StopForDisk
  BY <1>6, <1>0 DEF StopForDisk, Skip, Log
<1>7. CASE SelectCase
  BY <1>7, <1>0 DEF SelectCase, Log
<1>8. CASE Pace
  BY <1>8, <1>0 DEF Pace
<1>9. CASE OpenCase
  BY <1>9, <1>0 DEF OpenCase
<1>10. CASE BuildCommand
  BY <1>10, <1>0 DEF BuildCommand, Log
<1>11. CASE Announce
  BY <1>11, <1>0 DEF Announce, Log
<1>12. CASE SendIo
  BY <1>12 DEF SendIo
<1>13. CASE AnalyzeCase
  BY <1>13, <1>0 DEF AnalyzeCase, Log
<1>14. CASE RecordCase
  BY <1>14, <1>0 DEF RecordCase, Log
<1>15. CASE Finalize
  BY <1>15, <1>0 DEF Finalize
<1>16. CASE Torn
  BY <1>16 DEF Torn
<1>17. CASE RunRaises
  BY <1>17, <1>0 DEF RunRaises
<1>18. CASE Kill
  BY <1>18, <1>0 DEF Kill
<1>19. CASE UNCHANGED vars
  BY <1>19, <1>0 DEF vars
<1>20. QED
  BY <1>1, <1>2, <1>3, <1>4, <1>5, <1>6, <1>7, <1>8, <1>9, <1>10,
     <1>11, <1>12, <1>13, <1>14, <1>15, <1>16, <1>17, <1>18, <1>19 DEF Next, Stopped

-----------------------------------------------------------------------------
(* What every step has in common *)

\* The configuration stands, ledger and evidence only grow, only the case at
\* hand is sent, started or recorded, and only RecordCase counts a hang.
Growth ==
    /\ config' = config
    /\ \A c \in Cases : /\ ledger[c] \subseteq ledger'[c]
                        /\ "started" \in ledger'[c] => "started" \in ledger[c] \/ (SelectCase /\ c = read)
                        /\ pc # "record" \/ c # read =>
                              ("verdict_finalized" \in ledger'[c] <=> "verdict_finalized" \in ledger[c])
    /\ \A d \in Dirs : dirs[d] \in {"command", "summary"} => dirs'[d] \in {"command", "summary"}
    /\ sent' = sent \/ (pc = "io" /\ ~config.dry_run /\ sent' = sent \cup {read})
    /\ \A c \in Cases : verdict'[c] = verdict[c] \/ (pc = "analyze" /\ c = read)
    /\ ~RecordCase /\ pc' \notin Dead =>
          pc \notin Dead /\ hangs' = hangs /\ (fuse # "none" => fuse' # "none")

\* Every step of the loop keeps to it.
LEMMA GrowthStep ==
    ASSUME TypeOK, Place, Counts, [Next]_vars
    PROVE  Growth
<1>0. /\ ledger \in [Cases -> SUBSET Stages] /\ read \in 0..NCases /\ NCases \in Nat
      /\ dirs \in [Dirs -> {"none", "yaml", "command", "summary"}]
      /\ verdict \in [Cases -> KvVerdicts \cup {"none"}]
      /\ pc \in InCase \cup {"decide"} => read \in Cases
  BY ConstantFacts DEF TypeOK, Place
<1> USE DEF Growth, Dead, Ended, loopVars, timeVars, caseVars, bookVars
<1>1. CASE Precheck
  BY <1>1 DEF Precheck
<1>2. CASE ReadCase
  <2>0. read + 1 \in Cases
    BY <1>2, <1>0 DEF ReadCase, Cases
  <2>1. /\ ledger'[read + 1] = ledger[read + 1] \cup {"planned"}
        /\ \A c \in Cases \ {read + 1} : ledger'[c] = ledger[c]
    BY <1>2, <1>0, <2>0, LogType, StageSets DEF ReadCase
  <2>2. QED
    BY <1>2, <1>0, <2>0, <2>1 DEF ReadCase, RecordCase
<1>3. CASE OtherShard
  BY <1>3 DEF OtherShard
<1>4. CASE SkipForLimit
  <2>0. read \in Cases
    BY <1>4, <1>0 DEF SkipForLimit, Skip, Place, InCase
  <2>1. /\ ledger'[read] = ledger[read] \cup {"skipped"}
        /\ \A c \in Cases \ {read} : ledger'[c] = ledger[c]
    BY <1>4, <1>0, <2>0, LogType, StageSets DEF SkipForLimit, Skip
  <2>2. QED
    BY <1>4, <1>0, <2>0, <2>1 DEF SkipForLimit
<1>5. CASE SkipForFuse
  <2>0. read \in Cases
    BY <1>5, <1>0 DEF SkipForFuse, Skip, Place, InCase
  <2>1. /\ ledger'[read] = ledger[read] \cup {"skipped"}
        /\ \A c \in Cases \ {read} : ledger'[c] = ledger[c]
    BY <1>5, <1>0, <2>0, LogType, StageSets DEF SkipForFuse, Skip
  <2>2. QED
    BY <1>5, <1>0, <2>0, <2>1 DEF SkipForFuse
<1>6. CASE StopForDisk
  <2>0. read \in Cases
    BY <1>6, <1>0 DEF StopForDisk, Skip, Place, InCase
  <2>1. /\ ledger'[read] = ledger[read] \cup {"skipped"}
        /\ \A c \in Cases \ {read} : ledger'[c] = ledger[c]
    BY <1>6, <1>0, <2>0, LogType, StageSets DEF StopForDisk, Skip
  <2>2. QED
    BY <1>6, <1>0, <2>0, <2>1 DEF StopForDisk
<1>7. CASE SelectCase
  <2>0. read \in Cases
    BY <1>7, <1>0 DEF SelectCase, Place, InCase
  <2>1. /\ ledger'[read] = ledger[read] \cup {"selected", "started"}
        /\ \A c \in Cases \ {read} : ledger'[c] = ledger[c]
    BY <1>7, <1>0, <2>0, LogType, StageSets DEF SelectCase
  <2>2. QED
    BY <1>7, <1>0, <2>0, <2>1 DEF SelectCase
<1>8. CASE Pace
  BY <1>8 DEF Pace
<1>9. CASE OpenCase
  <2>0. read \in Cases /\ DirOf[read] \in Dirs
    BY <1>9, <1>0 DEF OpenCase, Place, InCase, Dirs
  <2>1. CASE dirs[DirOf[read]] = "none"
    <3>1. /\ ledger'[read] = ledger[read] \cup {"precheck_started"}
          /\ \A c \in Cases \ {read} : ledger'[c] = ledger[c]
          /\ \A d \in Dirs \ {DirOf[read]} : dirs'[d] = dirs[d]
      BY <1>9, <1>0, <2>0, <2>1, LogType, StageSets DEF OpenCase
    <3>2. QED
      BY <1>9, <1>0, <2>0, <2>1, <3>1 DEF OpenCase
  <2>2. CASE dirs[DirOf[read]] # "none"
    BY <1>9, <2>2 DEF OpenCase
  <2>3. QED
    BY <2>1, <2>2
<1>10. CASE BuildCommand
  <2>0. read \in Cases
    BY <1>10, <1>0 DEF BuildCommand, Place, InCase
  <2>1. /\ ledger'[read] = ledger[read] \cup {"command_built"}
        /\ \A c \in Cases \ {read} : ledger'[c] = ledger[c]
    BY <1>10, <1>0, <2>0, LogType, StageSets DEF BuildCommand
  <2>2. QED
    BY <1>10, <1>0, <2>0, <2>1 DEF BuildCommand
<1>11. CASE Announce
  <2>0. read \in Cases
    BY <1>11, <1>0 DEF Announce, Place, InCase
  <2>1. /\ ledger'[read] = ledger[read] \cup {"io_passthru_started"}
        /\ \A c \in Cases \ {read} : ledger'[c] = ledger[c]
    BY <1>11, <1>0, <2>0, LogType, StageSets DEF Announce
  <2>2. QED
    BY <1>11, <1>0, <2>0, <2>1 DEF Announce
<1>12. CASE SendIo
  <2>1. sent' = sent \/ (~config.dry_run /\ sent' = sent \cup {read})
    BY <1>12 DEF SendIo
  <2>2. QED
    BY <1>12, <2>1 DEF SendIo
<1>13. CASE AnalyzeCase
  <2>0. read \in Cases
    BY <1>13, <1>0 DEF AnalyzeCase, Place, InCase
  <2>1. /\ ledger'[read] = ledger[read] \cup {"io_passthru_finished", "oracle_collected", "cleanup_finished"}
        /\ \A c \in Cases \ {read} : ledger'[c] = ledger[c]
    BY <1>13, <1>0, <2>0, LogType, StageSets DEF AnalyzeCase
  <2>2. \A c \in Cases \ {read} : verdict'[c] = verdict[c]
    BY <1>13, <1>0 DEF AnalyzeCase
  <2>3. \A d \in Dirs : dirs[d] \in {"command", "summary"} => dirs'[d] \in {"command", "summary"}
    BY <1>13, <1>0 DEF AnalyzeCase
  <2>4. UNCHANGED <<config, read, hangs, fuse, sent>> /\ pc = "analyze" /\ pc' = "record"
    BY <1>13 DEF AnalyzeCase
  <2>5. QED
    BY <2>0, <2>1, <2>2, <2>3, <2>4
<1>14. CASE RecordCase
  <2>0. read \in Cases
    BY <1>14, <1>0 DEF RecordCase, Place, InCase
  <2>1. /\ ledger'[read] = ledger[read] \cup {"artifact_finalized", "verdict_finalized"}
        /\ \A c \in Cases \ {read} : ledger'[c] = ledger[c]
    BY <1>14, <1>0, <2>0, LogType, StageSets DEF RecordCase
  <2>2. QED
    BY <1>14, <1>0, <2>0, <2>1 DEF RecordCase
<1>15. CASE Finalize
  BY <1>15 DEF Finalize
<1>16. CASE Torn
  <2>1. TornEffect
    BY <1>16, TornFacts
  <2>2. QED
    BY <1>16, <1>0, <2>1 DEF TornEffect, Torn
<1>17. CASE RunRaises
  BY <1>17 DEF RunRaises
<1>18. CASE Kill
  BY <1>18 DEF Kill
<1>19. CASE UNCHANGED vars
  BY <1>19 DEF vars
<1>20. QED
  BY <1>1, <1>2, <1>3, <1>4, <1>5, <1>6, <1>7, <1>8, <1>9, <1>10,
     <1>11, <1>12, <1>13, <1>14, <1>15, <1>16, <1>17, <1>18, <1>19 DEF Next, Stopped

\* Only the case at hand is sent, and it is announced by then.
LEMMA EvidenceStep ==
    ASSUME TypeOK, Place, EvidenceFirst, Growth
    PROVE  EvidenceFirst'
<1>1. SUFFICES ASSUME NEW c \in sent'
               PROVE  /\ "io_passthru_started" \in ledger'[c]
                      /\ dirs'[DirOf[c]] \in {"command", "summary"}
  BY DEF EvidenceFirst
<1>2. c \in sent \/ (pc = "io" /\ c = read)
  BY <1>1 DEF Growth
<1>3. /\ "io_passthru_started" \in ledger[c] /\ dirs[DirOf[c]] \in {"command", "summary"}
      /\ c \in Cases /\ DirOf[c] \in Dirs
  BY <1>2 DEF EvidenceFirst, Place, InCase, TypeOK, Dirs
<1>4. QED
  BY <1>3 DEF Growth

\* What is sent has consent and lies in the shard.
LEMMA ConsentStep ==
    ASSUME TypeOK, Place, Consent, Growth
    PROVE  Consent'
<1>1. pc = "io" => InShard(read) /\ (config.dry_run \/ config.allow_live_target)
  BY DEF Place, InCase, Dead
<1>2. QED
  BY <1>1 DEF Consent, Growth, InShard

-----------------------------------------------------------------------------
(* The fuse *)

\* Without a new verdict the hangs counted and what opens the fuse stay.
LEMMA SameVerdicts ==
    ASSUME config' = config, Recorded' = Recorded, \A c \in Recorded : verdict'[c] = verdict[c]
    PROVE  /\ Streak' = Streak
           /\ \A c \in Cases : OpensFuse(c)' <=> OpensFuse(c)
<1>1. Streak' = Streak
  BY DEF Streak
<1>2. ASSUME NEW c \in Cases PROVE HangStreak(c)' = HangStreak(c)
  BY DEF HangStreak
<1>3. ASSUME NEW c \in Cases PROVE OpensFuse(c)' <=> OpensFuse(c)
  <2>1. HangStreak(c)' = HangStreak(c)
    BY <1>2
  <2>2. Cardinality(HangStreak(c))' = Cardinality(HangStreak(c))
    BY <2>1
  <2>3. QED
    BY <2>2 DEF OpensFuse
<1>4. QED
  BY <1>1, <1>3

\* A verdict behind all others extends the streak or ends it, and leaves what is
\* said of the earlier cases.
LEMMA NewVerdict ==
    ASSUME config' = config, verdict' = verdict, NEW r \in Cases, r \notin Recorded,
           Recorded' = Recorded \cup {r}, r \in Int, \A c \in Recorded : c \in Int /\ c < r
    PROVE  /\ Streak' = IF verdict[r] = "FAIL_HANG" THEN Streak \cup {r} ELSE {}
           /\ HangStreak(r)' = Streak'
           /\ \A c \in Cases \ {r} : OpensFuse(c)' <=> OpensFuse(c)
<1>0. Recorded \subseteq Cases
  BY DEF Recorded
<1>a. Streak' = {d \in Recorded \cup {r} : \A e \in Recorded \cup {r} : d <= e => verdict[e] = "FAIL_HANG"}
  BY DEF Streak
<1>b. \A d \in Recorded \cup {r} : d <= r
  OBVIOUS
<1>1. Streak' = IF verdict[r] = "FAIL_HANG" THEN Streak \cup {r} ELSE {}
  <2>1. CASE verdict[r] = "FAIL_HANG"
    <3>1. ASSUME NEW d \in Recorded PROVE d \in Streak' <=> d \in Streak
      BY <2>1, <1>a, <3>1 DEF Streak
    <3>2. r \in Streak'
      <4>1. ASSUME NEW e \in Recorded \cup {r}, r <= e PROVE verdict[e] = "FAIL_HANG"
        BY <2>1, <4>1
      <4>2. QED
        BY <1>a, <4>1
    <3>3. Streak' \subseteq Recorded \cup {r} /\ Streak \subseteq Recorded
      BY <1>a DEF Streak
    <3>4. Streak' = Streak \cup {r}
      BY <3>1, <3>2, <3>3
    <3>5. QED
      BY <2>1, <3>4
  <2>2. CASE verdict[r] # "FAIL_HANG"
    BY <1>a, <1>b, <2>2
  <2>3. QED
    BY <2>1, <2>2
<1>3. HangStreak(r)' = Streak'
  <2>1. HangStreak(r)' = {d \in Recorded \cup {r} : d <= r /\ \A e \in Recorded \cup {r} :
                                d <= e /\ e <= r => verdict[e] = "FAIL_HANG"}
    BY DEF HangStreak
  <2>2. QED
    BY <1>a, <1>b, <2>1
<1>4. ASSUME NEW c \in Cases \ {r} PROVE OpensFuse(c)' <=> OpensFuse(c)
  <2>1. CASE c \in Recorded
    <3>1. HangStreak(c)' = HangStreak(c)
      BY <1>0, <2>1 DEF HangStreak
    <3>2. Cardinality(HangStreak(c))' = Cardinality(HangStreak(c))
      BY <3>1
    <3>3. QED
      BY <2>1, <3>2 DEF OpensFuse
  <2>2. CASE c \notin Recorded
    BY <2>2 DEF OpensFuse
  <2>3. QED
    BY <2>1, <2>2
<1>5. QED
  BY <1>1, <1>3, <1>4

\* The count of hangs, and the fuse that never closes again.
LEMMA FuseStep ==
    ASSUME TypeOK, Place, Fuse, Growth, [Next]_vars
    PROVE  Fuse'
<1>0. /\ NCases \in Nat /\ Cases \subseteq Int /\ read \in Int /\ IsFiniteSet(Cases)
      /\ \A c \in Recorded : c \in Cases /\ c \in Int /\ c <= read
      /\ \A c \in Cases : c \in Int
  BY ConstantFacts, FS_Interval DEF TypeOK, Cases, Recorded, Place
<1>1. CASE pc # "record" \/ Recorded' = Recorded
  <2>1. Recorded' = Recorded
    BY <1>1 DEF Growth, Recorded
  <2>2. \A c \in Recorded : verdict'[c] = verdict[c]
    <3>1. pc = "analyze" => read \notin Recorded
      BY DEF Place, InCase, Recorded
    <3>2. QED
      BY <1>0, <3>1 DEF Growth
  <2>3. Streak' = Streak /\ \A c \in Cases : OpensFuse(c)' <=> OpensFuse(c)
    BY <2>1, <2>2, SameVerdicts DEF Growth
  <2>4. ~RecordCase
    <3>1. SUFFICES ASSUME RecordCase PROVE FALSE
      OBVIOUS
    <3>2. read \in Cases /\ read \notin Recorded /\ pc = "record"
      BY <3>1 DEF RecordCase, Place, InCase, Recorded
    <3>3. "verdict_finalized" \in ledger'[read]
      BY <3>1, <3>2 DEF RecordCase, Log, TypeOK
    <3>4. QED
      BY <2>1, <3>2, <3>3 DEF Recorded
  <2>5. ASSUME pc' \notin Dead
        PROVE  hangs' = Cardinality(Streak') /\ \A c \in Cases : OpensFuse(c)' => fuse' # "none"
    <3>1. Cardinality(Streak') = Cardinality(Streak)
      BY <2>3
    <3>2. QED
      BY <2>3, <2>4, <2>5, <3>1 DEF Growth, Fuse
  <2>6. ASSUME NEW c \in Cases, NEW d \in Cases, OpensFuse(c)', c < d, "started" \in ledger'[d]
        PROVE  FALSE
    <3>1. "started" \notin ledger[d]
      BY <2>3, <2>6 DEF Fuse, FuseHolds
    <3>2. pc = "decide" /\ fuse = "none"
      BY <2>6, <3>1 DEF Growth, SelectCase
    <3>3. QED
      BY <2>3, <2>6, <3>2 DEF Fuse, Dead
  <2>7. QED
    BY <2>5, <2>6 DEF Fuse, FuseHolds
<1>2. CASE pc = "record" /\ Recorded' # Recorded
  <2>0. PICK r \in Cases : r = read
    BY <1>2 DEF Place, InCase
  <2>1. r \in Int /\ r \notin Recorded
    BY <1>0, <1>2, <2>0 DEF Place, InCase, Recorded
  <2>2. Recorded' = Recorded \cup {r}
    BY <1>2, <2>0, <2>1 DEF Growth, Recorded
  <2>3. verdict' = verdict
    BY <1>2 DEF Next, vars, caseVars, Precheck, ReadCase, OtherShard, SkipForLimit, SkipForFuse,
       StopForDisk, SelectCase, Pace, OpenCase, BuildCommand, Announce, SendIo, AnalyzeCase,
       RecordCase, Finalize, Torn, CaseTorn, FinalizeTorn, RunRaises, Kill, Stopped
  <2>4. \A c \in Recorded : c < r
    BY <1>0, <2>0, <2>1
  <2>5. /\ Streak' = IF verdict[r] = "FAIL_HANG" THEN Streak \cup {r} ELSE {}
        /\ HangStreak(r)' = Streak'
        /\ \A c \in Cases \ {r} : OpensFuse(c)' <=> OpensFuse(c)
    <3>1. config' = config /\ r \in Int /\ \A c \in Recorded : c \in Int /\ c < r
      BY <1>0, <2>1, <2>4 DEF Growth
    <3>2. QED
      BY <2>0, <2>1, <2>2, <2>3, <3>1, NewVerdict
  <2>6. FuseHolds'
    <3>1. SUFFICES ASSUME NEW c \in Cases, NEW d \in Cases, OpensFuse(c)', c < d,
                          "started" \in ledger'[d]
                   PROVE  FALSE
      BY DEF FuseHolds
    <3>2. "started" \in ledger[d]
      BY <1>2, <3>1 DEF Growth, SelectCase
    <3>3. d <= r
      <4>1. d > read => ledger[d] = {}
        BY DEF Place
      <4>2. d \in Int /\ ledger[d] # {}
        BY <1>0, <3>2
      <4>3. QED
        BY <1>0, <2>0, <4>1, <4>2
    <3>4. c # r
      BY <1>0, <3>1, <3>3
    <3>5. QED
      BY <2>5, <3>1, <3>2, <3>4 DEF Fuse, FuseHolds
  <2>7. ASSUME pc' \notin Dead
        PROVE  hangs' = Cardinality(Streak') /\ \A c \in Cases : OpensFuse(c)' => fuse' # "none"
    <3>1. RecordCase
      BY <1>2, <2>7 DEF Dead, Next, vars, Precheck, ReadCase, OtherShard, SkipForLimit, SkipForFuse,
         StopForDisk, SelectCase, Pace, OpenCase, BuildCommand, Announce, SendIo, AnalyzeCase,
         Finalize, Torn, RunRaises, Kill, Stopped, bookVars, Recorded
    <3>2. hangs = Cardinality(Streak) /\ hangs \in Nat
      BY <1>2 DEF Fuse, Dead, TypeOK
    <3>3. hangs' = Cardinality(Streak')
      <4>1. IsFiniteSet(Streak) /\ r \notin Streak
        BY <1>0, <2>1, FS_Subset DEF Streak
      <4>2. CASE verdict[r] = "FAIL_HANG"
        <5>1. Cardinality(Streak \cup {r}) = Cardinality(Streak) + 1
          BY <4>1, FS_AddElement
        <5>2. Streak' = Streak \cup {r} /\ hangs' = hangs + 1
          BY <2>0, <2>5, <3>1, <4>2 DEF RecordCase, HangsAfter
        <5>3. Cardinality(Streak') = Cardinality(Streak \cup {r})
          BY <5>2
        <5>4. QED
          BY <3>2, <5>1, <5>2, <5>3
      <4>3. CASE verdict[r] # "FAIL_HANG"
        <5>1. Streak' = {} /\ hangs' = 0
          BY <2>0, <2>5, <3>1, <4>3 DEF RecordCase, HangsAfter
        <5>2. Cardinality(Streak') = Cardinality({})
          BY <5>1
        <5>3. QED
          BY <5>1, <5>2, FS_EmptySet
      <4>4. QED
        BY <4>2, <4>3
    <3>4. ASSUME OpensFuse(r)' PROVE fuse' # "none"
      <4>1. Cardinality(HangStreak(r)') = hangs'
        BY <2>5, <3>3
      <4>2. hangs' = HangsAfter(verdict[r]) /\ fuse' = FuseAfter(verdict[r]) /\ config' = config
        BY <2>0, <3>1 DEF RecordCase
      <4>3. \/ verdict[r] \in {"FAIL_SAFETY", "FAIL_CLEANUP"}
            \/ config.stop_on_failure /\ verdict[r] \in Failures
            \/ HangsAfter(verdict[r]) >= MaxConsecutiveTimeouts
        <5>1. \/ verdict'[r] \in {"FAIL_SAFETY", "FAIL_CLEANUP"}
              \/ config'.stop_on_failure /\ verdict'[r] \in Failures
              \/ Cardinality(HangStreak(r)') >= MaxConsecutiveTimeouts
          BY <3>4 DEF OpensFuse
        <5>2. QED
          BY <2>3, <4>1, <4>2, <5>1
      <4>4. QED
        BY <4>2, <4>3 DEF FuseAfter
    <3>5. ASSUME NEW c \in Cases \ {r}, OpensFuse(c)' PROVE fuse' # "none"
      <4>1. fuse # "none"
        BY <1>2, <2>5, <3>5 DEF Fuse, Dead
      <4>2. QED
        BY <3>1, <4>1 DEF RecordCase, FuseAfter
    <3>6. \A c \in Cases : OpensFuse(c)' => fuse' # "none"
      <4>1. SUFFICES ASSUME NEW c \in Cases, OpensFuse(c)' PROVE fuse' # "none"
        OBVIOUS
      <4>2. CASE c = r
        BY <3>4, <4>1, <4>2
      <4>3. CASE c # r
        BY <3>5, <4>1, <4>3
      <4>4. QED
        BY <4>2, <4>3
    <3>7. QED
      BY <3>3, <3>6
  <2>8. QED
    BY <2>6, <2>7 DEF Fuse
<1>3. QED
  BY <1>1, <1>2

-----------------------------------------------------------------------------
(* Every case has its outcome *)

\* A case that was read is recorded, skipped, at hand, or of another shard.
LEMMA OutcomesStep ==
    ASSUME TypeOK, Place, Outcomes, [Next]_vars
    PROVE  Outcomes'
<1>0. /\ ledger \in [Cases -> SUBSET Stages] /\ read \in 0..NCases /\ NCases \in Nat
      /\ (Limit # NoLimit => Limit \in Int) /\ selected \in Int
      /\ \A c \in Cases : c \in Int
      /\ pc \in InCase \cup {"decide"} => read \in Cases
  BY ConstantFacts DEF TypeOK, Place, Cases
<1> USE DEF Outcomes, Recorded, StopExplained, Dead, Ended, LimitReached, InShard, loopVars, timeVars, caseVars, bookVars
<1>1. CASE Precheck
  BY <1>1, <1>0 DEF Precheck, InCase, Place
<1>2. CASE ReadCase
  <2>0. read + 1 \in Cases
    BY <1>2, <1>0 DEF ReadCase, Cases
  <2>1. /\ ledger'[read + 1] = ledger[read + 1] \cup {"planned"}
        /\ \A c \in Cases \ {read + 1} : ledger'[c] = ledger[c]
    BY <1>2, <1>0, <2>0, LogType, StageSets DEF ReadCase
  <2>2. \A c \in Cases : c <= read + 1 => c <= read \/ c = read + 1
    BY <1>0
  <2>3. ledger[read + 1] = {}
    BY <1>0, <2>0 DEF Place
  <2>4. QED
    BY <1>2, <1>0, <2>0, <2>1, <2>2, <2>3 DEF ReadCase, InCase
<1>3. CASE OtherShard
  BY <1>3, <1>0 DEF OtherShard, InCase
<1>4. CASE SkipForLimit
  <2>0. read \in Cases /\ pc \notin Dead /\ read' = read
    BY <1>4, <1>0 DEF SkipForLimit, Skip, Place, InCase, Dead
  <2>1. /\ ledger'[read] = ledger[read] \cup {"skipped"}
        /\ \A c \in Cases \ {read} : ledger'[c] = ledger[c]
    BY <1>4, <1>0, <2>0, LogType, StageSets DEF SkipForLimit, Skip
  <2>2. QED
    BY <1>4, <1>0, <2>0, <2>1 DEF SkipForLimit, InCase
<1>5. CASE SkipForFuse
  <2>0. read \in Cases /\ pc \notin Dead /\ read' = read
    BY <1>5, <1>0 DEF SkipForFuse, Skip, Place, InCase, Dead
  <2>1. /\ ledger'[read] = ledger[read] \cup {"skipped"}
        /\ \A c \in Cases \ {read} : ledger'[c] = ledger[c]
    BY <1>5, <1>0, <2>0, LogType, StageSets DEF SkipForFuse, Skip
  <2>2. QED
    BY <1>5, <1>0, <2>0, <2>1 DEF SkipForFuse, InCase
<1>6. CASE StopForDisk
  <2>0. read \in Cases /\ pc \notin Dead /\ read' = read
    BY <1>6, <1>0 DEF StopForDisk, Skip, Place, InCase, Dead
  <2>1. /\ ledger'[read] = ledger[read] \cup {"skipped"}
        /\ \A c \in Cases \ {read} : ledger'[c] = ledger[c]
    BY <1>6, <1>0, <2>0, LogType, StageSets DEF StopForDisk, Skip
  <2>2. QED
    BY <1>6, <1>0, <2>0, <2>1 DEF StopForDisk, InCase
<1>7. CASE SelectCase
  <2>0. read \in Cases /\ pc \notin Dead /\ read' = read
    BY <1>7, <1>0 DEF SelectCase, Place, InCase, Dead
  <2>1. /\ ledger'[read] = ledger[read] \cup {"selected", "started"}
        /\ \A c \in Cases \ {read} : ledger'[c] = ledger[c]
    BY <1>7, <1>0, <2>0, LogType, StageSets DEF SelectCase
  <2>2. QED
    BY <1>7, <1>0, <2>0, <2>1 DEF SelectCase, InCase
<1>8. CASE Pace
  <2>1. UNCHANGED <<read, selected, fuse, ledger>> /\ pc \notin Dead /\ pc' \notin Dead
        /\ (pc \in InCase <=> pc' \in InCase) /\ pc # "decide" /\ pc' # "decide"
    BY <1>8 DEF Pace, InCase, Dead
  <2>2. QED
    BY <1>8, <1>0, <2>1
<1>9. CASE OpenCase
  <2>0. read \in Cases /\ pc \notin Dead /\ pc \in InCase
    BY <1>9, <1>0 DEF OpenCase, Place, InCase, Dead
  <2>1. CASE dirs[DirOf[read]] = "none"
    <3>1. /\ ledger'[read] = ledger[read] \cup {"precheck_started"}
          /\ \A c \in Cases \ {read} : ledger'[c] = ledger[c]
      BY <1>9, <1>0, <2>0, <2>1, LogType, StageSets DEF OpenCase
    <3>2. QED
      BY <1>9, <1>0, <2>0, <2>1, <3>1 DEF OpenCase, InCase
  <2>2. CASE dirs[DirOf[read]] # "none"
    BY <1>9, <2>2 DEF OpenCase
  <2>3. QED
    BY <2>1, <2>2
<1>10. CASE BuildCommand
  <2>0. read \in Cases /\ pc \notin Dead /\ read' = read
    BY <1>10, <1>0 DEF BuildCommand, Place, InCase, Dead
  <2>1. /\ ledger'[read] = ledger[read] \cup {"command_built"}
        /\ \A c \in Cases \ {read} : ledger'[c] = ledger[c]
    BY <1>10, <1>0, <2>0, LogType, StageSets DEF BuildCommand
  <2>2. QED
    BY <1>10, <1>0, <2>0, <2>1 DEF BuildCommand, InCase
<1>11. CASE Announce
  <2>0. read \in Cases /\ pc \notin Dead /\ read' = read
    BY <1>11, <1>0 DEF Announce, Place, InCase, Dead
  <2>1. /\ ledger'[read] = ledger[read] \cup {"io_passthru_started"}
        /\ \A c \in Cases \ {read} : ledger'[c] = ledger[c]
    BY <1>11, <1>0, <2>0, LogType, StageSets DEF Announce
  <2>2. QED
    BY <1>11, <1>0, <2>0, <2>1 DEF Announce, InCase
<1>12. CASE SendIo
  <2>1. UNCHANGED <<read, selected, fuse, ledger>> /\ pc \notin Dead /\ pc' \notin Dead
        /\ (pc \in InCase <=> pc' \in InCase) /\ pc # "decide" /\ pc' # "decide"
    BY <1>12 DEF SendIo, InCase, Dead
  <2>2. QED
    BY <1>12, <1>0, <2>1
<1>13. CASE AnalyzeCase
  <2>0. read \in Cases /\ pc \notin Dead /\ read' = read
    BY <1>13, <1>0 DEF AnalyzeCase, Place, InCase, Dead
  <2>1. /\ ledger'[read] = ledger[read] \cup {"io_passthru_finished", "oracle_collected", "cleanup_finished"}
        /\ \A c \in Cases \ {read} : ledger'[c] = ledger[c]
    BY <1>13, <1>0, <2>0, LogType, StageSets DEF AnalyzeCase
  <2>2. QED
    BY <1>13, <1>0, <2>0, <2>1 DEF AnalyzeCase, InCase
<1>14. CASE RecordCase
  <2>0. read \in Cases /\ pc \notin Dead /\ read' = read /\ "verdict_finalized" \in ledger'[read]
    BY <1>14, <1>0 DEF RecordCase, Place, InCase, Dead, Log
  <2>1. /\ ledger'[read] = ledger[read] \cup {"artifact_finalized", "verdict_finalized"}
        /\ \A c \in Cases \ {read} : ledger'[c] = ledger[c]
    BY <1>14, <1>0, <2>0, LogType, StageSets DEF RecordCase
  <2>2. fuse # "none" => fuse' # "none"
    BY <1>14 DEF RecordCase, FuseAfter
  <2>3. UNCHANGED <<read, selected>> /\ pc = "record" /\ pc' = "read"
    BY <1>14 DEF RecordCase
  <2>4. "skipped" \notin ledger[read]
    BY <1>14 DEF RecordCase, Place, InCase
  <2>5. QED
    BY <1>0, <2>0, <2>1, <2>2, <2>3, <2>4 DEF InCase
<1>15. CASE Finalize
  <2>1. /\ pc = "read" /\ pc' = "done" /\ read = NCases /\ ledger' = ledger /\ selected' = selected
        /\ fatal' = "none" => fuse = "none"
    BY <1>15 DEF Finalize
  <2>2. \A c \in Cases : c <= NCases
    BY <1>0 DEF Cases
  <2>3. QED
    BY <1>0, <2>1, <2>2 DEF InCase
<1>16. CASE Torn
  <2>1. pc' \in Dead /\ pc' # "done"
    BY <1>16 DEF Torn
  <2>2. QED
    BY <2>1
<1>17. CASE RunRaises
  <2>1. pc' \in Dead /\ pc' # "done"
    BY <1>17 DEF RunRaises
  <2>2. QED
    BY <2>1
<1>18. CASE Kill
  <2>1. pc' \in Dead /\ pc' # "done"
    BY <1>18 DEF Kill
  <2>2. QED
    BY <2>1
<1>19. CASE UNCHANGED vars
  <2>1. UNCHANGED <<pc, read, selected, fuse, ledger, fatal>>
    BY <1>19 DEF vars
  <2>2. QED
    BY <2>1
<1>20. QED
  BY <1>1, <1>2, <1>3, <1>4, <1>5, <1>6, <1>7, <1>8, <1>9, <1>10,
     <1>11, <1>12, <1>13, <1>14, <1>15, <1>16, <1>17, <1>18, <1>19 DEF Next, Stopped

-----------------------------------------------------------------------------
(* The invariant and the theorems *)

\* The invariant holds when the loop starts.
LEMMA Initially == Init => Inv
<1> SUFFICES ASSUME Init PROVE Inv
  OBVIOUS
<1>0. NCases \in Nat /\ (Limit # NoLimit => Limit \in Nat) /\ Cardinality({}) = 0
  BY ConstantFacts, FS_EmptySet
<1>1. TypeOK
  <2>1. dirs \in [Dirs -> {"none", "yaml", "command", "summary"}]
    BY DEF Init
  <2>2. QED
    BY <1>0, <2>1 DEF Init, TypeOK
<1>2. Place /\ Clock /\ EvidenceFirst /\ Consent
  BY <1>0 DEF Init, Place, InCase, Unsent, Dead, Cases, Clock, EvidenceFirst, Consent
<1>3. Counts
  BY <1>0 DEF Init, Counts, InCase, Unsent
<1>4. Recorded = {}
  BY DEF Init, Recorded
<1>5. Streak = {} /\ Cardinality(Streak) = 0
  <2>1. Streak = {}
    BY <1>4 DEF Streak
  <2>2. QED
    BY <1>0, <2>1
<1>6. Fuse
  BY <1>4, <1>5 DEF Init, Fuse, FuseHolds, OpensFuse
<1>7. Outcomes
  BY <1>0, <1>4 DEF Init, Outcomes, StopExplained, Cases
<1>8. QED
  BY <1>1, <1>2, <1>3, <1>6, <1>7 DEF Inv

\* The invariant is inductive.
LEMMA Inductive == Inv /\ [Next]_vars => Inv'
<1> SUFFICES ASSUME Inv, [Next]_vars PROVE Inv'
  OBVIOUS
<1>1. Growth
  BY GrowthStep DEF Inv
<1>2. QED
  BY <1>1, TypeStep, PlaceStep, CountsStep, ClockStep, EvidenceStep, ConsentStep, FuseStep,
     OutcomesStep DEF Inv

\* The invariant holds of every run.
THEOREM Invariance == Spec => []Inv
BY Initially, Inductive, PTL DEF Spec

\* The variables of the run keep their types: TypeOK of the run kv_run.
THEOREM TypeCorrect == Spec => []TypeOK
<1>1. Inv => TypeOK
  BY DEF Inv
<1>2. QED
  BY <1>1, Invariance, PTL

\* Whatever the campaign, its shards and the configured number of hangs, after a
\* case that opens the fuse no later case is started.
THEOREM FuseIsFinal == Spec => []FuseHolds
<1>1. Inv => FuseHolds
  BY DEF Inv, Fuse
<1>2. QED
  BY <1>1, Invariance, PTL

\* A command that reached the device is in the ledger and in command.json,
\* however the run is interrupted and whatever directories it found.
THEOREM EvidenceIsFirst == Spec => []EvidenceFirst
<1>1. Inv => EvidenceFirst
  BY DEF Inv
<1>2. QED
  BY <1>1, Invariance, PTL

\* Nothing reaches the device without consent, outside the shard, or beyond the
\* limit.
THEOREM ConsentIsFirst == Spec => []ConsentFirst
<1>1. Inv => ConsentFirst
  <2>1. SUFFICES ASSUME Inv, Limit # NoLimit PROVE Cardinality(sent) <= Limit
    BY DEF Inv, Consent, ConsentFirst
  <2>2. IsFiniteSet(Cases) /\ sent \subseteq Cases
    BY <2>1, ConstantFacts, FS_Interval DEF Inv, TypeOK, Cases
  <2>3. Cardinality(sent) \in Nat
    BY <2>2, FS_Subset, FS_CardinalityType
  <2>4. Cardinality(sent) <= selected /\ selected <= Limit /\ selected \in Int /\ Limit \in Int
    BY <2>1, ConstantFacts DEF Inv, Counts, TypeOK
  <2>5. QED
    BY <2>3, <2>4
<1>2. QED
  BY <1>1, Invariance, PTL

\* No case goes to the device sooner than 1/max_qps after the one before it was
\* recorded.
THEOREM IsPaced == Spec => []Paced
<1>1. Inv => Paced
  BY DEF Inv, Clock, Paced
<1>2. QED
  BY <1>1, Invariance, PTL

\* A finished run without a stop reason recorded every case of its shard, but for
\* those skipped for the limit.
THEOREM StopIsExplained == Spec => []StopExplained
<1>1. Inv => StopExplained
  BY DEF Inv, Outcomes
<1>2. QED
  BY <1>1, Invariance, PTL
-----------------------------------------------------------------------------
(* The abstract lifecycle *)

Statuses == [c \in Cases |-> StatusOf(c)]
RunStatus == CASE pc = "done" -> "complete"
               [] pc \in {"failed", "killed"} -> "broken"
               [] OTHER -> "open"

\* The cases of the promise are those of the campaign.
LEMMA Vocabulary ==
    /\ Promise!CampaignCases = Cases
    /\ Statuses = [c \in Cases |-> StatusOf(c)]
BY DEF Promise!CampaignCases, Cases, Statuses

\* A status follows from four facts about the ledger.
LEMMA StatusFacts ==
    ASSUME NEW c \in Cases
    PROVE  /\ StatusOf(c) = "unread" <=> ledger[c] = {}
           /\ StatusOf(c) = "recorded" <=> "verdict_finalized" \in ledger[c]
           /\ StatusOf(c) = "skipped" <=> "skipped" \in ledger[c] /\ "verdict_finalized" \notin ledger[c]
           /\ StatusOf(c) = "started" <=>
                 /\ "started" \in ledger[c] /\ ledger[c] \cap {"skipped", "verdict_finalized"} = {}
           /\ StatusOf(c) = "planned" <=>
                 /\ ledger[c] # {} /\ ledger[c] \cap {"skipped", "started", "verdict_finalized"} = {}
BY DEF StatusOf

\* A step that changes no status is a stutter of the promise.
LEMMA Stays ==
    ASSUME \A c \in Cases : StatusOf(c)' = StatusOf(c), RunStatus' = RunStatus
    PROVE  [Promise!PromiseNext]_(Promise!promiseVars)
<1>1. Statuses' = Statuses
  BY DEF Statuses
<1>2. QED
  BY <1>1 DEF Promise!promiseVars, Statuses, RunStatus

\* One case changes its status.
LEMMA MovesOne ==
    ASSUME NEW n \in Cases, \A c \in Cases \ {n} : StatusOf(c)' = StatusOf(c), RunStatus' = RunStatus,
           NEW from, NEW to, StatusOf(n) = from, StatusOf(n)' = to
    PROVE  Promise!Move(n, from, to)
<1>1. Statuses' = [Statuses EXCEPT ![n] = to] /\ Statuses[n] = from
  BY DEF Statuses
<1>2. QED
  BY <1>1 DEF Promise!Move, Statuses, RunStatus

\* What does not touch the four facts is a stutter of the promise.
LEMMA QuietMaps ==
    ASSUME \A c \in Cases : /\ (ledger'[c] = {}) <=> (ledger[c] = {})
                            /\ \A s \in {"verdict_finalized", "skipped", "started"} :
                                  s \in ledger'[c] <=> s \in ledger[c],
           RunStatus' = RunStatus
    PROVE  [Promise!PromiseNext]_(Promise!promiseVars)
<1>1. ASSUME NEW c \in Cases PROVE StatusOf(c)' = StatusOf(c)
  BY <1>1 DEF StatusOf
<1>2. QED
  BY <1>1, Stays

\* ReadCase plans the next case of the campaign.
LEMMA PlanMaps ==
    ASSUME Inv, ReadCase
    PROVE  [Promise!PromiseNext]_(Promise!promiseVars)
<1>0. /\ ledger \in [Cases -> SUBSET Stages] /\ read \in 0..NCases /\ NCases \in Nat
      /\ \A c \in Cases : c \in Int
  BY ConstantFacts DEF Inv, TypeOK, Cases
<1>n. PICK n \in Cases : n = read + 1
  BY <1>0 DEF ReadCase, Cases
<1>1. /\ ledger'[n] = ledger[n] \cup {"planned"}
      /\ \A c \in Cases \ {n} : ledger'[c] = ledger[c]
  BY <1>0, <1>n, LogType, StageSets DEF ReadCase
<1>2. ledger[n] = {}
  BY <1>0, <1>n DEF Inv, Place
<1>3. StatusOf(n) = "unread" /\ StatusOf(n)' = "planned"
  BY <1>1, <1>2 DEF StatusOf
<1>4. \A c \in Cases \ {n} : StatusOf(c)' = StatusOf(c)
  BY <1>1 DEF StatusOf
<1>5. RunStatus = "open" /\ RunStatus' = RunStatus
  BY DEF ReadCase, RunStatus
<1>6. Promise!Move(n, "unread", "planned")
  BY <1>3, <1>4, <1>5, MovesOne
<1>7. \A d \in Cases : d < n => StatusOf(d) # "unread"
  <2>1. ASSUME NEW d \in Cases, d < n PROVE ledger[d] # {}
    BY <1>0, <1>n, <2>1 DEF Inv, Outcomes, ReadCase, Dead
  <2>2. QED
    BY <2>1, StatusFacts
<1>8. Promise!PlanCase(n)
  BY <1>6, <1>7, Vocabulary DEF Promise!PlanCase, Statuses
<1>9. QED
  BY <1>5, <1>8, Vocabulary DEF Promise!PromiseNext, RunStatus

\* At a decision the case at hand is planned and the last one read.
LEMMA DecidedMaps ==
    ASSUME Inv, pc = "decide", NEW n \in Cases, n = read, NEW stages \in SUBSET Stages, Log(n, stages),
           stages \cap {"skipped", "started", "verdict_finalized"} # {}, "verdict_finalized" \notin stages,
           ~({"skipped", "started"} \subseteq stages)
    PROVE  /\ \A c \in Cases \ {n} : StatusOf(c)' = StatusOf(c)
           /\ StatusOf(n) = "planned"
           /\ StatusOf(n)' = IF "skipped" \in stages THEN "skipped" ELSE "started"
           /\ \A d \in Cases : n < d => StatusOf(d) = "unread"
<1>0. ledger \in [Cases -> SUBSET Stages] /\ ledger[n] = {"planned"}
  BY DEF Inv, TypeOK, Place
<1>1. /\ ledger'[n] = {"planned"} \cup stages
      /\ \A c \in Cases \ {n} : ledger'[c] = ledger[c]
  BY <1>0, LogType
<1>2. \A c \in Cases \ {n} : StatusOf(c)' = StatusOf(c)
  BY <1>1 DEF StatusOf
<1>3. StatusOf(n) = "planned"
  BY <1>0 DEF StatusOf
<1>4. StatusOf(n)' = IF "skipped" \in stages THEN "skipped" ELSE "started"
  BY <1>1 DEF StatusOf
<1>5. \A d \in Cases : n < d => StatusOf(d) = "unread"
  <2>1. \A d \in Cases : n < d => ledger[d] = {}
    BY ConstantFacts DEF Inv, Place, Cases
  <2>2. QED
    BY <2>1, StatusFacts
<1>6. QED
  BY <1>2, <1>3, <1>4, <1>5

\* The three ways to skip a case.
LEMMA SkipMaps ==
    ASSUME Inv, pc = "decide", pc' = "read", Log(read, {"skipped"})
    PROVE  [Promise!PromiseNext]_(Promise!promiseVars)
<1>n. PICK n \in Cases : n = read
  BY DEF Inv, Place
<1>1. /\ \A c \in Cases \ {n} : StatusOf(c)' = StatusOf(c)
      /\ StatusOf(n) = "planned" /\ StatusOf(n)' = "skipped"
      /\ \A d \in Cases : n < d => StatusOf(d) = "unread"
  BY <1>n, DecidedMaps, StageSets
<1>2. RunStatus = "open" /\ RunStatus' = RunStatus
  BY DEF RunStatus
<1>3. Promise!Move(n, "planned", "skipped")
  BY <1>1, <1>2, MovesOne
<1>4. Promise!SkipCase(n)
  BY <1>1, <1>3, Vocabulary DEF Promise!SkipCase, Promise!Latest, Statuses
<1>5. QED
  BY <1>2, <1>4, Vocabulary DEF Promise!PromiseNext, RunStatus

\* SelectCase starts a case of the shard, before any skip.
LEMMA StartMaps ==
    ASSUME Inv, SelectCase
    PROVE  [Promise!PromiseNext]_(Promise!promiseVars)
<1>n. PICK n \in Cases : n = read
  BY DEF Inv, Place, SelectCase
<1>1. /\ \A c \in Cases \ {n} : StatusOf(c)' = StatusOf(c)
      /\ StatusOf(n) = "planned" /\ StatusOf(n)' = "started"
      /\ \A d \in Cases : n < d => StatusOf(d) = "unread"
  BY <1>n, DecidedMaps, StageSets DEF SelectCase
<1>2. RunStatus = "open" /\ RunStatus' = RunStatus
  BY DEF RunStatus, SelectCase
<1>3. Promise!Move(n, "planned", "started")
  BY <1>1, <1>2, MovesOne
<1>4. \A d \in Cases : StatusOf(d) # "skipped"
  <2>1. \A d \in Cases : "skipped" \notin ledger[d]
    BY DEF Inv, Outcomes, SelectCase, Dead
  <2>2. QED
    BY <2>1, StatusFacts
<1>5. n \in {c \in Cases : InShard(c)}
  BY <1>n DEF SelectCase
<1>6. Promise!StartCase(n)
  BY <1>1, <1>3, <1>4, <1>5, Vocabulary DEF Promise!StartCase, Promise!Latest, Statuses
<1>7. QED
  BY <1>2, <1>6, Vocabulary DEF Promise!PromiseNext, RunStatus

\* The verdict of the case at hand, whether all of its entries are written or not.
LEMMA RecordMaps ==
    ASSUME Inv, pc = "record", RunStatus' = "open",
           \E stages \in {{"artifact_finalized"}, {"artifact_finalized", "verdict_finalized"}} :
              Log(read, stages)
    PROVE  [Promise!PromiseNext]_(Promise!promiseVars)
<1>n. PICK n \in Cases : n = read
  BY DEF Inv, Place, InCase
<1>s. PICK stages \in {{"artifact_finalized"}, {"artifact_finalized", "verdict_finalized"}} :
         Log(n, stages)
  BY <1>n
<1>0. /\ ledger \in [Cases -> SUBSET Stages] /\ "started" \in ledger[n]
      /\ ledger[n] \cap {"skipped", "verdict_finalized"} = {} /\ stages \in SUBSET Stages
  BY <1>n, <1>s DEF Inv, TypeOK, Place, InCase, Stages
<1>1. /\ ledger'[n] = ledger[n] \cup stages
      /\ \A c \in Cases \ {n} : ledger'[c] = ledger[c]
  BY <1>0, <1>s, LogType
<1>2. RunStatus = "open" /\ RunStatus' = RunStatus
  BY DEF RunStatus
<1>3. CASE "verdict_finalized" \in stages
  <2>1. \A c \in Cases \ {n} : StatusOf(c)' = StatusOf(c)
    BY <1>1 DEF StatusOf
  <2>2. StatusOf(n) = "started" /\ StatusOf(n)' = "recorded"
    BY <1>0, <1>1, <1>3 DEF StatusOf
  <2>3. Promise!Move(n, "started", "recorded")
    BY <2>1, <2>2, <1>2, MovesOne
  <2>4. QED
    BY <1>2, <2>3, Vocabulary DEF Promise!PromiseNext, Promise!RecordCase, RunStatus
<1>4. CASE "verdict_finalized" \notin stages
  <2>1. \A c \in Cases : /\ (ledger'[c] = {}) <=> (ledger[c] = {})
                         /\ \A s \in {"verdict_finalized", "skipped", "started"} :
                               s \in ledger'[c] <=> s \in ledger[c]
    BY <1>0, <1>1, <1>s, <1>4
  <2>2. QED
    BY <1>2, <2>1, QuietMaps
<1>5. QED
  BY <1>3, <1>4

\* An exception or a kill breaks the run.
LEMMA EndMaps ==
    ASSUME Inv, pc \notin Ended, pc' \in {"failed", "killed"}, ledger' = ledger
    PROVE  [Promise!PromiseNext]_(Promise!promiseVars)
<1>1. RunStatus = "open" /\ RunStatus' = "broken"
  BY DEF RunStatus, Ended
<1>2. Statuses' = Statuses
  BY DEF Statuses, StatusOf
<1>3. Promise!BreakRun
  BY <1>1, <1>2 DEF Promise!BreakRun, Statuses, RunStatus
<1>4. QED
  BY <1>1, <1>3 DEF Promise!PromiseNext, RunStatus

\* A normal end leaves every case with its outcome.
LEMMA CompletionMaps ==
    ASSUME Inv, Finalize
    PROVE  [Promise!PromiseNext]_(Promise!promiseVars)
<1>1. RunStatus = "open" /\ RunStatus' = "complete"
  BY DEF Finalize, RunStatus
<1>2. Statuses' = Statuses
  BY DEF Finalize, Statuses, StatusOf
<1>3. \A c \in Cases : c <= read
  BY ConstantFacts DEF Finalize, Cases
<1>4. ASSUME NEW c \in Cases PROVE StatusOf(c) \notin {"unread", "started"}
  <2>1. ledger[c] # {} /\ ("started" \in ledger[c] => "verdict_finalized" \in ledger[c])
    BY <1>3 DEF Inv, Outcomes, Finalize, Dead, InCase, Recorded
  <2>2. QED
    BY <2>1, StatusFacts
<1>5. ASSUME NEW c \in Cases, InShard(c) PROVE StatusOf(c) \in {"skipped", "recorded"}
  <2>1. "verdict_finalized" \in ledger[c] \/ "skipped" \in ledger[c]
    BY <1>3, <1>5 DEF Inv, Outcomes, Finalize, Dead, InCase, Recorded
  <2>2. QED
    BY <2>1, StatusFacts
<1>6. Promise!CompleteRun
  BY <1>1, <1>2, <1>4, <1>5, Vocabulary DEF Promise!CompleteRun, Statuses, RunStatus
<1>7. QED
  BY <1>1, <1>6 DEF Promise!PromiseNext, RunStatus

\* A log of stages the lifecycle does not know of.
LEMMA StageMaps ==
    ASSUME Inv, pc \in InCase, RunStatus' = RunStatus, NEW stages \in SUBSET Stages, Log(read, stages),
           stages \cap {"skipped", "started", "verdict_finalized"} = {}
    PROVE  [Promise!PromiseNext]_(Promise!promiseVars)
<1>n. PICK n \in Cases : n = read
  BY DEF Inv, Place
<1>0. ledger \in [Cases -> SUBSET Stages] /\ ledger[n] # {}
  BY <1>n DEF Inv, TypeOK, Place
<1>1. /\ ledger'[n] = ledger[n] \cup stages
      /\ \A c \in Cases \ {n} : ledger'[c] = ledger[c]
  BY <1>0, <1>n, LogType
<1>2. \A c \in Cases : /\ (ledger'[c] = {}) <=> (ledger[c] = {})
                       /\ \A s \in {"verdict_finalized", "skipped", "started"} :
                             s \in ledger'[c] <=> s \in ledger[c]
  BY <1>0, <1>1
<1>3. QED
  BY <1>2, QuietMaps

\* What is left of an interrupted operation changes the lifecycle by a verdict at most.
LEMMA TornMaps ==
    ASSUME Inv, Torn
    PROVE  [Promise!PromiseNext]_(Promise!promiseVars)
<1>1. RunStatus' = "open" /\ RunStatus' = RunStatus
  BY DEF Torn, RunStatus, FinalizeTorn, CaseTorn
<1>2. CASE ledger' = ledger
  BY <1>1, <1>2, QuietMaps
<1>3. CASE ledger' # ledger
  <2>1. \/ pc = "record" /\ \E stages \in {{"artifact_finalized"}, {"artifact_finalized", "verdict_finalized"}} :
                               Log(read, stages)
        \/ pc \in {"decide", "analyze"} /\ \E stages \in
              {{}, {"selected"}, {"io_passthru_finished"}, {"io_passthru_finished", "oracle_collected"},
               {"io_passthru_finished", "oracle_collected", "cleanup_finished"}} : Log(read, stages)
    BY <1>3 DEF Torn, FinalizeTorn, CaseTorn, loopVars
  <2>2. CASE pc = "record"
    BY <1>1, <2>1, <2>2, RecordMaps
  <2>3. CASE pc # "record"
    <3>1. PICK stages \in {{}, {"selected"}, {"io_passthru_finished"},
              {"io_passthru_finished", "oracle_collected"},
              {"io_passthru_finished", "oracle_collected", "cleanup_finished"}} : Log(read, stages)
      BY <2>1, <2>3
    <3>2. stages \in SUBSET Stages /\ stages \cap {"skipped", "started", "verdict_finalized"} = {}
      BY <3>1 DEF Stages
    <3>n. PICK n \in Cases : n = read
      BY <2>1, <2>3 DEF Inv, Place, InCase
    <3>3. ledger \in [Cases -> SUBSET Stages] /\ ledger[n] # {}
      BY <2>1, <2>3, <3>n DEF Inv, TypeOK, Place, InCase
    <3>4. /\ ledger'[n] = ledger[n] \cup stages
          /\ \A c \in Cases \ {n} : ledger'[c] = ledger[c]
      BY <3>1, <3>2, <3>3, <3>n, LogType
    <3>5. \A c \in Cases : /\ (ledger'[c] = {}) <=> (ledger[c] = {})
                           /\ \A s \in {"verdict_finalized", "skipped", "started"} :
                                 s \in ledger'[c] <=> s \in ledger[c]
      BY <3>2, <3>3, <3>4
    <3>6. QED
      BY <1>1, <3>5, QuietMaps
  <2>4. QED
    BY <2>2, <2>3
<1>4. QED
  BY <1>2, <1>3

\* Every step of the run is a step of the promise or a stutter.
LEMMA StepMaps == Inv /\ [Next]_vars => [Promise!PromiseNext]_(Promise!promiseVars)
<1> SUFFICES ASSUME Inv, [Next]_vars PROVE [Promise!PromiseNext]_(Promise!promiseVars)
  OBVIOUS
<1>1. CASE ReadCase \/ SelectCase \/ Finalize \/ Torn
  BY <1>1, PlanMaps, StartMaps, CompletionMaps, TornMaps
<1>2. CASE SkipForLimit \/ SkipForFuse \/ StopForDisk
  <2>1. pc = "decide" /\ pc' = "read" /\ Log(read, {"skipped"})
    BY <1>2 DEF SkipForLimit, SkipForFuse, StopForDisk, Skip
  <2>2. QED
    BY <2>1, SkipMaps
<1>3. CASE BuildCommand \/ Announce \/ AnalyzeCase
  <2>1. /\ pc \in InCase /\ RunStatus' = RunStatus
        /\ \E stages \in {{"command_built"}, {"io_passthru_started"},
               {"io_passthru_finished", "oracle_collected", "cleanup_finished"}} : Log(read, stages)
    BY <1>3 DEF BuildCommand, Announce, AnalyzeCase, InCase, RunStatus
  <2>2. PICK stages \in {{"command_built"}, {"io_passthru_started"},
               {"io_passthru_finished", "oracle_collected", "cleanup_finished"}} : Log(read, stages)
    BY <2>1
  <2>3. stages \in SUBSET Stages /\ stages \cap {"skipped", "started", "verdict_finalized"} = {}
    BY <2>2, StageSets
  <2>4. QED
    BY <2>1, <2>2, <2>3, StageMaps
<1>4. CASE OpenCase
  <2>1. CASE dirs[DirOf[read]] = "none"
    <3>1. pc \in InCase /\ RunStatus' = RunStatus /\ Log(read, {"precheck_started"})
      BY <1>4, <2>1 DEF OpenCase, InCase, RunStatus
    <3>2. QED
      BY <3>1, StageMaps, StageSets
  <2>2. CASE dirs[DirOf[read]] # "none"
    BY <1>4, <2>2, EndMaps DEF OpenCase, Ended
  <2>3. QED
    BY <2>1, <2>2
<1>5. CASE RecordCase
  <2>1. pc = "record" /\ RunStatus' = "open" /\ Log(read, {"artifact_finalized", "verdict_finalized"})
    BY <1>5 DEF RecordCase, RunStatus
  <2>2. QED
    BY <2>1, RecordMaps
<1>6. CASE OtherShard \/ Pace \/ SendIo \/ UNCHANGED vars
  <2>1. ledger' = ledger /\ RunStatus' = RunStatus
    BY <1>6 DEF OtherShard, Pace, SendIo, vars, bookVars, RunStatus
  <2>2. QED
    BY <2>1, QuietMaps
<1>7. CASE Precheck
  <2>1. ledger' = ledger /\ pc = "precheck" /\ pc' \in {"read", "failed"}
    BY <1>7 DEF Precheck
  <2>2. CASE pc' = "read"
    BY <2>1, <2>2, QuietMaps DEF RunStatus
  <2>3. QED
    BY <2>1, <2>2, EndMaps DEF Ended
<1>8. CASE RunRaises \/ Kill
  BY <1>8, EndMaps DEF RunRaises, Kill, bookVars
<1>9. QED
  BY <1>1, <1>2, <1>3, <1>4, <1>5, <1>6, <1>7, <1>8 DEF Next, Stopped

\* The initial states map to the initial state of the promise.
LEMMA InitMaps == Init => Promise!PromiseInit
<1> SUFFICES ASSUME Init PROVE Promise!PromiseInit
  OBVIOUS
<1>1. \A c \in Cases : StatusOf(c) = "unread"
  BY DEF Init, StatusOf
<1>2. RunStatus = "open"
  BY DEF Init, RunStatus
<1>3. QED
  BY <1>1, <1>2, Vocabulary DEF Promise!PromiseInit, Statuses, RunStatus

\* The run keeps the promise of every orchestrator, although any exception ends it
\* without a finally clause: cases are read in order, started only before the
\* first skip, recorded once, and a normal end leaves none without its outcome.
THEOREM RunKeepsPromise == Spec => KeepsPromise
<1>1. QED
  BY Invariance, InitMaps, StepMaps, PTL DEF Spec, KeepsPromise, Promise!PromiseSpec
=============================================================================
