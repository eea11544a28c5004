---------------------------- MODULE TlsRunProofs ----------------------------
(***************************************************************************)
(* The safety of the TLS run loop, proved for every campaign, every shard, *)
(* every number of workers, every window and every limit.                  *)
(*                                                                         *)
(* The inductive invariant joins what the loop position says about the     *)
(* other variables (Control), the evidence behind a finished call          *)
(* (Evidence), the size of the window (Window), the stop flag (Stops), the *)
(* two books of a disk stop (DiskBooks), where every started case is       *)
(* (Accounted), and what the stop flag says of the limit (LimitBooks).     *)
(*                                                                         *)
(* Two parts follow that rest on it: that every step is one of             *)
(* CaseLifecycle, and that the counters of summary.json are the ledger's.  *)
(***************************************************************************)
EXTENDS TlsRun, TLAPS, FiniteSetTheorems

\* What the place of the main process in run() says about the rest.
Control ==
    /\ pc \in {"decide", "dispatch", "inline"} => read \in Cases
    /\ pc \in {"wait", "collect"} => Pooled
    /\ pc = "inline" => ~Pooled
    /\ ~Pooled => inflight = {}
    /\ pc \in {"dispatch", "inline"} => ~stopping
    /\ pc \in {"record", "tally"} /\ ~Pooled => ~stopping
    /\ pc \in {"record", "tally"} => cur \in Cases /\ job[cur] = "returned"
    /\ pc \in {"read", "decide", "dispatch", "inline", "wait", "collect"} => cur = 0
    /\ pc = "decide" => ledger[read] = {"planned"}
    /\ pc \in {"decide", "dispatch"} => job[read] = "none"
    /\ \A c \in Cases : c > read => ledger[c] = {} /\ job[c] = "none"
    /\ pc = "done" => ~aborted
    /\ pc = "finalize" /\ Pooled => JobsIn("queued") \cup JobsIn("running") = {}

\* A returned call has its verdict, a verdict its summary.json, and a recorded
\* case has returned.
Evidence ==
    /\ \A c \in Cases : job[c] = "returned" => verdict[c] # "none"
    /\ \A c \in Cases : verdict[c] # "none" => dirs[CaseIndex[c]] = "summary"
    /\ \A c \in Recorded : job[c] = "returned"

\* The window has room wherever the loop can go on to submit.
Window ==
    /\ Cardinality(inflight) <= MaxInflight
    /\ pc \in {"read", "decide", "dispatch", "inline", "record", "tally"} =>
          Cardinality(inflight) < MaxInflight
    /\ pc = "collect" /\ batch = {} => Cardinality(inflight) < MaxInflight

\* A skipped case means the stop flag is up.
Stops ==
    /\ \A c \in Cases : "skipped" \in ledger[c] => stopping
    /\ StopIsFinal

\* Until an exception, the disk stop is in both books or in neither.
DiskBooks ==
    ~aborted =>
        /\ (fatal = "none") <=> (skips["disk budget exhausted"] = 0)
        /\ skips["disk budget exhausted"] <= 1
        /\ fatal # "none" => stopping

\* A recorded or a started case is never lost while nothing has gone wrong.
Accounted ==
    /\ pc = "tally" => cur \in Recorded
    /\ NoCaseForgotten

\* While the stop flag is down the limit leaves room for the next selection.
Room == selected = 0 \/ selected < Limit
LimitBooks ==
    /\ LimitRespected
    /\ Limit # NoLimit /\ ~stopping /\
       (pc \in {"read", "decide", "wait", "collect"} \/ (Pooled /\ pc \in {"record", "tally"})) => Room

IInv == TypeOK /\ Control /\ Evidence /\ Window /\ Stops /\ DiskBooks /\ Accounted
        /\ LimitBooks
-----------------------------------------------------------------------------
\* The steps of the calls, which leave the main process alone.
CallStep ==
    \/ \E c \in Cases : WorkerTakes(c) \/ CaseStep(c) \/ CaseRaises(c)
    \/ PoolBreaks

\* The window holds at least one call.
LEMMA MaxInflightPositive == MaxInflight \in Nat \ {0}
  BY ConfigAssumption DEF MaxInflight

\* The invariant holds when the loop starts.
LEMMA InitIInv == Init => IInv
<1> SUFFICES ASSUME Init PROVE IInv
  OBVIOUS
<1>a. /\ pc = "read" /\ aborted = FALSE /\ stopping = FALSE /\ broken = FALSE
      /\ read = 0 /\ selected = 0 /\ executed = 0 /\ cur = 0
      /\ inflight = {} /\ batch = {} /\ fatal = "none"
  BY DEF Init
<1>b. /\ job = [c \in Cases |-> "none"] /\ verdict = [c \in Cases |-> "none"]
      /\ ledger = [c \in Cases |-> {}]
      /\ counted = [v \in Verdicts |-> 0] /\ skips = [r \in SkipReasons |-> 0]
  BY DEF Init
<1>1. TypeOK
  <2>1. dirs \in [Indices -> DirStates]
    BY DEF Init, DirStates
  <2>2. files \subseteq RunFiles
    BY DEF Init, RunFiles
  <2>3. /\ job \in [Cases -> JobStates] /\ ledger \in [Cases -> SUBSET Stages]
        /\ skips \in [SkipReasons -> Nat] /\ counted \in [Verdicts -> Nat]
        /\ verdict \in [Cases -> Verdicts \cup {"none"}]
    BY <1>b DEF JobStates
  <2>4. /\ aborted \in BOOLEAN /\ stopping \in BOOLEAN /\ broken \in BOOLEAN
    BY <1>a
  <2>5. read \in 0..NCases /\ selected \in Nat /\ executed \in Nat
    BY <1>a, CampaignAssumption
  <2> QED
    BY <1>a, <2>1, <2>2, <2>3, <2>4, <2>5 DEF TypeOK
<1>2. Control /\ Evidence
  BY <1>a, <1>b DEF Control, Evidence, JobsIn, Recorded
<1>3. Window
  BY <1>a, FS_EmptySet, MaxInflightPositive DEF Window
<1>4. Stops /\ DiskBooks
  <2>1. skips["disk budget exhausted"] = 0
    BY <1>b DEF SkipReasons
  <2>2. skips["disk budget exhausted"] <= 1
    <3>1. 0 <= 1
      OBVIOUS
    <3> QED
      BY <2>1, <3>1, Zenon
  <2> QED
    BY <1>a, <1>b, <2>1, <2>2 DEF Stops, StopIsFinal, DiskBooks
<1>5. Accounted
  BY <1>a, <1>b DEF Accounted, NoCaseForgotten, StartedCases
<1>6. LimitBooks
  BY <1>a, ConfigAssumption DEF LimitBooks, LimitRespected, Room
<1> QED
  BY <1>1, <1>2, <1>3, <1>4, <1>5, <1>6 DEF IInv
-----------------------------------------------------------------------------
\* Appending known stages keeps the ledger a ledger.
LEMMA AppendType ==
    ASSUME ledger \in [Cases -> SUBSET Stages],
           NEW c, NEW stages \in SUBSET Stages, Log(c, stages)
    PROVE  ledger' \in [Cases -> SUBSET Stages]
  BY DEF Log

\* A counter array stays one when an entry is incremented.
LEMMA IncType ==
    ASSUME NEW S, NEW f \in [S -> Nat], NEW x
    PROVE  Inc(f, x) \in [S -> Nat]
<1>1. ASSUME NEW y \in S PROVE Inc(f, x)[y] \in Nat
  BY <1>1 DEF Inc
<1> QED
  BY <1>1 DEF Inc

\* The stages the operations log are stages of the ledger.
LEMMA StagesType ==
    /\ {"planned"} \in SUBSET Stages /\ {"skipped"} \in SUBSET Stages
    /\ StartStages \in SUBSET Stages /\ VerdictStages \in SUBSET Stages
    /\ {} \in SUBSET Stages /\ {"selected"} \in SUBSET Stages
    /\ {"selected", "started"} \in SUBSET Stages
  BY DEF Stages, StartStages, VerdictStages

\* Every step keeps the types.
LEMMA TypeStep ==
    ASSUME TypeOK, Control, [Next]_vars
    PROVE  TypeOK'
<1> USE CampaignAssumption DEF TypeOK
<1>1. CASE ReadCase
  <2>1. ledger' \in [Cases -> SUBSET Stages]
    BY <1>1, AppendType, StagesType DEF ReadCase
  <2> QED
    BY <1>1, <2>1 DEF ReadCase, jobVars, endVars
<1>2. CASE PassOver
  <2>1. ledger' \in [Cases -> SUBSET Stages]
    BY <1>2, AppendType, StagesType DEF PassOver
  <2>2. Inc(skips, "limit reached") \in [SkipReasons -> Nat]
    BY IncType
  <2> QED
    BY <1>2, <2>1, <2>2 DEF PassOver, jobVars, endVars, loopVars
<1>3. CASE StopForDisk
  <2>1. ledger' \in [Cases -> SUBSET Stages]
    BY <1>3, AppendType, StagesType DEF StopForDisk
  <2>2. Inc(skips, "disk budget exhausted") \in [SkipReasons -> Nat]
    BY IncType
  <2> QED
    BY <1>3, <2>1, <2>2 DEF StopForDisk, jobVars, endVars
<1>4. CASE SelectCase
  <2>1. ledger' \in [Cases -> SUBSET Stages]
    BY <1>4, AppendType, StagesType DEF SelectCase
  <2> QED
    BY <1>4, <2>1 DEF SelectCase, jobVars, endVars
<1>5. CASE Submit
  BY <1>5 DEF Submit, Control, LimitHit, JobStates, bookVars, endVars
<1>6. CASE SubmitRaises
  BY <1>6 DEF SubmitRaises, bookVars, jobVars, endVars, loopVars
<1>7. CASE CallInline
  BY <1>7 DEF CallInline, JobStates, bookVars, endVars, loopVars
<1>8. CASE InlineReturned
  <2>1. Inc(counted, verdict[read]) \in [Verdicts -> Nat]
    BY IncType
  <2> QED
    BY <1>8, <2>1 DEF InlineReturned, BeginRecord, Control, jobVars, endVars
<1>9. CASE InlineRaised
  BY <1>9 DEF InlineRaised, Abort, bookVars, jobVars, endVars, loopVars
<1>10. CASE Wait
  BY <1>10 DEF Wait, bookVars, jobVars, endVars
<1>11. ASSUME NEW c \in Cases, Collect(c) PROVE TypeOK'
  <2>1. Inc(counted, verdict[c]) \in [Verdicts -> Nat]
    BY IncType
  <2> QED
    BY <1>11, <2>1 DEF Collect, BeginRecord, jobVars, endVars
<1>12. CASE BatchDone
  BY <1>12 DEF BatchDone, bookVars, jobVars, endVars, loopVars
<1>13. CASE AppendVerdict
  <2>1. ledger' \in [Cases -> SUBSET Stages]
    BY <1>13, AppendType, StagesType DEF AppendVerdict
  <2> QED
    BY <1>13, <2>1 DEF AppendVerdict, jobVars, endVars, loopVars
<1>14. CASE Tally
  <2>1. stopping' \in BOOLEAN
    BY <1>14 DEF Tally, LimitHit
  <2> QED
    BY <1>14, <2>1 DEF Tally, bookVars, jobVars, endVars
<1>15. CASE LoopEnds
  BY <1>15 DEF LoopEnds, bookVars, jobVars, endVars, loopVars
<1>16. CASE Shutdown
  BY <1>16 DEF Shutdown, bookVars, jobVars, endVars, loopVars
<1>17. CASE Finalize
  BY <1>17 DEF Finalize, Ended, RunFiles, bookVars, jobVars, loopVars
<1>18. CASE FinalizeFails
  BY <1>18 DEF FinalizeFails, Ended, RunFiles, endVars, bookVars, jobVars, loopVars
<1>19. CASE LoopRaises
  BY <1>19 DEF LoopRaises, Abort, bookVars, jobVars, endVars, loopVars
<1>20. CASE PlanTorn
  BY <1>20 DEF PlanTorn, Abort, bookVars, jobVars, endVars
<1>21. CASE SkipTorn
  <2>1. Inc(skips, "limit reached") \in [SkipReasons -> Nat]
    BY IncType
  <2>2. Inc(skips, "disk budget exhausted") \in [SkipReasons -> Nat]
    BY IncType
  <2> QED
    BY <1>21, <2>1, <2>2 DEF SkipTorn, Abort, jobVars, endVars, loopVars
<1>22. CASE SelectTorn
  <2>1. ledger' \in [Cases -> SUBSET Stages]
    BY <1>22, AppendType, StagesType DEF SelectTorn
  <2> QED
    BY <1>22, <2>1 DEF SelectTorn, Abort, jobVars, endVars
<1>23. CASE Kill
  BY <1>23 DEF Kill, Ended, JobStates, bookVars, endVars, loopVars
<1>24. CASE \E c \in Cases : WorkerTakes(c)
  BY <1>24 DEF WorkerTakes, JobStates, bookVars, endVars, loopVars
<1>25. CASE \E c \in Cases : CaseStep(c)
  <2>1. dirs' \in [Indices -> DirStates]
    BY <1>25 DEF CaseStep, CaseOpens, CaseConcludes, CaseReturns, DirStates, Indices
  <2>2. verdict' \in [Cases -> Verdicts \cup {"none"}]
    BY <1>25 DEF CaseStep, CaseOpens, CaseConcludes, CaseReturns
  <2>3. job' \in [Cases -> JobStates]
    BY <1>25 DEF JobStates, CaseStep, CaseOpens, CaseConcludes, CaseReturns
  <2> QED
    BY <1>25, <2>1, <2>2, <2>3 DEF CaseStep, CaseOpens, CaseConcludes,
       CaseReturns, bookVars, endVars, loopVars
<1>26. CASE \E c \in Cases : CaseRaises(c)
  BY <1>26 DEF CaseRaises, DirStates, Indices, JobStates, bookVars, endVars, loopVars
<1>27. CASE PoolBreaks
  BY <1>27 DEF PoolBreaks, JobStates, bookVars, endVars, loopVars
<1>28. CASE UNCHANGED vars
  BY <1>28 DEF vars, bookVars, jobVars, endVars, loopVars
<1> QED
  BY <1>1, <1>2, <1>3, <1>4, <1>5, <1>6, <1>7, <1>8, <1>9, <1>10, <1>11, <1>12,
     <1>13, <1>14, <1>15, <1>16, <1>17, <1>18, <1>19, <1>20, <1>21, <1>22, <1>23,
     <1>24, <1>25, <1>26, <1>27, <1>28
  DEF Next, MainStep, Failure, Stopped

\* The index of a case is one of the indices of the campaign.
LEMMA IndexType == \A c \in Cases : CaseIndex[c] \in Indices
  BY DEF Indices

\* What logging stages for a case does to the entries of every case.
LEMMA LogEffect ==
    ASSUME ledger \in [Cases -> SUBSET Stages], NEW n, NEW stages, Log(n, stages)
    PROVE  \A c \in Cases : \A s :
              s \in ledger'[c] <=> s \in ledger[c] \/ (c = n /\ s \in stages)
  BY DEF Log

\* Every step keeps the evidence behind verdicts and returned calls.
LEMMA EvidenceStep ==
    ASSUME TypeOK, Control, Evidence, [Next]_vars
    PROVE  Evidence'
<1> USE DEF TypeOK, Control, Evidence, Recorded
<1>1. CASE ReadCase
  BY <1>1 DEF ReadCase, Log, jobVars, endVars
<1>2. CASE PassOver
  <2>1. UNCHANGED <<job, verdict, dirs>>
    BY <1>2 DEF PassOver, jobVars
  <2>2. \A c \in Cases : "verdict_finalized" \in ledger'[c] => "verdict_finalized" \in ledger[c]
    <3>1. CASE stopping
      <4>1. Log(read, {"skipped"})
        BY <1>2, <3>1 DEF PassOver
      <4> QED
        BY <4>1, LogEffect
    <3>2. CASE ~stopping
      BY <1>2, <3>2 DEF PassOver
    <3> QED
      BY <3>1, <3>2
  <2> QED
    BY <2>1, <2>2
<1>3. CASE StopForDisk
  BY <1>3 DEF StopForDisk, Log, Inc, jobVars, endVars
<1>4. CASE SelectCase
  BY <1>4 DEF SelectCase, Log, StartStages, jobVars, endVars
<1>5. CASE Submit
  BY <1>5 DEF Submit, bookVars, endVars
<1>6. CASE SubmitRaises
  BY <1>6 DEF SubmitRaises, bookVars, jobVars, endVars, loopVars
<1>7. CASE CallInline
  BY <1>7 DEF CallInline, bookVars, endVars, loopVars
<1>8. CASE InlineReturned
  BY <1>8 DEF InlineReturned, BeginRecord, jobVars, endVars
<1>9. CASE InlineRaised
  BY <1>9 DEF InlineRaised, Abort, bookVars, jobVars, endVars, loopVars
<1>10. CASE Wait
  BY <1>10 DEF Wait, bookVars, jobVars, endVars
<1>11. ASSUME NEW c \in Cases, Collect(c) PROVE Evidence'
  BY <1>11 DEF Collect, BeginRecord, jobVars, endVars
<1>12. CASE BatchDone
  BY <1>12 DEF BatchDone, bookVars, jobVars, endVars, loopVars
<1>13. CASE AppendVerdict
  BY <1>13 DEF AppendVerdict, Log, VerdictStages, jobVars, endVars, loopVars
<1>14. CASE Tally
  BY <1>14 DEF Tally, bookVars, jobVars, endVars
<1>15. CASE LoopEnds
  BY <1>15 DEF LoopEnds, bookVars, jobVars, endVars, loopVars
<1>16. CASE Shutdown
  BY <1>16 DEF Shutdown, bookVars, jobVars, endVars, loopVars
<1>17. CASE Finalize
  BY <1>17 DEF Finalize, bookVars, jobVars, loopVars
<1>18. CASE FinalizeFails
  BY <1>18 DEF FinalizeFails, endVars, bookVars, jobVars, loopVars
<1>19. CASE LoopRaises
  BY <1>19 DEF LoopRaises, Abort, bookVars, jobVars, endVars, loopVars
<1>20. CASE PlanTorn
  BY <1>20 DEF PlanTorn, Abort, bookVars, jobVars, endVars
<1>21. CASE SkipTorn
  BY <1>21 DEF SkipTorn, Abort, Inc, jobVars, endVars, loopVars
<1>22. CASE SelectTorn
  BY <1>22 DEF SelectTorn, Abort, Log, jobVars, endVars
<1>23. CASE Kill
  BY <1>23 DEF Kill, bookVars, endVars, loopVars
<1>24. ASSUME NEW c \in Cases, WorkerTakes(c) PROVE Evidence'
  BY <1>24 DEF WorkerTakes, bookVars, endVars, loopVars
<1>25. ASSUME NEW c \in Cases, CaseOpens(c) PROVE Evidence'
  BY <1>25 DEF CaseOpens, bookVars, endVars, loopVars
<1>26. ASSUME NEW c \in Cases, CaseConcludes(c) PROVE Evidence'
  <2>1. UNCHANGED <<job, ledger>>
    BY <1>26 DEF CaseConcludes, bookVars
  <2>2. \A d \in Cases : verdict'[d] # "none" => verdict[d] # "none" \/ d = c
    BY <1>26 DEF CaseConcludes
  <2>3. \A d \in Cases : verdict[d] # "none" => verdict'[d] # "none"
    BY <1>26 DEF CaseConcludes
  <2>4. \A i \in Indices : dirs'[i] = IF i = CaseIndex[c] THEN "summary" ELSE dirs[i]
    BY <1>26, IndexType DEF CaseConcludes
  <2> QED
    BY <2>1, <2>2, <2>3, <2>4, IndexType
<1>27. ASSUME NEW c \in Cases, CaseReturns(c) PROVE Evidence'
  BY <1>27 DEF CaseReturns, bookVars, endVars, loopVars
<1>28. ASSUME NEW c \in Cases, CaseRaises(c) PROVE Evidence'
  <2>1. UNCHANGED <<verdict, ledger>>
    BY <1>28 DEF CaseRaises, bookVars
  <2>2. \A d \in Cases : job'[d] = "returned" <=> job[d] = "returned"
    BY <1>28 DEF CaseRaises, Runs
  <2>3. \A i \in Indices : dirs[i] = "summary" => dirs'[i] = "summary"
    BY <1>28, IndexType DEF CaseRaises
  <2> QED
    BY <2>1, <2>2, <2>3, IndexType
<1>29. CASE PoolBreaks
  BY <1>29 DEF PoolBreaks, bookVars, endVars, loopVars, JobsIn
<1>30. CASE UNCHANGED vars
  BY <1>30 DEF vars, bookVars, jobVars, endVars, loopVars
<1> QED
  BY <1>1, <1>2, <1>3, <1>4, <1>5, <1>6, <1>7, <1>8, <1>9, <1>10, <1>11,
     <1>12, <1>13, <1>14, <1>15, <1>16, <1>17, <1>18, <1>19, <1>20,
     <1>21, <1>22, <1>23, <1>24, <1>25, <1>26, <1>27, <1>28, <1>29,
     <1>30
  DEF Next, MainStep, Failure, Stopped, CaseStep

\* Every step keeps what the place of the main process says of the rest.
LEMMA ControlStep ==
    ASSUME TypeOK, Control, Evidence, [Next]_vars
    PROVE  Control'
<1> USE CampaignAssumption DEF TypeOK, Control, JobsIn, Cases
<1>1. CASE ReadCase
  BY <1>1 DEF ReadCase, Log, jobVars, endVars
<1>2. CASE PassOver
  BY <1>2 DEF PassOver, Log, Inc, jobVars, endVars, loopVars
<1>3. CASE StopForDisk
  BY <1>3 DEF StopForDisk, Log, Inc, jobVars, endVars
<1>4. CASE SelectCase
  BY <1>4 DEF SelectCase, Log, StartStages, jobVars, endVars
<1>5. CASE Submit
  BY <1>5 DEF Submit, bookVars, endVars
<1>6. CASE SubmitRaises
  BY <1>6 DEF SubmitRaises, bookVars, jobVars, endVars, loopVars
<1>7. CASE CallInline
  BY <1>7 DEF CallInline, bookVars, endVars, loopVars
<1>8. CASE InlineReturned
  BY <1>8 DEF InlineReturned, BeginRecord, jobVars, endVars
<1>9. CASE InlineRaised
  BY <1>9 DEF InlineRaised, Abort, bookVars, jobVars, endVars, loopVars
<1>10. CASE Wait
  BY <1>10 DEF Wait, bookVars, jobVars, endVars
<1>11. ASSUME NEW c \in Cases, Collect(c) PROVE Control'
  BY <1>11 DEF Collect, BeginRecord, jobVars, endVars
<1>12. CASE BatchDone
  BY <1>12 DEF BatchDone, bookVars, jobVars, endVars, loopVars
<1>13. CASE AppendVerdict
  BY <1>13 DEF AppendVerdict, Log, VerdictStages, jobVars, endVars, loopVars
<1>14. CASE Tally
  BY <1>14 DEF Tally, bookVars, jobVars, endVars
<1>15. CASE LoopEnds
  BY <1>15 DEF LoopEnds, bookVars, jobVars, endVars, loopVars
<1>16. CASE Shutdown
  BY <1>16 DEF Shutdown, bookVars, jobVars, endVars, loopVars
<1>17. CASE Finalize
  BY <1>17 DEF Finalize, bookVars, jobVars, loopVars
<1>18. CASE FinalizeFails
  BY <1>18 DEF FinalizeFails, endVars, bookVars, jobVars, loopVars
<1>19. CASE LoopRaises
  BY <1>19 DEF LoopRaises, Abort, bookVars, jobVars, endVars, loopVars
<1>20. CASE PlanTorn
  BY <1>20 DEF PlanTorn, Abort, bookVars, jobVars, endVars
<1>21. CASE SkipTorn
  BY <1>21 DEF SkipTorn, Abort, Inc, jobVars, endVars, loopVars
<1>22. CASE SelectTorn
  BY <1>22 DEF SelectTorn, Abort, Log, jobVars, endVars
<1>23. CASE Kill
  BY <1>23 DEF Kill, bookVars, endVars, loopVars
<1>24. ASSUME NEW c \in Cases, WorkerTakes(c) PROVE Control'
  BY <1>24 DEF WorkerTakes, bookVars, endVars, loopVars
<1>25. ASSUME NEW c \in Cases, CaseOpens(c) PROVE Control'
  BY <1>25 DEF CaseOpens, bookVars, endVars, loopVars
<1>26. ASSUME NEW c \in Cases, CaseConcludes(c) PROVE Control'
  BY <1>26 DEF CaseConcludes, bookVars, endVars, loopVars
<1>27. ASSUME NEW c \in Cases, CaseReturns(c) PROVE Control'
  <2>1. job[c] = "running" /\ job'[c] = "returned" /\ \A d \in Cases : d # c => job'[d] = job[d]
    BY <1>27 DEF CaseReturns, Runs
  <2>2. UNCHANGED <<pc, aborted, read, stopping, cur, inflight, ledger>>
    BY <1>27 DEF CaseReturns, loopVars, bookVars
  <2> QED
    BY <2>1, <2>2
<1>28. ASSUME NEW c \in Cases, CaseRaises(c) PROVE Control'
  <2>1. job[c] = "running" /\ job'[c] = "raised" /\ \A d \in Cases : d # c => job'[d] = job[d]
    BY <1>28 DEF CaseRaises, Runs
  <2>2. UNCHANGED <<pc, aborted, read, stopping, cur, inflight, ledger>>
    BY <1>28 DEF CaseRaises, loopVars, bookVars
  <2> QED
    BY <2>1, <2>2
<1>29. CASE PoolBreaks
  BY <1>29 DEF PoolBreaks, bookVars, endVars, loopVars
<1>30. CASE UNCHANGED vars
  BY <1>30 DEF vars, bookVars, jobVars, endVars, loopVars
<1> QED
  BY <1>1, <1>2, <1>3, <1>4, <1>5, <1>6, <1>7, <1>8, <1>9, <1>10, <1>11,
     <1>12, <1>13, <1>14, <1>15, <1>16, <1>17, <1>18, <1>19, <1>20,
     <1>21, <1>22, <1>23, <1>24, <1>25, <1>26, <1>27, <1>28, <1>29,
     <1>30
  DEF Next, MainStep, Failure, Stopped, CaseStep

\* While a case is being decided on, neither it nor a later one is started.
LEMMA DecideFresh ==
    ASSUME TypeOK, Control, pc = "decide"
    PROVE  \A c \in Cases : read <= c => "started" \notin ledger[c]
<1> SUFFICES ASSUME NEW c \in Cases, read <= c PROVE "started" \notin ledger[c]
  OBVIOUS
<1>1. CASE c = read
  BY <1>1 DEF Control
<1>2. CASE c # read
  <2>1. c > read
    BY <1>2, CampaignAssumption DEF TypeOK, Cases
  <2> QED
    BY <2>1 DEF Control
<1> QED
  BY <1>1, <1>2

\* Arithmetic that first-order steps cite.
LEMMA SmallNumbers == 0 + 1 = 1 /\ 1 <= 1 /\ 1 # 0
  OBVIOUS

\* The window is a finite set, so that its size is a number.
LEMMA WindowFinite ==
    ASSUME TypeOK
    PROVE  IsFiniteSet(inflight) /\ Cardinality(inflight) \in Nat
<1>1. IsFiniteSet(Cases)
  BY CampaignAssumption, FS_Interval DEF Cases
<1> QED
  BY <1>1, FS_Subset, FS_CardinalityType DEF TypeOK

\* Every step keeps the window within its size.
LEMMA WindowStep ==
    ASSUME TypeOK, Control, Window, [Next]_vars
    PROVE  Window'
<1> USE DEF TypeOK, Control, Window
<1>1. CASE ReadCase \/ PassOver \/ StopForDisk \/ SelectCase
  BY <1>1 DEF ReadCase, PassOver, StopForDisk, SelectCase, jobVars,
     endVars, loopVars
<1>2. CASE Submit
  <2>1. Cardinality(inflight \cup {read}) <= Cardinality(inflight) + 1
    <3>1. Cardinality(inflight \cup {read}) \in {Cardinality(inflight), Cardinality(inflight) + 1}
      BY WindowFinite, FS_AddElement
    <3> QED
      BY <3>1, WindowFinite
  <2>2. Cardinality(inflight) < MaxInflight
    BY <1>2 DEF Submit
  <2>3. Cardinality(inflight \cup {read}) \in Nat
    BY WindowFinite, FS_AddElement, FS_CardinalityType
  <2>4. /\ inflight' = inflight \cup {read}
        /\ pc' = IF Cardinality(inflight \cup {read}) >= MaxInflight THEN "wait" ELSE "read"
    BY <1>2 DEF Submit
  <2> QED
    BY <2>1, <2>2, <2>3, <2>4, WindowFinite, MaxInflightPositive
<1>3. CASE SubmitRaises \/ CallInline \/ InlineReturned \/ InlineRaised
  BY <1>3 DEF SubmitRaises, CallInline, InlineReturned, InlineRaised,
     bookVars, jobVars, endVars, loopVars, BeginRecord, Abort
<1>4. CASE Wait
  <2>1. inflight' = inflight /\ pc' = "collect" /\ batch' # {}
    BY <1>4 DEF Wait
  <2> QED
    BY <2>1
<1>5. ASSUME NEW c \in Cases, Collect(c) PROVE Window'
  <2>1. c \in inflight /\ inflight' = inflight \ {c} /\ pc' \in {"record", "shutdown"}
    BY <1>5 DEF Collect, BeginRecord
  <2>2. Cardinality(inflight \ {c}) = Cardinality(inflight) - 1
    BY <2>1, WindowFinite, FS_RemoveElement
  <2> QED
    BY <2>1, <2>2, WindowFinite, MaxInflightPositive
<1>6. CASE BatchDone \/ AppendVerdict \/ Tally \/ LoopEnds \/ Shutdown \/
          Finalize \/ FinalizeFails
  BY <1>6 DEF BatchDone, AppendVerdict, Tally, LoopEnds, Shutdown,
     Finalize, FinalizeFails, bookVars, jobVars, endVars, loopVars
<1>7. CASE LoopRaises \/ PlanTorn \/ SkipTorn \/ SelectTorn \/ Kill
  BY <1>7 DEF LoopRaises, PlanTorn, SkipTorn, SelectTorn, Kill, Abort,
     bookVars, jobVars, endVars, loopVars
<1>8. CASE (\E c \in Cases : WorkerTakes(c)) \/
          (\E c \in Cases : CaseOpens(c)) \/
          (\E c \in Cases : CaseConcludes(c)) \/
          (\E c \in Cases : CaseReturns(c)) \/
          (\E c \in Cases : CaseRaises(c)) \/ PoolBreaks \/
          UNCHANGED vars
  BY <1>8 DEF WorkerTakes, CaseOpens, CaseConcludes, CaseReturns,
     CaseRaises, PoolBreaks, vars, bookVars, endVars, loopVars, jobVars
<1> QED
  BY <1>1, <1>2, <1>3, <1>4, <1>5, <1>6, <1>7, <1>8
  DEF Next, MainStep, Failure, Stopped, CaseStep

\* Every step keeps the stop flag final.
LEMMA StopsStep ==
    ASSUME TypeOK, Control, Stops, [Next]_vars
    PROVE  Stops'
<1> USE DEF TypeOK, Control, Stops, StopIsFinal, Cases
<1>1. CASE ReadCase
  BY <1>1 DEF ReadCase, Log, jobVars, endVars
<1>2. CASE PassOver
  <2>1. CASE stopping
    <3>1. Log(read, {"skipped"}) /\ UNCHANGED <<stopping, read, aborted, inflight, cur>> /\ pc' = "read"
      BY <1>2, <2>1 DEF PassOver, loopVars
    <3>2. /\ \A c \in Cases : "skipped" \in ledger'[c] => "skipped" \in ledger[c] \/ c = read
          /\ \A c \in Cases : "started" \in ledger'[c] <=> "started" \in ledger[c]
          /\ \A c \in Cases : "verdict_finalized" \in ledger'[c] <=> "verdict_finalized" \in ledger[c]
      BY <3>1, LogEffect
    <3>3. \A c \in Cases : read <= c => "started" \notin ledger[c]
      BY <1>2, DecideFresh DEF PassOver
    <3> QED
      BY <1>2, <2>1, <3>1, <3>2, <3>3 DEF PassOver
  <2>2. CASE ~stopping
    BY <1>2, <2>2 DEF PassOver, loopVars
  <2> QED
    BY <2>1, <2>2
<1>3. CASE StopForDisk
  <2>1. Log(read, {"skipped"}) /\ stopping'
    BY <1>3 DEF StopForDisk
  <2>2. \A c \in Cases : read <= c => "started" \notin ledger[c]
    BY <1>3, DecideFresh DEF StopForDisk
  <2> QED
    BY <2>1, <2>2, LogEffect
<1>4. CASE SelectCase
  BY <1>4 DEF SelectCase, Log, StartStages, jobVars, endVars
<1>5. CASE Submit
  BY <1>5 DEF Submit, bookVars, endVars
<1>6. CASE SubmitRaises \/ CallInline \/ InlineReturned \/ InlineRaised \/
          Wait
  BY <1>6 DEF SubmitRaises, CallInline, InlineReturned, InlineRaised,
     Wait, bookVars, jobVars, endVars, loopVars, BeginRecord, Abort
<1>7. ASSUME NEW c \in Cases, Collect(c) PROVE Stops'
  BY <1>7 DEF Collect, BeginRecord, jobVars, endVars
<1>8. CASE BatchDone \/ LoopEnds \/ Shutdown \/ Finalize \/ FinalizeFails
  BY <1>8 DEF BatchDone, LoopEnds, Shutdown, Finalize, FinalizeFails,
     bookVars, jobVars, endVars, loopVars
<1>9. CASE AppendVerdict
  BY <1>9 DEF AppendVerdict, Log, VerdictStages, jobVars, endVars, loopVars
<1>10. CASE Tally
  BY <1>10 DEF Tally, bookVars, jobVars, endVars
<1>11. CASE LoopRaises \/ PlanTorn \/ SkipTorn
  BY <1>11 DEF LoopRaises, PlanTorn, SkipTorn, Abort, bookVars, jobVars,
     endVars, loopVars
<1>12. CASE SelectTorn
  BY <1>12 DEF SelectTorn, Abort, Log, jobVars, endVars
<1>13. CASE Kill
  BY <1>13 DEF Kill, bookVars, jobVars, endVars, loopVars
<1>14. CASE (\E c \in Cases : WorkerTakes(c)) \/
          (\E c \in Cases : CaseOpens(c)) \/
          (\E c \in Cases : CaseConcludes(c)) \/
          (\E c \in Cases : CaseReturns(c)) \/
          (\E c \in Cases : CaseRaises(c)) \/ PoolBreaks \/
          UNCHANGED vars
  BY <1>14 DEF WorkerTakes, CaseOpens, CaseConcludes, CaseReturns,
     CaseRaises, PoolBreaks, vars, bookVars, endVars, loopVars, jobVars
<1> QED
  BY <1>1, <1>2, <1>3, <1>4, <1>5, <1>6, <1>7, <1>8, <1>9, <1>10, <1>11,
     <1>12, <1>13, <1>14
  DEF Next, MainStep, Failure, Stopped, CaseStep

\* Every step keeps the two books of a disk stop together.
LEMMA DiskBooksStep ==
    ASSUME TypeOK, Control, DiskBooks, [Next]_vars
    PROVE  DiskBooks'
<1> USE DEF TypeOK, Control, DiskBooks, SkipReasons
<1>1. CASE ReadCase
  BY <1>1 DEF ReadCase, jobVars, endVars
<1>2. CASE PassOver
  BY <1>2 DEF PassOver, Inc, jobVars, endVars, loopVars
<1>3. CASE StopForDisk
  <2>1. /\ aborted' = aborted /\ stopping' /\ fatal' = "disk_budget_exhausted"
        /\ ~stopping /\ skips' = Inc(skips, "disk budget exhausted")
    BY <1>3 DEF StopForDisk
  <2>2. skips'["disk budget exhausted"] = skips["disk budget exhausted"] + 1
    BY <2>1 DEF Inc
  <2>3. ASSUME ~aborted PROVE skips["disk budget exhausted"] = 0
    BY <2>1, <2>3
  <2>4. ASSUME ~aborted PROVE skips'["disk budget exhausted"] = 1
    BY <2>2, <2>3, <2>4, SmallNumbers, Zenon
  <2> QED
    BY <2>1, <2>4, SmallNumbers, Zenon DEF DiskBooks
<1>4. CASE SelectCase
  BY <1>4 DEF SelectCase, jobVars, endVars
<1>5. CASE Submit
  BY <1>5 DEF Submit, bookVars, endVars
<1>6. CASE SubmitRaises \/ CallInline \/ InlineReturned \/ InlineRaised \/
          Wait
  BY <1>6 DEF SubmitRaises, CallInline, InlineReturned, InlineRaised,
     Wait, bookVars, jobVars, endVars, loopVars, BeginRecord, Abort
<1>7. ASSUME NEW c \in Cases, Collect(c) PROVE DiskBooks'
  BY <1>7 DEF Collect, BeginRecord, jobVars, endVars
<1>8. CASE BatchDone \/ LoopEnds \/ Shutdown \/ Finalize \/ FinalizeFails
  BY <1>8 DEF BatchDone, LoopEnds, Shutdown, Finalize, FinalizeFails,
     bookVars, jobVars, endVars, loopVars
<1>9. CASE AppendVerdict
  BY <1>9 DEF AppendVerdict, jobVars, endVars, loopVars
<1>10. CASE Tally
  BY <1>10 DEF Tally, bookVars, jobVars, endVars
<1>11. CASE LoopRaises \/ PlanTorn \/ SkipTorn \/ SelectTorn \/ Kill
  BY <1>11 DEF LoopRaises, PlanTorn, SkipTorn, SelectTorn, Kill, Abort,
     bookVars, jobVars, endVars, loopVars, Inc
<1>12. CASE (\E c \in Cases : WorkerTakes(c)) \/
          (\E c \in Cases : CaseOpens(c)) \/
          (\E c \in Cases : CaseConcludes(c)) \/
          (\E c \in Cases : CaseReturns(c)) \/
          (\E c \in Cases : CaseRaises(c)) \/ PoolBreaks \/
          UNCHANGED vars
  BY <1>12 DEF WorkerTakes, CaseOpens, CaseConcludes, CaseReturns,
     CaseRaises, PoolBreaks, vars, bookVars, endVars, loopVars, jobVars
<1> QED
  BY <1>1, <1>2, <1>3, <1>4, <1>5, <1>6, <1>7, <1>8, <1>9, <1>10, <1>11,
     <1>12
  DEF Next, MainStep, Failure, Stopped, CaseStep

\* Every step keeps every started case accounted for.
LEMMA AccountedStep ==
    ASSUME TypeOK, Control, Accounted, [Next]_vars
    PROVE  Accounted'
<1> USE DEF TypeOK, Control, Accounted, NoCaseForgotten, StartedCases, Recorded, Cases
<1>1. CASE ReadCase
  BY <1>1 DEF ReadCase, Log, jobVars, endVars
<1>2. CASE PassOver
  <2>1. CASE stopping
    <3>1. Log(read, {"skipped"}) /\ UNCHANGED <<stopping, read, aborted, inflight, cur>> /\ pc' = "read"
      BY <1>2, <2>1 DEF PassOver, loopVars
    <3>2. /\ \A c \in Cases : "skipped" \in ledger'[c] => "skipped" \in ledger[c] \/ c = read
          /\ \A c \in Cases : "started" \in ledger'[c] <=> "started" \in ledger[c]
          /\ \A c \in Cases : "verdict_finalized" \in ledger'[c] <=> "verdict_finalized" \in ledger[c]
      BY <3>1, LogEffect
    <3>3. StartedCases' = StartedCases /\ Recorded' = Recorded
      BY <3>2
    <3>4. pc = "decide"
      BY <1>2 DEF PassOver
    <3> HIDE DEF StartedCases, Recorded, TypeOK, Control
    <3> QED
      BY <3>1, <3>3, <3>4
  <2>2. CASE ~stopping
    BY <1>2, <2>2 DEF PassOver, loopVars
  <2> QED
    BY <2>1, <2>2
<1>3. CASE StopForDisk
  BY <1>3 DEF StopForDisk, Log, jobVars, endVars
<1>4. CASE SelectCase
  BY <1>4 DEF SelectCase, Log, StartStages, jobVars, endVars
<1>5. CASE Submit
  BY <1>5 DEF Submit, bookVars, endVars
<1>6. CASE SubmitRaises \/ InlineRaised \/ LoopRaises \/ PlanTorn \/
          SkipTorn \/ SelectTorn \/ Kill
  BY <1>6 DEF SubmitRaises, InlineRaised, LoopRaises, PlanTorn, SkipTorn,
     SelectTorn, Kill, bookVars, jobVars, endVars, loopVars, Abort, Log
<1>7. CASE CallInline
  BY <1>7 DEF CallInline, bookVars, endVars, loopVars
<1>8. CASE InlineReturned
  BY <1>8 DEF InlineReturned, BeginRecord, jobVars, endVars
<1>9. CASE Wait
  BY <1>9 DEF Wait, bookVars, jobVars, endVars
<1>10. ASSUME NEW c \in Cases, Collect(c) PROVE Accounted'
  BY <1>10 DEF Collect, BeginRecord, jobVars, endVars
<1>11. CASE BatchDone
  BY <1>11 DEF BatchDone, bookVars, jobVars, endVars, loopVars
<1>12. CASE AppendVerdict
  BY <1>12 DEF AppendVerdict, Log, VerdictStages, jobVars, endVars, loopVars
<1>13. CASE Tally
  BY <1>13 DEF Tally, bookVars, jobVars, endVars
<1>14. CASE LoopEnds
  BY <1>14 DEF LoopEnds, bookVars, jobVars, endVars, loopVars
<1>15. CASE Shutdown
  BY <1>15 DEF Shutdown, bookVars, jobVars, endVars, loopVars
<1>16. CASE Finalize
  BY <1>16 DEF Finalize, bookVars, jobVars, loopVars
<1>17. CASE FinalizeFails
  BY <1>17 DEF FinalizeFails, endVars, bookVars, jobVars, loopVars
<1>18. CASE (\E c \in Cases : WorkerTakes(c)) \/
          (\E c \in Cases : CaseOpens(c)) \/
          (\E c \in Cases : CaseConcludes(c)) \/
          (\E c \in Cases : CaseReturns(c)) \/
          (\E c \in Cases : CaseRaises(c)) \/ PoolBreaks \/
          UNCHANGED vars
  BY <1>18 DEF WorkerTakes, CaseOpens, CaseConcludes, CaseReturns,
     CaseRaises, PoolBreaks, vars, bookVars, endVars, loopVars, jobVars
<1> QED
  BY <1>1, <1>2, <1>3, <1>4, <1>5, <1>6, <1>7, <1>8, <1>9, <1>10, <1>11,
     <1>12, <1>13, <1>14, <1>15, <1>16, <1>17, <1>18
  DEF Next, MainStep, Failure, Stopped, CaseStep

\* Where the limit test fails there is room for one more case.
LEMMA LimitNotHit ==
    ASSUME Limit # NoLimit, NEW n \in Nat, ~LimitHit(n)
    PROVE  n < Limit
  BY ConfigAssumption DEF LimitHit

\* Every step keeps the selected cases within the limit.
LEMMA LimitBooksStep ==
    ASSUME TypeOK, Control, LimitBooks, [Next]_vars
    PROVE  LimitBooks'
<1> USE ConfigAssumption DEF TypeOK, Control, LimitBooks, LimitRespected, Room
<1>1. CASE ReadCase \/ PassOver
  BY <1>1 DEF ReadCase, PassOver, jobVars, endVars, loopVars
<1>2. CASE StopForDisk
  BY <1>2 DEF StopForDisk, jobVars, endVars
<1>3. CASE SelectCase
  BY <1>3 DEF SelectCase, jobVars, endVars
<1>4. CASE Submit
  <2>1. UNCHANGED selected /\ Pooled /\ pc' \in {"wait", "read"} /\ stopping' = LimitHit(selected)
    BY <1>4 DEF Submit
  <2>2. Limit # NoLimit /\ ~stopping' => selected < Limit
    BY <2>1, LimitNotHit
  <2> QED
    BY <2>1, <2>2
<1>5. CASE SubmitRaises
  BY <1>5 DEF SubmitRaises, bookVars, jobVars, endVars, loopVars
<1>6. CASE CallInline
  BY <1>6 DEF CallInline, bookVars, endVars, loopVars
<1>7. CASE InlineReturned
  <2>1. UNCHANGED <<selected, stopping>> /\ ~Pooled /\ pc' = "record"
    BY <1>7 DEF InlineReturned, BeginRecord
  <2> QED
    BY <2>1
<1>8. CASE InlineRaised
  BY <1>8 DEF InlineRaised, Abort, bookVars, jobVars, endVars, loopVars
<1>9. CASE Wait
  <2>1. UNCHANGED <<selected, stopping>> /\ pc \in {"wait", "read"} /\ pc' = "collect"
    BY <1>9 DEF Wait
  <2> QED
    BY <2>1
<1>10. ASSUME NEW c \in Cases, Collect(c) PROVE LimitBooks'
  BY <1>10 DEF Collect, BeginRecord, jobVars, endVars
<1>11. CASE BatchDone \/ AppendVerdict
  BY <1>11 DEF BatchDone, AppendVerdict, bookVars, jobVars, endVars,
     loopVars
<1>12. CASE Tally
  <2>1. UNCHANGED selected /\ (Pooled => UNCHANGED stopping) /\ (~Pooled => stopping' = LimitHit(selected))
        /\ pc' \in {"collect", "read"} /\ pc = "tally"
    BY <1>12 DEF Tally
  <2>2. Limit # NoLimit /\ ~stopping' /\ ~Pooled => selected < Limit
    BY <2>1, LimitNotHit
  <2> QED
    BY <2>1, <2>2
<1>13. CASE LoopEnds \/ Shutdown \/ Finalize \/ FinalizeFails
  BY <1>13 DEF LoopEnds, Shutdown, Finalize, FinalizeFails, bookVars,
     jobVars, endVars, loopVars
<1>14. CASE LoopRaises \/ PlanTorn \/ SkipTorn \/ Kill
  BY <1>14 DEF LoopRaises, PlanTorn, SkipTorn, Kill, Abort, bookVars,
     jobVars, endVars, loopVars
<1>15. CASE SelectTorn
  BY <1>15 DEF SelectTorn, Abort, jobVars, endVars
<1>16. CASE (\E c \in Cases : WorkerTakes(c)) \/
          (\E c \in Cases : CaseOpens(c)) \/
          (\E c \in Cases : CaseConcludes(c)) \/
          (\E c \in Cases : CaseReturns(c)) \/
          (\E c \in Cases : CaseRaises(c)) \/ PoolBreaks \/
          UNCHANGED vars
  BY <1>16 DEF WorkerTakes, CaseOpens, CaseConcludes, CaseReturns,
     CaseRaises, PoolBreaks, vars, bookVars, endVars, loopVars, jobVars
<1> QED
  BY <1>1, <1>2, <1>3, <1>4, <1>5, <1>6, <1>7, <1>8, <1>9, <1>10, <1>11,
     <1>12, <1>13, <1>14, <1>15, <1>16
  DEF Next, MainStep, Failure, Stopped, CaseStep

-----------------------------------------------------------------------------
\* The invariant is inductive.
LEMMA StepIInv == IInv /\ [Next]_vars => IInv'
  BY TypeStep, ControlStep, EvidenceStep, WindowStep, StopsStep, DiskBooksStep,
     AccountedStep, LimitBooksStep DEF IInv

\* The inductive invariant holds throughout every run.
THEOREM Invariance == Spec => []IInv
  BY InitIInv, StepIInv, PTL DEF Spec

\* Every variable keeps its type.
THEOREM TypeCorrect == Spec => []TypeOK
  BY Invariance, PTL DEF IInv

\* The window of uncollected calls never exceeds its size, and one more
\* submit never overruns it, for every number of workers.
THEOREM WindowBounded == Spec => []InflightBounded
<1>1. IInv => InflightBounded
  BY DEF IInv, Window, InflightBounded
<1> QED
  BY <1>1, Invariance, PTL

\* Until an exception, a started case is dispatched, in flight, being recorded
\* or recorded: the loop loses none, whatever order the futures come back in.
THEOREM NothingForgotten == Spec => []NoCaseForgotten
<1>1. IInv => NoCaseForgotten
  BY DEF IInv, Accounted
<1> QED
  BY <1>1, Invariance, PTL

\* The stop conditions are final: nothing is started behind a skipped case;
\* and a stop for disk space is in the summary's reason and in its skips, or in
\* neither, whenever the run ends without an exception.
THEOREM StopsHonoured == Spec => []StopHonoured
<1>1. IInv => StopIsFinal
  BY DEF IInv, Stops
<1>2. IInv => DiskStopReported
  BY DEF IInv, Control, DiskBooks, DiskStopReported
<1>3. IInv => StopHonoured
  BY <1>1, <1>2 DEF StopHonoured
<1> QED
  BY <1>3, Invariance, PTL

\* --limit bounds the selected cases, in the main process and with a pool.
THEOREM LimitHolds == Spec => []LimitRespected
<1>1. IInv => LimitRespected
  BY DEF IInv, LimitBooks
<1> QED
  BY <1>1, Invariance, PTL

\* A verdict in the ledger has a returned call and a summary.json behind it.
THEOREM VerdictsBacked == Spec => []VerdictBacked
<1>1. IInv => VerdictBacked
  BY DEF IInv, Evidence, VerdictBacked, Recorded
<1> QED
  BY <1>1, Invariance, PTL

\* In a fresh directory and with distinct indices, the stages of a case index
\* are those of its one case.
LEMMA OwnStages ==
    ASSUME DistinctIndices, Prior = {}, NEW c \in Cases
    PROVE  StagesAt[CaseIndex[c]] = ledger[c]
<1>1. CaseIndex[c] \in Indices
  BY IndexType
<1>2. {d \in Cases : CaseIndex[d] = CaseIndex[c]} = {c}
  BY DEF DistinctIndices
<1>3. StagesAt[CaseIndex[c]] = UNION {ledger[d] : d \in {c}}
  BY <1>1, <1>2 DEF StagesAt
<1> QED
  BY <1>3

\* inspect-run calls a run complete only when every case it started has
\* returned, at any moment of the run or after a crash, in a fresh directory.
THEOREM CompleteRan == Spec => []CompleteMeansRan
<1>1. IInv => CompleteMeansRan
  <2> SUFFICES ASSUME IInv, DistinctIndices, Prior = {},
                      InspectComplete(files, dirs, StagesAt),
                      NEW c \in StartedCases
               PROVE  job[c] = "returned"
    BY DEF CompleteMeansRan
  <2>1. c \in Cases /\ "started" \in ledger[c]
    BY DEF StartedCases
  <2>2. CaseIndex[c] \in DOMAIN StagesAt /\ StagesAt[CaseIndex[c]] = ledger[c]
    BY <2>1, OwnStages, IndexType DEF StagesAt
  <2>3. "verdict_finalized" \in ledger[c] \/ "skipped" \in ledger[c]
    BY <2>1, <2>2 DEF InspectComplete, MissingStages
  <2>4. "skipped" \notin ledger[c]
    BY <2>1, CampaignAssumption DEF IInv, Stops, StopIsFinal, Cases
  <2> QED
    BY <2>1, <2>3, <2>4 DEF IInv, Evidence, Recorded
<1> QED
  BY <1>1, Invariance, PTL

\* The run files are written only when the pool has no call left.
THEOREM FinalizesAlone == Spec => FinalizeAlone
<1>1. IInv /\ [Next]_vars =>
        [summary' # summary /\ Pooled => JobsIn("queued") \cup JobsIn("running") = {}]_vars
  <2> SUFFICES ASSUME IInv, [Next]_vars, summary' # summary, Pooled
               PROVE  JobsIn("queued") \cup JobsIn("running") = {}
    OBVIOUS
  <2>1. pc = "finalize"
    <3> USE DEF endVars
    <3>1. Next
      BY DEF vars
    <3> QED
      BY <3>1 DEF Next, MainStep, Failure, Stopped, vars, CaseStep,
         ReadCase, PassOver, StopForDisk, SelectCase, Submit, SubmitRaises, CallInline,
         InlineReturned, InlineRaised, Wait, Collect, BatchDone, AppendVerdict, Tally,
         LoopEnds, Shutdown, Finalize, LoopRaises, PlanTorn, SkipTorn, SelectTorn,
         FinalizeFails, Kill, WorkerTakes, CaseOpens, CaseConcludes, CaseReturns,
         CaseRaises, PoolBreaks
  <2> QED
    BY <2>1 DEF IInv, Control
<1> QED
  BY <1>1, Invariance, PTL DEF Spec, FinalizeAlone

-----------------------------------------------------------------------------
(* TlsRun implements CaseLifecycle *)

\* A call was announced in the ledger before it was made, and what is still to
\* be recorded has no verdict there.
Unrecorded ==
    /\ \A c \in Cases : job[c] # "none" => "started" \in ledger[c]
    /\ pc = "dispatch" => "started" \in ledger[read]
    /\ pc \in {"dispatch", "inline"} => read \notin Recorded
    /\ pc = "record" => cur \notin Recorded
    /\ pc \in {"record", "tally"} => cur \notin inflight
    /\ inflight \cap Recorded = {}

\* Until an exception, what was read is planned in the ledger, and a case of
\* the shard was started or skipped.
Decided ==
    /\ aborted => pc \in {"shutdown", "finalize", "failed", "killed"}
    /\ ~aborted =>
         \A c \in Cases : c <= read =>
            /\ "planned" \in ledger[c]
            /\ InShard(c) => \/ "started" \in ledger[c]
                             \/ "skipped" \in ledger[c]
                             \/ pc \in {"decide", "killed"}  /\ c = read
    /\ pc \in {"shutdown", "finalize", "done"} /\ ~aborted => read = NCases /\ inflight = {} /\ cur = 0

RInv == IInv /\ Unrecorded /\ Decided
-----------------------------------------------------------------------------
\* The strengthened invariant holds when the loop starts.
LEMMA InitRInv == Init => RInv
<1> SUFFICES ASSUME Init PROVE RInv
  OBVIOUS
<1>1. IInv
  BY InitIInv
<1>2. Unrecorded /\ Decided
  BY CampaignAssumption DEF Init, Unrecorded, Decided, Recorded, Cases
<1> QED
  BY <1>1, <1>2 DEF RInv

\* Every step keeps what is to be recorded unrecorded.
LEMMA UnrecordedStep ==
    ASSUME IInv, Unrecorded, [Next]_vars
    PROVE  Unrecorded'
<1> USE DEF IInv, TypeOK, Control, Unrecorded, Recorded
<1>1. CASE ReadCase
  BY <1>1 DEF ReadCase, Log, jobVars, endVars
<1>2. CASE PassOver
  <2>1. UNCHANGED <<job, inflight, cur, read>> /\ pc' = "read"
    BY <1>2 DEF PassOver, loopVars, jobVars
  <2>2. /\ \A c \in Cases : "started" \in ledger[c] => "started" \in ledger'[c]
        /\ \A c \in Cases : "verdict_finalized" \in ledger'[c] => "verdict_finalized" \in ledger[c]
    <3>1. CASE stopping
      <4>1. Log(read, {"skipped"})
        BY <1>2, <3>1 DEF PassOver
      <4> QED
        BY <4>1, LogEffect
    <3>2. CASE ~stopping
      BY <1>2, <3>2 DEF PassOver
    <3> QED
      BY <3>1, <3>2
  <2> QED
    BY <2>1, <2>2
<1>3. CASE StopForDisk
  BY <1>3 DEF StopForDisk, Log, jobVars, endVars
<1>4. CASE SelectCase
  BY <1>4 DEF SelectCase, Log, StartStages, jobVars, endVars
<1>5. CASE Submit
  BY <1>5 DEF Submit, bookVars, endVars
<1>6. CASE LoopRaises \/ PlanTorn \/ SkipTorn \/ Kill \/ SubmitRaises \/
          InlineRaised
  BY <1>6 DEF LoopRaises, PlanTorn, SkipTorn, Kill, SubmitRaises,
     InlineRaised, Abort, bookVars, jobVars, endVars, loopVars
<1>7. CASE CallInline
  BY <1>7 DEF CallInline, bookVars, endVars, loopVars
<1>8. CASE InlineReturned
  BY <1>8 DEF InlineReturned, BeginRecord, jobVars, endVars
<1>9. CASE Wait
  BY <1>9 DEF Wait, bookVars, jobVars, endVars
<1>10. ASSUME NEW c \in Cases, Collect(c) PROVE Unrecorded'
  BY <1>10 DEF Collect, BeginRecord, jobVars, endVars
<1>11. CASE BatchDone \/ LoopEnds \/ Shutdown \/ Finalize \/ FinalizeFails
  BY <1>11 DEF BatchDone, LoopEnds, Shutdown, Finalize, FinalizeFails,
     bookVars, jobVars, endVars, loopVars
<1>12. CASE AppendVerdict
  BY <1>12 DEF AppendVerdict, Log, VerdictStages, jobVars, endVars, loopVars
<1>13. CASE Tally
  BY <1>13 DEF Tally, bookVars, jobVars, endVars
<1>14. CASE SelectTorn
  BY <1>14 DEF SelectTorn, Abort, Log, jobVars, endVars
<1>15. CASE (\E c \in Cases : WorkerTakes(c)) \/
          (\E c \in Cases : CaseOpens(c)) \/
          (\E c \in Cases : CaseConcludes(c)) \/
          (\E c \in Cases : CaseReturns(c)) \/
          (\E c \in Cases : CaseRaises(c)) \/ PoolBreaks \/
          UNCHANGED vars
  BY <1>15 DEF WorkerTakes, CaseOpens, CaseConcludes, CaseReturns,
     CaseRaises, PoolBreaks, vars, bookVars, endVars, loopVars, Runs,
     JobsIn, jobVars
<1> QED
  BY <1>1, <1>2, <1>3, <1>4, <1>5, <1>6, <1>7, <1>8, <1>9, <1>10, <1>11,
     <1>12, <1>13, <1>14, <1>15
  DEF Next, MainStep, Failure, Stopped, CaseStep

\* Every step keeps the cases behind the loop decided.
LEMMA DecidedStep ==
    ASSUME IInv, Decided, [Next]_vars
    PROVE  Decided'
<1> USE DEF IInv, TypeOK, Control, Decided
<1>1. CASE ReadCase
  <2>1. read' = read + 1 /\ aborted' = aborted /\ pc' = "decide" /\ Log(read + 1, {"planned"})
    BY <1>1 DEF ReadCase
  <2>2. ~aborted
    BY <1>1 DEF ReadCase
  <2>3. \A c \in Cases : c <= read' => c <= read \/ c = read'
    BY <2>1, CampaignAssumption DEF Cases
  <2>4. \A c \in Cases : \A s : s \in ledger'[c] <=> s \in ledger[c] \/ (c = read + 1 /\ s = "planned")
    BY <2>1, LogEffect
  <2>5. \A c \in Cases : c <= read /\ InShard(c) => "started" \in ledger[c] \/ "skipped" \in ledger[c]
    BY <2>2, <1>1 DEF ReadCase
  <2> HIDE DEF IInv, TypeOK, Control
  <2> QED
    BY <2>1, <2>2, <2>3, <2>4, <2>5
<1>2. CASE PassOver
  <2>1. UNCHANGED <<aborted, read>> /\ pc' = "read" /\ pc = "decide"
    BY <1>2 DEF PassOver, loopVars
  <2>2. CASE stopping
    <3>1. Log(read, {"skipped"})
      BY <1>2, <2>2 DEF PassOver
    <3>2. \A c \in Cases : \A s : s \in ledger'[c] <=> s \in ledger[c] \/ (c = read /\ s = "skipped")
      BY <3>1, LogEffect
    <3> HIDE DEF IInv, TypeOK, Control
    <3> QED
      BY <2>1, <3>2
  <2>3. CASE ~stopping
    BY <1>2, <2>1, <2>3 DEF PassOver
  <2> QED
    BY <2>2, <2>3
<1>3. CASE StopForDisk
  BY <1>3 DEF StopForDisk, Log, jobVars, endVars
<1>4. CASE SelectCase
  BY <1>4 DEF SelectCase, Log, StartStages, jobVars, endVars
<1>5. CASE Submit
  BY <1>5 DEF Submit, bookVars, endVars
<1>6. CASE LoopRaises \/ PlanTorn \/ SkipTorn \/ SelectTorn \/
          SubmitRaises \/ InlineRaised
  BY <1>6 DEF LoopRaises, PlanTorn, SkipTorn, SelectTorn, SubmitRaises,
     InlineRaised, Abort, bookVars, jobVars, endVars, loopVars, Log
<1>7. CASE CallInline
  BY <1>7 DEF CallInline, bookVars, endVars, loopVars
<1>8. CASE InlineReturned
  BY <1>8 DEF InlineReturned, BeginRecord, jobVars, endVars
<1>9. CASE Wait
  BY <1>9 DEF Wait, bookVars, jobVars, endVars
<1>10. ASSUME NEW c \in Cases, Collect(c) PROVE Decided'
  BY <1>10 DEF Collect, BeginRecord, jobVars, endVars
<1>11. CASE BatchDone
  BY <1>11 DEF BatchDone, bookVars, jobVars, endVars, loopVars
<1>12. CASE AppendVerdict
  BY <1>12 DEF AppendVerdict, Log, VerdictStages, jobVars, endVars, loopVars
<1>13. CASE Tally
  BY <1>13 DEF Tally, bookVars, jobVars, endVars
<1>14. CASE LoopEnds
  BY <1>14 DEF LoopEnds, bookVars, jobVars, endVars, loopVars
<1>15. CASE Shutdown
  BY <1>15 DEF Shutdown, bookVars, jobVars, endVars, loopVars
<1>16. CASE Finalize
  BY <1>16 DEF Finalize, bookVars, jobVars, loopVars
<1>17. CASE FinalizeFails
  BY <1>17 DEF FinalizeFails, endVars, bookVars, jobVars, loopVars
<1>18. CASE Kill
  BY <1>18 DEF Kill, bookVars, jobVars, endVars, loopVars
<1>19. CASE (\E c \in Cases : WorkerTakes(c)) \/
          (\E c \in Cases : CaseOpens(c)) \/
          (\E c \in Cases : CaseConcludes(c)) \/
          (\E c \in Cases : CaseReturns(c)) \/
          (\E c \in Cases : CaseRaises(c)) \/ PoolBreaks \/
          UNCHANGED vars
  BY <1>19 DEF WorkerTakes, CaseOpens, CaseConcludes, CaseReturns,
     CaseRaises, PoolBreaks, vars, bookVars, endVars, loopVars, jobVars
<1> QED
  BY <1>1, <1>2, <1>3, <1>4, <1>5, <1>6, <1>7, <1>8, <1>9, <1>10, <1>11,
     <1>12, <1>13, <1>14, <1>15, <1>16, <1>17, <1>18, <1>19
  DEF Next, MainStep, Failure, Stopped, CaseStep

-----------------------------------------------------------------------------
(* The steps of CaseLifecycle that the steps of TlsRun map to. *)

Statuses == [c \in Cases |-> StatusOf(c)]

\* Both modules number the cases alike.
LEMMA SameCases == Promise!CampaignCases = Cases
  BY DEF Promise!CampaignCases, Cases

\* A step that leaves the ledger and the state of the run alone stutters.
LEMMA Stutters ==
    ASSUME ledger' = ledger, RunStatus' = RunStatus
    PROVE  UNCHANGED Promise!promiseVars
<1>1. \A c \in Cases : StatusOf(c)' = StatusOf(c)
  BY DEF StatusOf
<1> QED
  BY <1>1 DEF Promise!promiseVars

\* Logging stages for one case moves that case only.
LEMMA MovesOne ==
    ASSUME ledger \in [Cases -> SUBSET Stages], NEW n \in Cases, NEW stages,
           Log(n, stages)
    PROVE  /\ Statuses' = [Statuses EXCEPT ![n] = StatusOf(n)']
           /\ ledger'[n] = ledger[n] \cup stages
<1>1. \A c \in Cases : c # n => ledger'[c] = ledger[c]
  BY DEF Log
<1>2. ledger'[n] = ledger[n] \cup stages
  BY DEF Log
<1>3. \A c \in Cases : c # n => StatusOf(c)' = StatusOf(c)
  BY <1>1 DEF StatusOf
<1> QED
  BY <1>2, <1>3 DEF Statuses

\* While the loop goes through the campaign, the cases behind it are unread and
\* those up to it are not.
LEMMA ReadOrder ==
    ASSUME RInv, NEW c \in Cases
    PROVE  /\ read < c => StatusOf(c) = "unread"
           /\ ~aborted /\ c <= read => StatusOf(c) # "unread"
<1>1. ASSUME read < c PROVE ledger[c] = {}
  BY <1>1, CampaignAssumption DEF RInv, IInv, Control, TypeOK, Cases
<1>2. ASSUME ~aborted, c <= read PROVE ledger[c] # {}
  BY <1>2 DEF RInv, Decided
<1>3. ledger[c] # {} => StatusOf(c) # "unread"
  BY DEF StatusOf
<1> QED
  BY <1>1, <1>2, <1>3 DEF StatusOf

\* What the stages of a case say of its status, given that they exclude each
\* other the way they do.
LEMMA StatusRead ==
    ASSUME RInv, NEW c \in Cases
    PROVE  /\ StatusOf(c) = "skipped" => "skipped" \in ledger[c]
           /\ "verdict_finalized" \in ledger[c] => StatusOf(c) = "recorded"
           /\ "started" \in ledger[c] /\ c \notin Recorded => StatusOf(c) = "started"
           /\ "skipped" \in ledger[c] => StatusOf(c) = "skipped"
           /\ StatusOf(c) = "started" => "started" \in ledger[c] /\ c \notin Recorded
<1>1. "skipped" \in ledger[c] => "started" \notin ledger[c]
  BY CampaignAssumption DEF RInv, IInv, Stops, StopIsFinal, Cases
<1>2. "verdict_finalized" \in ledger[c] => "started" \in ledger[c]
  BY DEF RInv, IInv, Evidence, Recorded, Unrecorded
<1>3. c \in Recorded <=> "verdict_finalized" \in ledger[c]
  BY DEF Recorded
<1>4. CASE "verdict_finalized" \in ledger[c]
  BY <1>1, <1>2, <1>3, <1>4 DEF StatusOf
<1>5. CASE "skipped" \in ledger[c]
  BY <1>1, <1>2, <1>3, <1>5 DEF StatusOf
<1>6. CASE "verdict_finalized" \notin ledger[c] /\ "skipped" \notin ledger[c]
  BY <1>3, <1>6 DEF StatusOf
<1> QED
  BY <1>4, <1>5, <1>6

-----------------------------------------------------------------------------
\* Reading a line plans its case.
LEMMA ReadCaseMaps ==
    ASSUME RInv, ReadCase
    PROVE  Promise!PromiseNext
<1>1. read + 1 \in Cases /\ ~aborted
  BY CampaignAssumption DEF RInv, IInv, TypeOK, Decided, ReadCase, Cases
<1>2. RunStatus = "open" /\ RunStatus' = "open"
  BY DEF ReadCase, RunStatus
<1>n. PICK n \in Cases : n = read + 1 /\ read < n
  BY <1>1, CampaignAssumption DEF RInv, IInv, TypeOK
<1>a. ledger \in [Cases -> SUBSET Stages] /\ Log(n, {"planned"})
  BY <1>n DEF RInv, IInv, TypeOK, ReadCase
<1>3. Statuses' = [Statuses EXCEPT ![n] = StatusOf(n)'] /\ ledger'[n] = ledger[n] \cup {"planned"}
  BY <1>a, MovesOne
<1>4. StatusOf(n) = "unread" /\ ledger[n] = {}
  BY <1>n, ReadOrder DEF RInv, IInv, Control
<1>5. StatusOf(n)' = "planned"
  BY <1>3, <1>4 DEF StatusOf
<1>6. \A d \in Cases : d < n => StatusOf(d) # "unread"
  BY <1>1, <1>n, ReadOrder, CampaignAssumption DEF RInv, IInv, TypeOK, Cases
<1>7. Promise!PlanCase(n)
  BY <1>1, <1>2, <1>3, <1>4, <1>5, <1>6, SameCases
  DEF Promise!PlanCase, Promise!Move, Statuses
<1> QED
  BY <1>1, <1>2, <1>7, SameCases DEF Promise!PromiseNext

\* A case that is decided on is the latest one, and only planned.
LEMMA DecidedOn ==
    ASSUME RInv, pc = "decide"
    PROVE  /\ read \in Cases /\ ~aborted /\ RunStatus = "open"
           /\ ledger[read] = {"planned"} /\ StatusOf(read) = "planned"
           /\ Promise!Latest(read)
<1>1. read \in Cases /\ ~aborted /\ ledger[read] = {"planned"}
  BY DEF RInv, IInv, Control, Decided
<1>2. StatusOf(read) = "planned"
  BY <1>1 DEF StatusOf
<1>3. RunStatus = "open"
  BY DEF RunStatus
<1>4. Promise!Latest(read)
  BY ReadOrder, SameCases DEF Promise!Latest
<1> QED
  BY <1>1, <1>2, <1>3, <1>4

\* A skip in the ledger skips the case.
LEMMA SkipMaps ==
    ASSUME RInv, pc = "decide", pc' = "read", Log(read, {"skipped"})
    PROVE  Promise!PromiseNext
<1>1. RunStatus' = "open"
  BY DEF RunStatus
<1>n. PICK n \in Cases : n = read
  BY DecidedOn
<1>a. ledger \in [Cases -> SUBSET Stages] /\ Log(n, {"skipped"})
  BY <1>n DEF RInv, IInv, TypeOK
<1>2. Statuses' = [Statuses EXCEPT ![n] = StatusOf(n)'] /\ ledger'[n] = ledger[n] \cup {"skipped"}
  BY <1>a, MovesOne
<1>3. StatusOf(n)' = "skipped"
  BY <1>2, <1>n, DecidedOn DEF StatusOf
<1>4. Promise!SkipCase(n)
  BY <1>1, <1>2, <1>3, <1>n, DecidedOn, SameCases DEF Promise!SkipCase,
     Promise!Move, Statuses
<1> QED
  BY <1>4, DecidedOn, SameCases DEF Promise!PromiseNext

\* A start in the ledger, torn or not, starts the case.
LEMMA StartMaps ==
    ASSUME RInv, pc = "decide", InShard(read), ~stopping, NEW stages,
           pc' \in {"dispatch", "shutdown"}, Log(read, stages), "started" \in stages,
           stages \cap {"skipped", "verdict_finalized"} = {}
    PROVE  Promise!PromiseNext
<1>1. RunStatus' = "open"
  BY DEF RunStatus
<1>n. PICK n \in Cases : n = read
  BY DecidedOn
<1>a. ledger \in [Cases -> SUBSET Stages] /\ Log(n, stages)
  BY <1>n DEF RInv, IInv, TypeOK
<1>2. Statuses' = [Statuses EXCEPT ![n] = StatusOf(n)'] /\ ledger'[n] = ledger[n] \cup stages
  BY <1>a, MovesOne
<1>3. StatusOf(n)' = "started"
  <2>1. "started" \in ledger'[n] /\ "skipped" \notin ledger'[n] /\ "verdict_finalized" \notin ledger'[n]
    BY <1>2, <1>n, DecidedOn
  <2> QED
    BY <2>1 DEF StatusOf
<1>4. \A d \in Cases : StatusOf(d) # "skipped"
  BY StatusRead DEF RInv, IInv, Stops
<1>5. Promise!StartCase(n)
  BY <1>1, <1>2, <1>3, <1>4, <1>n, DecidedOn, SameCases
  DEF Promise!StartCase, Promise!Move, Statuses
<1> QED
  BY <1>5, DecidedOn, SameCases DEF Promise!PromiseNext

\* Appending the verdict records the case.
LEMMA RecordMaps ==
    ASSUME RInv, AppendVerdict
    PROVE  Promise!PromiseNext
<1>1. RunStatus = "open" /\ RunStatus' = "open" /\ cur \in Cases
  BY DEF RunStatus, AppendVerdict, RInv, IInv, Control
<1>n. PICK n \in Cases : n = cur
  BY <1>1
<1>a. ledger \in [Cases -> SUBSET Stages] /\ Log(n, VerdictStages)
  BY <1>n DEF RInv, IInv, TypeOK, AppendVerdict
<1>2. Statuses' = [Statuses EXCEPT ![n] = StatusOf(n)'] /\ ledger'[n] = ledger[n] \cup VerdictStages
  BY <1>a, MovesOne
<1>3. StatusOf(n) = "started"
  BY <1>n, StatusRead DEF RInv, IInv, Control, Unrecorded, AppendVerdict
<1>4. StatusOf(n)' = "recorded"
  <2>1. "skipped" \notin ledger[n]
    BY <1>3, StatusRead
  <2>2. "verdict_finalized" \in ledger'[n] /\ "skipped" \notin ledger'[n]
    BY <1>2, <2>1 DEF VerdictStages
  <2> QED
    BY <2>2 DEF StatusOf
<1>5. Promise!RecordCase(n)
  BY <1>1, <1>2, <1>3, <1>4, SameCases DEF Promise!RecordCase, Promise!Move, Statuses
<1> QED
  BY <1>1, <1>5, SameCases DEF Promise!PromiseNext

\* A failure or a kill breaks the run.
LEMMA EndMaps ==
    ASSUME RInv, pc \notin Ended, pc' \in {"failed", "killed"}, UNCHANGED ledger
    PROVE  Promise!PromiseNext
<1>1. RunStatus = "open" /\ RunStatus' = "broken"
  BY DEF RunStatus, Ended
<1>2. \A c \in Cases : StatusOf(c)' = StatusOf(c)
  BY DEF StatusOf
<1> QED
  BY <1>1, <1>2 DEF Promise!PromiseNext, Promise!BreakRun

\* finalize() without an exception completes the run.
LEMMA CompletionMaps ==
    ASSUME RInv, pc = "finalize", ~aborted, pc' = "done", UNCHANGED ledger
    PROVE  Promise!PromiseNext
<1>1. RunStatus = "open" /\ RunStatus' = "complete"
  BY DEF RunStatus
<1>2. \A c \in Cases : StatusOf(c)' = StatusOf(c)
  BY DEF StatusOf
<1>3. read = NCases /\ inflight = {} /\ cur = 0
  BY DEF RInv, Decided
<1>4. ASSUME NEW c \in Cases, "started" \in ledger[c] PROVE StatusOf(c) = "recorded"
  <2>1. c \in Recorded
    BY <1>3, <1>4 DEF RInv, IInv, Accounted, NoCaseForgotten, StartedCases, Cases
  <2> QED
    BY <2>1, StatusRead DEF Recorded
<1>5. ASSUME NEW c \in Cases PROVE c <= read
  BY <1>3, <1>5, CampaignAssumption DEF Cases
<1>6. \A c \in Cases : StatusOf(c) \notin {"unread", "started"}
  BY <1>4, <1>5, ReadOrder, StatusRead
<1>7. ASSUME NEW c \in Cases, InShard(c) PROVE StatusOf(c) \in {"skipped", "recorded"}
  BY <1>4, <1>5, <1>7, StatusRead DEF RInv, Decided
<1> QED
  BY <1>1, <1>2, <1>6, <1>7, SameCases DEF Promise!PromiseNext, Promise!CompleteRun
-----------------------------------------------------------------------------
\* Every step of the loop maps to a step of the promise or to none.
LEMMA StepMaps ==
    ASSUME RInv, [Next]_vars
    PROVE  [Promise!PromiseNext]_(Promise!promiseVars)
<1>1. CASE ReadCase
  BY <1>1, ReadCaseMaps
<1>2. CASE PassOver
  <2>1. CASE stopping
    BY <1>2, <2>1, SkipMaps DEF PassOver
  <2>2. CASE ~stopping
    BY <1>2, <2>2, Stutters DEF PassOver, RunStatus
  <2> QED
    BY <2>1, <2>2
<1>3. CASE StopForDisk
  BY <1>3, SkipMaps DEF StopForDisk
<1>4. CASE SelectCase
  <2>1. "started" \in StartStages /\ StartStages \cap {"skipped", "verdict_finalized"} = {}
    BY DEF StartStages
  <2> QED
    BY <1>4, <2>1, StartMaps DEF SelectCase
<1>5. CASE SelectTorn
  <2>1. PICK stages \in {{}, {"selected"}, {"selected", "started"}} : Log(read, stages)
    BY <1>5 DEF SelectTorn
  <2>2. pc = "decide" /\ pc' = "shutdown" /\ InShard(read) /\ ~stopping
    BY <1>5 DEF SelectTorn, Abort
  <2>3. CASE "started" \in stages
    <3>1. stages \cap {"skipped", "verdict_finalized"} = {}
      BY <2>1
    <3> QED
      BY <2>1, <2>2, <2>3, <3>1, StartMaps
  <2>4. CASE "started" \notin stages
    <3>n. PICK n \in Cases : n = read
      BY <2>2, DecidedOn
    <3>a. ledger \in [Cases -> SUBSET Stages] /\ Log(n, stages)
      BY <2>1, <3>n DEF RInv, IInv, TypeOK
    <3>1. Statuses' = [Statuses EXCEPT ![n] = StatusOf(n)'] /\ ledger'[n] = ledger[n] \cup stages
      BY <3>a, MovesOne
    <3>2. StatusOf(n) = "planned" /\ ledger[n] = {"planned"}
      BY <2>2, <3>n, DecidedOn
    <3>3. "planned" \in ledger'[n] /\ ledger'[n] \cap {"started", "skipped", "verdict_finalized"} = {}
      BY <2>1, <2>4, <3>1, <3>2
    <3>4. StatusOf(n)' = "planned"
      BY <3>3 DEF StatusOf
    <3>5. Statuses' = Statuses
      BY <3>1, <3>2, <3>4 DEF Statuses
    <3>6. RunStatus' = RunStatus
      BY <2>2 DEF RunStatus
    <3> QED
      BY <3>5, <3>6 DEF Promise!promiseVars, Statuses
  <2> QED
    BY <2>3, <2>4
<1>6. CASE AppendVerdict
  BY <1>6, RecordMaps
<1>7. CASE Finalize
  <2>1. CASE aborted
    BY <1>7, <2>1, EndMaps DEF Finalize, bookVars, Ended
  <2>2. CASE ~aborted
    BY <1>7, <2>2, CompletionMaps DEF Finalize, bookVars
  <2> QED
    BY <2>1, <2>2
<1>8. CASE FinalizeFails \/ Kill
  BY <1>8, EndMaps DEF FinalizeFails, Kill, bookVars, Ended
<1>9. CASE \/ Submit \/ SubmitRaises \/ CallInline \/ InlineReturned \/ InlineRaised
           \/ Wait \/ (\E c \in Cases : Collect(c)) \/ BatchDone \/ Tally
           \/ LoopEnds \/ Shutdown
  <2>1. ledger' = ledger /\ RunStatus' = RunStatus
    BY <1>9 DEF Submit, SubmitRaises, CallInline, InlineReturned, InlineRaised, Wait,
       Collect, BatchDone, Tally, LoopEnds, Shutdown, BeginRecord, Abort, RunStatus, bookVars
  <2> QED
    BY <2>1, Stutters
<1>10. CASE LoopRaises \/ PlanTorn \/ SkipTorn
  <2>1. ledger' = ledger /\ RunStatus' = RunStatus
    BY <1>10 DEF LoopRaises, PlanTorn, SkipTorn, Abort, RunStatus, bookVars
  <2> QED
    BY <2>1, Stutters
<1>11. CASE \/ \E c \in Cases : WorkerTakes(c) \/ CaseStep(c) \/ CaseRaises(c)
            \/ PoolBreaks \/ UNCHANGED vars
  <2>1. ledger' = ledger /\ RunStatus' = RunStatus
    BY <1>11 DEF WorkerTakes, CaseStep, CaseOpens, CaseConcludes, CaseReturns,
       CaseRaises, PoolBreaks, RunStatus, bookVars, vars
  <2> QED
    BY <2>1, Stutters
<1> QED
  BY <1>1, <1>2, <1>3, <1>4, <1>5, <1>6, <1>7, <1>8, <1>9, <1>10, <1>11
  DEF Next, MainStep, Failure, Stopped

\* The strengthened invariant is inductive.
LEMMA StepRInv == RInv /\ [Next]_vars => RInv'
  BY StepIInv, UnrecordedStep, DecidedStep DEF RInv

\* The initial states map to the initial state of the promise.
LEMMA InitMaps == Init => Promise!PromiseInit
<1> SUFFICES ASSUME Init PROVE Promise!PromiseInit
  OBVIOUS
<1>1. \A c \in Cases : StatusOf(c) = "unread"
  BY DEF Init, StatusOf
<1>2. RunStatus = "open"
  BY DEF Init, RunStatus
<1> QED
  BY <1>1, <1>2, SameCases DEF Promise!PromiseInit

\* The run keeps the promise: cases are read in order, started only while
\* nothing has been skipped, recorded once, and a run that ends normally leaves
\* none of its shard without an outcome.
THEOREM RunKeepsPromise == Spec => KeepsPromise
<1>1. Spec => []RInv
  BY InitRInv, StepRInv, PTL DEF Spec
<1> QED
  BY <1>1, InitMaps, StepMaps, PTL DEF Spec, KeepsPromise, Promise!PromiseSpec

-----------------------------------------------------------------------------
(* The summary agrees with the ledger *)

\* One verdict more is counted than recorded, that of the case at hand.
OneAhead ==
    /\ \A v \in Verdicts :
          counted[v] = Cardinality(RecordedAs(v)) + (IF verdict[cur] = v THEN 1 ELSE 0)
    /\ executed = Cardinality(Recorded)

\* One case more is recorded than executed.
OneBehind ==
    /\ \A v \in Verdicts : counted[v] = Cardinality(RecordedAs(v))
    /\ executed + 1 = Cardinality(Recorded)

\* Where the counters stand while the loop runs, and after an exception.
Tallies ==
    /\ ~aborted /\ pc # "killed" => selected = Cardinality(StartedCases)
    /\ ~aborted /\ pc = "record" => OneAhead
    /\ ~aborted /\ pc = "tally" => OneBehind
    /\ ~aborted /\ pc \notin {"record", "tally", "killed"} => AgreesExactly(counted, executed)
    /\ aborted => Agrees(counted, executed)

\* What was written down is what the counters hold: nothing moves them after.
Written ==
    summary.written =>
        /\ pc = "done" \/ (pc = "failed" /\ aborted)
        /\ summary.verdict_counts = counted /\ summary.finished = executed
        /\ summary.selected = selected /\ summary.planned = read

SInv == RInv /\ Tallies /\ Written
-----------------------------------------------------------------------------
\* The sets behind the counters are finite.
LEMMA BooksFinite ==
    /\ IsFiniteSet(Recorded) /\ Cardinality(Recorded) \in Nat
    /\ IsFiniteSet(StartedCases) /\ Cardinality(StartedCases) \in Nat
    /\ \A v : IsFiniteSet(RecordedAs(v)) /\ Cardinality(RecordedAs(v)) \in Nat
<1>1. IsFiniteSet(Cases)
  BY CampaignAssumption, FS_Interval DEF Cases
<1>2. ASSUME NEW S \in SUBSET Cases PROVE IsFiniteSet(S) /\ Cardinality(S) \in Nat
  BY <1>1, FS_Subset, FS_CardinalityType
<1>3. /\ Recorded \in SUBSET Cases /\ StartedCases \in SUBSET Cases
      /\ \A v : RecordedAs(v) \in SUBSET Cases
  BY DEF Recorded, StartedCases, RecordedAs
<1> QED
  BY <1>2, <1>3

\* The sets change with the verdict stage of the ledger and the verdicts of
\* recorded cases only.
LEMMA SameBooks ==
    ASSUME \A c \in Cases : "verdict_finalized" \in ledger'[c] <=> "verdict_finalized" \in ledger[c],
           \A c \in Recorded : verdict'[c] = verdict[c]
    PROVE  Recorded' = Recorded /\ \A v : RecordedAs(v)' = RecordedAs(v)
<1>1. Recorded' = Recorded
  BY DEF Recorded
<1> QED
  BY <1>1 DEF RecordedAs

\* Books that agree exactly, or are one ahead or behind, agree as the summary
\* of an aborted run is meant to.
LEMMA Tolerated ==
    ASSUME AgreesExactly(counted, executed) \/ OneAhead \/ OneBehind
    PROVE  Agrees(counted, executed)
<1>0. Cardinality(Recorded) \in Nat /\ \A v : Cardinality(RecordedAs(v)) \in Nat
  BY BooksFinite
<1>1. CASE AgreesExactly(counted, executed)
  BY <1>0, <1>1 DEF AgreesExactly, Agrees
<1>2. CASE OneAhead
  BY <1>0, <1>2 DEF OneAhead, Agrees
<1>3. CASE OneBehind
  BY <1>0, <1>3 DEF OneBehind, Agrees
<1> QED
  BY <1>1, <1>2, <1>3

\* Whatever the place in the loop, an exception leaves tolerable books.
LEMMA AbortAgrees ==
    ASSUME Tallies, ~aborted, pc # "killed", UNCHANGED <<counted, executed>>,
           Recorded' = Recorded, \A v : RecordedAs(v)' = RecordedAs(v)
    PROVE  Agrees(counted, executed)'
<1>1. Agrees(counted, executed)
  BY Tolerated DEF Tallies
<1> QED
  BY <1>1 DEF Agrees

\* A started case is counted as selected when it is announced.
LEMMA StartCounts ==
    ASSUME RInv, SelectCase, selected = Cardinality(StartedCases)
    PROVE  selected' = Cardinality(StartedCases')
<1>0. /\ read \in Cases /\ ledger \in [Cases -> SUBSET Stages] /\ ledger[read] = {"planned"}
  BY DEF RInv, IInv, TypeOK, Control, SelectCase
<1>1. \A c \in Cases : "started" \in ledger'[c] <=> "started" \in ledger[c] \/ c = read
  BY <1>0, LogEffect DEF SelectCase, StartStages
<1>2. StartedCases' = StartedCases \cup {read} /\ read \notin StartedCases
  BY <1>0, <1>1 DEF StartedCases
<1>3. Cardinality(StartedCases \cup {read}) = Cardinality(StartedCases) + 1
  BY <1>2, BooksFinite, FS_AddElement
<1> QED
  BY <1>2, <1>3 DEF SelectCase

\* The verdict counter moves for the case at hand before its ledger entry.
LEMMA BeginCounts ==
    ASSUME RInv, NEW c \in Cases, BeginRecord(c), job[c] = "returned",
           AgreesExactly(counted, executed), UNCHANGED <<executed, ledger, verdict>>
    PROVE  OneAhead'
<1>0. counted \in [Verdicts -> Nat] /\ \A v : Cardinality(RecordedAs(v)) \in Nat
  BY BooksFinite DEF RInv, IInv, TypeOK
<1>1. verdict[c] \in Verdicts
  BY DEF RInv, IInv, TypeOK, Evidence
<1>2. \A v \in Verdicts : counted'[v] = counted[v] + (IF verdict[c] = v THEN 1 ELSE 0)
  BY <1>0, <1>1 DEF BeginRecord, Inc
<1>3. Recorded' = Recorded /\ \A v : RecordedAs(v)' = RecordedAs(v)
  BY SameBooks
<1> QED
  BY <1>2, <1>3 DEF BeginRecord, OneAhead, AgreesExactly

\* The ledger entry brings the books level with the verdict counters.
LEMMA AppendCounts ==
    ASSUME RInv, AppendVerdict, OneAhead
    PROVE  OneBehind'
<1>0. /\ cur \in Cases /\ ledger \in [Cases -> SUBSET Stages] /\ cur \notin Recorded
      /\ UNCHANGED <<counted, executed, verdict>>
  BY DEF RInv, IInv, TypeOK, Control, Unrecorded, AppendVerdict, loopVars, jobVars
<1>1. \A c \in Cases : "verdict_finalized" \in ledger'[c] <=> "verdict_finalized" \in ledger[c] \/ c = cur
  BY <1>0, LogEffect DEF AppendVerdict, VerdictStages
<1>2. Recorded' = Recorded \cup {cur}
  BY <1>0, <1>1 DEF Recorded
<1>3. Cardinality(Recorded') = Cardinality(Recorded) + 1
  BY <1>0, <1>2, BooksFinite, FS_AddElement
<1>4. ASSUME NEW v \in Verdicts
      PROVE  Cardinality(RecordedAs(v)') = Cardinality(RecordedAs(v)) + (IF verdict[cur] = v THEN 1 ELSE 0)
  <2>1. CASE verdict[cur] = v
    <3>1. RecordedAs(v)' = RecordedAs(v) \cup {cur} /\ cur \notin RecordedAs(v)
      BY <1>0, <1>2, <2>1 DEF RecordedAs
    <3> QED
      BY <2>1, <3>1, BooksFinite, FS_AddElement
  <2>2. CASE verdict[cur] # v
    <3>1. RecordedAs(v)' = RecordedAs(v)
      BY <1>0, <1>2, <2>2 DEF RecordedAs
    <3> QED
      BY <2>2, <3>1, BooksFinite
  <2> QED
    BY <2>1, <2>2
<1>5. \A v \in Verdicts : counted'[v] = Cardinality(RecordedAs(v)')
  BY <1>0, <1>4 DEF OneAhead
<1>6. executed' + 1 = Cardinality(Recorded')
  BY <1>0, <1>3 DEF OneAhead
<1> QED
  BY <1>5, <1>6 DEF OneBehind

\* Every step keeps the counters where Tallies says.
LEMMA TalliesStep ==
    ASSUME RInv, Tallies, [Next]_vars
    PROVE  Tallies'
<1>0. /\ ledger \in [Cases -> SUBSET Stages] /\ aborted \in BOOLEAN
      /\ aborted => pc \in {"shutdown", "finalize", "failed", "killed"}
      /\ pc \in {"decide", "dispatch", "inline"} => read \in Cases
  BY DEF RInv, IInv, TypeOK, Control, Decided
<1>q. ASSUME UNCHANGED <<aborted, counted, executed, selected>>,
             pc \notin {"record", "tally", "killed"}, pc' \notin {"record", "tally"},
             Recorded' = Recorded, StartedCases' = StartedCases,
             \A v : RecordedAs(v)' = RecordedAs(v)
      PROVE  Tallies'
  BY <1>q DEF Tallies, AgreesExactly, Agrees
<1>a. ASSUME aborted' = TRUE, pc \notin {"shutdown", "finalize", "failed", "killed"},
             UNCHANGED <<counted, executed>>,
             Recorded' = Recorded, \A v : RecordedAs(v)' = RecordedAs(v)
      PROVE  Tallies'
  <2>1. Agrees(counted, executed)'
    BY <1>0, <1>a, AbortAgrees
  <2> QED
    BY <1>a, <2>1 DEF Tallies
<1>1. CASE ReadCase \/ PassOver \/ StopForDisk
  <2>1. /\ UNCHANGED <<aborted, counted, executed, selected, verdict>>
        /\ pc \in {"read", "decide"} /\ pc' \in {"read", "decide"}
        /\ ledger' = ledger \/ \E n : Log(n, {"planned"}) \/ Log(n, {"skipped"})
    BY <1>1 DEF ReadCase, PassOver, StopForDisk, loopVars, jobVars
  <2>2. \A c \in Cases : \A s \in {"started", "verdict_finalized"} :
           s \in ledger'[c] <=> s \in ledger[c]
    <3>1. CASE ledger' = ledger
      BY <3>1
    <3>2. ASSUME NEW n, NEW s0 \in {"planned", "skipped"}, Log(n, {s0})
          PROVE  \A c \in Cases : \A s \in {"started", "verdict_finalized"} :
                    s \in ledger'[c] <=> s \in ledger[c]
      BY <1>0, <3>2, LogEffect
    <3> QED
      BY <2>1, <3>1, <3>2
  <2>3. StartedCases' = StartedCases
    BY <2>2 DEF StartedCases
  <2>4. Recorded' = Recorded /\ \A v : RecordedAs(v)' = RecordedAs(v)
    BY <2>1, <2>2, SameBooks
  <2> QED
    BY <2>1, <2>3, <2>4, <1>q
<1>2. CASE Submit \/ CallInline \/ Wait \/ BatchDone \/ LoopEnds \/ Shutdown
  <2>1. /\ UNCHANGED <<aborted, counted, executed, selected, ledger, verdict>>
        /\ pc \in {"dispatch", "wait", "read", "collect", "shutdown"}
        /\ pc' \in {"wait", "read", "inline", "collect", "shutdown", "finalize"}
    BY <1>2 DEF Submit, CallInline, Wait, BatchDone, LoopEnds, Shutdown, loopVars, bookVars, jobVars
  <2>2. StartedCases' = StartedCases
    BY <2>1 DEF StartedCases
  <2>3. Recorded' = Recorded /\ \A v : RecordedAs(v)' = RecordedAs(v)
    BY <2>1, SameBooks
  <2> QED
    BY <2>1, <2>2, <2>3, <1>q
<1>3. CASE SelectCase
  <2>1. /\ UNCHANGED <<aborted, counted, executed, verdict>> /\ pc = "decide" /\ pc' = "dispatch"
        /\ read \in Cases /\ Log(read, StartStages)
    BY <1>0, <1>3 DEF SelectCase, jobVars
  <2>2. \A c \in Cases : "verdict_finalized" \in ledger'[c] <=> "verdict_finalized" \in ledger[c]
    BY <1>0, <2>1, LogEffect DEF StartStages
  <2>3. Recorded' = Recorded /\ \A v : RecordedAs(v)' = RecordedAs(v)
    BY <2>1, <2>2, SameBooks
  <2>4. ~aborted /\ selected' = Cardinality(StartedCases')
    BY <1>0, <1>3, <2>1, StartCounts DEF Tallies
  <2>5. AgreesExactly(counted, executed)'
    BY <2>1, <2>3, <2>4 DEF Tallies, AgreesExactly
  <2> QED
    BY <2>1, <2>4, <2>5 DEF Tallies
<1>4. ASSUME NEW c \in Cases, BeginRecord(c), job[c] = "returned", pc \in {"inline", "collect"},
             UNCHANGED <<executed, selected, ledger, verdict, aborted>>
      PROVE  Tallies'
  <2>1. ~aborted /\ pc' = "record" /\ AgreesExactly(counted, executed)
    BY <1>0, <1>4 DEF BeginRecord, Tallies
  <2>2. OneAhead'
    BY <1>4, <2>1, BeginCounts
  <2>3. selected' = Cardinality(StartedCases')
    BY <1>4, <2>1 DEF Tallies, StartedCases
  <2> QED
    BY <1>4, <2>1, <2>2, <2>3 DEF Tallies
<1>5. CASE InlineReturned
  <2>1. read \in Cases /\ BeginRecord(read) /\ job[read] = "returned" /\ pc = "inline"
        /\ UNCHANGED <<executed, selected, ledger, verdict, aborted>>
    BY <1>0, <1>5 DEF InlineReturned, jobVars
  <2> QED
    BY <2>1, <1>4
<1>6. ASSUME NEW c \in Cases, Collect(c) PROVE Tallies'
  <2>1. CASE job[c] = "returned"
    <3>1. BeginRecord(c) /\ pc = "collect" /\ UNCHANGED <<executed, selected, ledger, verdict, aborted>>
      BY <1>6, <2>1 DEF Collect, jobVars
    <3> QED
      BY <2>1, <3>1, <1>4
  <2>2. CASE job[c] # "returned"
    <3>1. aborted' = TRUE /\ pc = "collect" /\ UNCHANGED <<counted, executed, ledger, verdict>>
      BY <1>6, <2>2 DEF Collect, jobVars
    <3>2. Recorded' = Recorded /\ \A v : RecordedAs(v)' = RecordedAs(v)
      BY <3>1, SameBooks
    <3> QED
      BY <3>1, <3>2, <1>a
  <2> QED
    BY <2>1, <2>2
<1>7. CASE AppendVerdict
  <2>1. pc = "record" /\ pc' = "tally" /\ UNCHANGED <<aborted, selected>> /\ ~aborted
    BY <1>0, <1>7 DEF AppendVerdict, loopVars
  <2>2. OneBehind'
    BY <1>7, <2>1, AppendCounts DEF Tallies
  <2>3. StartedCases' = StartedCases
    <3>1. Log(cur, VerdictStages)
      BY <1>7 DEF AppendVerdict
    <3>2. \A c \in Cases : "started" \in ledger'[c] <=> "started" \in ledger[c]
      BY <1>0, <3>1, LogEffect DEF VerdictStages
    <3> QED
      BY <3>2 DEF StartedCases
  <2> QED
    BY <2>1, <2>2, <2>3 DEF Tallies
<1>8. CASE Tally
  <2>1. /\ pc = "tally" /\ pc' \in {"collect", "read"} /\ executed' = executed + 1 /\ ~aborted
        /\ UNCHANGED <<aborted, selected, counted, ledger, verdict>>
    BY <1>0, <1>8 DEF Tally, bookVars, jobVars
  <2>2. Recorded' = Recorded /\ \A v : RecordedAs(v)' = RecordedAs(v)
    BY <2>1, SameBooks
  <2>3. StartedCases' = StartedCases
    BY <2>1 DEF StartedCases
  <2>4. AgreesExactly(counted, executed)'
    BY <2>1, <2>2 DEF Tallies, OneBehind, AgreesExactly
  <2> QED
    BY <2>1, <2>3, <2>4 DEF Tallies
<1>9. CASE LoopRaises \/ PlanTorn \/ SkipTorn \/ SelectTorn \/ SubmitRaises \/ InlineRaised
  <2>1. /\ aborted' = TRUE /\ UNCHANGED <<counted, executed, verdict>>
        /\ pc \in {"read", "decide", "dispatch", "inline", "record", "tally"}
        /\ \/ ledger' = ledger
           \/ \E stages \in {{}, {"selected"}, {"selected", "started"}} : Log(read, stages)
    BY <1>9 DEF LoopRaises, PlanTorn, SkipTorn, SelectTorn, SubmitRaises, InlineRaised, Abort,
       loopVars, bookVars, jobVars
  <2>2. \A c \in Cases : "verdict_finalized" \in ledger'[c] <=> "verdict_finalized" \in ledger[c]
    <3>1. CASE ledger' = ledger
      BY <3>1
    <3>2. ASSUME NEW stages \in {{}, {"selected"}, {"selected", "started"}}, Log(read, stages)
          PROVE  \A c \in Cases : "verdict_finalized" \in ledger'[c] <=> "verdict_finalized" \in ledger[c]
      BY <1>0, <3>2, LogEffect
    <3> QED
      BY <2>1, <3>1, <3>2
  <2>3. Recorded' = Recorded /\ \A v : RecordedAs(v)' = RecordedAs(v)
    BY <2>1, <2>2, SameBooks
  <2> QED
    BY <2>1, <2>3, <1>a
<1>10. CASE Finalize \/ FinalizeFails
  <2>1. /\ UNCHANGED <<counted, executed, selected, ledger, verdict>>
        /\ pc = "finalize" /\ pc' \in {"done", "failed"} /\ (aborted' = aborted \/ aborted' = TRUE)
    BY <1>10 DEF Finalize, FinalizeFails, loopVars, bookVars, jobVars
  <2>2. Recorded' = Recorded /\ \A v : RecordedAs(v)' = RecordedAs(v)
    BY <2>1, SameBooks
  <2>3. StartedCases' = StartedCases
    BY <2>1 DEF StartedCases
  <2>4. CASE aborted' = aborted
    BY <2>1, <2>2, <2>3, <2>4, <1>q
  <2>5. CASE ~aborted /\ aborted' = TRUE
    <3>1. Agrees(counted, executed)'
      BY <2>1, <2>2, <2>5, AbortAgrees
    <3> QED
      BY <2>5, <3>1 DEF Tallies
  <2> QED
    BY <1>0, <2>1, <2>4, <2>5
<1>11. CASE Kill
  <2>1. UNCHANGED <<aborted, counted, executed, ledger, verdict>> /\ pc' = "killed"
    BY <1>11 DEF Kill, loopVars, bookVars, jobVars
  <2>2. Recorded' = Recorded /\ \A v : RecordedAs(v)' = RecordedAs(v)
    BY <2>1, SameBooks
  <2> QED
    BY <2>1, <2>2 DEF Tallies, Agrees
<1>12. CASE \/ \E c \in Cases : WorkerTakes(c) \/ CaseStep(c) \/ CaseRaises(c)
            \/ PoolBreaks \/ UNCHANGED vars
  <2>1. /\ UNCHANGED <<pc, aborted, counted, executed, selected, ledger, cur>>
        /\ \A c \in Cases : verdict[c] # "none" => verdict'[c] = verdict[c]
    <3>1. CASE \E c \in Cases : CaseConcludes(c)
      BY <3>1 DEF CaseConcludes, RInv, IInv, TypeOK, loopVars, bookVars
    <3>2. CASE \/ \E c \in Cases : WorkerTakes(c) \/ CaseOpens(c) \/ CaseReturns(c) \/ CaseRaises(c)
               \/ PoolBreaks \/ UNCHANGED vars
      BY <3>2 DEF WorkerTakes, CaseOpens, CaseReturns, CaseRaises, PoolBreaks, vars, loopVars,
         bookVars, jobVars
    <3> QED
      BY <1>12, <3>1, <3>2 DEF CaseStep
  <2>2. \A c \in Recorded : verdict'[c] = verdict[c]
    BY <2>1 DEF RInv, IInv, Evidence, Recorded
  <2>3. Recorded' = Recorded /\ \A v : RecordedAs(v)' = RecordedAs(v)
    BY <2>1, <2>2, SameBooks
  <2>4. pc = "record" => verdict'[cur] = verdict[cur]
    BY <2>1 DEF RInv, IInv, Evidence, Control
  <2>5. StartedCases' = StartedCases
    BY <2>1 DEF StartedCases
  <2> QED
    BY <2>1, <2>3, <2>4, <2>5 DEF Tallies, OneAhead, OneBehind, AgreesExactly, Agrees
<1> QED
  BY <1>1, <1>2, <1>3, <1>5, <1>6, <1>7, <1>8, <1>9, <1>10, <1>11, <1>12
  DEF Next, MainStep, Failure, Stopped

\* The summary is written once, at the end, and nothing moves the counters then.
LEMMA WrittenStep ==
    ASSUME RInv, Written, [Next]_vars
    PROVE  Written'
<1>0. aborted \in BOOLEAN
  BY DEF RInv, IInv, TypeOK
<1>1. CASE Finalize \/ FinalizeFails
  <2>1. /\ pc = "finalize" /\ UNCHANGED <<counted, executed, selected, read>>
        /\ summary' \in {summary, RunSummary}
        /\ pc' = "done" \/ (pc' = "failed" /\ aborted')
    BY <1>0, <1>1 DEF Finalize, FinalizeFails, loopVars, bookVars, endVars
  <2>2. CASE summary' = summary
    BY <2>1, <2>2 DEF Written
  <2>3. CASE summary' = RunSummary
    BY <2>1, <2>3 DEF Written, RunSummary
  <2> QED
    BY <2>1, <2>2, <2>3
<1>2. CASE \/ \E c \in Cases : WorkerTakes(c) \/ CaseStep(c) \/ CaseRaises(c)
           \/ PoolBreaks \/ UNCHANGED vars
  <2>1. UNCHANGED <<pc, aborted, counted, executed, selected, read, summary>>
    BY <1>2 DEF WorkerTakes, CaseStep, CaseOpens, CaseConcludes, CaseReturns, CaseRaises, PoolBreaks,
       vars, loopVars, bookVars, endVars
  <2> QED
    BY <2>1 DEF Written
<1>3. CASE \/ MainStep /\ ~Finalize
           \/ Failure /\ ~FinalizeFails
  <2>1. pc \notin Ended /\ summary' = summary
    BY <1>3 DEF MainStep, Failure, ReadCase, PassOver, StopForDisk, SelectCase, Submit, SubmitRaises,
       CallInline, InlineReturned, InlineRaised, Wait, Collect, BatchDone, AppendVerdict, Tally,
       LoopEnds, Shutdown, LoopRaises, PlanTorn, SkipTorn, SelectTorn, Kill, endVars, Ended
  <2> QED
    BY <2>1 DEF Written, Ended
<1> QED
  BY <1>1, <1>2, <1>3 DEF Next, MainStep, Failure, Stopped

\* The invariant holds when the loop starts.
LEMMA InitSInv == Init => SInv
<1> SUFFICES ASSUME Init PROVE SInv
  OBVIOUS
<1>1. RInv
  BY InitRInv
<1>2. /\ Recorded = {} /\ StartedCases = {} /\ \A v : RecordedAs(v) = {}
      /\ Cardinality({}) = 0
  BY FS_EmptySet DEF Init, Recorded, StartedCases, RecordedAs
<1>3. Tallies
  BY <1>2 DEF Init, Tallies, AgreesExactly
<1>4. Written
  BY DEF Init, Written, NoSummary
<1> QED
  BY <1>1, <1>3, <1>4 DEF SInv

\* At the normal end every started case is recorded, and no other.
LEMMA AllRecorded ==
    ASSUME RInv, pc = "done"
    PROVE  StartedCases = Recorded /\ read = NCases /\ ~aborted
<1>1. ~aborted /\ read = NCases /\ inflight = {} /\ cur = 0
  BY DEF RInv, IInv, Control, Decided
<1>2. StartedCases \subseteq Recorded
  BY <1>1 DEF RInv, IInv, Accounted, NoCaseForgotten, StartedCases, Cases
<1>3. Recorded \subseteq StartedCases
  BY DEF RInv, IInv, Evidence, Unrecorded, Recorded, StartedCases
<1> QED
  BY <1>1, <1>2, <1>3

\* The summary of a run that ended normally has every selected case as finished
\* and counted under its verdict, and the summary of an aborted one is wrong by one
\* at most: whatever the order of the results, the limit and the interruption.
THEOREM SummaryIsFaithful == Spec => []SummaryFaithful
<1>1. SInv /\ [Next]_vars => SInv'
  BY StepRInv, TalliesStep, WrittenStep DEF SInv
<1>2. SInv => SummaryFaithful
  <2> SUFFICES ASSUME SInv, summary.written PROVE
        /\ Agrees(summary.verdict_counts, summary.finished)
        /\ ~aborted => /\ AgreesExactly(summary.verdict_counts, summary.finished)
                       /\ summary.selected = summary.finished
                       /\ summary.planned = NCases
    BY DEF SummaryFaithful
  <2>1. /\ summary.verdict_counts = counted /\ summary.finished = executed
        /\ summary.selected = selected /\ summary.planned = read
        /\ pc = "done" \/ (pc = "failed" /\ aborted)
    BY DEF SInv, Written
  <2>2. CASE pc = "done"
    <3>1. StartedCases = Recorded /\ read = NCases /\ ~aborted
      BY <2>2, AllRecorded DEF SInv
    <3>2. AgreesExactly(counted, executed) /\ selected = Cardinality(StartedCases)
      BY <2>2, <3>1 DEF SInv, Tallies
    <3>3. Agrees(counted, executed) /\ selected = executed
      BY <3>1, <3>2, Tolerated DEF AgreesExactly
    <3> QED
      BY <2>1, <3>1, <3>2, <3>3
  <2>3. CASE pc = "failed" /\ aborted
    BY <2>1, <2>3 DEF SInv, Tallies
  <2> QED
    BY <2>1, <2>2, <2>3
<1> QED
  BY InitSInv, <1>1, <1>2, PTL DEF Spec
=============================================================================
