--------------------------- MODULE LongRunProofs ----------------------------
(***************************************************************************)
(* How the shards of a campaign add up, proved for any number of hosts,    *)
(* any campaign, any settings and any number of kills.                     *)
(*                                                                         *)
(* The inductive invariant says, of each host on its own, what its reading *)
(* position means for its directory (Covered, Counted), where its case     *)
(* directories can lie (InFile), and what a run summary was written from   *)
(* (Reported); and of the campaign file, that it no longer moves once a    *)
(* host has started on the closed file (Steady).  That the hosts together  *)
(* execute each case once follows by counting: a partition gives every     *)
(* residue of the shard count to exactly one host.                         *)
(*                                                                         *)
(* The second part is about what the shards read: the campaign file, the   *)
(* cases the generators draw, and where each setting of a run comes from.  *)
(***************************************************************************)
EXTENDS LongRun, TLAPS, FiniteSetTheorems

Line == [index : Nat, random : BOOLEAN, random_value : BOOLEAN]
RunPhases == {"off", "run", "case", "done", "failed", "killed"}

Types ==
    /\ job \in Jobs /\ gen \in {"writing", "closed", "broken"} /\ torn \in BOOLEAN
    /\ lines \in Seq(Line)
    /\ phase \in [Hosts -> RunPhases] /\ pos \in [Hosts -> Nat] /\ finished \in [Hosts -> Nat]
    /\ dirs \in [Hosts -> [Indices -> {"none", "yaml", "torn", "summary"}]]
    /\ DOMAIN shard = Hosts /\ DOMAIN summary = Hosts

\* The campaign file: never longer than asked for, and half a line only at the
\* end of one whose writing broke off.
File ==
    /\ Len(lines) > 0 => Len(lines) <= job.count
    /\ last # {} => gen = "writing" /\ Len(lines) < job.count
    /\ gen # "broken" => ~torn

Steady(h) == phase[h] # "off" /\ h \notin early => gen = "closed"

\* The cases a run has behind it at position n.
Mine(h, n) == {i \in 0..(n - 1) : Selected(i, shard[h])}

Covered(h) ==
    /\ phase[h] \in {"run", "case", "done"} => \A i \in Mine(h, pos[h]) : dirs[h][i] = "summary"
    /\ phase[h] = "case" => /\ pos[h] \in Indices /\ Selected(pos[h], shard[h])
                            /\ dirs[h][pos[h]] # "none"
    /\ phase[h] = "done" => /\ h \notin early => pos[h] = Len(lines)
                            /\ \A i \in Indices : dirs[h][i] # "none" => i < pos[h]

Counted(h) ==
    phase[h] \in {"run", "case", "done"} => finished[h] = Cardinality(Mine(h, pos[h]))

InFile(h) ==
    /\ \A i \in Indices : dirs[h][i] # "none" => i < Len(lines)
    /\ pos[h] <= Len(lines)

Reported(h) ==
    summary[h] # {} =>
        \/ phase[h] = "done" /\ \A s \in summary[h] : s.finished = finished[h]
        \/ phase[h] = "failed" /\ (h \notin early => shard[h].count = 0)

\* A command is given to a host that has no run, or a killed one.
Ready == launch # NoLaunch => launch.host \in Hosts /\ phase[launch.host] \in {"off", "killed"}

HostInv(h) == Steady(h) /\ Covered(h) /\ Counted(h) /\ InFile(h) /\ Reported(h)
LInv == Types /\ File /\ Ready /\ \A h \in Hosts : HostInv(h)
-----------------------------------------------------------------------------
LEMMA IndicesFit ==
    ASSUME NEW j \in Jobs, NEW n \in Nat, n < j.count
    PROVE  n \in Indices
BY LongRunAssumption DEF Indices

LEMMA IndicesNat == \A i \in Indices : i \in Nat
BY LongRunAssumption DEF Indices

LEMMA FileFits ==
    ASSUME LInv
    PROVE  /\ Len(lines) \in Nat
           /\ \A i \in Nat : i < Len(lines) => i \in Indices
<1>1. job \in Jobs /\ Len(lines) \in Nat /\ job.count \in Int
  BY LongRunAssumption DEF LInv, Types
<1>2. Len(lines) > 0 => Len(lines) <= job.count
  BY DEF LInv, File
<1> QED BY <1>1, <1>2, IndicesFit

LEMMA Below ==
    ASSUME NEW n \in Nat
    PROVE  IsFiniteSet(0..(n - 1)) /\ Cardinality(0..(n - 1)) = n
<1>1. n - 1 \in Int /\ (0 > n - 1 => n = 0)
  OBVIOUS
<1> QED BY <1>1, FS_Interval

LEMMA MineGrows ==
    ASSUME NEW h, NEW n \in Nat
    PROVE  /\ Selected(n, shard[h]) => Mine(h, n + 1) = Mine(h, n) \cup {n}
           /\ ~Selected(n, shard[h]) => Mine(h, n + 1) = Mine(h, n)
           /\ n \notin Mine(h, n)
BY DEF Mine

LEMMA MineFinite ==
    ASSUME NEW h, NEW n \in Nat
    PROVE  IsFiniteSet(Mine(h, n)) /\ Cardinality(Mine(h, n)) \in Nat
<1>1. IsFiniteSet(0..(n - 1)) /\ Mine(h, n) \in SUBSET (0..(n - 1))
  BY Below DEF Mine
<1> QED BY <1>1, FS_Subset, FS_CardinalityType

LEMMA LInvInit == Init => LInv
<1> SUFFICES ASSUME Init PROVE LInv
  OBVIOUS
<1>1. Types
  <2>1. job \in Jobs /\ gen \in {"writing", "closed", "broken"} /\ torn \in BOOLEAN
    BY DEF Init
  <2>2. lines = <<>>
    BY DEF Init
  <2>3. phase \in [Hosts -> RunPhases] /\ pos \in [Hosts -> Nat] /\ finished \in [Hosts -> Nat]
    BY DEF Init, RunPhases
  <2>4. dirs \in [Hosts -> [Indices -> {"none", "yaml", "torn", "summary"}]]
    BY DEF Init
  <2>5. DOMAIN shard = Hosts /\ DOMAIN summary = Hosts
    BY DEF Init
  <2> QED BY <2>1, <2>2, <2>3, <2>4, <2>5 DEF Types
<1>2. File /\ Ready
  BY DEF Init, File, Ready
<1>3. ASSUME NEW h \in Hosts PROVE HostInv(h)
  BY <1>3 DEF Init, HostInv, Steady, Covered, Counted, InFile, Reported
<1> QED BY <1>1, <1>2, <1>3 DEF LInv
-----------------------------------------------------------------------------
(* The generator *)

\* The file grows, or ends, while the hosts rest.
LEMMA HostsRest ==
    ASSUME LInv, UNCHANGED runVars, lines' \in Seq(Line),
           \A h \in Hosts : h \in early \/ phase[h] = "off",
           \A h \in Hosts : pos[h] <= Len(lines')
                            /\ \A i \in Indices : dirs[h][i] # "none" => i < Len(lines')
    PROVE  \A h \in Hosts : HostInv(h)'
<1> SUFFICES ASSUME NEW h \in Hosts PROVE HostInv(h)'
  OBVIOUS
<1>1. HostInv(h)
  BY DEF LInv
<1>2. Steady(h)' /\ InFile(h)' /\ Reported(h)'
  BY <1>1 DEF HostInv, runVars, Steady, InFile, Reported
<1>3. Covered(h)' /\ Counted(h)'
  BY <1>1 DEF HostInv, runVars, Covered, Counted, Mine, Selected
<1> QED BY <1>2, <1>3 DEF HostInv

LEMMA WritingHosts ==
    ASSUME LInv, gen = "writing"
    PROVE  \A h \in Hosts : h \in early \/ phase[h] = "off"
BY DEF LInv, HostInv, Steady

LEMMA YieldCaseKeeps == ASSUME LInv, YieldCase PROVE LInv'
<1>1. /\ gen = "writing" /\ Len(lines) < job.count
      /\ UNCHANGED <<job, gen, lines, torn, launch, runVars>>
  BY DEF YieldCase, GenStep
<1>2. Types' /\ File' /\ Ready'
  BY <1>1 DEF LInv, Types, File, Ready, runVars
<1>3. \A h \in Hosts : HostInv(h)'
  <2>1. \A h \in Hosts : InFile(h)
    BY DEF LInv, HostInv
  <2> QED BY <1>1, <2>1, HostsRest, WritingHosts DEF LInv, Types, InFile
<1> QED BY <1>2, <1>3 DEF LInv

LEMMA WriteLineKeeps == ASSUME LInv, WriteLine PROVE LInv'
<1>1. PICK c \in last : lines' = Append(lines,
             [index |-> Len(lines), random |-> Len(lines) \in flagged,
              random_value |-> c.strategy = "random_value"])
  BY DEF WriteLine
<1>2. /\ gen = "writing" /\ last # {} /\ last' = {}
      /\ UNCHANGED <<job, gen, torn, launch, runVars>>
  BY <1>1 DEF WriteLine, GenStep
<1>3. lines' \in Seq(Line) /\ Len(lines') = Len(lines) + 1 /\ Len(lines) \in Nat
  BY <1>1 DEF LInv, Types, Line
<1>4. Types' /\ File' /\ Ready'
  BY <1>2, <1>3, LongRunAssumption DEF LInv, Types, File, Ready, runVars
<1>5. \A h \in Hosts : HostInv(h)'
  <2>1. \A h \in Hosts : pos[h] <= Len(lines')
             /\ \A i \in Indices : dirs[h][i] # "none" => i < Len(lines')
    BY <1>3, IndicesNat DEF LInv, HostInv, InFile, Types
  <2> QED BY <1>2, <1>3, <2>1, HostsRest, WritingHosts
<1> QED BY <1>4, <1>5 DEF LInv

LEMMA CloseCampaignKeeps == ASSUME LInv, CloseCampaign PROVE LInv'
<1>1. /\ gen = "writing" /\ last = {}
      /\ gen' = "closed" /\ UNCHANGED <<job, lines, torn, last, launch, runVars>>
  BY DEF CloseCampaign, GenStep
<1>2. Types' /\ File' /\ Ready'
  BY <1>1 DEF LInv, Types, File, Ready, runVars
<1>3. \A h \in Hosts : HostInv(h)'
  <2>1. \A h \in Hosts : InFile(h)
    BY DEF LInv, HostInv
  <2> QED BY <1>1, <2>1, HostsRest, WritingHosts DEF LInv, Types, InFile
<1> QED BY <1>2, <1>3 DEF LInv

LEMMA GenBreaksKeeps == ASSUME LInv, GenBreaks PROVE LInv'
<1>1. PICK n \in 0..Len(lines) :
        /\ \A h \in Hosts : pos[h] <= n /\ \A i \in Indices : dirs[h][i] # "none" => i < n
        /\ lines' = SubSeq(lines, 1, n) /\ torn' \in {n < Len(lines), FALSE}
  BY DEF GenBreaks
<1>2. /\ gen = "writing" /\ last = {}
      /\ gen' = "broken" /\ UNCHANGED <<job, last, launch, runVars>>
  BY DEF GenBreaks, GenStep
<1>3. lines \in Seq(Line) /\ Len(lines) \in Nat /\ n \in Nat
  BY <1>1 DEF LInv, Types
<1>4. lines' \in Seq(Line) /\ Len(lines') = n
  BY <1>1, <1>3
<1>5. Types' /\ File' /\ Ready'
  <2>1. torn' \in BOOLEAN
    <3>1. (n < Len(lines)) \in BOOLEAN /\ FALSE \in BOOLEAN
      OBVIOUS
    <3> QED BY <1>1, <3>1, Zenon
  <2>5. n <= Len(lines)
    BY <1>1, <1>3
  <2>2. job.count \in Int
    BY LongRunAssumption DEF LInv, Types
  <2>3. Types'
    BY <1>2, <1>4, <2>1 DEF LInv, Types, runVars
  <2>4. File' /\ Ready'
    BY <1>2, <1>3, <1>4, <2>1, <2>2, <2>5 DEF LInv, File, Ready, runVars
  <2> QED BY <2>3, <2>4
<1>6. \A h \in Hosts : HostInv(h)'
  BY <1>1, <1>2, <1>4, HostsRest, WritingHosts
<1> QED BY <1>5, <1>6 DEF LInv
-----------------------------------------------------------------------------
(* The runs *)

\* A step of one host leaves the others alone.
LEMMA OthersRest ==
    ASSUME LInv, NEW g \in Hosts, UNCHANGED <<lines, gen>>,
           phase'[g] = phase[g], pos'[g] = pos[g], finished'[g] = finished[g],
           dirs'[g] = dirs[g], shard'[g] = shard[g], summary'[g] = summary[g],
           g \in early' <=> g \in early
    PROVE  HostInv(g)'
<1>1. HostInv(g)
  BY DEF LInv
<1>2. Mine(g, pos[g])' = Mine(g, pos[g])
  BY DEF Mine, Selected
<1>3. Steady(g)' /\ InFile(g)' /\ Reported(g)'
  BY <1>1 DEF HostInv, Steady, InFile, Reported
<1>4. Covered(g)' /\ Counted(g)'
  BY <1>1, <1>2 DEF HostInv, Covered, Counted, Selected
<1> QED BY <1>3, <1>4 DEF HostInv

LEMMA LaunchKeeps ==
    ASSUME LInv, NEW h \in Hosts, Launch(h) PROVE LInv'
<1>1. /\ UNCHANGED <<job, gen, lines, torn, last, shard, early, phase, pos, finished, dirs, summary>>
      /\ launch'.host = h /\ phase[h] \in {"off", "killed"}
  <2>1. PICK cli, file : launch' = [host |-> h, mode |-> mode, cli |-> cli, file |-> file]
    BY DEF Launch
  <2>2. last = {} /\ UNCHANGED <<mode, job, flagged, genVars>> /\ UNCHANGED <<runVars, kills>>
        /\ phase[h] \in {"off", "killed"}
    BY Zenon DEF Launch, RunStep
  <2>3. launch'.host = h
    BY <2>1
  <2> QED BY <2>2, <2>3 DEF genVars, runVars
<1>2. Types' /\ File' /\ Ready'
  BY <1>1 DEF LInv, Types, File, Ready
<1>3. ASSUME NEW g \in Hosts PROVE HostInv(g)'
  BY <1>1, OthersRest
<1> QED BY <1>2, <1>3 DEF LInv

\* A refused launch, and a step in which nothing moves.
LEMMA NothingMoves ==
    ASSUME LInv, UNCHANGED <<job, genVars, runVars>>, launch' \in {launch, NoLaunch} PROVE LInv'
<1>1. UNCHANGED <<job, gen, lines, torn, last, shard, early, phase, pos, finished, dirs, summary>>
  BY DEF genVars, runVars
<1>2. Types' /\ File' /\ Ready'
  BY <1>1 DEF LInv, Types, File, Ready
<1>3. ASSUME NEW g \in Hosts PROVE HostInv(g)'
  BY <1>1, OthersRest
<1> QED BY <1>2, <1>3 DEF LInv

LEMMA StartKeeps ==
    ASSUME LInv, NEW h \in Hosts, Start(h) PROVE LInv'
<1>1. /\ UNCHANGED <<job, gen, lines, torn, last, dirs, summary>>
      /\ early' = IF gen = "closed" THEN early \ {h} ELSE early \cup {h}
      /\ phase' = [phase EXCEPT ![h] = "run"] /\ launch' = NoLaunch
      /\ pos' = [pos EXCEPT ![h] = 0] /\ finished' = [finished EXCEPT ![h] = 0]
  BY DEF Start, RunStep, genVars
<1>2. PICK i, n : shard' = [shard EXCEPT ![h] = [index |-> i, count |-> n]]
  BY DEF Start
<1>3. Types' /\ File' /\ Ready'
  BY <1>1, <1>2 DEF LInv, Types, File, Ready, RunPhases
<1>4. HostInv(h)'
  <2>1. phase'[h] = "run" /\ pos'[h] = 0 /\ finished'[h] = 0 /\ dirs' = dirs /\ summary' = summary
    BY <1>1 DEF LInv, Types
  <2>2. HostInv(h) /\ phase[h] \in {"off", "killed"}
    BY DEF LInv, Ready, Start
  <2>3. Mine(h, pos[h])' = {}
    BY <2>1 DEF Mine
  <2>4. Steady(h)' /\ InFile(h)'
    BY <1>1, <2>1, <2>2 DEF HostInv, Steady, InFile, LInv, Types
  <2>5. Covered(h)' /\ Counted(h)'
    BY <2>1, <2>3, FS_EmptySet DEF Covered, Counted
  <2>6. Reported(h)'
    BY <2>1, <2>2 DEF HostInv, Reported
  <2> QED BY <2>4, <2>5, <2>6 DEF HostInv
<1>5. ASSUME NEW g \in Hosts, g # h PROVE HostInv(g)'
  BY <1>1, <1>2, <1>5, OthersRest DEF LInv, Types
<1> QED BY <1>3, <1>4, <1>5 DEF LInv

\* What every step inside a run has in common.
LEMMA StepFrame ==
    ASSUME LInv, NEW h \in Hosts, NEW from \in RunPhases \ {"off"}, NEW to \in RunPhases,
           Step(h, from, to)
    PROVE  /\ UNCHANGED <<job, gen, lines, torn, last, shard, early>>
           /\ phase[h] = from /\ phase'[h] = to
           /\ \A g \in Hosts \ {h} : phase'[g] = phase[g]
           /\ phase' \in [Hosts -> RunPhases]
           /\ File' /\ Ready' /\ Steady(h)'
BY DEF LInv, Step, RunStep, genVars, Types, File, Ready, HostInv, Steady

LEMMA PassOverKeeps ==
    ASSUME LInv, NEW h \in Hosts, PassOver(h) PROVE LInv'
<1>1. Step(h, "run", "run") /\ HostInv(h)
  BY DEF PassOver, LInv
<1>2. /\ pos[h] \in Nat /\ pos[h] < Len(lines) /\ ~Selected(pos[h], shard[h])
      /\ pos' = [pos EXCEPT ![h] = @ + 1] /\ UNCHANGED <<finished, dirs, summary>>
  BY DEF PassOver, LInv, Types
<1>3. /\ UNCHANGED <<job, gen, lines, torn, last, shard, early>>
      /\ phase[h] = "run" /\ phase'[h] = "run"
      /\ \A g \in Hosts \ {h} : phase'[g] = phase[g]
      /\ phase' \in [Hosts -> RunPhases]
      /\ File' /\ Ready' /\ Steady(h)'
  BY <1>1, StepFrame DEF RunPhases
<1>4. Types' /\ pos'[h] = pos[h] + 1
  <2>1. pos' \in [Hosts -> Nat] /\ pos'[h] = pos[h] + 1
    BY <1>2 DEF LInv, Types
  <2> QED BY <1>2, <1>3, <2>1 DEF LInv, Types
<1>5. Mine(h, pos[h])' = Mine(h, pos[h])
  BY <1>2, <1>3, <1>4, MineGrows DEF Mine, Selected
<1>6. HostInv(h)'
  <2>1. InFile(h)'
    BY <1>1, <1>2, <1>3, <1>4 DEF HostInv, InFile, LInv, Types
  <2>2. Covered(h)' /\ Counted(h)'
    BY <1>1, <1>2, <1>3, <1>5 DEF HostInv, Covered, Counted
  <2>3. Reported(h)'
    BY <1>1, <1>2, <1>3 DEF HostInv, Reported
  <2> QED BY <1>3, <2>1, <2>2, <2>3 DEF HostInv
<1>7. ASSUME NEW g \in Hosts, g # h PROVE HostInv(g)'
  BY <1>2, <1>3, <1>7, OthersRest DEF LInv, Types
<1> QED BY <1>3, <1>4, <1>6, <1>7 DEF LInv

LEMMA OpenCaseKeeps ==
    ASSUME LInv, NEW h \in Hosts, OpenCase(h) PROVE LInv'
<1>1. Step(h, "run", "case") /\ HostInv(h)
  BY DEF OpenCase, LInv
<1>2. /\ pos[h] \in Nat /\ pos[h] < Len(lines) /\ Selected(pos[h], shard[h])
      /\ UNCHANGED <<pos, finished, summary>>
      /\ dirs' = [dirs EXCEPT ![h][pos[h]] = IF @ = "none" THEN "yaml" ELSE @]
  BY DEF OpenCase, LInv, Types
<1>3. /\ UNCHANGED <<job, gen, lines, torn, last, shard, early>>
      /\ phase[h] = "run" /\ phase'[h] = "case"
      /\ \A g \in Hosts \ {h} : phase'[g] = phase[g]
      /\ phase' \in [Hosts -> RunPhases]
      /\ File' /\ Ready' /\ Steady(h)'
  BY <1>1, StepFrame DEF RunPhases
<1>4. pos[h] \in Indices /\ Len(lines) \in Nat
  BY <1>2, FileFits
<1>5. /\ dirs' \in [Hosts -> [Indices -> {"none", "yaml", "torn", "summary"}]]
      /\ \A g \in Hosts \ {h} : dirs'[g] = dirs[g]
      /\ \A i \in Indices \ {pos[h]} : dirs'[h][i] = dirs[h][i]
      /\ dirs'[h][pos[h]] = IF dirs[h][pos[h]] = "none" THEN "yaml" ELSE dirs[h][pos[h]]
  BY <1>2, <1>4 DEF LInv, Types
<1>6. Types'
  BY <1>2, <1>3, <1>5 DEF LInv, Types
<1>7. Mine(h, pos[h])' = Mine(h, pos[h]) /\ pos[h] \notin Mine(h, pos[h])
  BY <1>2, <1>3 DEF Mine, Selected
<1>8. HostInv(h)'
  <2>1. InFile(h)'
    BY <1>1, <1>2, <1>3, <1>4, <1>5 DEF HostInv, InFile
  <2>2. \A i \in Mine(h, pos[h]) : dirs[h][i] = "summary"
    BY <1>1, <1>3 DEF HostInv, Covered
  <2>3. \A i \in Mine(h, pos[h]) : dirs'[h][i] = "summary"
    <3> SUFFICES ASSUME NEW i \in Mine(h, pos[h]) PROVE dirs'[h][i] = "summary"
      OBVIOUS
    <3>1. i \in Nat /\ i < pos[h]
      BY <1>2 DEF Mine
    <3>2. i \in Indices
      BY <1>2, <1>4, <3>1, FileFits
    <3> QED BY <1>5, <2>2, <3>1, <3>2
  <2>4. Covered(h)'
    BY <1>2, <1>3, <1>4, <1>5, <1>7, <2>3 DEF Covered, Selected
  <2>5. Counted(h)' /\ Reported(h)'
    BY <1>1, <1>2, <1>3, <1>7 DEF HostInv, Counted, Reported
  <2> QED BY <1>3, <2>1, <2>4, <2>5 DEF HostInv
<1>9. ASSUME NEW g \in Hosts, g # h PROVE HostInv(g)'
  BY <1>2, <1>3, <1>5, <1>9, OthersRest DEF LInv, Types
<1> QED BY <1>3, <1>6, <1>8, <1>9 DEF LInv

LEMMA ConcludeCaseKeeps ==
    ASSUME LInv, NEW h \in Hosts, ConcludeCase(h) PROVE LInv'
<1>1. Step(h, "case", "run") /\ HostInv(h)
  BY DEF ConcludeCase, LInv
<1>2. /\ pos[h] \in Nat /\ finished[h] \in Nat
      /\ dirs' = [dirs EXCEPT ![h][pos[h]] = "summary"]
      /\ finished' = [finished EXCEPT ![h] = @ + 1] /\ pos' = [pos EXCEPT ![h] = @ + 1]
      /\ summary' = summary
  BY DEF ConcludeCase, LInv, Types
<1>3. /\ UNCHANGED <<job, gen, lines, torn, last, shard, early>>
      /\ phase[h] = "case" /\ phase'[h] = "run"
      /\ \A g \in Hosts \ {h} : phase'[g] = phase[g]
      /\ phase' \in [Hosts -> RunPhases]
      /\ File' /\ Ready' /\ Steady(h)'
  BY <1>1, StepFrame DEF RunPhases
<1>4. pos[h] \in Indices /\ Selected(pos[h], shard[h]) /\ dirs[h][pos[h]] # "none"
  BY <1>1, <1>3 DEF HostInv, Covered
<1>5. /\ dirs' \in [Hosts -> [Indices -> {"none", "yaml", "torn", "summary"}]]
      /\ \A g \in Hosts \ {h} : dirs'[g] = dirs[g]
      /\ \A i \in Indices \ {pos[h]} : dirs'[h][i] = dirs[h][i]
      /\ dirs'[h][pos[h]] = "summary"
  BY <1>2, <1>4 DEF LInv, Types
<1>6. /\ Types' /\ pos'[h] = pos[h] + 1 /\ finished'[h] = finished[h] + 1
      /\ \A g \in Hosts \ {h} : pos'[g] = pos[g] /\ finished'[g] = finished[g]
  BY <1>2, <1>3, <1>5 DEF LInv, Types
<1>7. pos[h] < Len(lines) /\ Len(lines) \in Nat
  BY <1>1, <1>4 DEF HostInv, InFile, LInv, Types
<1>8. Mine(h, pos[h])' = Mine(h, pos[h]) \cup {pos[h]} /\ pos[h] \notin Mine(h, pos[h])
  <2>1. Mine(h, pos[h])' = Mine(h, pos[h] + 1)
    BY <1>3, <1>6 DEF Mine, Selected
  <2> QED BY <1>2, <1>4, <2>1, MineGrows
<1>9. HostInv(h)'
  <2>1. InFile(h)'
    BY <1>1, <1>3, <1>4, <1>5, <1>6, <1>7, IndicesNat DEF HostInv, InFile
  <2>2. \A i \in Mine(h, pos[h]) : dirs[h][i] = "summary"
    BY <1>1, <1>3 DEF HostInv, Covered
  <2>3. \A i \in Mine(h, pos[h]) : dirs'[h][i] = "summary"
    <3> SUFFICES ASSUME NEW i \in Mine(h, pos[h]) PROVE dirs'[h][i] = "summary"
      OBVIOUS
    <3>1. i \in Nat /\ i < pos[h]
      BY <1>2 DEF Mine
    <3>2. i \in Indices
      BY <1>2, <1>7, <3>1, FileFits
    <3> QED BY <1>5, <2>2, <3>1, <3>2
  <2>4. Covered(h)'
    BY <1>3, <1>5, <1>8, <2>3 DEF Covered
  <2>5. Cardinality(Mine(h, pos[h]) \cup {pos[h]}) = Cardinality(Mine(h, pos[h])) + 1
    BY <1>2, <1>8, MineFinite, FS_AddElement
  <2>6. Counted(h)'
    BY <1>1, <1>3, <1>6, <1>8, <2>5 DEF HostInv, Counted
  <2>7. Reported(h)'
    BY <1>1, <1>2, <1>3 DEF HostInv, Reported
  <2> QED BY <1>3, <2>1, <2>4, <2>6, <2>7 DEF HostInv
<1>10. ASSUME NEW g \in Hosts, g # h PROVE HostInv(g)'
  BY <1>2, <1>3, <1>5, <1>6, <1>10, OthersRest
<1> QED BY <1>3, <1>6, <1>9, <1>10 DEF LInv

LEMMA FinishRunKeeps ==
    ASSUME LInv, NEW h \in Hosts, FinishRun(h) PROVE LInv'
<1>1. Step(h, "run", "done") /\ HostInv(h)
  BY DEF FinishRun, LInv
<1>2. /\ pos[h] = Len(lines) /\ UNCHANGED <<pos, finished, dirs>>
      /\ summary' = [summary EXCEPT ![h] =
           {[finished |-> finished[h], missing |-> \E i \in Indices : dirs[h][i] = "yaml"]}]
  BY Zenon DEF FinishRun, WriteSummary
<1>3. /\ UNCHANGED <<job, gen, lines, torn, last, shard, early>>
      /\ phase[h] = "run" /\ phase'[h] = "done"
      /\ \A g \in Hosts \ {h} : phase'[g] = phase[g]
      /\ phase' \in [Hosts -> RunPhases]
      /\ File' /\ Ready' /\ Steady(h)'
  BY <1>1, StepFrame DEF RunPhases
<1>4. PICK miss : summary' = [summary EXCEPT ![h] = {[finished |-> finished[h], missing |-> miss]}]
  BY <1>2, Zenon
<1>5. Types'
  BY <1>2, <1>3, <1>4 DEF LInv, Types
<1>6. Mine(h, pos[h])' = Mine(h, pos[h])
  BY <1>2, <1>3 DEF Mine, Selected
<1>7. HostInv(h)'
  <2>1. InFile(h)'
    BY <1>1, <1>2, <1>3 DEF HostInv, InFile
  <2>2. Covered(h)'
    BY <1>1, <1>2, <1>3, <1>6 DEF HostInv, Covered, InFile
  <2>3. Counted(h)'
    BY <1>1, <1>2, <1>3, <1>6 DEF HostInv, Counted
  <2>4. Reported(h)'
    BY <1>2, <1>3, <1>4 DEF Reported, LInv, Types
  <2> QED BY <1>3, <2>1, <2>2, <2>3, <2>4 DEF HostInv
<1>8. ASSUME NEW g \in Hosts, g # h PROVE HostInv(g)'
  BY <1>2, <1>3, <1>4, <1>8, OthersRest DEF LInv, Types
<1> QED BY <1>3, <1>5, <1>7, <1>8 DEF LInv

\* A run that started on the closed file fails with a summary only because of a
\* shard count of zero.
LEMMA RunFailsKeeps ==
    ASSUME LInv, NEW h \in Hosts, RunFails(h) PROVE LInv'
<1>1. Step(h, "run", "failed") /\ HostInv(h)
  BY DEF RunFails, LInv
<1>2. /\ UNCHANGED <<pos, finished, dirs>>
      /\ \/ summary' = summary
         \/ /\ torn \/ gen = "writing" \/ shard[h].count = 0
            /\ \E miss : summary' = [summary EXCEPT ![h] =
                            {[finished |-> finished[h], missing |-> miss]}]
  <2>1. CASE mode = "kv"
    BY <2>1, Zenon DEF RunFails
  <2>2. CASE mode # "kv"
    BY <2>2, Zenon DEF RunFails, WriteSummary
  <2> QED BY <2>1, <2>2
<1>3. /\ UNCHANGED <<job, gen, lines, torn, last, shard, early>>
      /\ phase[h] = "run" /\ phase'[h] = "failed"
      /\ \A g \in Hosts \ {h} : phase'[g] = phase[g]
      /\ phase' \in [Hosts -> RunPhases]
      /\ File' /\ Ready' /\ Steady(h)'
  BY <1>1, StepFrame DEF RunPhases
<1>4. Types' /\ \A g \in Hosts \ {h} : summary'[g] = summary[g]
  BY <1>2, <1>3 DEF LInv, Types
<1>5. HostInv(h)'
  <2>1. InFile(h)'
    BY <1>1, <1>2, <1>3 DEF HostInv, InFile
  <2>2. Covered(h)' /\ Counted(h)'
    BY <1>3 DEF Covered, Counted
  <2>3. Reported(h)'
    <3>1. CASE summary' = summary
      BY <1>1, <1>3, <3>1 DEF HostInv, Reported
    <3>2. CASE torn \/ gen = "writing" \/ shard[h].count = 0
      BY <1>1, <1>3, <3>2 DEF HostInv, Reported, Steady, LInv, File
    <3> QED BY <1>2, <3>1, <3>2
  <2> QED BY <1>3, <2>1, <2>2, <2>3 DEF HostInv
<1>6. ASSUME NEW g \in Hosts, g # h PROVE HostInv(g)'
  BY <1>2, <1>3, <1>4, <1>6, OthersRest
<1> QED BY <1>3, <1>4, <1>5, <1>6 DEF LInv

LEMMA KillRunKeeps ==
    ASSUME LInv, NEW h \in Hosts, KillRun(h) PROVE LInv'
<1>1. HostInv(h)
  BY DEF LInv
<1>2. /\ UNCHANGED <<job, gen, lines, torn, last, shard, early, pos, finished, summary>>
      /\ launch = NoLaunch /\ launch' = launch
      /\ phase[h] \in {"run", "case"} /\ phase' = [phase EXCEPT ![h] = "killed"]
      /\ \/ dirs' = dirs
         \/ phase[h] = "case" /\ dirs' = [dirs EXCEPT ![h][pos[h]] = "torn"]
  BY DEF KillRun, RunStep, genVars
<1>3. /\ phase'[h] = "killed" /\ phase' \in [Hosts -> RunPhases]
      /\ \A g \in Hosts \ {h} : phase'[g] = phase[g]
  BY <1>2 DEF LInv, Types, RunPhases
<1>4. /\ dirs' \in [Hosts -> [Indices -> {"none", "yaml", "torn", "summary"}]]
      /\ \A g \in Hosts \ {h} : dirs'[g] = dirs[g]
      /\ \A i \in Indices : dirs'[h][i] # "none" => dirs[h][i] # "none"
  <2>1. CASE dirs' = dirs
    BY <2>1 DEF LInv, Types
  <2>2. CASE phase[h] = "case" /\ dirs' = [dirs EXCEPT ![h][pos[h]] = "torn"]
    BY <1>1, <2>2 DEF LInv, Types, HostInv, Covered
  <2> QED BY <1>2, <2>1, <2>2
<1>5. Types' /\ File' /\ Ready'
  BY <1>2, <1>3, <1>4 DEF LInv, Types, File, Ready
<1>6. HostInv(h)'
  BY <1>1, <1>2, <1>3, <1>4 DEF HostInv, Steady, Covered, Counted, InFile, Reported
<1>7. ASSUME NEW g \in Hosts, g # h PROVE HostInv(g)'
  BY <1>2, <1>3, <1>4, <1>7, OthersRest
<1> QED BY <1>5, <1>6, <1>7 DEF LInv
-----------------------------------------------------------------------------
LEMMA LInvStep ==
    ASSUME LInv, [Next]_vars
    PROVE  LInv'
<1>1. CASE YieldCase \/ WriteLine \/ CloseCampaign \/ GenBreaks
  BY <1>1, YieldCaseKeeps, WriteLineKeeps, CloseCampaignKeeps, GenBreaksKeeps
<1>2. CASE Refuse
  BY <1>2, NothingMoves DEF Refuse, RunStep
<1>3. CASE Rest \/ UNCHANGED vars
  BY <1>3, NothingMoves DEF Rest, vars
<1>4. ASSUME NEW h \in Hosts, Launch(h) \/ Start(h) PROVE LInv'
  BY <1>4, LaunchKeeps, StartKeeps
<1>5. ASSUME NEW h \in Hosts, PassOver(h) \/ OpenCase(h) \/ ConcludeCase(h) PROVE LInv'
  BY <1>5, PassOverKeeps, OpenCaseKeeps, ConcludeCaseKeeps
<1>6. ASSUME NEW h \in Hosts, FinishRun(h) \/ RunFails(h) \/ KillRun(h) PROVE LInv'
  BY <1>6, FinishRunKeeps, RunFailsKeeps, KillRunKeeps
<1> QED BY <1>1, <1>2, <1>3, <1>4, <1>5, <1>6 DEF Next

\* The inductive invariant holds of every long run.
THEOREM Invariance == Spec => []LInv
BY LInvInit, LInvStep, PTL DEF Spec
-----------------------------------------------------------------------------
(* Adding up the hosts *)

ShardIndex == [h \in Hosts |-> shard[h].index]

\* Under a partition a residue belongs to one host and to one host only.
LEMMA PartitionCounts ==
    ASSUME Partition
    PROVE  /\ Cardinality(Hosts) \in Nat \ {0}
           /\ \A h \in Hosts : shard[h].count = Cardinality(Hosts)
           /\ \A r \in 0..(Cardinality(Hosts) - 1) : \E h \in Hosts : shard[h].index = r
           /\ \A g, h \in Hosts : shard[g].index = shard[h].index => g = h
<1> DEFINE n == Cardinality(Hosts)
<1>1. n \in Nat \ {0}
  BY LongRunAssumption, FS_EmptySet, FS_CardinalityType
<1>2. \A h \in Hosts : shard[h].count = n
  BY DEF Partition
<1>3. \A h \in Hosts : shard[h].index \in 0..(n - 1)
  BY DEF Partition
<1>4. \A r \in 0..(n - 1) : \E h \in Hosts : shard[h].index = r
  BY DEF Partition
<1>5. ShardIndex \in Surjection(Hosts, 0..(n - 1))
  BY <1>3, <1>4 DEF ShardIndex, Surjection
<1>6. Cardinality(0..(n - 1)) = n
  BY <1>1, Below
<1>7. ShardIndex \in Injection(Hosts, 0..(n - 1))
  BY <1>5, <1>6, LongRunAssumption, FS_Surjection
<1>8. \A g, h \in Hosts : shard[g].index = shard[h].index => g = h
  BY <1>7 DEF ShardIndex, Injection, IsInjective
<1> QED BY <1>1, <1>2, <1>4, <1>8

\* Every index has a remainder.
LEMMA Remainder ==
    ASSUME NEW i \in Nat, NEW n \in Nat \ {0}
    PROVE  i % n \in 0..(n - 1)
OBVIOUS

\* A case directory names the host whose shard the case is of.
LEMMA OneOwner ==
    ASSUME Partition, NEW i \in Indices, NEW g \in Hosts, NEW h \in Hosts,
           ~Stale(g), ~Stale(h), dirs[g][i] # "none", dirs[h][i] # "none"
    PROVE  g = h
<1>1. Selected(i, shard[g]) /\ Selected(i, shard[h])
  BY DEF Stale
<1>2. shard[g].index = shard[h].index
  BY <1>1, PartitionCounts DEF Selected
<1> QED BY <1>2, PartitionCounts

\* Exactly one host has executed a case of a settled campaign.
LEMMA OncePerCase ==
    ASSUME LInv, Settled, early = {}, Partition, NEW i \in 0..(Len(lines) - 1),
           \A h \in Hosts : phase[h] = "done" /\ ~Stale(h)
    PROVE  \E h \in Hosts : {g \in Hosts : dirs[g][i] = "summary"} = {h}
<1>1. i \in Nat /\ i < Len(lines) /\ i \in Indices
  BY FileFits
<1>2. PICK h \in Hosts : shard[h].index = i % Cardinality(Hosts)
  BY <1>1, PartitionCounts, Remainder
<1>3. Selected(i, shard[h])
  BY <1>2, PartitionCounts DEF Selected
<1>4. pos[h] = Len(lines)
  BY DEF LInv, HostInv, Covered
<1>5. dirs[h][i] = "summary"
  BY <1>1, <1>3, <1>4 DEF LInv, HostInv, Covered, Mine
<1>6. \A g \in Hosts : dirs[g][i] = "summary" => g = h
  BY <1>1, <1>5, OneOwner
<1> QED BY <1>5, <1>6

LEMMA EachOnce == ASSUME LInv PROVE EachCaseOnce
<1> SUFFICES ASSUME Settled, early = {}, Partition, NEW i \in 0..(Len(lines) - 1),
                    \A h \in Hosts : phase[h] = "done" /\ ~Stale(h)
             PROVE  Cardinality({h \in Hosts : dirs[h][i] = "summary"}) = 1
  BY DEF EachCaseOnce
<1> QED BY OncePerCase, FS_Singleton

\* Hosts that ran one shard each of a whole campaign file to their end have
\* executed every case exactly once, however many hosts there are, whatever
\* was killed and launched again, and however their runs overlapped.
THEOREM CasesExecutedOnce == Spec => []EachCaseOnce
BY Invariance, EachOnce, PTL
-----------------------------------------------------------------------------
(* Counting the reports *)

\* The directory of a finished run of one shard holds the summaries of the cases
\* the run has behind it, and no others.
LEMMA SummariesOfRun ==
    ASSUME LInv, NEW h \in Hosts, phase[h] = "done", ~Stale(h)
    PROVE  {i \in Indices : dirs[h][i] = "summary"} = Mine(h, pos[h])
<1>1. HostInv(h) /\ pos[h] \in Nat /\ pos[h] <= Len(lines) /\ Len(lines) \in Nat
  BY FileFits DEF LInv, Types, HostInv, InFile
<1>2. ASSUME NEW i \in Indices, dirs[h][i] = "summary" PROVE i \in Mine(h, pos[h])
  <2>1. i \in Nat /\ i < pos[h]
    BY <1>1, <1>2, IndicesNat DEF HostInv, Covered
  <2>2. Selected(i, shard[h])
    BY <1>2 DEF Stale
  <2> QED BY <1>1, <2>1, <2>2 DEF Mine
<1>3. ASSUME NEW i \in Mine(h, pos[h]) PROVE i \in Indices /\ dirs[h][i] = "summary"
  <2>1. i \in Nat /\ i < Len(lines)
    BY <1>1 DEF Mine
  <2> QED BY <1>1, <2>1, FileFits DEF HostInv, Covered
<1> QED BY <1>2, <1>3

\* No case is counted twice: leaving one out, the summaries are fewer than the
\* lines of the campaign.
LEMMA LostLowersTheRate ==
    ASSUME LInv, Partition, \A h \in Hosts : ~Stale(h), NEW k \in Lost
    PROVE  Executed < Len(lines)
<1> DEFINE T == (0..(Len(lines) - 1)) \ {k}
           f == [c \in Summaries |-> c[2]]
<1>1. Len(lines) \in Nat /\ k \in 0..(Len(lines) - 1)
  BY FileFits DEF Lost
<1>2. IsFiniteSet(T) /\ Cardinality(T) = Len(lines) - 1
  <2>1. IsFiniteSet(0..(Len(lines) - 1)) /\ Cardinality(0..(Len(lines) - 1)) = Len(lines)
    BY <1>1, Below
  <2> QED BY <1>1, <2>1, FS_RemoveElement
<1>3. ASSUME NEW c \in Summaries
      PROVE  c[1] \in Hosts /\ c[2] \in Indices /\ c = <<c[1], c[2]>>
             /\ dirs[c[1]][c[2]] = "summary" /\ c[2] \in T
  <2>1. c[1] \in Hosts /\ c[2] \in Indices /\ c = <<c[1], c[2]>> /\ dirs[c[1]][c[2]] = "summary"
    BY DEF Summaries
  <2>2. c[2] \in Nat /\ c[2] < Len(lines)
    BY <2>1, IndicesNat DEF LInv, HostInv, InFile
  <2>3. c[2] # k
    BY <2>1 DEF Lost
  <2> QED BY <1>1, <2>1, <2>2, <2>3
<1>4. \A c, d \in Summaries : c[2] = d[2] => c = d
  <2> SUFFICES ASSUME NEW c \in Summaries, NEW d \in Summaries, c[2] = d[2] PROVE c = d
    OBVIOUS
  <2>1. c[1] = d[1]
    BY <1>3, OneOwner
  <2> QED BY <1>3, <2>1
<1>5. f \in Injection(Summaries, T)
  BY <1>3, <1>4 DEF Injection, IsInjective
<1>6. Cardinality(Summaries) <= Cardinality(T) /\ IsFiniteSet(Summaries)
  BY <1>2, <1>5, FS_Injection
<1>7. Cardinality(Summaries) \in Nat
  BY <1>6, FS_CardinalityType
<1> QED BY <1>1, <1>2, <1>6, <1>7 DEF Executed

\* Run summaries for all hosts, all of which read the whole file: each run that
\* wrote one ended normally.
LEMMA AllSummarised ==
    ASSUME LInv, Settled, Partition, early = {}, RunCount = Cardinality(Hosts)
    PROVE  \A h \in Hosts : phase[h] = "done"
<1>1. {h \in Hosts : summary[h] # {}} = Hosts
  BY LongRunAssumption, FS_Subset DEF RunCount
<1> QED BY <1>1, PartitionCounts DEF LInv, HostInv, Reported

LEMMA Agree == ASSUME LInv PROVE ReportsAgree
<1>1. ASSUME NEW h \in Hosts, phase[h] = "done", ~Stale(h), NEW s \in summary[h]
      PROVE  s.finished = Cardinality({i \in Indices : dirs[h][i] = "summary"})
  BY <1>1, SummariesOfRun DEF LInv, HostInv, Reported, Counted
<1>2. ASSUME Settled, Partition, \A h \in Hosts : ~Stale(h)
      PROVE  /\ ~ModeReportRaises /\ ModeReport.executed >= ModeReport.planned => Lost = {}
             /\ early = {} /\ RunCount = Cardinality(Hosts) /\ IncompleteRuns = 0 => Lost = {}
  <2>1. ASSUME ModeReport.executed >= ModeReport.planned, NEW k \in Lost PROVE FALSE
    <3>1. Executed < Len(lines) /\ Len(lines) \in Nat /\ k \in 0..(Len(lines) - 1)
      BY <1>2, <2>1, LostLowersTheRate, FileFits DEF Lost
    <3>2. ModeReport.planned = Len(lines)
          /\ ModeReport.executed = (IF mode = "net" THEN 0 ELSE Executed)
      BY Zenon DEF ModeReport
    <3>3. Executed \in Int
      <4>1. IsFiniteSet(Indices \cap (0..(Len(lines) - 1)))
        BY <3>1, Below, FS_Intersection
      <4>2. Summaries \in SUBSET (Hosts \X (Indices \cap (0..(Len(lines) - 1))))
        BY <3>1, IndicesNat DEF Summaries, LInv, HostInv, InFile
      <4>3. IsFiniteSet(Summaries)
        BY <4>1, <4>2, LongRunAssumption, FS_Product, FS_Subset
      <4> QED BY <4>3, FS_CardinalityType DEF Executed
    <3> QED BY <2>1, <3>1, <3>2, <3>3
  <2>2. ASSUME early = {}, RunCount = Cardinality(Hosts), NEW k \in Lost PROVE FALSE
    <3>1. \A h \in Hosts : phase[h] = "done" /\ ~Stale(h)
      BY <1>2, <2>2, AllSummarised
    <3>2. \E h \in Hosts : {g \in Hosts : dirs[g][k] = "summary"} = {h}
      BY <1>2, <2>2, <3>1, OncePerCase DEF Lost
    <3> QED BY <2>2, <3>2 DEF Lost
  <2> QED BY <2>1, <2>2
<1> QED BY <1>1, <1>2 DEF ReportsAgree

\* What the reports count and what the runs wrote agree with what happened, for
\* any number of hosts: a full execution rate, or a run summary from every host,
\* means that no case of the campaign was lost.
THEOREM ReportsTellTheTruth == Spec => []ReportsAgree
BY Invariance, Agree, PTL
-----------------------------------------------------------------------------
(* The campaign file *)

\* A line says where it stands and whether it was drawn.
LineFits(k) ==
    /\ lines[k].index = k - 1 /\ (lines[k].random <=> k - 1 \in flagged)
    /\ lines[k].random => lines[k].random_value
    /\ lines[k].random_value => lines[k].random \/ mode # "tls"

CInv ==
    /\ lines \in Seq(Line)
    /\ JobRaises(mode, job) \/ flagged \in Draws(job)
    /\ last \subseteq CasesOf(mode, Len(lines) \in flagged)
    /\ \A k \in DOMAIN lines : LineFits(k)
    /\ gen = "closed" => Len(lines) = job.count /\ ~JobRaises(mode, job)

\* A drawn case has a random value, of whatever mode it is.
LEMMA DrawnIsRandom ==
    ASSUME NEW m, NEW draw \in BOOLEAN, draw, NEW c \in CasesOf(m, draw)
    PROVE  c.strategy = "random_value"
<1>1. CASE m = "tls"
  <2>1. c \in TlsCases(draw)
    BY <1>1 DEF CasesOf
  <2> QED BY <2>1 DEF TlsCases
<1>2. CASE m = "kv"
  <2>1. c \in KvCases(draw)
    BY <1>2 DEF CasesOf
  <2> QED BY <2>1 DEF KvCases, KvCase
<1>3. CASE m \notin {"tls", "kv"}
  <2>1. c \in NetCases(draw)
    BY <1>3 DEF CasesOf
  <2> QED BY <2>1 DEF NetCases
<1> QED BY <1>1, <1>2, <1>3

\* The TLS catalog lists no random strategy of its own.
LEMMA PlainIsNotRandom ==
    ASSUME NEW c \in CasesOf("tls", FALSE)
    PROVE  c.strategy # "random_value"
<1>1. c \in TlsCases(FALSE)
  BY DEF CasesOf
<1>2. PICK f \in TlsCatalog : c.strategy \in f.strategies
  BY <1>1 DEF TlsCases, TlsMatching
<1> QED BY <1>2, TlsCatalogAssumption

LEMMA CInvInit == Init => CInv
<1> SUFFICES ASSUME Init PROVE CInv
  OBVIOUS
<1>1. lines = <<>> /\ last = {} /\ gen = "writing"
  BY DEF Init
<1>2. JobRaises(mode, job) \/ flagged \in Draws(job)
  BY Zenon DEF Init
<1> QED BY <1>1, <1>2 DEF CInv

\* Nobody but the generator touches the file.
LEMMA FileRests ==
    ASSUME CInv, UNCHANGED <<mode, job, flagged, genVars>>
    PROVE  CInv'
<1>1. UNCHANGED <<mode, job, flagged, gen, lines, last>>
  BY DEF genVars
<1>2. CasesOf(mode, Len(lines) \in flagged)' = CasesOf(mode, Len(lines) \in flagged)
  BY <1>1
<1>3. \A k \in DOMAIN lines' : LineFits(k)'
  BY <1>1 DEF CInv, LineFits
<1> QED BY <1>1, <1>2, <1>3 DEF CInv, Draws, JobRaises, RandomBudget

LEMMA YieldCaseFits ==
    ASSUME CInv, YieldCase PROVE CInv'
<1>1. /\ UNCHANGED <<mode, job, flagged, gen, lines>> /\ gen = "writing"
      /\ \E c \in CasesOf(mode, Len(lines) \in flagged) : last' = {c}
  BY Zenon DEF YieldCase, GenStep
<1>2. last' \subseteq CasesOf(mode, Len(lines) \in flagged)'
  BY <1>1, Zenon
<1>3. \A k \in DOMAIN lines' : LineFits(k)'
  BY <1>1 DEF CInv, LineFits
<1> QED BY <1>1, <1>2, <1>3 DEF CInv

LEMMA WriteLineFits ==
    ASSUME CInv, WriteLine PROVE CInv'
<1>1. PICK c \in last : lines' = Append(lines,
             [index |-> Len(lines), random |-> Len(lines) \in flagged,
              random_value |-> c.strategy = "random_value"])
  BY DEF WriteLine
<1>2. /\ gen = "writing" /\ last' = {}
      /\ UNCHANGED <<mode, job, flagged, gen>>
  BY DEF WriteLine, GenStep
<1>3. PICK b \in BOOLEAN, v \in BOOLEAN :
         /\ lines' = Append(lines, [index |-> Len(lines), random |-> b, random_value |-> v])
         /\ b <=> Len(lines) \in flagged
         /\ v <=> c.strategy = "random_value"
  <2>1. (Len(lines) \in flagged) \in BOOLEAN /\ (c.strategy = "random_value") \in BOOLEAN
    OBVIOUS
  <2> QED BY <1>1, <2>1, Zenon
<1>4. c \in CasesOf(mode, Len(lines) \in flagged)
  BY DEF CInv
<1>5. Len(lines) \in flagged => c.strategy = "random_value"
  BY <1>4, DrawnIsRandom
<1>6. mode = "tls" /\ Len(lines) \notin flagged => c.strategy # "random_value"
  <2> SUFFICES ASSUME mode = "tls", Len(lines) \notin flagged
               PROVE  c.strategy # "random_value"
    OBVIOUS
  <2>1. c \in CasesOf("tls", Len(lines) \in flagged)
    BY <1>4, Zenon
  <2>2. (Len(lines) \in flagged) = FALSE
    OBVIOUS
  <2>3. c \in CasesOf("tls", FALSE)
    BY <2>1, <2>2, Zenon
  <2> QED BY <2>3, PlainIsNotRandom
<1>7. /\ lines' \in Seq(Line) /\ Len(lines) \in Nat /\ DOMAIN lines' = 1..(Len(lines) + 1)
      /\ DOMAIN lines = 1..Len(lines)
      /\ \A k \in 1..Len(lines) : lines'[k] = lines[k]
      /\ lines'[Len(lines) + 1] = [index |-> Len(lines), random |-> b, random_value |-> v]
  BY <1>3 DEF CInv, Line
<1>8. ASSUME NEW k \in DOMAIN lines' PROVE LineFits(k)'
  <2>1. CASE k \in 1..Len(lines)
    BY <1>2, <1>7, <2>1 DEF CInv, LineFits
  <2>2. CASE k = Len(lines) + 1
    <3>1. k - 1 = Len(lines) /\ flagged' = flagged /\ mode' = mode
      BY <1>2, <1>7, <2>2
    <3>2. lines'[k].index = Len(lines) /\ lines'[k].random = b /\ lines'[k].random_value = v
      BY <1>7, <2>2
    <3> QED BY <1>5, <1>6, <1>3, <3>1, <3>2 DEF LineFits
  <2> QED BY <1>7, <2>1, <2>2
<1> QED BY <1>2, <1>7, <1>8 DEF CInv

LEMMA CloseCampaignFits ==
    ASSUME CInv, CloseCampaign PROVE CInv'
<1>1. /\ UNCHANGED <<mode, job, flagged, lines, last>> /\ last = {}
      /\ Len(lines) = job.count /\ ~JobRaises(mode, job)
  BY DEF CloseCampaign, GenStep
<1>2. \A k \in DOMAIN lines' : LineFits(k)'
  BY <1>1 DEF CInv, LineFits
<1> QED BY <1>1, <1>2 DEF CInv

LEMMA GenBreaksFits ==
    ASSUME CInv, GenBreaks PROVE CInv'
<1>1. PICK n \in 0..Len(lines) : lines' = SubSeq(lines, 1, n)
  BY DEF GenBreaks
<1>2. UNCHANGED <<mode, job, flagged, last>> /\ last = {} /\ gen' = "broken"
  BY DEF GenBreaks, GenStep
<1>3. /\ lines \in Seq(Line) /\ Len(lines) \in Nat /\ n \in Nat /\ n <= Len(lines)
      /\ DOMAIN lines = 1..Len(lines)
  BY DEF CInv
<1>4. lines' \in Seq(Line) /\ DOMAIN lines' = 1..n /\ \A k \in 1..n : lines'[k] = lines[k]
  BY <1>1, <1>3
<1>5. \A k \in DOMAIN lines' : LineFits(k)'
  BY <1>2, <1>3, <1>4 DEF CInv, LineFits
<1> QED BY <1>2, <1>4, <1>5 DEF CInv

LEMMA CInvStep ==
    ASSUME CInv, [Next]_vars
    PROVE  CInv'
<1>1. CASE YieldCase \/ WriteLine \/ CloseCampaign \/ GenBreaks
  BY <1>1, YieldCaseFits, WriteLineFits, CloseCampaignFits, GenBreaksFits
<1>2. CASE Refuse \/ Rest \/ UNCHANGED vars
  BY <1>2, FileRests DEF Refuse, RunStep, Rest, vars
<1>3. ASSUME NEW h \in Hosts, Launch(h) \/ Start(h) \/ KillRun(h) PROVE CInv'
  <2>1. RunStep
    BY <1>3, Zenon DEF Launch, Start, KillRun
  <2> QED BY <2>1, FileRests DEF RunStep
<1>4. ASSUME NEW h \in Hosts,
             PassOver(h) \/ OpenCase(h) \/ ConcludeCase(h) \/ FinishRun(h) \/ RunFails(h)
      PROVE  CInv'
  <2>1. RunStep
    BY <1>4, Zenon DEF PassOver, OpenCase, ConcludeCase, FinishRun, RunFails, Step
  <2> QED BY <2>1, FileRests DEF RunStep
<1> QED BY <1>1, <1>2, <1>3, <1>4 DEF Next

\* The random lines of a whole file are as many as were drawn.
LEMMA RandomShare ==
    ASSUME CInv, gen = "closed"
    PROVE  Cardinality({k \in DOMAIN lines : lines[k].random}) = RandomBudget(job)
<1> DEFINE S == {k \in DOMAIN lines : lines[k].random}
           f == [k \in S |-> k - 1]
<1>1. /\ flagged \subseteq 0..(job.count - 1) /\ Cardinality(flagged) = RandomBudget(job)
      /\ Len(lines) = job.count /\ lines \in Seq(Line)
  BY DEF CInv, Draws
<1>2. DOMAIN lines = 1..job.count /\ job.count \in Nat
  BY <1>1
<1>3. IsFiniteSet(S)
  <2>1. IsFiniteSet(1..job.count) /\ S \in SUBSET (1..job.count)
    BY <1>2, FS_Interval
  <2> QED BY <2>1, FS_Subset
<1>4. \A k \in S : k \in Int /\ k - 1 \in flagged
  BY <1>2 DEF CInv, LineFits
<1>5. \A j \in flagged : j + 1 \in S /\ (j + 1) - 1 = j
  BY <1>1, <1>2 DEF CInv, LineFits
<1>6. f \in Injection(S, flagged)
  BY <1>4 DEF Injection, IsInjective
<1>7. f \in Surjection(S, flagged)
  BY <1>4, <1>5 DEF Surjection
<1>8. ExistsBijection(S, flagged)
  BY <1>6, <1>7 DEF ExistsBijection, Bijection
<1> QED BY <1>1, <1>3, <1>8, FS_Bijection

LEMMA Exact == ASSUME CInv PROVE CampaignExact
<1>1. \A k \in DOMAIN lines :
         /\ lines[k].index = k - 1
         /\ lines[k].random => lines[k].random_value
         /\ lines[k].random_value => lines[k].random \/ mode # "tls"
  BY DEF CInv, LineFits
<1>2. ModeReport.random = Cardinality({k \in DOMAIN lines : lines[k].random})
  BY DEF ModeReport
<1>3. gen = "closed" =>
         Len(lines) = job.count /\ ModeReport.random = Round(job.count * job.ratio, 10)
  BY <1>2, RandomShare DEF CInv, RandomBudget
<1> QED BY <1>1, <1>3 DEF CampaignExact

\* The campaign file of generate-campaign is numbered without a gap wherever its
\* writing ends, and a whole one has the cases and the share of random mutations
\* that were asked for, for any catalog, any count and any ratio.
THEOREM CampaignsAreExact == Spec => []CampaignExact
BY CInvInit, CInvStep, Exact, PTL DEF Spec
-----------------------------------------------------------------------------
(* Which cases the generators draw *)

\* The case in the generator's hands is one of the mode's.
GeneratedCases == last \subseteq CasesOf(mode, TRUE) \cup CasesOf(mode, FALSE)

LEMMA GeneratedInit == Init => GeneratedCases
BY DEF Init, GeneratedCases

LEMMA GeneratedStep ==
    ASSUME GeneratedCases, [Next]_vars
    PROVE  GeneratedCases'
<1>1. ASSUME UNCHANGED <<mode, last>> PROVE GeneratedCases'
  BY <1>1 DEF GeneratedCases
<1>2. ASSUME mode' = mode, last' = {} PROVE GeneratedCases'
  BY <1>2 DEF GeneratedCases
<1>3. CASE YieldCase
  <2>1. mode' = mode /\ \E c \in CasesOf(mode, Len(lines) \in flagged) : last' = {c}
    BY <1>3 DEF YieldCase, GenStep
  <2>2. (Len(lines) \in flagged) = TRUE \/ (Len(lines) \in flagged) = FALSE
    OBVIOUS
  <2> QED BY <2>1, <2>2 DEF GeneratedCases
<1>4. CASE WriteLine
  BY <1>2, <1>4 DEF WriteLine, GenStep
<1>5. CASE CloseCampaign \/ GenBreaks
  BY <1>1, <1>5 DEF CloseCampaign, GenBreaks, GenStep
<1>6. CASE Refuse
  BY <1>1, <1>6 DEF Refuse, RunStep, genVars
<1>7. CASE Rest \/ UNCHANGED vars
  BY <1>1, <1>7 DEF Rest, vars, genVars
<1>8. ASSUME NEW h \in Hosts, Launch(h) \/ Start(h) \/ KillRun(h) PROVE GeneratedCases'
  BY <1>1, <1>8 DEF Launch, Start, KillRun, RunStep, genVars
<1>9. ASSUME NEW h \in Hosts, PassOver(h) \/ OpenCase(h) \/ ConcludeCase(h) \/ FinishRun(h) \/ RunFails(h)
      PROVE  GeneratedCases'
  BY <1>1, <1>9 DEF PassOver, OpenCase, ConcludeCase, FinishRun, RunFails, Step, RunStep, genVars
<1> QED BY <1>3, <1>4, <1>5, <1>6, <1>7, <1>8, <1>9 DEF Next

\* Of each mode's cases.
TlsFits(c) ==
    /\ c.strategy \in c.field.strategies \cup {"random_value"}
    /\ c.field.pdu_type = c.pdu_type
    /\ c.direction # "both" => c.field.direction \in {c.direction, "both"}
    /\ c.mutated.is = "bit" => c.mutated.n < c.field.bit_width
    /\ "PASS_VALID" \notin c.allowed

LEMMA TlsMutations ==
    ASSUME NEW f \in TlsCatalog, NEW s, NEW m \in TlsMutated(f, s), m.is = "bit"
    PROVE  m.n < f.bit_width
<1>1. \A set : \A v \in Values(set) : v.is = "value"
  BY DEF Values
<1>2. \A v \in Event : v.is = "event"
  BY DEF Event
<1>3. \A v \in Random(f) : v.is = "value"
  BY <1>1 DEF Random
<1>4. s = "bit_flip"
  BY <1>1, <1>2, <1>3 DEF TlsMutated
<1>5. PICK b \in 0..(f.bit_width - 1) : m = [is |-> "bit", n |-> b]
  BY <1>4 DEF TlsMutated
<1> QED BY <1>5, TlsCatalogAssumption

LEMMA TlsCasesFit == \A flag \in BOOLEAN : \A c \in TlsCases(flag) : TlsFits(c)
<1> SUFFICES ASSUME NEW flag \in BOOLEAN, NEW c \in TlsCases(flag) PROVE TlsFits(c)
  OBVIOUS
<1> DEFINE Row(d, p, f, s) ==
             {[direction |-> d, pdu_type |-> p, field |-> f, strategy |-> s, mutated |-> m,
               phase |-> TlsPhase(f), allowed |-> TlsAllowed(f, s)] : m \in TlsMutated(f, s)}
           Rows(d, p, f) ==
             UNION {Row(d, p, f, s) : s \in IF flag THEN {"random_value"} ELSE f.strategies}
           Used(d, p) == IF TlsMatching(d, p) = {} THEN "both" ELSE d
           Drawn(d, p) == UNION {Rows(Used(d, p), p, f) : f \in TlsMatching(Used(d, p), p)}
<1>1. PICK direction \in TlsDirections, pdu \in {f.pdu_type : f \in TlsCatalog} :
        c \in Drawn(direction, pdu)
  <2>1. TlsCases(flag) = UNION {Drawn(d, p) : d \in TlsDirections, p \in {f.pdu_type : f \in TlsCatalog}}
    BY DEF TlsCases
  <2> HIDE DEF Drawn
  <2> QED BY <2>1
<1> DEFINE used == Used(direction, pdu)
<1>2. PICK f \in TlsMatching(used, pdu) : c \in Rows(used, pdu, f)
  <2> HIDE DEF Rows
  <2> QED BY <1>1
<1>3. PICK s \in f.strategies \cup {"random_value"} : c \in Row(used, pdu, f, s)
  <2> HIDE DEF Row
  <2> QED BY <1>2
<1>4. PICK m \in TlsMutated(f, s) :
        c = [direction |-> used, pdu_type |-> pdu, field |-> f, strategy |-> s, mutated |-> m,
             phase |-> TlsPhase(f), allowed |-> TlsAllowed(f, s)]
  BY <1>3
<1> HIDE DEF used
<1>5. /\ f \in TlsCatalog /\ f.pdu_type = pdu
      /\ used # "both" => f.direction \in {used, "both"}
  BY DEF TlsMatching
<1>6. "PASS_VALID" \notin TlsAllowed(f, s)
  BY <1>5, TlsCatalogAssumption DEF TlsAllowed
<1> QED BY <1>4, <1>5, <1>6, TlsMutations DEF TlsFits

KvFits(c) ==
    /\ c.strategy \in c.field.strategies \cup {"random_value"}
    /\ \/ c.field.operation \in {c.operation, "any"}
       \/ \A f \in KvCatalog : f.operation \in {c.operation, "any"} => c.strategy \notin f.strategies
    /\ Argv(c).opcode # PlainArgv(c).opcode => c.field.path = "kv.opcode"
    /\ Argv(c).nsid # PlainArgv(c).nsid => c.field.path = "kv.nsid" /\ c.nsid # 0
    /\ \A w \in DOMAIN Argv(c).cdw :
         Argv(c).cdw[w] # PlainArgv(c).cdw[w] => w = Lands(c.field, c.strategy)
    /\ Argv(c) = PlainArgv(c) /\ "PASS_VALID" \notin c.allowed => c.field.path \in SilentFields

Words == DOMAIN MakeCdw(0, 0) \ {"option_bits", "reserved_bits"}

\* The words, the opcode and the namespace on the command line.
LEMMA ArgvOf ==
    ASSUME NEW c
    PROVE  /\ Argv(c).opcode = c.opcode
           /\ Argv(c).nsid = IF c.nsid = 0 THEN KvNsid ELSE c.nsid
           /\ Argv(c).cdw = [w \in DOMAIN c.cdw \ {"option_bits", "reserved_bits"} |-> c.cdw[w]]
BY DEF Argv

LEMMA CdwNames ==
    ASSUME NEW key, NEW value
    PROVE  /\ DOMAIN MakeCdw(key, value) = DOMAIN MakeCdw(0, 0)
           /\ \A w \in DOMAIN MakeCdw(0, 0) :
                MakeCdw(key, value)[w] = IF w = "cdw10" THEN key ELSE IF w = "cdw11" THEN value ELSE 0
BY DEF MakeCdw

LEMMA KvCaseFits ==
    ASSUME NEW op \in Operations, NEW s, NEW f \in KvFields(op, s), NEW m \in KvMutated(f, s),
           NEW key \in KeyLengths[s = "invalid_key_size"],
           NEW value \in IF op \in {"store", "retrieve"} THEN ValueLengths[s = "legal_boundary"] ELSE {0},
           s = "random_value" \/ s \in StrategiesOf(KvCatalog)
    PROVE  KvFits(KvCase(op, f, s, m, key, value))
<1> DEFINE c == KvCase(op, f, s, m, key, value)
           p == [c EXCEPT !.opcode = KV_OPCODES[c.operation], !.nsid = KvNsid,
                          !.cdw = MakeCdw(c.key_length, c.value_length)]
           number == m.is = "value"
           plain == MakeCdw(key, value)
<1>1. /\ c.operation = op /\ c.field = f /\ c.strategy = s /\ c.key_length = key
      /\ c.value_length = value /\ c.allowed = KvAllowed(f, s)
      /\ c.opcode = IF f.path = "kv.opcode" /\ number THEN m.n ELSE KV_OPCODES[op]
      /\ c.nsid = IF f.path = "kv.nsid" /\ number THEN m.n ELSE KvNsid
      /\ c.cdw = IF Lands(f, s) \in DOMAIN plain /\ number
                 THEN [plain EXCEPT ![Lands(f, s)] = m.n] ELSE plain
  BY DEF KvCase
<1>2. p.opcode = KV_OPCODES[op] /\ p.nsid = KvNsid /\ p.cdw = plain /\ PlainArgv(c) = Argv(p)
  <2>1. /\ p.opcode = KV_OPCODES[c.operation] /\ p.nsid = KvNsid
        /\ p.cdw = MakeCdw(c.key_length, c.value_length)
    BY DEF KvCase
  <2> QED BY <1>1, <2>1 DEF PlainArgv
<1> HIDE DEF c, p
<1>3. /\ Argv(c).opcode = c.opcode /\ PlainArgv(c).opcode = KV_OPCODES[op]
      /\ Argv(c).nsid = (IF c.nsid = 0 THEN KvNsid ELSE c.nsid) /\ PlainArgv(c).nsid = KvNsid
  BY <1>2, ArgvOf
<1>4. /\ DOMAIN plain = DOMAIN MakeCdw(0, 0)
      /\ DOMAIN c.cdw = DOMAIN plain
      /\ \A w \in DOMAIN plain : c.cdw[w] = IF w = Lands(f, s) /\ number THEN m.n ELSE plain[w]
  <2>1. DOMAIN plain = DOMAIN MakeCdw(0, 0) /\ plain = [w \in DOMAIN plain |-> plain[w]]
    BY CdwNames DEF MakeCdw
  <2> HIDE DEF plain
  <2> QED BY <1>1, <2>1
<1>5. /\ Argv(c).cdw = [w \in Words |-> c.cdw[w]] /\ PlainArgv(c).cdw = [w \in Words |-> plain[w]]
      /\ Words \subseteq DOMAIN plain
  <2> HIDE DEF plain
  <2>1. /\ Argv(c).cdw = [w \in DOMAIN c.cdw \ {"option_bits", "reserved_bits"} |-> c.cdw[w]]
        /\ Argv(p).cdw = [w \in DOMAIN p.cdw \ {"option_bits", "reserved_bits"} |-> p.cdw[w]]
    BY ArgvOf
  <2> QED BY <1>2, <1>4, <2>1 DEF Words
<1>6. s \in f.strategies \cup {"random_value"}
  <2>1. f \in KvMatching({op}, s) \/ f \in KvMatching(Operations, s)
    BY DEF KvFields, Either
  <2> QED BY <2>1 DEF KvMatching
<1>7. \/ f.operation \in {op, "any"}
      \/ \A g \in KvCatalog : g.operation \in {op, "any"} => s \notin g.strategies
  BY DEF KvFields, Either, KvMatching
<1>8. ASSUME Argv(c) = PlainArgv(c), "PASS_VALID" \notin KvAllowed(f, s)
      PROVE  f.path \in SilentFields
  <2>1. s \in RejectOnly
    BY <1>8 DEF KvAllowed
  <2>2. SUFFICES ASSUME f.path \notin SilentFields PROVE FALSE
    OBVIOUS
  <2>3. Lands(f, s) \in Words /\ number /\ m.n \notin PlainWord(Lands(f, s), op, s)
    BY <2>1, <2>2, KvCatalogAssumption DEF Words
  <2>4. plain[Lands(f, s)] \in PlainWord(Lands(f, s), op, s)
    BY <2>1, <2>3, CdwNames DEF PlainWord, Words
  <2>5. Argv(c).cdw[Lands(f, s)] = m.n /\ PlainArgv(c).cdw[Lands(f, s)] = plain[Lands(f, s)]
    BY <1>4, <1>5, <2>3
  <2> QED BY <1>8, <2>3, <2>4, <2>5
<1>9. \A w \in DOMAIN Argv(c).cdw : Argv(c).cdw[w] # PlainArgv(c).cdw[w] => w = Lands(f, s)
  BY <1>4, <1>5
<1> HIDE DEF plain
<1> QED BY <1>1, <1>3, <1>6, <1>7, <1>8, <1>9 DEF KvFits, c

LEMMA KvCasesFit == \A flag \in BOOLEAN : \A c \in KvCases(flag) : KvFits(c)
<1> SUFFICES ASSUME NEW flag \in BOOLEAN, NEW c \in KvCases(flag) PROVE KvFits(c)
  OBVIOUS
<1> DEFINE Strategies == IF flag THEN {"random_value"} ELSE StrategiesOf(KvCatalog)
           Row(op, s, f) ==
             {KvCase(op, f, s, m, key, value) : m \in KvMutated(f, s),
                  key \in KeyLengths[s = "invalid_key_size"],
                  value \in IF op \in {"store", "retrieve"} THEN ValueLengths[s = "legal_boundary"] ELSE {0}}
           Rows(op, s) == UNION {Row(op, s, f) : f \in KvFields(op, s)}
<1>1. PICK op \in Operations, s \in Strategies : c \in Rows(op, s)
  <2>1. KvCases(flag) = UNION {Rows(op, s) : op \in Operations, s \in Strategies}
    BY DEF KvCases
  <2> HIDE DEF Rows
  <2> QED BY <2>1
<1>2. PICK f \in KvFields(op, s) : c \in Row(op, s, f)
  <2> HIDE DEF Row
  <2> QED BY <1>1
<1>3. s = "random_value" \/ s \in StrategiesOf(KvCatalog)
  OBVIOUS
<1> QED BY <1>2, <1>3, KvCaseFits

LEMMA NetCasesFit ==
    \A flag \in BOOLEAN : \A c \in NetCases(flag) : c.strategy \in c.field.strategies \cup {"random_value"}
BY DEF NetCases

LEMMA GeneratedFit == GeneratedCases => CasesFit
<1> SUFFICES ASSUME GeneratedCases, NEW c \in last
             PROVE  /\ c.strategy \in c.field.strategies \cup {"random_value"}
                    /\ mode = "tls" => TlsFits(c)
                    /\ mode = "kv" => KvFits(c)
  BY DEF CasesFit, TlsFits, KvFits
<1>1. PICK flag \in BOOLEAN : c \in CasesOf(mode, flag)
  BY DEF GeneratedCases
<1>2. CASE mode = "tls"
  BY <1>1, <1>2, TlsCasesFit DEF CasesOf, TlsFits
<1>3. CASE mode = "kv"
  BY <1>1, <1>3, KvCasesFit DEF CasesOf, KvFits
<1>4. CASE mode # "tls" /\ mode # "kv"
  BY <1>1, <1>4, NetCasesFit DEF CasesOf
<1> QED BY <1>2, <1>3, <1>4

\* A case keeps to its row of the catalog, a TLS case to its direction and width,
\* a KV case changes nothing of the command but what its row names, and one that
\* may only be rejected differs from the plain command, for every catalog that
\* keeps to the named assumptions and every draw.
THEOREM GeneratedCasesFit == Spec => []CasesFit
BY GeneratedInit, GeneratedStep, GeneratedFit, PTL DEF Spec
-----------------------------------------------------------------------------
(* Where a setting comes from *)

Kinds == {"number", "text", "chain", "on", "off", "pcap"}
WellFormed(s) == s.kind \in Kinds /\ DOMAIN s.keys \in {1..1, 1..2}

LEMMA FromFits ==
    ASSUME NEW kind \in Kinds, NEW a, NEW b, NEW gap
    PROVE  WellFormed(From(kind, <<a>>, gap)) /\ WellFormed(From(kind, <<a, b>>, gap))
BY DEF WellFormed, From

LEMMA PolicyNames ==
    DOMAIN PolicySettings = {"shard_index", "shard_count", "artifact_budget_gb", "free_space_floor_gb",
                             "compress", "keep_pass_full", "keep_pcap", "keep_pass_pcap"}
BY DEF PolicySettings

LEMMA TlsNames ==
    DOMAIN TlsSettings =
      {"workers", "runtime_s", "timeout_s", "engine", "device", "transport", "subsysnqn", "hostnqn",
       "connection_lifecycle", "traddr", "trsvcid", "fio_bin", "vdbench_bin", "nvme_bin", "keyctl_bin",
       "tls_key_source", "tls_key_env", "tls_key_file", "tls_key_identity", "tls_keyring",
       "allow_write", "discover_before_connect", "disconnect_after_case", "import_tls_key"}
BY DEF TlsSettings

LEMMA PolicyFit == \A name \in DOMAIN PolicySettings : WellFormed(PolicySettings[name])
<1>1. /\ WellFormed(PolicySettings["shard_index"]) /\ WellFormed(PolicySettings["shard_count"])
      /\ WellFormed(PolicySettings["artifact_budget_gb"]) /\ WellFormed(PolicySettings["free_space_floor_gb"])
      /\ WellFormed(PolicySettings["compress"]) /\ WellFormed(PolicySettings["keep_pass_full"])
      /\ WellFormed(PolicySettings["keep_pcap"]) /\ WellFormed(PolicySettings["keep_pass_pcap"])
  BY FromFits DEF PolicySettings, Kinds
<1> QED BY <1>1, PolicyNames

LEMMA TlsFit == \A name \in DOMAIN TlsSettings : WellFormed(TlsSettings[name])
<1>1. /\ WellFormed(TlsSettings["workers"]) /\ WellFormed(TlsSettings["runtime_s"])
      /\ WellFormed(TlsSettings["timeout_s"]) /\ WellFormed(TlsSettings["engine"])
      /\ WellFormed(TlsSettings["device"]) /\ WellFormed(TlsSettings["transport"])
      /\ WellFormed(TlsSettings["subsysnqn"]) /\ WellFormed(TlsSettings["hostnqn"])
      /\ WellFormed(TlsSettings["connection_lifecycle"])
  BY FromFits DEF TlsSettings, Kinds
<1>2. /\ WellFormed(TlsSettings["traddr"]) /\ WellFormed(TlsSettings["trsvcid"])
      /\ WellFormed(TlsSettings["fio_bin"]) /\ WellFormed(TlsSettings["vdbench_bin"])
      /\ WellFormed(TlsSettings["nvme_bin"]) /\ WellFormed(TlsSettings["keyctl_bin"])
      /\ WellFormed(TlsSettings["tls_key_source"]) /\ WellFormed(TlsSettings["tls_key_env"])
      /\ WellFormed(TlsSettings["tls_key_file"])
  BY FromFits DEF TlsSettings, Kinds
<1>3. /\ WellFormed(TlsSettings["tls_key_identity"]) /\ WellFormed(TlsSettings["tls_keyring"])
      /\ WellFormed(TlsSettings["allow_write"]) /\ WellFormed(TlsSettings["discover_before_connect"])
      /\ WellFormed(TlsSettings["disconnect_after_case"]) /\ WellFormed(TlsSettings["import_tls_key"])
  BY FromFits DEF TlsSettings, Kinds
<1> QED BY <1>1, <1>2, <1>3, TlsNames

LEMMA SettingsFit == \A name \in DOMAIN Settings : WellFormed(Settings[name])
BY PolicyFit, TlsFit DEF Settings

\* The search through the keys of a setting stops at the first one that counts.
LEMMA FirstOfKeys ==
    ASSUME NEW keys, DOMAIN keys \in {1..1, 1..2}, NEW hits \in SUBSET DOMAIN keys, hits # {}
    PROVE  LET first == CHOOSE i \in hits : \A j \in hits : i <= j
           IN  first \in hits /\ \A j \in hits : first <= j
<1>1. \E i \in hits : \A j \in hits : i <= j
  <2>1. hits \in SUBSET {1, 2}
    OBVIOUS
  <2> QED BY <2>1
<1> QED BY <1>1

\* A key of the file that can reach a setting is where the search ends, when no
\* key before it can.
LEMMA LookupFindsFile ==
    ASSUME NEW s, WellFormed(s), s.kind # "chain", NEW file,
           NEW i \in DOMAIN s.keys, s.keys[i] \in DOMAIN file, Reaches(s.keys[i], s),
           \A j \in 1..(i - 1) : ~(s.keys[j] \in DOMAIN file /\ Reaches(s.keys[j], s))
    PROVE  Lookup(Merged(file), s) = Scalar(file[s.keys[i]])
<1> DEFINE config == Merged(file)
           hits == {j \in DOMAIN s.keys : s.keys[j] \in DOMAIN config}
           first == CHOOSE j \in hits : \A l \in hits : j <= l
<1>1. DOMAIN config = DOMAIN DEFAULT_CONFIG \cup DOMAIN file
  BY DEF Merged
<1>2. i \in hits /\ hits # {} /\ DOMAIN s.keys \in {1..1, 1..2} /\ i \in Nat
  BY <1>1 DEF WellFormed
<1>3. first \in hits /\ \A j \in hits : first <= j
  <2> HIDE DEF hits
  <2>1. hits \in SUBSET DOMAIN s.keys
    BY DEF hits
  <2> QED BY <1>2, <2>1, FirstOfKeys
<1>4. PICK t \in DOMAIN s.keys : /\ s.keys[t] = s.keys[i]
                                 /\ \A j \in 1..(t - 1) : s.keys[j] \notin DOMAIN DEFAULT_CONFIG
  BY DEF Reaches
<1>5. s.keys[first] = s.keys[i]
  <2> HIDE DEF first, config
  <2>1. first \in DOMAIN s.keys /\ first <= i /\ first <= t /\ first \in Nat /\ t \in Nat /\ first >= 1
    BY <1>1, <1>2, <1>3, <1>4
  <2>2. CASE first = i \/ first = t
    BY <1>4, <2>2
  <2>3. CASE first < i /\ first < t
    <3>1. s.keys[first] \notin DOMAIN DEFAULT_CONFIG /\ first \in 1..(i - 1)
      BY <1>2, <1>4, <2>1, <2>3
    <3>2. s.keys[first] \in DOMAIN file
      BY <1>1, <1>3, <3>1
    <3>3. Reaches(s.keys[first], s)
      <4>1. \A j \in 1..(first - 1) : j \in 1..(t - 1)
        BY <2>1, <2>3
      <4> QED BY <1>4, <2>1, <4>1 DEF Reaches
    <3> QED BY <3>1, <3>2, <3>3
  <2> QED BY <1>2, <2>1, <2>2, <2>3
<1>6. Lookup(config, s) = config[s.keys[first]]
  <2> HIDE DEF config
  <2> QED BY <1>2 DEF Lookup
<1> QED BY <1>5, <1>6 DEF Merged

\* The same for the settings whose search passes over empty values.
LEMMA ChainFindsFile ==
    ASSUME NEW s, WellFormed(s), s.kind = "chain", NEW file,
           NEW i \in DOMAIN s.keys, s.keys[i] \in DOMAIN file, Reaches(s.keys[i], s),
           Truthy(Scalar(file[s.keys[i]])),
           \A j \in 1..(i - 1) : ~(/\ s.keys[j] \in DOMAIN file /\ Reaches(s.keys[j], s)
                                   /\ Truthy(Scalar(file[s.keys[j]])))
    PROVE  Chain(Merged(file), s) = Scalar(file[s.keys[i]])
<1> DEFINE config == Merged(file)
           hits == {j \in DOMAIN s.keys : s.keys[j] \in DOMAIN config /\ Truthy(config[s.keys[j]])}
           first == CHOOSE j \in hits : \A l \in hits : j <= l
<1>1. /\ DOMAIN config = DOMAIN DEFAULT_CONFIG \cup DOMAIN file
      /\ \A k \in DOMAIN config :
           config[k] = IF k \in DOMAIN file THEN Scalar(file[k]) ELSE DEFAULT_CONFIG[k]
  BY DEF Merged
<1>2. i \in hits /\ hits # {} /\ DOMAIN s.keys \in {1..1, 1..2} /\ i \in Nat
  <2> HIDE DEF config
  <2> QED BY <1>1 DEF WellFormed
<1>3. first \in hits /\ \A j \in hits : first <= j
  <2> HIDE DEF hits
  <2>1. hits \in SUBSET DOMAIN s.keys
    BY DEF hits
  <2> QED BY <1>2, <2>1, FirstOfKeys
<1>4. PICK t \in DOMAIN s.keys :
        /\ s.keys[t] = s.keys[i]
        /\ \A j \in 1..(t - 1) : s.keys[j] \in DOMAIN DEFAULT_CONFIG =>
                                   ~Truthy(DEFAULT_CONFIG[s.keys[j]])
  BY DEF Reaches
<1>5. s.keys[first] = s.keys[i]
  <2> HIDE DEF first, config
  <2>1. /\ first \in DOMAIN s.keys /\ s.keys[first] \in DOMAIN config /\ Truthy(config[s.keys[first]])
        /\ first <= i /\ first <= t /\ first \in Nat /\ t \in Nat /\ first >= 1
    BY <1>1, <1>2, <1>3, <1>4
  <2>2. CASE first = i \/ first = t
    BY <1>4, <2>2
  <2>3. CASE first < i /\ first < t
    <3>1. first \in 1..(t - 1) /\ first \in 1..(i - 1)
      BY <1>2, <2>1, <2>3
    <3>2. s.keys[first] \in DOMAIN file /\ Truthy(Scalar(file[s.keys[first]]))
      BY <1>1, <1>4, <2>1, <3>1
    <3>3. Reaches(s.keys[first], s)
      <4>1. \A j \in 1..(first - 1) : j \in 1..(t - 1)
        BY <2>1, <2>3
      <4> QED BY <1>4, <2>1, <4>1 DEF Reaches
    <3> QED BY <3>1, <3>2, <3>3
  <2> QED BY <1>2, <2>1, <2>2, <2>3
<1>6. Chain(config, s) = config[s.keys[first]]
  <2> HIDE DEF config
  <2> QED BY <1>2 DEF Chain
<1> QED BY <1>1, <1>2, <1>3, <1>5, <1>6

\* A file none of whose keys can reach a setting leaves it at its default.
LEMMA FileApart ==
    ASSUME NEW s, WellFormed(s), NEW file, \A k \in DOMAIN file : ~Reaches(k, s)
    PROVE  /\ s.kind # "chain" => Lookup(Merged(file), s) = Lookup(Merged(<<>>), s)
           /\ s.kind = "chain" => Chain(Merged(file), s) = Chain(Merged(<<>>), s)
<1> DEFINE config == Merged(file)
           plain == Merged(<<>>)
<1>1. /\ DOMAIN config = DOMAIN DEFAULT_CONFIG \cup DOMAIN file
      /\ \A k \in DOMAIN config :
           config[k] = IF k \in DOMAIN file THEN Scalar(file[k]) ELSE DEFAULT_CONFIG[k]
      /\ DOMAIN plain = DOMAIN DEFAULT_CONFIG
      /\ \A k \in DOMAIN plain : plain[k] = DEFAULT_CONFIG[k]
  BY DEF Merged
<1>2. DOMAIN s.keys \in {1..1, 1..2}
  BY DEF WellFormed
<1> HIDE DEF config, plain
<1>3. CASE s.kind # "chain"
  <2> DEFINE hits(c) == {j \in DOMAIN s.keys : s.keys[j] \in DOMAIN c}
             first(c) == CHOOSE j \in hits(c) : \A l \in hits(c) : j <= l
  <2>1. \A j \in DOMAIN s.keys : s.keys[j] \in DOMAIN file =>
            \E l \in 1..(j - 1) : s.keys[l] \in DOMAIN DEFAULT_CONFIG
    BY <1>3 DEF Reaches
  <2>2. CASE hits(plain) = {}
    <3>1. \A j \in DOMAIN s.keys : s.keys[j] \notin DOMAIN file
      BY <1>1, <1>2, <2>1, <2>2
    <3>2. hits(config) = {}
      BY <1>1, <2>2, <3>1
    <3> QED BY <1>3, <2>2, <3>2 DEF Lookup, config, plain
  <2>3. CASE hits(plain) # {}
    <3>1. first(plain) \in hits(plain) /\ \A j \in hits(plain) : first(plain) <= j
      <4> HIDE DEF hits
      <4>1. hits(plain) \in SUBSET DOMAIN s.keys
        BY DEF hits
      <4> QED BY <1>2, <2>3, <4>1, FirstOfKeys
    <3>2. hits(plain) \subseteq hits(config)
      BY <1>1
    <3>3. first(config) \in hits(config) /\ \A j \in hits(config) : first(config) <= j
      <4> HIDE DEF hits
      <4>1. hits(config) \in SUBSET DOMAIN s.keys
        BY DEF hits
      <4> QED BY <1>2, <2>3, <3>2, <4>1, FirstOfKeys
    <3>4. \A j \in hits(config) : s.keys[j] \in DOMAIN file => \E l \in hits(plain) : l < j
      BY <1>1, <1>2, <2>1
    <3>5. first(config) = first(plain) /\ s.keys[first(config)] \notin DOMAIN file
      <4> HIDE DEF first
      <4>1. first(config) \in Nat /\ first(plain) \in Nat
        BY <1>2, <3>1, <3>3
      <4>2. s.keys[first(config)] \notin DOMAIN file
        <5>1. SUFFICES ASSUME NEW l \in hits(plain), l < first(config) PROVE FALSE
          BY <3>3, <3>4
        <5>2. l \in hits(config) /\ l \in Nat
          BY <1>2, <3>2
        <5> QED BY <3>3, <4>1, <5>1, <5>2
      <4>3. first(config) \in hits(plain)
        BY <1>1, <3>3, <4>2
      <4>4. first(plain) \in hits(config)
        BY <3>1, <3>2
      <4> QED BY <3>1, <3>3, <4>1, <4>2, <4>3, <4>4
    <3>6. Lookup(config, s) = config[s.keys[first(config)]] /\ Lookup(plain, s) = plain[s.keys[first(plain)]]
      BY <2>3, <3>2 DEF Lookup
    <3>7. config[s.keys[first(config)]] = plain[s.keys[first(plain)]]
      <4> HIDE DEF first
      <4> QED BY <1>1, <3>1, <3>5
    <3> QED BY <1>3, <3>6, <3>7 DEF config, plain
  <2> QED BY <2>2, <2>3
<1>4. CASE s.kind = "chain"
  <2> DEFINE hits(c) == {j \in DOMAIN s.keys : s.keys[j] \in DOMAIN c /\ Truthy(c[s.keys[j]])}
             first(c) == CHOOSE j \in hits(c) : \A l \in hits(c) : j <= l
  <2>1. \A j \in DOMAIN s.keys : s.keys[j] \in DOMAIN file =>
            \E l \in 1..(j - 1) : /\ s.keys[l] \in DOMAIN DEFAULT_CONFIG
                                  /\ Truthy(DEFAULT_CONFIG[s.keys[l]])
    BY <1>4 DEF Reaches
  <2>4. \A j \in DOMAIN s.keys : s.keys[j] \in DOMAIN file => \E l \in hits(plain) : l < j
    BY <1>1, <1>2, <2>1
  <2>2. CASE hits(plain) = {}
    <3>1. \A j \in DOMAIN s.keys : s.keys[j] \notin DOMAIN file
      BY <2>2, <2>4
    <3>2. hits(config) = {}
      BY <1>1, <2>2, <3>1
    <3> QED BY <1>4, <2>2, <3>2 DEF Chain, config, plain
  <2>3. CASE hits(plain) # {}
    <3>1. first(plain) \in hits(plain) /\ \A j \in hits(plain) : first(plain) <= j
      <4> HIDE DEF hits
      <4>1. hits(plain) \in SUBSET DOMAIN s.keys
        BY DEF hits
      <4> QED BY <1>2, <2>3, <4>1, FirstOfKeys
    <3>2. s.keys[first(plain)] \notin DOMAIN file
      <4> HIDE DEF first
      <4>1. \A l \in hits(plain) : l \in Nat
        BY <1>2
      <4> QED BY <2>4, <3>1, <4>1
    <3>3. first(plain) \in hits(config)
      <4> HIDE DEF first
      <4> QED BY <1>1, <3>1, <3>2
    <3>4. first(config) \in hits(config) /\ \A j \in hits(config) : first(config) <= j
      <4> HIDE DEF hits
      <4>1. hits(config) \in SUBSET DOMAIN s.keys
        BY DEF hits
      <4> QED BY <1>2, <3>3, <4>1, FirstOfKeys
    <3>5. first(config) = first(plain)
      <4> HIDE DEF first
      <4>1. first(config) \in Nat /\ first(plain) \in Nat
        BY <1>2, <3>1, <3>4
      <4>2. s.keys[first(config)] \notin DOMAIN file
        <5>1. SUFFICES ASSUME NEW l \in hits(plain), l < first(config) PROVE FALSE
          BY <2>4, <3>4
        <5>2. first(plain) <= l /\ first(config) <= first(plain) /\ l \in Nat
          BY <1>2, <3>1, <3>3, <3>4
        <5> QED BY <4>1, <5>1, <5>2
      <4>3. first(config) \in hits(plain)
        BY <1>1, <3>4, <4>2
      <4> QED BY <3>1, <3>3, <3>4, <4>1, <4>3
    <3>6. Chain(config, s) = config[s.keys[first(config)]] /\ Chain(plain, s) = plain[s.keys[first(plain)]]
      BY <2>3, <3>3 DEF Chain
    <3>7. config[s.keys[first(config)]] = plain[s.keys[first(plain)]]
      <4> HIDE DEF first
      <4> QED BY <1>1, <3>1, <3>2, <3>3, <3>5
    <3> QED BY <1>4, <3>6, <3>7 DEF config, plain
  <2> QED BY <2>2, <2>3
<1> QED BY <1>3, <1>4

LEMMA TruthyIsBoolean == \A v : Truthy(v) \in BOOLEAN
BY DEF Truthy

\* What a setting of each kind comes to.
ComesTo(e, s, name, cli, config) ==
    /\ s.kind = "number" => e = IF name \in DOMAIN cli THEN {cli[name]} ELSE Lookup(config, s).n
    /\ s.kind \in {"text", "chain"} =>
         e = IF name \in DOMAIN cli /\ cli[name] # "" THEN cli[name]
             ELSE IF s.kind = "chain" THEN Chain(config, s).text ELSE Lookup(config, s).text
    /\ s.kind = "on" => e = (name \in DOMAIN cli \/ Truthy(Lookup(config, s)))
    /\ s.kind = "off" => e = (name \notin DOMAIN cli /\ Truthy(Lookup(config, s)))
    /\ s.kind = "pcap" => e = IF "keep_pcap" \in DOMAIN cli THEN cli["keep_pcap"] # "never"
                              ELSE Truthy(Lookup(config, s))

LEMMA EffectiveIs ==
    ASSUME NEW tool, NEW cli, NEW file, NEW name \in Names(tool)
    PROVE  ComesTo(Effective(tool, cli, file)[name], Settings[name], name, cli, Merged(Layer(tool, file)))
<1> DEFINE e == Effective(tool, cli, file)[name]
           s == Settings[name]
           config == Merged(Layer(tool, file))
<1>1. e = CASE s.kind = "number" -> Number(cli, name, config)
            [] s.kind \in {"text", "chain"} -> Text(cli, name, config)
            [] OTHER -> SwitchedOn(cli, name, config)
  BY DEF Effective
<1> HIDE DEF e, config
<1>2. s.kind = "number" => e = IF name \in DOMAIN cli THEN {cli[name]} ELSE Lookup(config, s).n
  BY <1>1 DEF Number
<1>3. s.kind \in {"text", "chain"} =>
        e = IF name \in DOMAIN cli /\ cli[name] # "" THEN cli[name]
            ELSE IF s.kind = "chain" THEN Chain(config, s).text ELSE Lookup(config, s).text
  BY <1>1 DEF Text
<1>4. s.kind = "on" => e = (name \in DOMAIN cli \/ Truthy(Lookup(config, s)))
  BY <1>1 DEF SwitchedOn
<1>5. s.kind = "off" => e = (name \notin DOMAIN cli /\ Truthy(Lookup(config, s)))
  BY <1>1 DEF SwitchedOn
<1>6. s.kind = "pcap" => e = IF "keep_pcap" \in DOMAIN cli THEN cli["keep_pcap"] # "never"
                             ELSE Truthy(Lookup(config, s))
  BY <1>1 DEF SwitchedOn
<1> HIDE DEF s
<1>7. ComesTo(e, s, name, cli, config)
  BY <1>2, <1>3, <1>4, <1>5, <1>6 DEF ComesTo
<1> QED BY <1>7 DEF e, s, config

\* The command line before the file before the default, for every command line,
\* every file and every setting.
LEMMA PrecedenceHolds == \A tool, cli, file : Precedence(tool, cli, file)
<1> SUFFICES ASSUME NEW tool, NEW cli, NEW file, NEW name \in Names(tool)
             PROVE  LET e == Effective(tool, cli, file)
                        unsaid == Effective(tool, <<>>, <<>>)
                        s == Settings[name]
                        option == IF s.kind = "pcap" THEN "keep_pcap" ELSE name
                        said == option \in DOMAIN cli /\ (s.kind \in {"text", "chain"} => cli[option] # "")
                        keys == {k \in DOMAIN file : tool = "tls" /\ Reaches(k, s)
                                    /\ (s.kind = "chain" => Truthy(Scalar(file[k])))}
                    IN  /\ said => e[name] = Given(s, cli[option])
                        /\ ~said /\ keys = {} => e[name] = unsaid[name] \/ (s.kind = "chain"
                                 /\ \E k \in DOMAIN file : Reaches(k, s))
                        /\ ~said => \A i \in DOMAIN s.keys :
                             s.keys[i] \in keys /\ (\A j \in 1..(i - 1) : s.keys[j] \notin keys)
                             => e[name] = Loaded(s, Scalar(file[s.keys[i]]))
  BY DEF Precedence
<1> DEFINE e == Effective(tool, cli, file)[name]
           unsaid == Effective(tool, <<>>, <<>>)[name]
           s == Settings[name]
           config == Merged(Layer(tool, file))
           plain == Merged(<<>>)
           option == IF s.kind = "pcap" THEN "keep_pcap" ELSE name
           said == option \in DOMAIN cli /\ (s.kind \in {"text", "chain"} => cli[option] # "")
           keys == {k \in DOMAIN file : tool = "tls" /\ Reaches(k, s)
                       /\ (s.kind = "chain" => Truthy(Scalar(file[k])))}
<1>1. WellFormed(s) /\ s.kind \in Kinds
  BY SettingsFit DEF Names, Settings, WellFormed
<1>2. ComesTo(e, s, name, cli, config)
  BY EffectiveIs
<1>3. ComesTo(unsaid, s, name, <<>>, plain)
  <2>1. Layer(tool, <<>>) = <<>>
    BY DEF Layer
  <2>2. ComesTo(Effective(tool, <<>>, <<>>)[name], Settings[name], name, <<>>, Merged(Layer(tool, <<>>)))
    BY EffectiveIs
  <2> QED BY <2>1, <2>2
<1>4. tool = "tls" => config = Merged(file)
  BY DEF Layer
<1>5. tool # "tls" => config = plain
  BY DEF Layer
<1> HIDE DEF e, unsaid, config, plain, s
<1>6. said => e = Given(s, cli[option])
  BY <1>1, <1>2, TruthyIsBoolean DEF Given, Kinds, ComesTo
<1>7. ~said => /\ s.kind = "number" => e = Lookup(config, s).n
               /\ s.kind = "text" => e = Lookup(config, s).text
               /\ s.kind = "chain" => e = Chain(config, s).text
               /\ s.kind \in {"on", "off", "pcap"} => e = Truthy(Lookup(config, s))
  BY <1>2, TruthyIsBoolean DEF ComesTo
<1>8. /\ s.kind = "number" => unsaid = Lookup(plain, s).n
      /\ s.kind = "text" => unsaid = Lookup(plain, s).text
      /\ s.kind = "chain" => unsaid = Chain(plain, s).text
      /\ s.kind \in {"on", "off", "pcap"} => unsaid = Truthy(Lookup(plain, s))
  BY <1>3, TruthyIsBoolean DEF ComesTo
<1>9. ASSUME ~said, keys = {}, s.kind # "chain" \/ \A k \in DOMAIN file : ~Reaches(k, s)
      PROVE  e = unsaid
  <2>1. /\ s.kind # "chain" => Lookup(config, s) = Lookup(plain, s)
        /\ s.kind = "chain" => Chain(config, s) = Chain(plain, s)
    <3>1. CASE tool # "tls"
      BY <1>5, <3>1
    <3>2. CASE tool = "tls"
      <4>1. \A k \in DOMAIN file : ~Reaches(k, s)
        BY <1>9, <3>2
      <4> QED BY <1>1, <1>4, <3>2, <4>1, FileApart DEF plain
    <3> QED BY <3>1, <3>2
  <2>2. CASE s.kind = "number"
    BY <1>7, <1>8, <1>9, <2>1, <2>2
  <2>3. CASE s.kind = "text"
    BY <1>7, <1>8, <1>9, <2>1, <2>3
  <2>4. CASE s.kind = "chain"
    BY <1>7, <1>8, <1>9, <2>1, <2>4
  <2>5. CASE s.kind \in {"on", "off", "pcap"}
    BY <1>7, <1>8, <1>9, <2>1, <2>5
  <2> QED BY <1>1, <2>2, <2>3, <2>4, <2>5 DEF Kinds
<1>10. ASSUME ~said, NEW i \in DOMAIN s.keys, s.keys[i] \in keys, \A j \in 1..(i - 1) : s.keys[j] \notin keys
      PROVE  e = Loaded(s, Scalar(file[s.keys[i]]))
  <2>1. CASE s.kind # "chain"
    <3>1. Lookup(Merged(file), s) = Scalar(file[s.keys[i]])
      BY <1>1, <1>10, <2>1, LookupFindsFile
    <3> QED BY <1>1, <1>4, <1>7, <1>10, <2>1, <3>1 DEF Loaded, Kinds
  <2>2. CASE s.kind = "chain"
    <3>1. Chain(Merged(file), s) = Scalar(file[s.keys[i]])
      BY <1>1, <1>10, <2>2, ChainFindsFile
    <3> QED BY <1>4, <1>7, <1>10, <2>2, <3>1 DEF Loaded
  <2> QED BY <2>1, <2>2
<1> QED BY <1>6, <1>9, <1>10 DEF e, unsaid, s

\* Every setting of a launched run is what the command line says, else what the
\* first key of the file that can reach it says, else its default, for every
\* command line and every file, with the exceptions that Precedence names.
THEOREM SettingsComeInOrder == Spec => []SettingsPrecede
<1>1. SettingsPrecede
  BY PrecedenceHolds DEF SettingsPrecede
<1> QED BY <1>1, PTL
=============================================================================
