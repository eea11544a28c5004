---------------------------- MODULE NetRunProofs ----------------------------
(***************************************************************************)
(* The safety of the network protocol runner, proved for every campaign,   *)
(* shard, limit and configuration, and that send implements CaseLifecycle. *)
(*                                                                         *)
(* The inductive invariant joins what the place in the operation says of   *)
(* the case at hand (Place), the counters (Counts), the answers of the     *)
(* gates (Admission), what the wire and the pcap file have to do with the  *)
(* ledger (Announced, WireConsent, Books), and the outcome of every case   *)
(* read so far (Outcomes).                                                 *)
(*                                                                         *)
(* The last part is about the packets themselves: the sum of their words   *)
(* with the carries of _checksum has a closed form, so a region that holds *)
(* its own checksum verifies (ChecksumVerifies), and every packet that can *)
(* be built is as the receiver's tests in Packets say (PacketAsBuilt).     *)
(* What went out was built before (Built), whatever was interrupted.       *)
(***************************************************************************)
EXTENDS NetRun, Recursion, FiniteSetTheorems

\* The places where a case is at hand, those of replay, those before anything
\* is written about a case, and those between output and verdict.
InCase == {"start", "build", "write", "logged", "announce", "send", "sent", "artifact",
           "summary", "record", "verdict", "tally"}
Replaying == {"replay", "tcpreplay", "replayed"}
Fresh == {"gate", "socket", "replay"}
Unbooked == {"logged", "sent", "artifact", "summary", "record", "verdict"}
CleanEnd == pc = "done" \/ (pc = "finalize" /\ ~aborted)

Place ==
    /\ pc \in InCase \cup {"decide"} => read \in Cases
    /\ pc \in Fresh => wire = {} /\ pcap = {} /\ \A e \in Entries : ledger[e] = {}
    /\ pc \in Fresh \cup Replaying => read = 0 /\ selected = 0
    /\ pc \in Replaying => config.op = "replay"
    /\ pc \in Loop \cup {"socket"} => config.op # "replay"
    /\ pc = "decide" => ledger[read] = {"planned"}
    /\ pc = "start" => ledger[read] = {"planned", "selected"}
    /\ pc \in InCase => InShard(read) /\ ~NeedsConsent(read) /\ "skipped" \notin ledger[read]
    /\ pc \in InCase \ {"start"} => "started" \in ledger[read]
    /\ pc \in InCase \ {"tally"} => "verdict_finalized" \notin ledger[read]
    /\ pc = "tally" => "verdict_finalized" \in ledger[read]
    /\ pc \in {"send", "sent"} => "send_started" \in ledger[read]
    /\ pc \in {"announce", "send", "sent"} => Live
    /\ pc \in {"write", "logged"} => config.op = "pcap"
    /\ "skipped" \notin ledger[0]
    /\ pc \in {"tcpreplay", "replayed"} => "started" \in ledger[0]
    /\ \A c \in Cases : c > read => ledger[c] = {}

Counts ==
    /\ selected <= read
    /\ pc \in InCase \cup {"decide"} => selected < read
    /\ pc \in InCase => ~LimitReached
    /\ config.op = "send" =>
         /\ pc \in Loop \ Unbooked => Cardinality(wire) <= selected + (IF pc = "tally" THEN 1 ELSE 0)
         /\ pc \in Unbooked => Cardinality(wire) <= selected + 1

Admission ==
    pc \notin Ended \cup {"gate"} => Admitted(routes)

\* What went out belongs to a case that was started.
Announced == \A e \in wire : "started" \in ledger[e] /\ "skipped" \notin ledger[e]

Books ==
    /\ config.op = "pcap" =>
         /\ pc \in Loop \ Unbooked \/ CleanEnd => pcap = Recorded
         /\ pc \in Unbooked => pcap = Recorded \cup {read}
    /\ config.op = "send" /\ Live =>
         /\ Recorded \subseteq wire /\ wire \ Recorded \subseteq {read}
         /\ pc \in Loop \ Unbooked \/ CleanEnd => wire = Recorded
         /\ pc \in Unbooked => read \in wire

Outcomes ==
    config.op = "send" /\ (pc \in Loop \/ CleanEnd) =>
      /\ \A c \in Cases : c <= read => ledger[c] # {}
      /\ \A c \in Cases : "started" \in ledger[c] => c \in Recorded \/ (pc \in InCase /\ c = read)
      /\ \A c \in Cases : c <= read /\ InShard(c) =>
            c \in Recorded \/ "skipped" \in ledger[c] \/ (pc \in InCase \cup {"decide"} /\ c = read)
      /\ \A c \in Cases : "skipped" \in ledger[c] => LimitReached
      /\ CleanEnd => read = NCases

Inv == /\ TypeOK /\ Place /\ Counts /\ Admission /\ Announced /\ WireConsent /\ Books
       /\ Outcomes

-----------------------------------------------------------------------------
(* Types and places *)

\* A ledger entry changes the stages of its case and of no other.
LEMMA LogType ==
    ASSUME ledger \in [Entries -> SUBSET Stages], NEW c \in Entries, NEW stages \in SUBSET Stages,
           Log(c, stages)
    PROVE  /\ ledger' \in [Entries -> SUBSET Stages]
           /\ ledger'[c] = ledger[c] \cup stages
           /\ \A d \in Entries \ {c} : ledger'[d] = ledger[d]
BY DEF Log

\* The entries the runner writes are in the vocabulary of the ledger.
LEMMA StageSets ==
    /\ {"planned"} \in SUBSET Stages /\ {"skipped"} \in SUBSET Stages
    /\ {"selected"} \in SUBSET Stages /\ {"started"} \in SUBSET Stages
    /\ {"packet_built"} \in SUBSET Stages /\ {"pcap_written"} \in SUBSET Stages
    /\ {"send_started"} \in SUBSET Stages /\ {"send_finished"} \in SUBSET Stages
    /\ {"artifact_finalized"} \in SUBSET Stages /\ {"verdict_finalized"} \in SUBSET Stages
    /\ {"selected", "started", "replay_started"} \in SUBSET Stages
    /\ {"replay_finished", "artifact_finalized", "verdict_finalized"} \in SUBSET Stages
BY DEF Stages

\* A file of the case directory is written, and nothing else.
LEMMA ArtifactFacts ==
    ASSUME WriteArtifact
    PROVE  /\ pc \in {"artifact", "summary"} /\ pc' \in {"summary", "record"}
           /\ UNCHANGED <<config, aborted, routes, read, selected, wire, pcap, ledger, fatal, files>>
<1>1. PICK step \in {<<"artifact", "summary", "yaml">>, <<"summary", "record", "summary">>} :
         LoopStep(step[1], step[2])
  BY DEF WriteArtifact
<1>2. QED
  BY <1>1 DEF WriteArtifact, LoopStep

\* The case at hand is a case of the campaign, and an entry of the books.
LEMMA EntryFacts ==
    ASSUME TypeOK, Place
    PROVE  /\ NCases \in Nat /\ read \in Int /\ selected \in Int /\ 0 \in Entries
           /\ Cases \subseteq Entries /\ Entries \subseteq Int /\ read \in Entries
           /\ (pc \in InCase \cup {"decide"} => read \in Cases)
BY NetAssumption DEF TypeOK, Place, Cases, Entries

\* The types hold; a step of the count stays within what was read.
LEMMA TypeStep ==
    ASSUME TypeOK, Place, Counts, [Next]_vars
    PROVE  TypeOK'
<1>0. /\ ledger \in [Entries -> SUBSET Stages] /\ NCases \in Nat /\ read \in Int /\ selected \in Int
      /\ 0 \in Entries /\ Cases \subseteq Entries /\ Entries \subseteq Int /\ read \in Entries
      /\ (pc \in InCase \cup {"decide"} => read \in Cases)
  BY EntryFacts DEF TypeOK
<1> USE DEF TypeOK, Ended, Loop
<1>1. CASE Start
  <2>1. routes' \subseteq DefaultRoutes
    BY <1>1 DEF Start, RouteAnswers
  <2>2. QED
    BY <1>1, <2>1 DEF Start, RunFiles
<1>2. CASE OpenSocket
  BY <1>2 DEF OpenSocket
<1>3. CASE ReadCase
  <2>0. read + 1 \in Cases /\ read + 1 \in Entries
    BY <1>3, <1>0 DEF ReadCase, Cases, Entries
  <2>1. /\ ledger' \in [Entries -> SUBSET Stages]
        /\ ledger'[read + 1] = ledger[read + 1] \cup {"planned"}
        /\ \A e \in Entries \ {read + 1} : ledger'[e] = ledger[e]
    BY <1>3, <1>0, <2>0, LogType, StageSets DEF ReadCase
  <2>2. QED
    BY <1>3, <1>0, <2>0, <2>1 DEF ReadCase, LoopStep
<1>4. CASE OtherShard
  BY <1>4 DEF OtherShard, LoopStep
<1>5. CASE SkipForLimit
  <2>0. read \in Cases
    BY <1>5, <1>0 DEF SkipForLimit, LedgerStep, LoopStep, InCase
  <2>1. /\ ledger' \in [Entries -> SUBSET Stages]
        /\ ledger'[read] = ledger[read] \cup {"skipped"}
        /\ \A e \in Entries \ {read} : ledger'[e] = ledger[e]
    BY <1>5, <1>0, <2>0, LogType, StageSets DEF SkipForLimit, LedgerStep, LoopStep
  <2>2. QED
    BY <1>5, <1>0, <2>0, <2>1 DEF SkipForLimit, LedgerStep, LoopStep
<1>6. CASE SkipForDisk
  <2>0. read \in Cases
    BY <1>6, <1>0 DEF SkipForDisk
  <2>1. /\ ledger' \in [Entries -> SUBSET Stages]
        /\ ledger'[read] = ledger[read] \cup {"skipped"}
        /\ \A e \in Entries \ {read} : ledger'[e] = ledger[e]
    BY <1>6, <1>0, <2>0, LogType, StageSets DEF SkipForDisk
  <2>2. QED
    BY <1>6, <1>0, <2>0, <2>1 DEF SkipForDisk, LoopStep
<1>7. CASE RefuseCase
  BY <1>7 DEF RefuseCase
<1>8. CASE SelectCase
  <2>0. read \in Cases
    BY <1>8, <1>0 DEF SelectCase, LedgerStep, LoopStep, InCase
  <2>1. /\ ledger' \in [Entries -> SUBSET Stages]
        /\ ledger'[read] = ledger[read] \cup {"selected"}
        /\ \A e \in Entries \ {read} : ledger'[e] = ledger[e]
    BY <1>8, <1>0, <2>0, LogType, StageSets DEF SelectCase, LedgerStep, LoopStep
  <2>2. QED
    BY <1>8, <1>0, <2>0, <2>1 DEF SelectCase, LedgerStep, LoopStep
<1>9. CASE StartCase
  <2>0. read \in Cases
    BY <1>9, <1>0 DEF StartCase, LedgerStep, LoopStep, InCase
  <2>1. /\ ledger' \in [Entries -> SUBSET Stages]
        /\ ledger'[read] = ledger[read] \cup {"started"}
        /\ \A e \in Entries \ {read} : ledger'[e] = ledger[e]
    BY <1>9, <1>0, <2>0, LogType, StageSets DEF StartCase, LedgerStep, LoopStep
  <2>2. QED
    BY <1>9, <1>0, <2>0, <2>1 DEF StartCase, LedgerStep, LoopStep
<1>10. CASE BuildPacket
  <2>0. read \in Cases
    BY <1>10, <1>0 DEF BuildPacket, LedgerStep, LoopStep, InCase
  <2>1. /\ ledger' \in [Entries -> SUBSET Stages]
        /\ ledger'[read] = ledger[read] \cup {"packet_built"}
        /\ \A e \in Entries \ {read} : ledger'[e] = ledger[e]
    BY <1>10, <1>0, <2>0, LogType, StageSets DEF BuildPacket, LedgerStep, LoopStep
  <2>2. QED
    BY <1>10, <1>0, <2>0, <2>1 DEF BuildPacket, LedgerStep, LoopStep
<1>11. CASE WritePacket
  <2>1. read \in Cases
    BY <1>11, <1>0 DEF WritePacket, LoopStep, InCase
  <2>2. QED
    BY <1>11, <2>1 DEF WritePacket, LoopStep
<1>12. CASE PcapLogged
  <2>0. read \in Cases
    BY <1>12, <1>0 DEF PcapLogged, LedgerStep, LoopStep, InCase
  <2>1. /\ ledger' \in [Entries -> SUBSET Stages]
        /\ ledger'[read] = ledger[read] \cup {"pcap_written"}
        /\ \A e \in Entries \ {read} : ledger'[e] = ledger[e]
    BY <1>12, <1>0, <2>0, LogType, StageSets DEF PcapLogged, LedgerStep, LoopStep
  <2>2. QED
    BY <1>12, <1>0, <2>0, <2>1 DEF PcapLogged, LedgerStep, LoopStep
<1>13. CASE AnnounceSend
  <2>0. read \in Cases
    BY <1>13, <1>0 DEF AnnounceSend, LedgerStep, LoopStep, InCase
  <2>1. /\ ledger' \in [Entries -> SUBSET Stages]
        /\ ledger'[read] = ledger[read] \cup {"send_started"}
        /\ \A e \in Entries \ {read} : ledger'[e] = ledger[e]
    BY <1>13, <1>0, <2>0, LogType, StageSets DEF AnnounceSend, LedgerStep, LoopStep
  <2>2. QED
    BY <1>13, <1>0, <2>0, <2>1 DEF AnnounceSend, LedgerStep, LoopStep
<1>14. CASE SendPacket
  BY <1>14, <1>0 DEF SendPacket, LoopStep
<1>15. CASE SendLogged
  <2>0. read \in Cases
    BY <1>15, <1>0 DEF SendLogged, LedgerStep, LoopStep, InCase
  <2>1. /\ ledger' \in [Entries -> SUBSET Stages]
        /\ ledger'[read] = ledger[read] \cup {"send_finished"}
        /\ \A e \in Entries \ {read} : ledger'[e] = ledger[e]
    BY <1>15, <1>0, <2>0, LogType, StageSets DEF SendLogged, LedgerStep, LoopStep
  <2>2. QED
    BY <1>15, <1>0, <2>0, <2>1 DEF SendLogged, LedgerStep, LoopStep
<1>16. CASE WriteArtifact
  <2>0. PICK step \in {<<"artifact", "summary", "yaml">>, <<"summary", "record", "summary">>} :
           LoopStep(step[1], step[2]) /\ dirs' = [dirs EXCEPT ![read] = step[3]]
    BY <1>16 DEF WriteArtifact
  <2>1. step[3] \in DirStates /\ dirs' = [dirs EXCEPT ![read] = step[3]]
    BY <2>0 DEF DirStates
  <2>2. dirs' \in [Entries -> DirStates]
    BY <1>0, <2>1
  <2>3. QED
    BY <1>16, <2>2 DEF WriteArtifact, LoopStep
<1>17. CASE Finish
  <2>0. read \in Cases
    BY <1>17, <1>0 DEF Finish, LedgerStep, LoopStep, InCase
  <2>1. CASE LedgerStep("record", read, "artifact_finalized", "verdict")
    <3>1. /\ ledger' \in [Entries -> SUBSET Stages]
          /\ ledger'[read] = ledger[read] \cup {"artifact_finalized"}
          /\ \A e \in Entries \ {read} : ledger'[e] = ledger[e]
      BY <1>0, <2>0, <2>1, LogType, StageSets DEF LedgerStep
    <3>2. QED
      BY <1>0, <2>0, <2>1, <3>1 DEF LedgerStep, LoopStep
  <2>2. CASE LedgerStep("verdict", read, "verdict_finalized", "tally")
    <3>1. /\ ledger' \in [Entries -> SUBSET Stages]
          /\ ledger'[read] = ledger[read] \cup {"verdict_finalized"}
          /\ \A e \in Entries \ {read} : ledger'[e] = ledger[e]
      BY <1>0, <2>0, <2>2, LogType, StageSets DEF LedgerStep
    <3>2. QED
      BY <1>0, <2>0, <2>2, <3>1 DEF LedgerStep, LoopStep
  <2>3. QED
    BY <1>17, <2>1, <2>2 DEF Finish
<1>18. CASE Tally
  <2>1. selected + 1 \in Entries
    BY <1>18, <1>0 DEF Tally, LoopStep, Counts, InCase, Entries
  <2>2. QED
    BY <1>18, <2>1 DEF Tally, LoopStep
<1>19. CASE LoopEnds
  BY <1>19 DEF LoopEnds, LoopStep
<1>20. CASE LoopRaises
  <2>1. pcap' \subseteq Cases
    BY <1>20, <1>0 DEF LoopRaises, TornPcap, InCase
  <2>2. wire' \subseteq Entries
    BY <1>20, <1>0 DEF LoopRaises, TornWire
  <2>3. QED
    BY <1>20, <2>1, <2>2 DEF LoopRaises
<1>21. CASE BeginReplay
  <2>1. /\ ledger' \in [Entries -> SUBSET Stages]
        /\ ledger'[0] = ledger[0] \cup {"selected", "started", "replay_started"}
        /\ \A e \in Entries \ {0} : ledger'[e] = ledger[e]
    BY <1>21, <1>0, LogType, StageSets DEF BeginReplay
  <2>2. QED
    BY <1>21, <1>0, <2>1 DEF BeginReplay, LoopStep
<1>22. CASE Tcpreplay
  BY <1>22, <1>0 DEF Tcpreplay, LoopStep
<1>23. CASE ConcludeReplay
  <2>1. /\ ledger' \in [Entries -> SUBSET Stages]
        /\ ledger'[0] = ledger[0] \cup {"replay_finished", "artifact_finalized", "verdict_finalized"}
        /\ \A e \in Entries \ {0} : ledger'[e] = ledger[e]
    BY <1>23, <1>0, LogType, StageSets DEF ConcludeReplay
  <2>2. QED
    BY <1>23, <1>0, <2>1 DEF ConcludeReplay, LoopStep, DirStates
<1>24. CASE RaisesUnguarded
  <2>1. wire' \subseteq Entries
    BY <1>24, <1>0 DEF RaisesUnguarded, TornWire
  <2>2. dirs' \in [Entries -> DirStates]
    BY <1>24, <1>0 DEF RaisesUnguarded, TornDirs, DirStates
  <2>3. QED
    BY <1>24, <2>1, <2>2 DEF RaisesUnguarded
<1>25. CASE Finalize
  BY <1>25 DEF Finalize, RunFiles
<1>26. CASE Kill
  <2>1. wire' \subseteq Entries
    BY <1>26, <1>0 DEF Kill, TornWire
  <2>2. dirs' \in [Entries -> DirStates]
    BY <1>26, <1>0 DEF Kill, TornDirs, DirStates
  <2>3. pcap' \subseteq Cases
    BY <1>26, <1>0 DEF Kill, TornPcap, InCase
  <2>4. QED
    BY <1>26, <2>1, <2>2, <2>3 DEF Kill
<1>27. CASE UNCHANGED vars
  BY <1>27 DEF vars
<1>28. QED
  BY <1>1, <1>2, <1>3, <1>4, <1>5, <1>6, <1>7, <1>8, <1>9, <1>10,
     <1>11, <1>12, <1>13, <1>14, <1>15, <1>16, <1>17, <1>18, <1>19, <1>20,
     <1>21, <1>22, <1>23, <1>24, <1>25, <1>26, <1>27 DEF Next, Stopped

\* The place in the operation and the ledger entries of the case at hand agree.
LEMMA PlaceStep ==
    ASSUME TypeOK, Place, [Next]_vars
    PROVE  Place'
<1>0. /\ ledger \in [Entries -> SUBSET Stages] /\ NCases \in Nat /\ read \in Int /\ selected \in Int
      /\ 0 \in Entries /\ Cases \subseteq Entries /\ Entries \subseteq Int /\ read \in Entries
      /\ (pc \in InCase \cup {"decide"} => read \in Cases)
  BY EntryFacts DEF TypeOK
<1>c. \A c \in Cases : c # 0 /\ c \in Int
  BY DEF Cases
<1> USE DEF Place, InCase, Replaying, Fresh, Loop, Ended, NeedsConsent, Live, InShard
<1>1. CASE Start
  <2>1. pc = "gate" /\ UNCHANGED <<config, read, selected, wire, pcap, ledger>>
    BY <1>1 DEF Start
  <2>2. \/ pc' = "failed"
        \/ pc' = "replay" /\ config.op = "replay"
        \/ pc' \in {"socket", "read"} /\ config.op # "replay"
    BY <1>1 DEF Start
  <2>3. QED
    BY <2>1, <2>2
<1>2. CASE OpenSocket
  BY <1>2 DEF OpenSocket
<1>3. CASE ReadCase
  <2>0. read + 1 \in Cases /\ read + 1 \in Entries
    BY <1>3, <1>0 DEF ReadCase, Cases, Entries
  <2>1. /\ ledger' \in [Entries -> SUBSET Stages]
        /\ ledger'[read + 1] = ledger[read + 1] \cup {"planned"}
        /\ \A e \in Entries \ {read + 1} : ledger'[e] = ledger[e]
    BY <1>3, <1>0, <2>0, LogType, StageSets DEF ReadCase
  <2>2. ledger[read + 1] = {} /\ read + 1 # 0 /\ \A c \in Cases : c > read + 1 => c > read
    BY <1>0, <2>0 DEF Cases
  <2>3. QED
    BY <1>3, <1>0, <2>0, <2>1, <2>2 DEF ReadCase, LoopStep
<1>4. CASE OtherShard
  BY <1>4 DEF OtherShard, LoopStep
<1>5. CASE SkipForLimit
  <2>0. read \in Cases
    BY <1>5, <1>0 DEF SkipForLimit, LedgerStep, LoopStep, InCase
  <2>1. /\ ledger' \in [Entries -> SUBSET Stages]
        /\ ledger'[read] = ledger[read] \cup {"skipped"}
        /\ \A e \in Entries \ {read} : ledger'[e] = ledger[e]
    BY <1>5, <1>0, <2>0, LogType, StageSets DEF SkipForLimit, LedgerStep, LoopStep
  <2>2. QED
    BY <1>5, <1>0, <2>0, <2>1, <1>c DEF SkipForLimit, LedgerStep, LoopStep
<1>6. CASE SkipForDisk
  <2>0. read \in Cases
    BY <1>6, <1>0 DEF SkipForDisk
  <2>1. /\ ledger' \in [Entries -> SUBSET Stages]
        /\ ledger'[read] = ledger[read] \cup {"skipped"}
        /\ \A e \in Entries \ {read} : ledger'[e] = ledger[e]
    BY <1>6, <1>0, <2>0, LogType, StageSets DEF SkipForDisk
  <2>2. QED
    BY <1>6, <1>0, <2>0, <2>1, <1>c DEF SkipForDisk, LoopStep
<1>7. CASE RefuseCase
  BY <1>7 DEF RefuseCase
<1>8. CASE SelectCase
  <2>0. read \in Cases
    BY <1>8, <1>0 DEF SelectCase, LedgerStep, LoopStep
  <2>1. /\ ledger' \in [Entries -> SUBSET Stages]
        /\ ledger'[read] = ledger[read] \cup {"selected"}
        /\ \A e \in Entries \ {read} : ledger'[e] = ledger[e]
    BY <1>8, <1>0, <2>0, LogType, StageSets DEF SelectCase, LedgerStep, LoopStep
  <2>2. QED
    BY <1>8, <1>0, <2>0, <2>1, <1>c DEF SelectCase, LedgerStep, LoopStep
<1>9. CASE StartCase
  <2>0. read \in Cases
    BY <1>9, <1>0 DEF StartCase, LedgerStep, LoopStep, InCase
  <2>1. /\ ledger' \in [Entries -> SUBSET Stages]
        /\ ledger'[read] = ledger[read] \cup {"started"}
        /\ \A e \in Entries \ {read} : ledger'[e] = ledger[e]
    BY <1>9, <1>0, <2>0, LogType, StageSets DEF StartCase, LedgerStep, LoopStep
  <2>2. QED
    BY <1>9, <1>0, <2>0, <2>1, <1>c DEF StartCase, LedgerStep, LoopStep
<1>10. CASE BuildPacket
  <2>0. read \in Cases
    BY <1>10, <1>0 DEF BuildPacket, LedgerStep, LoopStep, InCase
  <2>1. /\ ledger' \in [Entries -> SUBSET Stages]
        /\ ledger'[read] = ledger[read] \cup {"packet_built"}
        /\ \A e \in Entries \ {read} : ledger'[e] = ledger[e]
    BY <1>10, <1>0, <2>0, LogType, StageSets DEF BuildPacket, LedgerStep, LoopStep
  <2>2. QED
    BY <1>10, <1>0, <2>0, <2>1, <1>c DEF BuildPacket, LedgerStep, LoopStep
<1>11. CASE WritePacket
  BY <1>11 DEF WritePacket, LoopStep
<1>12. CASE PcapLogged
  <2>0. read \in Cases
    BY <1>12, <1>0 DEF PcapLogged, LedgerStep, LoopStep, InCase
  <2>1. /\ ledger' \in [Entries -> SUBSET Stages]
        /\ ledger'[read] = ledger[read] \cup {"pcap_written"}
        /\ \A e \in Entries \ {read} : ledger'[e] = ledger[e]
    BY <1>12, <1>0, <2>0, LogType, StageSets DEF PcapLogged, LedgerStep, LoopStep
  <2>2. QED
    BY <1>12, <1>0, <2>0, <2>1, <1>c DEF PcapLogged, LedgerStep, LoopStep
<1>13. CASE AnnounceSend
  <2>0. read \in Cases
    BY <1>13, <1>0 DEF AnnounceSend, LedgerStep, LoopStep, InCase
  <2>1. /\ ledger' \in [Entries -> SUBSET Stages]
        /\ ledger'[read] = ledger[read] \cup {"send_started"}
        /\ \A e \in Entries \ {read} : ledger'[e] = ledger[e]
    BY <1>13, <1>0, <2>0, LogType, StageSets DEF AnnounceSend, LedgerStep, LoopStep
  <2>2. QED
    BY <1>13, <1>0, <2>0, <2>1, <1>c DEF AnnounceSend, LedgerStep, LoopStep
<1>14. CASE SendPacket
  BY <1>14 DEF SendPacket, LoopStep
<1>15. CASE SendLogged
  <2>0. read \in Cases
    BY <1>15, <1>0 DEF SendLogged, LedgerStep, LoopStep, InCase
  <2>1. /\ ledger' \in [Entries -> SUBSET Stages]
        /\ ledger'[read] = ledger[read] \cup {"send_finished"}
        /\ \A e \in Entries \ {read} : ledger'[e] = ledger[e]
    BY <1>15, <1>0, <2>0, LogType, StageSets DEF SendLogged, LedgerStep, LoopStep
  <2>2. QED
    BY <1>15, <1>0, <2>0, <2>1, <1>c DEF SendLogged, LedgerStep, LoopStep
<1>16. CASE WriteArtifact
  BY <1>16 DEF WriteArtifact, LoopStep
<1>17. CASE Finish
  <2>0. read \in Cases
    BY <1>17, <1>0 DEF Finish, LedgerStep, LoopStep, InCase
  <2>1. CASE LedgerStep("record", read, "artifact_finalized", "verdict")
    <3>1. /\ ledger' \in [Entries -> SUBSET Stages]
          /\ ledger'[read] = ledger[read] \cup {"artifact_finalized"}
          /\ \A e \in Entries \ {read} : ledger'[e] = ledger[e]
      BY <1>0, <2>0, <2>1, LogType, StageSets DEF LedgerStep
    <3>2. QED
      BY <1>0, <2>0, <2>1, <3>1, <1>c DEF LedgerStep, LoopStep
  <2>2. CASE LedgerStep("verdict", read, "verdict_finalized", "tally")
    <3>1. /\ ledger' \in [Entries -> SUBSET Stages]
          /\ ledger'[read] = ledger[read] \cup {"verdict_finalized"}
          /\ \A e \in Entries \ {read} : ledger'[e] = ledger[e]
      BY <1>0, <2>0, <2>2, LogType, StageSets DEF LedgerStep
    <3>2. QED
      BY <1>0, <2>0, <2>2, <3>1, <1>c DEF LedgerStep, LoopStep
  <2>3. QED
    BY <1>17, <2>1, <2>2 DEF Finish
<1>18. CASE Tally
  BY <1>18 DEF Tally, LoopStep
<1>19. CASE LoopEnds
  BY <1>19 DEF LoopEnds, LoopStep
<1>20. CASE LoopRaises
  BY <1>20 DEF LoopRaises, TornWire, TornPcap
<1>21. CASE BeginReplay
  <2>1. /\ ledger' \in [Entries -> SUBSET Stages]
        /\ ledger'[0] = ledger[0] \cup {"selected", "started", "replay_started"}
        /\ \A e \in Entries \ {0} : ledger'[e] = ledger[e]
    BY <1>21, <1>0, LogType, StageSets DEF BeginReplay
  <2>2. QED
    BY <1>21, <1>0, <2>1, <1>c DEF BeginReplay, LoopStep
<1>22. CASE Tcpreplay
  BY <1>22 DEF Tcpreplay, LoopStep
<1>23. CASE ConcludeReplay
  <2>1. /\ ledger' \in [Entries -> SUBSET Stages]
        /\ ledger'[0] = ledger[0] \cup {"replay_finished", "artifact_finalized", "verdict_finalized"}
        /\ \A e \in Entries \ {0} : ledger'[e] = ledger[e]
    BY <1>23, <1>0, LogType, StageSets DEF ConcludeReplay
  <2>2. QED
    BY <1>23, <1>0, <2>1, <1>c DEF ConcludeReplay, LoopStep
<1>24. CASE RaisesUnguarded
  BY <1>24 DEF RaisesUnguarded
<1>25. CASE Finalize
  BY <1>25 DEF Finalize
<1>26. CASE Kill
  BY <1>26 DEF Kill
<1>27. CASE UNCHANGED vars
  BY <1>27 DEF vars
<1>28. QED
  BY <1>1, <1>2, <1>3, <1>4, <1>5, <1>6, <1>7, <1>8, <1>9, <1>10,
     <1>11, <1>12, <1>13, <1>14, <1>15, <1>16, <1>17, <1>18, <1>19, <1>20,
     <1>21, <1>22, <1>23, <1>24, <1>25, <1>26, <1>27 DEF Next, Stopped

\* The count is behind the wire by the case at hand, if its packet is out.
LEMMA CountsStep ==
    ASSUME TypeOK, Place, Counts, [Next]_vars
    PROVE  Counts'
<1>0. /\ ledger \in [Entries -> SUBSET Stages] /\ NCases \in Nat /\ read \in Int /\ selected \in Int
      /\ 0 \in Entries /\ Cases \subseteq Entries /\ Entries \subseteq Int /\ read \in Entries
      /\ (pc \in InCase \cup {"decide"} => read \in Cases)
  BY EntryFacts DEF TypeOK
<1>f. IsFiniteSet(wire) /\ Cardinality(wire) \in Nat
  <2>1. IsFiniteSet(Entries)
    BY <1>0, FS_Interval DEF Entries
  <2>2. QED
    BY <2>1, FS_Subset, FS_CardinalityType DEF TypeOK
<1> USE DEF Counts, InCase, Loop, Ended, Unbooked, LimitReached
<1>1. CASE Start
  <2>1. pc = "gate" /\ pc' \notin InCase \cup {"decide"} \cup Unbooked /\ UNCHANGED <<config, read, selected, wire>>
    BY <1>1 DEF Start, InCase, Unbooked
  <2>2. Cardinality(wire) = 0 /\ selected = 0
    BY <1>0, <1>f, <2>1, FS_EmptySet DEF Place, Fresh
  <2>3. QED
    BY <1>0, <2>1, <2>2
<1>2. CASE OpenSocket
  <2>1. Cardinality(wire) = 0 /\ selected = 0
    BY <1>2, FS_EmptySet DEF OpenSocket, Place, Fresh
  <2>2. QED
    BY <1>2, <1>0, <2>1 DEF OpenSocket
<1>3. CASE ReadCase
  BY <1>3, <1>0, <1>f DEF ReadCase, LoopStep
<1>4. CASE OtherShard
  BY <1>4, <1>0, <1>f DEF OtherShard, LoopStep
<1>5. CASE SkipForLimit
  BY <1>5, <1>0, <1>f DEF SkipForLimit, LedgerStep, LoopStep
<1>6. CASE SkipForDisk
  BY <1>6, <1>0, <1>f DEF SkipForDisk, LoopStep
<1>7. CASE RefuseCase
  BY <1>7, <1>0, <1>f DEF RefuseCase
<1>8. CASE SelectCase
  BY <1>8, <1>0, <1>f DEF SelectCase, LedgerStep, LoopStep
<1>9. CASE StartCase
  BY <1>9, <1>0, <1>f DEF StartCase, LedgerStep, LoopStep
<1>10. CASE BuildPacket
  BY <1>10, <1>0, <1>f DEF BuildPacket, LedgerStep, LoopStep
<1>11. CASE WritePacket
  BY <1>11, <1>0, <1>f DEF WritePacket, LoopStep
<1>12. CASE PcapLogged
  BY <1>12, <1>0, <1>f DEF PcapLogged, LedgerStep, LoopStep
<1>13. CASE AnnounceSend
  BY <1>13, <1>0, <1>f DEF AnnounceSend, LedgerStep, LoopStep
<1>14. CASE SendPacket
  <2>1. wire' = wire \cup {read} /\ Cardinality(wire') <= Cardinality(wire) + 1
    BY <1>14, <1>f, FS_AddElement DEF SendPacket
  <2>2. Cardinality(wire') \in Nat
    BY <1>14, <1>f, <2>1, FS_AddElement DEF SendPacket
  <2>3. config.op = "send" => Cardinality(wire') <= selected + 1
    BY <1>14, <1>0, <1>f, <2>1, <2>2 DEF SendPacket, LoopStep
  <2>4. QED
    BY <1>14, <1>0, <2>3 DEF SendPacket, LoopStep
<1>15. CASE SendLogged
  BY <1>15, <1>0, <1>f DEF SendLogged, LedgerStep, LoopStep
<1>16. CASE WriteArtifact
  <2>1. /\ UNCHANGED <<config, read, selected, wire>>
        /\ pc \in {"artifact", "summary"} /\ pc' \in {"summary", "record"}
    BY <1>16, ArtifactFacts
  <2>2. QED
    BY <1>0, <2>1
<1>17. CASE Finish
  BY <1>17, <1>0, <1>f DEF Finish, LedgerStep, LoopStep
<1>18. CASE Tally
  BY <1>18, <1>0, <1>f DEF Tally, LoopStep
<1>19. CASE LoopEnds
  BY <1>19, <1>0, <1>f DEF LoopEnds, LoopStep
<1>20. CASE LoopRaises
  BY <1>20, <1>0, <1>f DEF LoopRaises
<1>21. CASE BeginReplay
  BY <1>21, <1>0, <1>f DEF BeginReplay, LoopStep
<1>22. CASE Tcpreplay
  BY <1>22, <1>0, <1>f DEF Tcpreplay, LoopStep
<1>23. CASE ConcludeReplay
  BY <1>23, <1>0, <1>f DEF ConcludeReplay, LoopStep
<1>24. CASE RaisesUnguarded
  BY <1>24, <1>0, <1>f DEF RaisesUnguarded
<1>25. CASE Finalize
  BY <1>25, <1>0, <1>f DEF Finalize
<1>26. CASE Kill
  BY <1>26, <1>0, <1>f DEF Kill
<1>27. CASE UNCHANGED vars
  BY <1>27, <1>0, <1>f DEF vars
<1>28. QED
  BY <1>1, <1>2, <1>3, <1>4, <1>5, <1>6, <1>7, <1>8, <1>9, <1>10,
     <1>11, <1>12, <1>13, <1>14, <1>15, <1>16, <1>17, <1>18, <1>19, <1>20,
     <1>21, <1>22, <1>23, <1>24, <1>25, <1>26, <1>27 DEF Next, Stopped

\* A gate that let the run in keeps its answer: nothing changes the configuration.
LEMMA AdmissionStep ==
    ASSUME TypeOK, Admission, [Next]_vars
    PROVE  Admission'
<1> USE DEF Admission, Admitted, Live, Ended, Loop
<1>1. CASE Start
  BY <1>1 DEF Start, Admitted, Live
<1>2. CASE OpenSocket
  BY <1>2 DEF OpenSocket
<1>3. CASE ReadCase
  BY <1>3 DEF ReadCase, LoopStep
<1>4. CASE OtherShard
  BY <1>4 DEF OtherShard, LoopStep
<1>5. CASE SkipForLimit
  BY <1>5 DEF SkipForLimit, LedgerStep, LoopStep
<1>6. CASE SkipForDisk
  BY <1>6 DEF SkipForDisk, LoopStep
<1>7. CASE RefuseCase
  BY <1>7 DEF RefuseCase
<1>8. CASE SelectCase
  BY <1>8 DEF SelectCase, LedgerStep, LoopStep
<1>9. CASE StartCase
  BY <1>9 DEF StartCase, LedgerStep, LoopStep
<1>10. CASE BuildPacket
  BY <1>10 DEF BuildPacket, LedgerStep, LoopStep
<1>11. CASE WritePacket
  BY <1>11 DEF WritePacket, LoopStep
<1>12. CASE PcapLogged
  BY <1>12 DEF PcapLogged, LedgerStep, LoopStep
<1>13. CASE AnnounceSend
  BY <1>13 DEF AnnounceSend, LedgerStep, LoopStep
<1>14. CASE SendPacket
  BY <1>14 DEF SendPacket, LoopStep
<1>15. CASE SendLogged
  BY <1>15 DEF SendLogged, LedgerStep, LoopStep
<1>16. CASE WriteArtifact
  <2>1. pc \notin Ended \cup {"gate"} /\ UNCHANGED <<config, routes>>
    BY <1>16, ArtifactFacts
  <2>2. QED
    BY <2>1
<1>17. CASE Finish
  <2>1. pc \notin Ended \cup {"gate"} /\ UNCHANGED <<config, routes>>
    BY <1>17 DEF Finish, LedgerStep, LoopStep
  <2>2. QED
    BY <2>1
<1>18. CASE Tally
  BY <1>18 DEF Tally, LoopStep
<1>19. CASE LoopEnds
  BY <1>19 DEF LoopEnds, LoopStep
<1>20. CASE LoopRaises
  BY <1>20 DEF LoopRaises
<1>21. CASE BeginReplay
  BY <1>21 DEF BeginReplay, LoopStep
<1>22. CASE Tcpreplay
  BY <1>22 DEF Tcpreplay, LoopStep
<1>23. CASE ConcludeReplay
  BY <1>23 DEF ConcludeReplay, LoopStep
<1>24. CASE RaisesUnguarded
  BY <1>24 DEF RaisesUnguarded
<1>25. CASE Finalize
  BY <1>25 DEF Finalize
<1>26. CASE Kill
  BY <1>26 DEF Kill
<1>27. CASE UNCHANGED vars
  BY <1>27 DEF vars
<1>28. QED
  BY <1>1, <1>2, <1>3, <1>4, <1>5, <1>6, <1>7, <1>8, <1>9, <1>10,
     <1>11, <1>12, <1>13, <1>14, <1>15, <1>16, <1>17, <1>18, <1>19, <1>20,
     <1>21, <1>22, <1>23, <1>24, <1>25, <1>26, <1>27 DEF Next, Stopped

\* Only a started case puts something on the wire, and no started case is skipped.
LEMMA AnnouncedStep ==
    ASSUME TypeOK, Place, Announced, [Next]_vars
    PROVE  Announced'
<1>0. /\ ledger \in [Entries -> SUBSET Stages] /\ NCases \in Nat /\ read \in Int /\ selected \in Int
      /\ 0 \in Entries /\ Cases \subseteq Entries /\ Entries \subseteq Int /\ read \in Entries
      /\ (pc \in InCase \cup {"decide"} => read \in Cases)
  BY EntryFacts DEF TypeOK
<1> USE DEF TypeOK, Announced
<1>1. CASE Start
  BY <1>1 DEF Start
<1>2. CASE OpenSocket
  BY <1>2 DEF OpenSocket
<1>3. CASE ReadCase
  <2>0. read + 1 \in Cases /\ read + 1 \in Entries
    BY <1>3, <1>0 DEF ReadCase, Cases, Entries
  <2>1. /\ ledger' \in [Entries -> SUBSET Stages]
        /\ ledger'[read + 1] = ledger[read + 1] \cup {"planned"}
        /\ \A e \in Entries \ {read + 1} : ledger'[e] = ledger[e]
    BY <1>3, <1>0, <2>0, LogType, StageSets DEF ReadCase
  <2>2. QED
    BY <1>3, <1>0, <2>0, <2>1 DEF ReadCase, LoopStep
<1>4. CASE OtherShard
  BY <1>4 DEF OtherShard, LoopStep
<1>5. CASE SkipForLimit
  <2>0. read \in Cases /\ ledger[read] = {"planned"}
    BY <1>5, <1>0 DEF SkipForLimit, LedgerStep, LoopStep, Place
  <2>1. /\ ledger' \in [Entries -> SUBSET Stages]
        /\ ledger'[read] = ledger[read] \cup {"skipped"}
        /\ \A e \in Entries \ {read} : ledger'[e] = ledger[e]
    BY <1>5, <1>0, <2>0, LogType, StageSets DEF SkipForLimit, LedgerStep, LoopStep
  <2>2. QED
    BY <1>5, <1>0, <2>0, <2>1 DEF SkipForLimit, LedgerStep, LoopStep
<1>6. CASE SkipForDisk
  <2>0. read \in Cases /\ ledger[read] = {"planned"}
    BY <1>6, <1>0 DEF SkipForDisk, Place
  <2>1. /\ ledger' \in [Entries -> SUBSET Stages]
        /\ ledger'[read] = ledger[read] \cup {"skipped"}
        /\ \A e \in Entries \ {read} : ledger'[e] = ledger[e]
    BY <1>6, <1>0, <2>0, LogType, StageSets DEF SkipForDisk
  <2>2. QED
    BY <1>6, <1>0, <2>0, <2>1 DEF SkipForDisk, LoopStep
<1>7. CASE RefuseCase
  BY <1>7 DEF RefuseCase
<1>8. CASE SelectCase
  <2>0. read \in Cases
    BY <1>8, <1>0 DEF SelectCase, LedgerStep, LoopStep, InCase
  <2>1. /\ ledger' \in [Entries -> SUBSET Stages]
        /\ ledger'[read] = ledger[read] \cup {"selected"}
        /\ \A e \in Entries \ {read} : ledger'[e] = ledger[e]
    BY <1>8, <1>0, <2>0, LogType, StageSets DEF SelectCase, LedgerStep, LoopStep
  <2>2. QED
    BY <1>8, <1>0, <2>0, <2>1 DEF SelectCase, LedgerStep, LoopStep
<1>9. CASE StartCase
  <2>0. read \in Cases
    BY <1>9, <1>0 DEF StartCase, LedgerStep, LoopStep, InCase
  <2>1. /\ ledger' \in [Entries -> SUBSET Stages]
        /\ ledger'[read] = ledger[read] \cup {"started"}
        /\ \A e \in Entries \ {read} : ledger'[e] = ledger[e]
    BY <1>9, <1>0, <2>0, LogType, StageSets DEF StartCase, LedgerStep, LoopStep
  <2>2. QED
    BY <1>9, <1>0, <2>0, <2>1 DEF StartCase, LedgerStep, LoopStep
<1>10. CASE BuildPacket
  <2>0. read \in Cases
    BY <1>10, <1>0 DEF BuildPacket, LedgerStep, LoopStep, InCase
  <2>1. /\ ledger' \in [Entries -> SUBSET Stages]
        /\ ledger'[read] = ledger[read] \cup {"packet_built"}
        /\ \A e \in Entries \ {read} : ledger'[e] = ledger[e]
    BY <1>10, <1>0, <2>0, LogType, StageSets DEF BuildPacket, LedgerStep, LoopStep
  <2>2. QED
    BY <1>10, <1>0, <2>0, <2>1 DEF BuildPacket, LedgerStep, LoopStep
<1>11. CASE WritePacket
  BY <1>11 DEF WritePacket, LoopStep
<1>12. CASE PcapLogged
  <2>0. read \in Cases
    BY <1>12, <1>0 DEF PcapLogged, LedgerStep, LoopStep, InCase
  <2>1. /\ ledger' \in [Entries -> SUBSET Stages]
        /\ ledger'[read] = ledger[read] \cup {"pcap_written"}
        /\ \A e \in Entries \ {read} : ledger'[e] = ledger[e]
    BY <1>12, <1>0, <2>0, LogType, StageSets DEF PcapLogged, LedgerStep, LoopStep
  <2>2. QED
    BY <1>12, <1>0, <2>0, <2>1 DEF PcapLogged, LedgerStep, LoopStep
<1>13. CASE AnnounceSend
  <2>0. read \in Cases
    BY <1>13, <1>0 DEF AnnounceSend, LedgerStep, LoopStep, InCase
  <2>1. /\ ledger' \in [Entries -> SUBSET Stages]
        /\ ledger'[read] = ledger[read] \cup {"send_started"}
        /\ \A e \in Entries \ {read} : ledger'[e] = ledger[e]
    BY <1>13, <1>0, <2>0, LogType, StageSets DEF AnnounceSend, LedgerStep, LoopStep
  <2>2. QED
    BY <1>13, <1>0, <2>0, <2>1 DEF AnnounceSend, LedgerStep, LoopStep
<1>14. CASE SendPacket
  <2>1. "started" \in ledger[read] /\ "skipped" \notin ledger[read]
    BY <1>14 DEF SendPacket, LoopStep, Place, InCase
  <2>2. QED
    BY <1>14, <2>1 DEF SendPacket
<1>15. CASE SendLogged
  <2>0. read \in Cases
    BY <1>15, <1>0 DEF SendLogged, LedgerStep, LoopStep, InCase
  <2>1. /\ ledger' \in [Entries -> SUBSET Stages]
        /\ ledger'[read] = ledger[read] \cup {"send_finished"}
        /\ \A e \in Entries \ {read} : ledger'[e] = ledger[e]
    BY <1>15, <1>0, <2>0, LogType, StageSets DEF SendLogged, LedgerStep, LoopStep
  <2>2. QED
    BY <1>15, <1>0, <2>0, <2>1 DEF SendLogged, LedgerStep, LoopStep
<1>16. CASE WriteArtifact
  BY <1>16 DEF WriteArtifact, LoopStep
<1>17. CASE Finish
  <2>0. read \in Cases
    BY <1>17, <1>0 DEF Finish, LedgerStep, LoopStep, InCase
  <2>1. CASE LedgerStep("record", read, "artifact_finalized", "verdict")
    <3>1. /\ ledger' \in [Entries -> SUBSET Stages]
          /\ ledger'[read] = ledger[read] \cup {"artifact_finalized"}
          /\ \A e \in Entries \ {read} : ledger'[e] = ledger[e]
      BY <1>0, <2>0, <2>1, LogType, StageSets DEF LedgerStep
    <3>2. QED
      BY <1>0, <2>0, <2>1, <3>1 DEF LedgerStep, LoopStep
  <2>2. CASE LedgerStep("verdict", read, "verdict_finalized", "tally")
    <3>1. /\ ledger' \in [Entries -> SUBSET Stages]
          /\ ledger'[read] = ledger[read] \cup {"verdict_finalized"}
          /\ \A e \in Entries \ {read} : ledger'[e] = ledger[e]
      BY <1>0, <2>0, <2>2, LogType, StageSets DEF LedgerStep
    <3>2. QED
      BY <1>0, <2>0, <2>2, <3>1 DEF LedgerStep, LoopStep
  <2>3. QED
    BY <1>17, <2>1, <2>2 DEF Finish
<1>18. CASE Tally
  BY <1>18 DEF Tally, LoopStep
<1>19. CASE LoopEnds
  BY <1>19 DEF LoopEnds, LoopStep
<1>20. CASE LoopRaises
  <2>1. /\ pc = "send" => "started" \in ledger[read] /\ "skipped" \notin ledger[read]
        /\ pc = "tcpreplay" => "started" \in ledger[0] /\ "skipped" \notin ledger[0]
    BY DEF Place, InCase
  <2>2. ledger' = ledger /\ \A e \in wire' : e \in wire \/ (pc = "send" /\ e = read) \/ (pc = "tcpreplay" /\ e = 0)
    BY <1>20 DEF LoopRaises, TornWire
  <2>3. QED
    BY <2>1, <2>2
<1>21. CASE BeginReplay
  <2>1. /\ ledger' \in [Entries -> SUBSET Stages]
        /\ ledger'[0] = ledger[0] \cup {"selected", "started", "replay_started"}
        /\ \A e \in Entries \ {0} : ledger'[e] = ledger[e]
    BY <1>21, <1>0, LogType, StageSets DEF BeginReplay
  <2>2. QED
    BY <1>21, <1>0, <2>1 DEF BeginReplay, LoopStep
<1>22. CASE Tcpreplay
  <2>1. "started" \in ledger[0] /\ "skipped" \notin ledger[0]
    BY <1>22 DEF Tcpreplay, LoopStep, Place
  <2>2. QED
    BY <1>22, <2>1 DEF Tcpreplay
<1>23. CASE ConcludeReplay
  <2>1. /\ ledger' \in [Entries -> SUBSET Stages]
        /\ ledger'[0] = ledger[0] \cup {"replay_finished", "artifact_finalized", "verdict_finalized"}
        /\ \A e \in Entries \ {0} : ledger'[e] = ledger[e]
    BY <1>23, <1>0, LogType, StageSets DEF ConcludeReplay
  <2>2. QED
    BY <1>23, <1>0, <2>1 DEF ConcludeReplay, LoopStep
<1>24. CASE RaisesUnguarded
  <2>1. /\ pc = "send" => "started" \in ledger[read] /\ "skipped" \notin ledger[read]
        /\ pc = "tcpreplay" => "started" \in ledger[0] /\ "skipped" \notin ledger[0]
    BY DEF Place, InCase
  <2>2. ledger' = ledger /\ \A e \in wire' : e \in wire \/ (pc = "send" /\ e = read) \/ (pc = "tcpreplay" /\ e = 0)
    BY <1>24 DEF RaisesUnguarded, TornWire
  <2>3. QED
    BY <2>1, <2>2
<1>25. CASE Finalize
  BY <1>25 DEF Finalize
<1>26. CASE Kill
  <2>1. /\ pc = "send" => "started" \in ledger[read] /\ "skipped" \notin ledger[read]
        /\ pc = "tcpreplay" => "started" \in ledger[0] /\ "skipped" \notin ledger[0]
    BY DEF Place, InCase
  <2>2. ledger' = ledger /\ \A e \in wire' : e \in wire \/ (pc = "send" /\ e = read) \/ (pc = "tcpreplay" /\ e = 0)
    BY <1>26 DEF Kill, TornWire
  <2>3. QED
    BY <2>1, <2>2
<1>27. CASE UNCHANGED vars
  BY <1>27 DEF vars
<1>28. QED
  BY <1>1, <1>2, <1>3, <1>4, <1>5, <1>6, <1>7, <1>8, <1>9, <1>10,
     <1>11, <1>12, <1>13, <1>14, <1>15, <1>16, <1>17, <1>18, <1>19, <1>20,
     <1>21, <1>22, <1>23, <1>24, <1>25, <1>26, <1>27 DEF Next, Stopped

\* A packet goes out only behind its announcement and every consent it needs.
LEMMA ConsentStep ==
    ASSUME TypeOK, Place, Counts, Admission, WireConsent, [Next]_vars
    PROVE  WireConsent'
<1>0. /\ ledger \in [Entries -> SUBSET Stages] /\ NCases \in Nat /\ read \in Int /\ selected \in Int
      /\ 0 \in Entries /\ Cases \subseteq Entries /\ Entries \subseteq Int /\ read \in Entries
      /\ (pc \in InCase \cup {"decide"} => read \in Cases)
  BY EntryFacts DEF TypeOK
<1> DEFINE Frame == /\ UNCHANGED <<config, routes, wire>>
                      /\ \A e \in Entries : ledger[e] \subseteq ledger'[e]
<1>k. ASSUME Frame PROVE WireConsent'
  BY <1>k DEF TypeOK, WireConsent, Live, InShard
<1>o. ASSUME pc = "send", Live, wire' = wire \cup {read}, UNCHANGED <<config, routes, ledger, selected>>
      PROVE  WireConsent'
  <2>1. config.allow_send /\ (config.op = "send" => Admitted(routes))
    BY <1>o DEF Admission, Admitted, Ended
  <2>2. /\ InShard(read) /\ "send_started" \in ledger[read] /\ ~NeedsConsent(read) /\ read \in Cases
        /\ ~LimitReached
    BY <1>o, <1>0 DEF Place, Counts, InCase
  <2>3. Campaign[read].field \in OptInFields => config.allow_disruptive
    BY <1>o, <2>2, NetCampaignAssumption DEF OptInFields, NeedsConsent, Disruptive
  <2>4. config.op = "send" => (Limit # NoLimit => Cardinality(wire') <= Limit)
    <3>1. IsFiniteSet(wire) /\ Cardinality(wire) \in Nat
      <4>1. IsFiniteSet(Entries)
        BY <1>0, FS_Interval DEF Entries
      <4>2. QED
        BY <4>1, FS_Subset, FS_CardinalityType DEF TypeOK
    <3>2. Cardinality(wire') <= Cardinality(wire) + 1 /\ Cardinality(wire') \in Nat
      BY <1>o, <3>1, FS_AddElement
    <3>3. config.op = "send" => Cardinality(wire) <= selected
      BY <1>o, <1>0, <3>1 DEF Counts, Loop, Unbooked
    <3>4. QED
      BY <1>0, <2>2, <3>1, <3>2, <3>3, NetAssumption DEF LimitReached
  <2>5. config.op = "send" => /\ config.iface \in config.iface_allowlist \/ config.iface_allowlist = {}
                              /\ config.iface \notin routes \/ ~config.forbid_default_route_iface
    BY <1>o, <2>1 DEF Admitted
  <2>6. QED
    BY <1>o, <2>1, <2>2, <2>3, <2>4, <2>5 DEF WireConsent, Live, InShard
<1> USE DEF WireConsent
<1>1. CASE Start
  <2>1. wire = {} /\ wire' = {}
    BY <1>1 DEF Start, Place, Fresh
  <2>2. QED
    BY <2>1
<1>2. CASE OpenSocket
  <2>1. Frame
    BY <1>2, <1>0 DEF OpenSocket
  <2>2. QED
    BY <2>1, <1>k
<1>3. CASE ReadCase
  <2>0. read + 1 \in Cases /\ read + 1 \in Entries
    BY <1>3, <1>0 DEF ReadCase, Cases, Entries
  <2>1. /\ ledger' \in [Entries -> SUBSET Stages]
        /\ ledger'[read + 1] = ledger[read + 1] \cup {"planned"}
        /\ \A e \in Entries \ {read + 1} : ledger'[e] = ledger[e]
    BY <1>3, <1>0, <2>0, LogType, StageSets DEF ReadCase
  <2>2. Frame
    BY <1>3, <1>0, <2>0, <2>1 DEF ReadCase, LoopStep
  <2>3. QED
    BY <2>2, <1>k
<1>4. CASE OtherShard
  <2>1. Frame
    BY <1>4, <1>0 DEF OtherShard, LoopStep
  <2>2. QED
    BY <2>1, <1>k
<1>5. CASE SkipForLimit
  <2>0. read \in Cases
    BY <1>5, <1>0 DEF SkipForLimit, LedgerStep, LoopStep, InCase
  <2>1. ledger'[read] = ledger[read] \cup {"skipped"} /\ \A e \in Entries \ {read} : ledger'[e] = ledger[e]
    BY <1>5, <1>0, <2>0, LogType, StageSets DEF SkipForLimit, LedgerStep, LoopStep
  <2>2. Frame
    BY <1>5, <1>0, <2>0, <2>1 DEF SkipForLimit, LedgerStep, LoopStep
  <2>3. QED
    BY <2>2, <1>k
<1>6. CASE SkipForDisk
  <2>0. read \in Cases
    BY <1>6, <1>0 DEF SkipForDisk
  <2>1. /\ ledger' \in [Entries -> SUBSET Stages]
        /\ ledger'[read] = ledger[read] \cup {"skipped"}
        /\ \A e \in Entries \ {read} : ledger'[e] = ledger[e]
    BY <1>6, <1>0, <2>0, LogType, StageSets DEF SkipForDisk
  <2>2. Frame
    BY <1>6, <1>0, <2>0, <2>1 DEF SkipForDisk, LoopStep
  <2>3. QED
    BY <2>2, <1>k
<1>7. CASE RefuseCase
  <2>1. Frame
    BY <1>7, <1>0 DEF RefuseCase
  <2>2. QED
    BY <2>1, <1>k
<1>8. CASE SelectCase
  <2>0. read \in Cases
    BY <1>8, <1>0 DEF SelectCase, LedgerStep, LoopStep, InCase
  <2>1. ledger'[read] = ledger[read] \cup {"selected"} /\ \A e \in Entries \ {read} : ledger'[e] = ledger[e]
    BY <1>8, <1>0, <2>0, LogType, StageSets DEF SelectCase, LedgerStep, LoopStep
  <2>2. Frame
    BY <1>8, <1>0, <2>0, <2>1 DEF SelectCase, LedgerStep, LoopStep
  <2>3. QED
    BY <2>2, <1>k
<1>9. CASE StartCase
  <2>0. read \in Cases
    BY <1>9, <1>0 DEF StartCase, LedgerStep, LoopStep, InCase
  <2>1. ledger'[read] = ledger[read] \cup {"started"} /\ \A e \in Entries \ {read} : ledger'[e] = ledger[e]
    BY <1>9, <1>0, <2>0, LogType, StageSets DEF StartCase, LedgerStep, LoopStep
  <2>2. Frame
    BY <1>9, <1>0, <2>0, <2>1 DEF StartCase, LedgerStep, LoopStep
  <2>3. QED
    BY <2>2, <1>k
<1>10. CASE BuildPacket
  <2>0. read \in Cases
    BY <1>10, <1>0 DEF BuildPacket, LedgerStep, LoopStep, InCase
  <2>1. ledger'[read] = ledger[read] \cup {"packet_built"} /\ \A e \in Entries \ {read} : ledger'[e] = ledger[e]
    BY <1>10, <1>0, <2>0, LogType, StageSets DEF BuildPacket, LedgerStep, LoopStep
  <2>2. Frame
    BY <1>10, <1>0, <2>0, <2>1 DEF BuildPacket, LedgerStep, LoopStep
  <2>3. QED
    BY <2>2, <1>k
<1>11. CASE WritePacket
  <2>1. Frame
    BY <1>11, <1>0 DEF WritePacket, LoopStep
  <2>2. QED
    BY <2>1, <1>k
<1>12. CASE PcapLogged
  <2>0. read \in Cases
    BY <1>12, <1>0 DEF PcapLogged, LedgerStep, LoopStep, InCase
  <2>1. ledger'[read] = ledger[read] \cup {"pcap_written"} /\ \A e \in Entries \ {read} : ledger'[e] = ledger[e]
    BY <1>12, <1>0, <2>0, LogType, StageSets DEF PcapLogged, LedgerStep, LoopStep
  <2>2. Frame
    BY <1>12, <1>0, <2>0, <2>1 DEF PcapLogged, LedgerStep, LoopStep
  <2>3. QED
    BY <2>2, <1>k
<1>13. CASE AnnounceSend
  <2>0. read \in Cases
    BY <1>13, <1>0 DEF AnnounceSend, LedgerStep, LoopStep, InCase
  <2>1. ledger'[read] = ledger[read] \cup {"send_started"} /\ \A e \in Entries \ {read} : ledger'[e] = ledger[e]
    BY <1>13, <1>0, <2>0, LogType, StageSets DEF AnnounceSend, LedgerStep, LoopStep
  <2>2. Frame
    BY <1>13, <1>0, <2>0, <2>1 DEF AnnounceSend, LedgerStep, LoopStep
  <2>3. QED
    BY <2>2, <1>k
<1>14. CASE SendPacket
  <2>1. pc = "send" /\ Live /\ wire' = wire \cup {read} /\ UNCHANGED <<config, routes, ledger, selected>>
    BY <1>14 DEF SendPacket, LoopStep, Place
  <2>2. QED
    BY <2>1, <1>o
<1>15. CASE SendLogged
  <2>0. read \in Cases
    BY <1>15, <1>0 DEF SendLogged, LedgerStep, LoopStep, InCase
  <2>1. ledger'[read] = ledger[read] \cup {"send_finished"} /\ \A e \in Entries \ {read} : ledger'[e] = ledger[e]
    BY <1>15, <1>0, <2>0, LogType, StageSets DEF SendLogged, LedgerStep, LoopStep
  <2>2. Frame
    BY <1>15, <1>0, <2>0, <2>1 DEF SendLogged, LedgerStep, LoopStep
  <2>3. QED
    BY <2>2, <1>k
<1>16. CASE WriteArtifact
  <2>1. Frame
    BY <1>16, <1>0, ArtifactFacts DEF WriteArtifact, LoopStep
  <2>2. QED
    BY <2>1, <1>k
<1>17. CASE Finish
  <2>0. read \in Cases
    BY <1>17, <1>0 DEF Finish, LedgerStep, LoopStep, InCase
  <2>1. CASE LedgerStep("record", read, "artifact_finalized", "verdict")
    <3>1. /\ ledger' \in [Entries -> SUBSET Stages]
          /\ ledger'[read] = ledger[read] \cup {"artifact_finalized"}
          /\ \A e \in Entries \ {read} : ledger'[e] = ledger[e]
      BY <1>0, <2>0, <2>1, LogType, StageSets DEF LedgerStep
    <3>2. Frame
      BY <1>0, <2>0, <2>1, <3>1 DEF LedgerStep, LoopStep
    <3>3. QED
      BY <3>2, <1>k
  <2>2. CASE LedgerStep("verdict", read, "verdict_finalized", "tally")
    <3>1. /\ ledger' \in [Entries -> SUBSET Stages]
          /\ ledger'[read] = ledger[read] \cup {"verdict_finalized"}
          /\ \A e \in Entries \ {read} : ledger'[e] = ledger[e]
      BY <1>0, <2>0, <2>2, LogType, StageSets DEF LedgerStep
    <3>2. Frame
      BY <1>0, <2>0, <2>2, <3>1 DEF LedgerStep, LoopStep
    <3>3. QED
      BY <3>2, <1>k
  <2>3. QED
    BY <1>17, <2>1, <2>2 DEF Finish
<1>18. CASE Tally
  <2>1. Frame
    BY <1>18, <1>0 DEF Tally, LoopStep
  <2>2. QED
    BY <2>1, <1>k
<1>19. CASE LoopEnds
  <2>1. Frame
    BY <1>19, <1>0 DEF LoopEnds, LoopStep
  <2>2. QED
    BY <2>1, <1>k
<1>20. CASE LoopRaises
  <2>1. /\ UNCHANGED <<config, routes, ledger, selected>>
        /\ \/ wire' = wire
           \/ pc = "send" /\ Live /\ wire' = wire \cup {read}
           \/ pc = "tcpreplay" /\ Live /\ config.op = "replay" /\ wire' = wire \cup {0}
    BY <1>20 DEF LoopRaises, TornWire, Place, Replaying
  <2>2. CASE wire' = wire
    BY <2>1, <2>2, <1>k
  <2>3. CASE pc = "send" /\ Live /\ wire' = wire \cup {read}
    BY <2>1, <2>3, <1>o
  <2>4. CASE pc = "tcpreplay" /\ Live /\ config.op = "replay"
    BY <2>1, <2>4 DEF Admission, Admitted, Ended, Live
  <2>5. QED
    BY <2>1, <2>2, <2>3, <2>4
<1>21. CASE BeginReplay
  <2>1. /\ ledger' \in [Entries -> SUBSET Stages]
        /\ ledger'[0] = ledger[0] \cup {"selected", "started", "replay_started"}
        /\ \A e \in Entries \ {0} : ledger'[e] = ledger[e]
    BY <1>21, <1>0, LogType, StageSets DEF BeginReplay
  <2>2. Frame
    BY <1>21, <1>0, <2>1 DEF BeginReplay, LoopStep
  <2>3. QED
    BY <2>2, <1>k
<1>22. CASE Tcpreplay
  <2>1. /\ config.op = "replay" /\ pc = "tcpreplay" /\ UNCHANGED <<config, routes, ledger>>
        /\ wire' = wire \/ (Live /\ wire' = wire \cup {0})
    BY <1>22 DEF Tcpreplay, LoopStep, Place, Replaying
  <2>2. CASE wire' = wire
    BY <2>1, <2>2, <1>k
  <2>3. CASE wire' # wire
    BY <2>1, <2>3 DEF Admission, Admitted, Ended, Live
  <2>4. QED
    BY <2>2, <2>3
<1>23. CASE ConcludeReplay
  <2>1. /\ ledger' \in [Entries -> SUBSET Stages]
        /\ ledger'[0] = ledger[0] \cup {"replay_finished", "artifact_finalized", "verdict_finalized"}
        /\ \A e \in Entries \ {0} : ledger'[e] = ledger[e]
    BY <1>23, <1>0, LogType, StageSets DEF ConcludeReplay
  <2>2. Frame
    BY <1>23, <1>0, <2>1 DEF ConcludeReplay, LoopStep
  <2>3. QED
    BY <2>2, <1>k
<1>24. CASE RaisesUnguarded
  <2>1. /\ UNCHANGED <<config, routes, ledger, selected>>
        /\ \/ wire' = wire
           \/ pc = "send" /\ Live /\ wire' = wire \cup {read}
           \/ pc = "tcpreplay" /\ Live /\ config.op = "replay" /\ wire' = wire \cup {0}
    BY <1>24 DEF RaisesUnguarded, TornWire, Place, Replaying
  <2>2. CASE wire' = wire
    BY <2>1, <2>2, <1>k
  <2>3. CASE pc = "send" /\ Live /\ wire' = wire \cup {read}
    BY <2>1, <2>3, <1>o
  <2>4. CASE pc = "tcpreplay" /\ Live /\ config.op = "replay"
    BY <2>1, <2>4 DEF Admission, Admitted, Ended, Live
  <2>5. QED
    BY <2>1, <2>2, <2>3, <2>4
<1>25. CASE Finalize
  <2>1. Frame
    BY <1>25, <1>0 DEF Finalize
  <2>2. QED
    BY <2>1, <1>k
<1>26. CASE Kill
  <2>1. /\ UNCHANGED <<config, routes, ledger, selected>>
        /\ \/ wire' = wire
           \/ pc = "send" /\ Live /\ wire' = wire \cup {read}
           \/ pc = "tcpreplay" /\ Live /\ config.op = "replay" /\ wire' = wire \cup {0}
    BY <1>26 DEF Kill, TornWire, Place, Replaying
  <2>2. CASE wire' = wire
    BY <2>1, <2>2, <1>k
  <2>3. CASE pc = "send" /\ Live /\ wire' = wire \cup {read}
    BY <2>1, <2>3, <1>o
  <2>4. CASE pc = "tcpreplay" /\ Live /\ config.op = "replay"
    BY <2>1, <2>4 DEF Admission, Admitted, Ended, Live
  <2>5. QED
    BY <2>1, <2>2, <2>3, <2>4
<1>27. CASE UNCHANGED vars
  BY <1>27, <1>k DEF vars
<1>28. QED
  BY <1>1, <1>2, <1>3, <1>4, <1>5, <1>6, <1>7, <1>8, <1>9, <1>10,
     <1>11, <1>12, <1>13, <1>14, <1>15, <1>16, <1>17, <1>18, <1>19, <1>20,
     <1>21, <1>22, <1>23, <1>24, <1>25, <1>26, <1>27 DEF Next, Stopped

\* What a ledger entry does to the set of the recorded.
LEMMA RecordedAfter ==
    ASSUME ledger \in [Entries -> SUBSET Stages], NEW c \in Entries, NEW stages \in SUBSET Stages,
           Log(c, stages)
    PROVE  Recorded' = Recorded \cup (IF "verdict_finalized" \in stages THEN {c} ELSE {})
BY LogType DEF Recorded

\* Output and books differ by the case at hand, between its output and its verdict.
LEMMA BooksStep ==
    ASSUME TypeOK, Place, Books, [Next]_vars
    PROVE  Books'
<1>0. /\ ledger \in [Entries -> SUBSET Stages] /\ NCases \in Nat /\ read \in Int /\ selected \in Int
      /\ 0 \in Entries /\ Cases \subseteq Entries /\ Entries \subseteq Int /\ read \in Entries
      /\ (pc \in InCase \cup {"decide"} => read \in Cases)
  BY EntryFacts DEF TypeOK
<1> USE DEF Books, CleanEnd, Loop, Unbooked, Ended
<1>1. CASE Start
  <2>1. /\ UNCHANGED <<config, aborted, read, wire, pcap, ledger>> /\ pc = "gate"
        /\ pc' \in {"failed", "replay", "socket", "read"}
    BY <1>1 DEF Start
  <2>2. wire = {} /\ pcap = {} /\ Recorded = {} /\ Recorded' = {}
    BY <2>1 DEF Place, Fresh, Recorded
  <2>3. QED
    BY <2>1, <2>2
<1>2. CASE OpenSocket
  <2>1. /\ UNCHANGED <<config, aborted, read, wire, pcap, ledger>> /\ pc = "socket" /\ pc' = "read"
    BY <1>2 DEF OpenSocket
  <2>2. wire = {} /\ pcap = {} /\ Recorded = {} /\ Recorded' = {}
    BY <2>1 DEF Place, Fresh, Recorded
  <2>3. QED
    BY <2>1, <2>2
<1>3. CASE ReadCase
  <2>0. read + 1 \in Entries /\ Log(read + 1, {"planned"})
    BY <1>3, <1>0 DEF ReadCase, Entries
  <2>1. Recorded' = Recorded
    BY <1>0, <2>0, StageSets, RecordedAfter
  <2>2. UNCHANGED <<config, aborted, wire, pcap>> /\ pc = "read" /\ pc' = "decide"
    BY <1>3 DEF ReadCase, LoopStep
  <2>3. QED
    BY <2>1, <2>2 DEF Live
<1>4. CASE OtherShard
  <2>1. UNCHANGED <<config, aborted, read, wire, pcap, ledger>> /\ pc = "decide" /\ pc' = "read"
    BY <1>4 DEF OtherShard, LoopStep
  <2>2. QED
    BY <2>1 DEF Live, Recorded
<1>5. CASE SkipForLimit
  <2>0. read \in Entries /\ Log(read, {"skipped"})
    BY <1>5, <1>0 DEF SkipForLimit, LedgerStep, LoopStep
  <2>1. Recorded' = Recorded
    BY <1>0, <2>0, StageSets, RecordedAfter
  <2>2. /\ UNCHANGED <<config, aborted, read, wire, pcap>> /\ pc = "decide" /\ pc' = "read"
    BY <1>5 DEF SkipForLimit, LedgerStep, LoopStep, Place, Live
  <2>3. QED
    BY <2>1, <2>2 DEF Live
<1>6. CASE SkipForDisk
  <2>0. read \in Entries /\ Log(read, {"skipped"})
    BY <1>6, <1>0 DEF SkipForDisk
  <2>1. Recorded' = Recorded
    BY <1>0, <2>0, StageSets, RecordedAfter
  <2>2. UNCHANGED <<config, aborted, read, wire, pcap>> /\ pc = "decide" /\ pc' = "read"
    BY <1>6 DEF SkipForDisk, LoopStep
  <2>3. QED
    BY <2>1, <2>2 DEF Live
<1>7. CASE RefuseCase
  <2>1. UNCHANGED <<config, read, wire, pcap, ledger>> /\ pc = "decide" /\ pc' = "finalize" /\ aborted'
    BY <1>7 DEF RefuseCase
  <2>2. QED
    BY <2>1 DEF Live, Recorded
<1>8. CASE SelectCase
  <2>0. read \in Entries /\ Log(read, {"selected"})
    BY <1>8, <1>0 DEF SelectCase, LedgerStep, LoopStep
  <2>1. Recorded' = Recorded
    BY <1>0, <2>0, StageSets, RecordedAfter
  <2>2. /\ UNCHANGED <<config, aborted, read, wire, pcap>> /\ pc = "decide" /\ pc' = "start"
    BY <1>8 DEF SelectCase, LedgerStep, LoopStep, Place, Live
  <2>3. QED
    BY <2>1, <2>2 DEF Live
<1>9. CASE StartCase
  <2>0. read \in Entries /\ Log(read, {"started"})
    BY <1>9, <1>0 DEF StartCase, LedgerStep, LoopStep
  <2>1. Recorded' = Recorded
    BY <1>0, <2>0, StageSets, RecordedAfter
  <2>2. /\ UNCHANGED <<config, aborted, read, wire, pcap>> /\ pc = "start" /\ pc' = "build"
    BY <1>9 DEF StartCase, LedgerStep, LoopStep, Place, Live
  <2>3. QED
    BY <2>1, <2>2 DEF Live
<1>10. CASE BuildPacket
  <2>0. read \in Entries /\ Log(read, {"packet_built"})
    BY <1>10, <1>0 DEF BuildPacket, LedgerStep, LoopStep
  <2>1. Recorded' = Recorded
    BY <1>0, <2>0, StageSets, RecordedAfter
  <2>2. /\ UNCHANGED <<config, aborted, read, wire, pcap>> /\ pc = "build"
        /\ \/ pc' = "write" /\ config.op = "pcap"
           \/ pc' = "announce" /\ Live
           \/ pc' = "artifact" /\ config.op # "pcap" /\ ~Live
    BY <1>10 DEF BuildPacket, LedgerStep, LoopStep, Place, Live
  <2>3. QED
    BY <2>1, <2>2 DEF Live
<1>11. CASE WritePacket
  <2>1. /\ UNCHANGED <<config, aborted, read, wire, ledger>> /\ pc = "write" /\ pc' = "logged"
        /\ pcap' = pcap \cup {read} /\ config.op = "pcap"
    BY <1>11 DEF WritePacket, LoopStep, Place
  <2>2. QED
    BY <2>1 DEF Recorded
<1>12. CASE PcapLogged
  <2>0. read \in Entries /\ Log(read, {"pcap_written"})
    BY <1>12, <1>0 DEF PcapLogged, LedgerStep, LoopStep
  <2>1. Recorded' = Recorded
    BY <1>0, <2>0, StageSets, RecordedAfter
  <2>2. /\ UNCHANGED <<config, aborted, read, wire, pcap>> /\ pc = "logged" /\ pc' = "artifact"
        /\ config.op = "pcap"
    BY <1>12 DEF PcapLogged, LedgerStep, LoopStep, Place, Live
  <2>3. QED
    BY <2>1, <2>2 DEF Live
<1>13. CASE AnnounceSend
  <2>0. read \in Entries /\ Log(read, {"send_started"})
    BY <1>13, <1>0 DEF AnnounceSend, LedgerStep, LoopStep
  <2>1. Recorded' = Recorded
    BY <1>0, <2>0, StageSets, RecordedAfter
  <2>2. /\ UNCHANGED <<config, aborted, read, wire, pcap>> /\ pc = "announce" /\ pc' = "send"
    BY <1>13 DEF AnnounceSend, LedgerStep, LoopStep, Place, Live
  <2>3. QED
    BY <2>1, <2>2 DEF Live
<1>14. CASE SendPacket
  <2>1. /\ UNCHANGED <<config, aborted, read, pcap, ledger>> /\ pc = "send" /\ pc' = "sent"
        /\ wire' = wire \cup {read} /\ Live
    BY <1>14 DEF SendPacket, LoopStep, Place
  <2>2. Recorded' = Recorded
    BY <2>1 DEF Recorded
  <2>3. QED
    BY <2>1, <2>2 DEF Live
<1>15. CASE SendLogged
  <2>0. read \in Entries /\ Log(read, {"send_finished"})
    BY <1>15, <1>0 DEF SendLogged, LedgerStep, LoopStep
  <2>1. Recorded' = Recorded
    BY <1>0, <2>0, StageSets, RecordedAfter
  <2>2. /\ UNCHANGED <<config, aborted, read, wire, pcap>> /\ pc = "sent" /\ pc' = "artifact"
        /\ Live
    BY <1>15 DEF SendLogged, LedgerStep, LoopStep, Place, Live
  <2>3. QED
    BY <2>1, <2>2 DEF Live
<1>16. CASE WriteArtifact
  <2>1. UNCHANGED <<config, aborted, read, wire, pcap, ledger>> /\ pc \in {"artifact", "summary"} /\ pc' \in {"summary", "record"}
    BY <1>16, ArtifactFacts DEF WriteArtifact, LoopStep
  <2>2. QED
    BY <2>1 DEF Live, Recorded
<1>17. CASE Finish
  <2>0. UNCHANGED <<config, aborted, read, wire, pcap>>
    BY <1>17 DEF Finish, LedgerStep, LoopStep
  <2>1. CASE LedgerStep("record", read, "artifact_finalized", "verdict")
    <3>1. Log(read, {"artifact_finalized"}) /\ pc = "record" /\ pc' = "verdict"
      BY <2>1 DEF LedgerStep, LoopStep
    <3>2. Recorded' = Recorded
      BY <1>0, <3>1, StageSets, RecordedAfter
    <3>3. QED
      BY <2>0, <3>1, <3>2 DEF Live
  <2>2. CASE LedgerStep("verdict", read, "verdict_finalized", "tally")
    <3>1. Log(read, {"verdict_finalized"}) /\ pc = "verdict" /\ pc' = "tally"
      BY <2>2 DEF LedgerStep, LoopStep
    <3>2. Recorded' = Recorded \cup {read}
      BY <1>0, <3>1, StageSets, RecordedAfter
    <3>3. QED
      BY <2>0, <3>1, <3>2 DEF Live
  <2>3. QED
    BY <1>17, <2>1, <2>2 DEF Finish
<1>18. CASE Tally
  <2>1. UNCHANGED <<config, aborted, read, wire, pcap, ledger>> /\ pc = "tally" /\ pc' = "read"
    BY <1>18 DEF Tally, LoopStep
  <2>2. QED
    BY <2>1 DEF Live, Recorded
<1>19. CASE LoopEnds
  <2>1. UNCHANGED <<config, aborted, read, wire, pcap, ledger>> /\ pc = "read" /\ pc' = "finalize"
    BY <1>19 DEF LoopEnds, LoopStep
  <2>2. QED
    BY <2>1 DEF Live, Recorded
<1>20. CASE LoopRaises
  <2>1. /\ UNCHANGED <<config, read, ledger>> /\ pc' = "finalize" /\ aborted' = TRUE
        /\ wire' = wire \/ (pc = "send" /\ wire' = wire \cup {read}) \/ config.op = "replay"
    BY <1>20 DEF LoopRaises, TornWire, Live
  <2>2. Recorded' = Recorded
    BY <2>1 DEF Recorded
  <2>3. QED
    BY <2>1, <2>2 DEF Live
<1>21. CASE BeginReplay
  <2>1. config.op = "replay" /\ config' = config
    BY <1>21 DEF BeginReplay, LoopStep, Place, Replaying
  <2>2. QED
    BY <2>1
<1>22. CASE Tcpreplay
  <2>1. config.op = "replay" /\ config' = config
    BY <1>22 DEF Tcpreplay, LoopStep, Place, Replaying
  <2>2. QED
    BY <2>1
<1>23. CASE ConcludeReplay
  <2>1. config.op = "replay" /\ config' = config
    BY <1>23 DEF ConcludeReplay, LoopStep, Place, Replaying
  <2>2. QED
    BY <2>1
<1>24. CASE RaisesUnguarded
  <2>1. /\ UNCHANGED <<config, read, ledger>> /\ pc \notin Loop /\ pc' = "failed"
        /\ wire' = wire \/ config.op = "replay"
    BY <1>24 DEF RaisesUnguarded, TornWire, Live, Place, Replaying
  <2>2. Recorded' = Recorded
    BY <2>1 DEF Recorded
  <2>3. QED
    BY <2>1, <2>2 DEF Live
<1>25. CASE Finalize
  <2>1. /\ UNCHANGED <<config, aborted, read, wire, pcap, ledger>> /\ pc = "finalize"
        /\ pc' \in {"done", "failed"} /\ (pc' = "done" => ~aborted)
    BY <1>25 DEF Finalize
  <2>2. QED
    BY <2>1 DEF Live, Recorded
<1>26. CASE Kill
  <2>1. /\ UNCHANGED <<config, read, ledger>> /\ pc' = "killed"
        /\ wire' = wire \/ (pc = "send" /\ wire' = wire \cup {read}) \/ config.op = "replay"
    BY <1>26 DEF Kill, TornWire, Live, Place, Replaying
  <2>2. Recorded' = Recorded
    BY <2>1 DEF Recorded
  <2>3. QED
    BY <2>1, <2>2 DEF Live
<1>27. CASE UNCHANGED vars
  <2>1. UNCHANGED <<config, aborted, pc, read, wire, pcap, ledger>>
    BY <1>27 DEF vars
  <2>2. QED
    BY <2>1 DEF Live, Recorded
<1>28. QED
  BY <1>1, <1>2, <1>3, <1>4, <1>5, <1>6, <1>7, <1>8, <1>9, <1>10,
     <1>11, <1>12, <1>13, <1>14, <1>15, <1>16, <1>17, <1>18, <1>19, <1>20,
     <1>21, <1>22, <1>23, <1>24, <1>25, <1>26, <1>27 DEF Next, Stopped

-----------------------------------------------------------------------------
(* Every case has its outcome *)

\* A case that send read is recorded, skipped, at hand, or of another shard.
LEMMA OutcomesStep ==
    ASSUME TypeOK, Place, Outcomes, [Next]_vars
    PROVE  Outcomes'
<1>0. /\ ledger \in [Entries -> SUBSET Stages] /\ NCases \in Nat /\ read \in Int /\ selected \in Int
      /\ 0 \in Entries /\ Cases \subseteq Entries /\ Entries \subseteq Int /\ read \in Entries
      /\ (pc \in InCase \cup {"decide"} => read \in Cases)
  BY EntryFacts DEF TypeOK
<1>c. \A c \in Cases : c > 0 /\ c \in Int
  BY DEF Cases
<1> USE DEF Outcomes, Recorded, CleanEnd, Loop, InShard
<1>1. CASE Start
  <2>1. /\ UNCHANGED <<config, aborted, read, selected, ledger>> /\ pc = "gate"
        /\ pc' \in {"failed", "replay", "socket", "read"}
    BY <1>1 DEF Start
  <2>2. read = 0 /\ \A e \in Entries : ledger[e] = {}
    BY <2>1 DEF Place, Fresh
  <2>3. QED
    BY <1>0, <1>c, <2>1, <2>2
<1>2. CASE OpenSocket
  <2>1. /\ UNCHANGED <<config, aborted, read, selected, ledger>> /\ pc = "socket"
        /\ pc' = "read"
    BY <1>2 DEF OpenSocket
  <2>2. read = 0 /\ \A e \in Entries : ledger[e] = {}
    BY <2>1 DEF Place, Fresh
  <2>3. QED
    BY <1>0, <1>c, <2>1, <2>2
<1>3. CASE ReadCase
  <2>0. /\ read + 1 \in Cases /\ Log(read + 1, {"planned"}) /\ read' = read + 1
        /\ UNCHANGED <<config, aborted, selected>> /\ pc = "read" /\ pc' = "decide"
    BY <1>3, <1>0 DEF ReadCase, LoopStep, Cases, Entries
  <2>1. /\ ledger'[read + 1] = ledger[read + 1] \cup {"planned"}
        /\ \A e \in Entries \ {read + 1} : ledger'[e] = ledger[e]
    BY <1>0, <2>0, LogType, StageSets
  <2>2. \A c \in Cases : c <= read + 1 => c <= read \/ c = read + 1
    BY <1>0
  <2>3. ledger[read + 1] = {}
    BY <1>0, <2>0 DEF Place
  <2>4. \A c \in Cases : c # read + 1 => ledger'[c] = ledger[c]
    BY <1>0, <2>1
  <2>5. LimitReached' = LimitReached
    BY <2>0 DEF LimitReached
  <2>6. QED
    BY <1>0, <2>0, <2>1, <2>2, <2>3, <2>4, <2>5 DEF InCase
<1>4. CASE OtherShard
  <2>1. UNCHANGED <<config, aborted, read, selected, ledger>> /\ pc = "decide" /\ pc' = "read" /\ ~InShard(read)
    BY <1>4 DEF OtherShard, LoopStep
  <2>2. QED
    BY <1>0, <2>1 DEF InCase, LimitReached
<1>5. CASE SkipForLimit
  <2>0. read \in Cases /\ UNCHANGED <<config, aborted, read, selected>>
        /\ pc = "decide" /\ pc' = "read" /\ LimitReached
    BY <1>5, <1>0 DEF SkipForLimit, LedgerStep, LoopStep, InCase
  <2>1. /\ ledger'[read] = ledger[read] \cup {"skipped"}
        /\ \A e \in Entries \ {read} : ledger'[e] = ledger[e]
    BY <1>5, <1>0, <2>0, LogType, StageSets DEF SkipForLimit, LedgerStep, LoopStep
  <2>2. QED
    BY <1>0, <2>0, <2>1 DEF InCase, LimitReached
<1>6. CASE SkipForDisk
  <2>1. config.op # "send" /\ config' = config
    BY <1>6 DEF SkipForDisk, LoopStep, Place, Replaying
  <2>2. QED
    BY <2>1
<1>7. CASE RefuseCase
  <2>1. pc' \notin Loop /\ ~CleanEnd'
    BY <1>7 DEF RefuseCase, Loop
  <2>2. QED
    BY <2>1
<1>8. CASE SelectCase
  <2>0. read \in Cases /\ UNCHANGED <<config, aborted, read, selected>>
        /\ pc = "decide" /\ pc' = "start"
    BY <1>8, <1>0 DEF SelectCase, LedgerStep, LoopStep, InCase
  <2>1. /\ ledger'[read] = ledger[read] \cup {"selected"}
        /\ \A e \in Entries \ {read} : ledger'[e] = ledger[e]
    BY <1>8, <1>0, <2>0, LogType, StageSets DEF SelectCase, LedgerStep, LoopStep
  <2>2. \A c \in Cases : /\ ledger'[c] = {} => ledger[c] = {}
                         /\ \A s \in {"started", "skipped", "verdict_finalized"} :
                               s \in ledger'[c] <=> s \in ledger[c]
    BY <1>0, <2>0, <2>1
  <2>3. LimitReached' = LimitReached
    BY <2>0 DEF LimitReached
  <2>4. QED
    BY <1>0, <2>0, <2>2, <2>3 DEF InCase
<1>9. CASE StartCase
  <2>0. read \in Cases /\ UNCHANGED <<config, aborted, read, selected>>
        /\ pc = "start" /\ pc' = "build"
    BY <1>9, <1>0 DEF StartCase, LedgerStep, LoopStep, InCase
  <2>1. /\ ledger'[read] = ledger[read] \cup {"started"}
        /\ \A e \in Entries \ {read} : ledger'[e] = ledger[e]
    BY <1>9, <1>0, <2>0, LogType, StageSets DEF StartCase, LedgerStep, LoopStep
  <2>2. QED
    BY <1>0, <2>0, <2>1 DEF InCase, LimitReached
<1>10. CASE BuildPacket
  <2>0. read \in Cases /\ UNCHANGED <<config, aborted, read, selected>>
        /\ pc = "build" /\ pc' \in {"write", "announce", "artifact"}
    BY <1>10, <1>0 DEF BuildPacket, LedgerStep, LoopStep, InCase
  <2>1. /\ ledger'[read] = ledger[read] \cup {"packet_built"}
        /\ \A e \in Entries \ {read} : ledger'[e] = ledger[e]
    BY <1>10, <1>0, <2>0, LogType, StageSets DEF BuildPacket, LedgerStep, LoopStep
  <2>2. QED
    BY <1>0, <2>0, <2>1 DEF InCase, LimitReached
<1>11. CASE WritePacket
  <2>1. UNCHANGED <<config, aborted, read, selected, ledger>> /\ pc = "write" /\ pc' = "logged"
    BY <1>11 DEF WritePacket, LoopStep
  <2>2. QED
    BY <1>0, <2>1 DEF InCase, LimitReached
<1>12. CASE PcapLogged
  <2>0. read \in Cases /\ UNCHANGED <<config, aborted, read, selected>>
        /\ pc = "logged" /\ pc' = "artifact"
    BY <1>12, <1>0 DEF PcapLogged, LedgerStep, LoopStep, InCase
  <2>1. /\ ledger'[read] = ledger[read] \cup {"pcap_written"}
        /\ \A e \in Entries \ {read} : ledger'[e] = ledger[e]
    BY <1>12, <1>0, <2>0, LogType, StageSets DEF PcapLogged, LedgerStep, LoopStep
  <2>2. QED
    BY <1>0, <2>0, <2>1 DEF InCase, LimitReached
<1>13. CASE AnnounceSend
  <2>0. read \in Cases /\ UNCHANGED <<config, aborted, read, selected>>
        /\ pc = "announce" /\ pc' = "send"
    BY <1>13, <1>0 DEF AnnounceSend, LedgerStep, LoopStep, InCase
  <2>1. /\ ledger'[read] = ledger[read] \cup {"send_started"}
        /\ \A e \in Entries \ {read} : ledger'[e] = ledger[e]
    BY <1>13, <1>0, <2>0, LogType, StageSets DEF AnnounceSend, LedgerStep, LoopStep
  <2>2. QED
    BY <1>0, <2>0, <2>1 DEF InCase, LimitReached
<1>14. CASE SendPacket
  <2>1. UNCHANGED <<config, aborted, read, selected, ledger>> /\ pc = "send" /\ pc' = "sent"
    BY <1>14 DEF SendPacket, LoopStep
  <2>2. QED
    BY <1>0, <2>1 DEF InCase, LimitReached
<1>15. CASE SendLogged
  <2>0. read \in Cases /\ UNCHANGED <<config, aborted, read, selected>>
        /\ pc = "sent" /\ pc' = "artifact"
    BY <1>15, <1>0 DEF SendLogged, LedgerStep, LoopStep, InCase
  <2>1. /\ ledger'[read] = ledger[read] \cup {"send_finished"}
        /\ \A e \in Entries \ {read} : ledger'[e] = ledger[e]
    BY <1>15, <1>0, <2>0, LogType, StageSets DEF SendLogged, LedgerStep, LoopStep
  <2>2. QED
    BY <1>0, <2>0, <2>1 DEF InCase, LimitReached
<1>16. CASE WriteArtifact
  <2>1. UNCHANGED <<config, aborted, read, selected, ledger>> /\ pc \in {"artifact", "summary"} /\ pc' \in {"summary", "record"}
    BY <1>16, ArtifactFacts DEF WriteArtifact, LoopStep
  <2>2. QED
    BY <1>0, <2>1 DEF InCase, LimitReached
<1>17. CASE Finish
  <2>0. read \in Cases /\ UNCHANGED <<config, aborted, read, selected>>
    BY <1>17, <1>0 DEF Finish, LedgerStep, LoopStep, InCase
  <2>1. PICK stage \in {"artifact_finalized", "verdict_finalized"} :
          /\ Log(read, {stage})
          /\ \/ pc = "record" /\ pc' = "verdict" /\ stage = "artifact_finalized"
             \/ pc = "verdict" /\ pc' = "tally" /\ stage = "verdict_finalized"
    BY <1>17 DEF Finish, LedgerStep, LoopStep
  <2>2. /\ ledger'[read] = ledger[read] \cup {stage}
        /\ \A e \in Entries \ {read} : ledger'[e] = ledger[e]
    BY <1>0, <2>0, <2>1, LogType, StageSets
  <2>3. QED
    BY <1>0, <2>0, <2>1, <2>2 DEF InCase, LimitReached
<1>18. CASE Tally
  <2>1. /\ UNCHANGED <<config, aborted, read, ledger>> /\ pc = "tally" /\ pc' = "read"
        /\ selected' = selected + 1
    BY <1>18 DEF Tally, LoopStep
  <2>2. LimitReached => LimitReached'
    BY <1>0, <2>1, NetAssumption DEF LimitReached
  <2>3. read \in Cases /\ read \in Recorded
    BY <1>0, <2>1 DEF Place, InCase
  <2>4. QED
    BY <1>0, <2>1, <2>2, <2>3 DEF InCase
<1>19. CASE LoopEnds
  <2>1. UNCHANGED <<config, aborted, read, selected, ledger>> /\ pc = "read" /\ pc' = "finalize" /\ read = NCases
    BY <1>19 DEF LoopEnds, LoopStep
  <2>2. QED
    BY <1>0, <2>1 DEF InCase, LimitReached
<1>20. CASE LoopRaises
  <2>1. pc' \notin Loop /\ ~CleanEnd'
    BY <1>20 DEF LoopRaises, Loop
  <2>2. QED
    BY <2>1
<1>21. CASE BeginReplay
  <2>1. config.op # "send" /\ config' = config
    BY <1>21 DEF BeginReplay, LoopStep, Place, Replaying
  <2>2. QED
    BY <2>1
<1>22. CASE Tcpreplay
  <2>1. config.op # "send" /\ config' = config
    BY <1>22 DEF Tcpreplay, LoopStep, Place, Replaying
  <2>2. QED
    BY <2>1
<1>23. CASE ConcludeReplay
  <2>1. config.op # "send" /\ config' = config
    BY <1>23 DEF ConcludeReplay, LoopStep, Place, Replaying
  <2>2. QED
    BY <2>1
<1>24. CASE RaisesUnguarded
  <2>1. pc' \notin Loop /\ ~CleanEnd'
    BY <1>24 DEF RaisesUnguarded, Loop
  <2>2. QED
    BY <2>1
<1>25. CASE Finalize
  <2>1. UNCHANGED <<config, aborted, read, selected, ledger>> /\ pc = "finalize" /\ pc' \in {"done", "failed"} /\ (pc' = "done" => ~aborted)
    BY <1>25 DEF Finalize
  <2>2. QED
    BY <1>0, <2>1 DEF InCase, LimitReached
<1>26. CASE Kill
  <2>1. pc' \notin Loop /\ ~CleanEnd'
    BY <1>26 DEF Kill, Loop
  <2>2. QED
    BY <2>1
<1>27. CASE UNCHANGED vars
  <2>1. UNCHANGED <<config, aborted, pc, read, selected, ledger>>
    BY <1>27 DEF vars
  <2>2. QED
    BY <2>1 DEF LimitReached
<1>28. QED
  BY <1>1, <1>2, <1>3, <1>4, <1>5, <1>6, <1>7, <1>8, <1>9, <1>10,
     <1>11, <1>12, <1>13, <1>14, <1>15, <1>16, <1>17, <1>18, <1>19, <1>20,
     <1>21, <1>22, <1>23, <1>24, <1>25, <1>26, <1>27 DEF Next, Stopped

-----------------------------------------------------------------------------
(* The invariant and the theorems *)

\* The invariant holds when the runner starts.
LEMMA Initially == Init => Inv
<1> SUFFICES ASSUME Init PROVE Inv
  OBVIOUS
<1>0. NCases \in Nat /\ 0 \in Entries
  BY NetAssumption DEF Entries
<1>1. TypeOK
  <2>1. dirs \in [Entries -> DirStates]
    BY DEF Init, DirStates
  <2>2. QED
    BY <1>0, <2>1 DEF Init, TypeOK
<1>2. Place
  BY <1>0 DEF Init, Place, InCase, Replaying, Fresh, Loop, Cases, Entries
<1>3. Counts
  BY DEF Init, Counts, InCase, Loop, Unbooked
<1>4. Admission /\ Announced /\ WireConsent /\ Outcomes
  BY DEF Init, Admission, Announced, WireConsent, Outcomes, Ended, Loop, CleanEnd
<1>5. Books
  <2>1. Recorded = {} /\ wire = {} /\ pcap = {}
    BY DEF Init, Recorded
  <2>2. QED
    BY <2>1 DEF Init, Books, Loop, CleanEnd, Unbooked
<1>6. QED
  BY <1>1, <1>2, <1>3, <1>4, <1>5 DEF Inv

\* The invariant is inductive.
LEMMA Inductive == Inv /\ [Next]_vars => Inv'
BY TypeStep, PlaceStep, CountsStep, AdmissionStep, AnnouncedStep, ConsentStep, BooksStep,
   OutcomesStep DEF Inv

\* The invariant holds of every run of the three operations.
THEOREM Invariance == Spec => []Inv
BY Initially, Inductive, PTL DEF Spec

\* The variables keep their types: TypeOK of the run net_run.
THEOREM TypeCorrect == Spec => []TypeOK
<1>1. Inv => TypeOK
  BY DEF Inv
<1>2. QED
  BY <1>1, Invariance, PTL

\* Nothing goes out in a dry run or without consent; send keeps to its shard, its
\* limit and its interfaces, and never sends a case on a field that needs an
\* opt-in without one, whatever the campaign and its order.
THEOREM WireNeedsConsent == Spec => []WireConsent
<1>1. Inv => WireConsent
  BY DEF Inv
<1>2. QED
  BY <1>1, Invariance, PTL

\* inspect-run calls a run complete only when every packet that went out is
\* recorded with a verdict, wherever the run was interrupted.
THEOREM LossesShow == Spec => []LossShows
<1>1. Inv => LossShows
  <2>1. SUFFICES ASSUME Inv, MissingStages(ledger) = {}, NEW e \in wire PROVE e \in Recorded
    BY DEF LossShows, InspectComplete
  <2>2. e \in Entries /\ e \in DOMAIN ledger
    BY <2>1 DEF Inv, TypeOK
  <2>3. "started" \in ledger[e] /\ "skipped" \notin ledger[e]
    BY <2>1 DEF Inv, Announced
  <2>4. QED
    BY <2>1, <2>2, <2>3 DEF MissingStages, Recorded
<1>2. QED
  BY <1>1, Invariance, PTL

\* A pcap run that ends normally recorded the packets of its file, and the
\* verdicts of a send are those of the packets on the wire, but for the one in
\* hand when an exception struck.
THEOREM BooksMatchOutput == Spec => []OutputMatchesBooks
<1>1. Inv => OutputMatchesBooks
  <2>1. SUFFICES ASSUME Inv PROVE OutputMatchesBooks
    OBVIOUS
  <2>2. ASSUME wire \ Recorded \subseteq {read} PROVE Cardinality(wire \ Recorded) <= 1
    <3>1. IsFiniteSet({read}) /\ Cardinality({read}) = 1
      BY FS_Singleton
    <3>2. wire \ Recorded \in SUBSET {read}
      BY <2>2
    <3>3. Cardinality(wire \ Recorded) <= Cardinality({read})
      BY <3>1, <3>2, FS_Subset
    <3>4. QED
      BY <3>1, <3>3
  <2>3. QED
    BY <2>1, <2>2 DEF Inv, Books, CleanEnd, OutputMatchesBooks
<1>2. QED
  BY <1>1, Invariance, PTL
-----------------------------------------------------------------------------
(* send implements the abstract lifecycle *)

Statuses == [c \in Cases |-> StatusOf(c)]
RunStatus == CASE config.op # "send" \/ pc \notin Ended    -> "open"
               [] config.op = "send" /\ pc = "done"        -> "complete"
               [] OTHER                                    -> "broken"

\* The cases of the promise are those of the campaign.
LEMMA Vocabulary ==
    /\ Promise!CampaignCases = Cases
    /\ Statuses = [c \in Cases |-> StatusOf(c)]
BY DEF Promise!CampaignCases, Cases, Statuses

\* The status of a case of send follows from four facts about the ledger.
LEMMA StatusFacts ==
    ASSUME NEW c \in Cases, config.op = "send"
    PROVE  /\ StatusOf(c) = "unread" <=> ledger[c] = {}
           /\ StatusOf(c) = "recorded" <=> "verdict_finalized" \in ledger[c]
           /\ StatusOf(c) = "skipped" <=> "skipped" \in ledger[c] /\ "verdict_finalized" \notin ledger[c]
           /\ StatusOf(c) = "started" <=>
                 /\ "started" \in ledger[c] /\ ledger[c] \cap {"skipped", "verdict_finalized"} = {}
           /\ StatusOf(c) = "planned" <=>
                 /\ ledger[c] # {} /\ ledger[c] \cap {"skipped", "started", "verdict_finalized"} = {}
BY DEF StatusOf

\* A step that changes no status is a stutter of the promise.
LEMMA Stays ==
    ASSUME \A c \in Cases : StatusOf(c)' = StatusOf(c), RunStatus' = RunStatus
    PROVE  [Promise!PromiseNext]_(Promise!promiseVars)
<1>1. Statuses' = Statuses
  BY DEF Statuses
<1>2. QED
  BY <1>1 DEF Promise!promiseVars, Statuses, RunStatus

\* One case changes its status.
LEMMA MovesOne ==
    ASSUME NEW n \in Cases, \A c \in Cases \ {n} : StatusOf(c)' = StatusOf(c), RunStatus' = RunStatus,
           NEW from, NEW to, StatusOf(n) = from, StatusOf(n)' = to
    PROVE  Promise!Move(n, from, to)
<1>1. Statuses' = [Statuses EXCEPT ![n] = to] /\ Statuses[n] = from
  BY DEF Statuses
<1>2. QED
  BY <1>1 DEF Promise!Move, Statuses, RunStatus

\* What does not touch the four facts is a stutter of the promise.
LEMMA QuietMaps ==
    ASSUME \A c \in Cases : /\ (ledger'[c] = {}) <=> (ledger[c] = {})
                            /\ \A s \in {"verdict_finalized", "skipped", "started"} :
                                  s \in ledger'[c] <=> s \in ledger[c],
           config' = config, RunStatus' = RunStatus
    PROVE  [Promise!PromiseNext]_(Promise!promiseVars)
<1>1. ASSUME NEW c \in Cases PROVE StatusOf(c)' = StatusOf(c)
  BY <1>1 DEF StatusOf
<1>2. QED
  BY <1>1, Stays

\* A log of stages the lifecycle does not know of, while send is at a case.
LEMMA StageMaps ==
    ASSUME Inv, pc \in InCase \cup {"decide"}, pc' \in Loop, config' = config,
           NEW stages \in SUBSET Stages, Log(read, stages),
           stages \cap {"skipped", "started", "verdict_finalized"} = {}
    PROVE  [Promise!PromiseNext]_(Promise!promiseVars)
<1>n. PICK n \in Cases : n = read
  BY DEF Inv, Place
<1>0. ledger \in [Entries -> SUBSET Stages] /\ ledger[n] # {} /\ Cases \subseteq Entries
  BY <1>n, EntryFacts DEF Inv, TypeOK, Place
<1>1. /\ ledger'[n] = ledger[n] \cup stages
      /\ \A c \in Cases \ {n} : ledger'[c] = ledger[c]
  BY <1>0, <1>n, LogType
<1>2. \A c \in Cases : /\ (ledger'[c] = {}) <=> (ledger[c] = {})
                       /\ \A s \in {"verdict_finalized", "skipped", "started"} :
                             s \in ledger'[c] <=> s \in ledger[c]
  BY <1>0, <1>1
<1>3. RunStatus = "open" /\ RunStatus' = "open"
  BY DEF RunStatus, Ended, InCase, Loop
<1>4. QED
  BY <1>2, <1>3, QuietMaps

\* Reading a case plans it.
LEMMA PlanMaps ==
    ASSUME Inv, ReadCase, config.op = "send"
    PROVE  [Promise!PromiseNext]_(Promise!promiseVars)
<1>0. /\ ledger \in [Entries -> SUBSET Stages] /\ read \in Int /\ NCases \in Nat
      /\ Cases \subseteq Entries /\ Entries \subseteq Int
  BY EntryFacts DEF Inv, TypeOK
<1>n. PICK n \in Cases : n = read + 1
  BY <1>0, EntryFacts DEF Inv, ReadCase, Cases, Entries
<1>1. /\ ledger'[n] = ledger[n] \cup {"planned"}
      /\ \A c \in Cases \ {n} : ledger'[c] = ledger[c]
  BY <1>0, <1>n, LogType, StageSets DEF ReadCase
<1>2. ledger[n] = {} /\ config' = config
  BY <1>0, <1>n DEF Inv, Place, ReadCase, LoopStep
<1>3. StatusOf(n) = "unread" /\ StatusOf(n)' = "planned"
  BY <1>1, <1>2 DEF StatusOf
<1>4. \A c \in Cases \ {n} : StatusOf(c)' = StatusOf(c)
  BY <1>1, <1>2 DEF StatusOf
<1>5. RunStatus = "open" /\ RunStatus' = RunStatus
  BY DEF ReadCase, LoopStep, RunStatus, Ended
<1>6. Promise!Move(n, "unread", "planned")
  BY <1>3, <1>4, <1>5, MovesOne
<1>7. \A d \in Cases : d < n => StatusOf(d) # "unread"
  <2>1. ASSUME NEW d \in Cases, d < n PROVE ledger[d] # {}
    BY <1>0, <1>n, <2>1 DEF Inv, Outcomes, ReadCase, LoopStep, Loop
  <2>2. QED
    BY <2>1, StatusFacts
<1>8. Promise!PlanCase(n)
  BY <1>6, <1>7, Vocabulary DEF Promise!PlanCase, Statuses
<1>9. QED
  BY <1>5, <1>8, Vocabulary DEF Promise!PromiseNext, RunStatus

\* A case that is skipped or started was planned, and is the last one read.
LEMMA DecidedMaps ==
    ASSUME Inv, pc \in {"decide", "start"}, config.op = "send", config' = config,
           NEW n \in Cases, n = read, NEW stage \in {"skipped", "started"}, Log(n, {stage})
    PROVE  /\ \A c \in Cases \ {n} : StatusOf(c)' = StatusOf(c)
           /\ StatusOf(n) = "planned" /\ StatusOf(n)' = stage
           /\ \A d \in Cases : n < d => StatusOf(d) = "unread"
<1>0. /\ ledger \in [Entries -> SUBSET Stages] /\ Cases \subseteq Entries /\ Entries \subseteq Int
      /\ ledger[n] \in {{"planned"}, {"planned", "selected"}}
  BY EntryFacts DEF Inv, TypeOK, Place
<1>1. /\ ledger'[n] = ledger[n] \cup {stage}
      /\ \A c \in Cases \ {n} : ledger'[c] = ledger[c]
  BY <1>0, LogType, StageSets
<1>2. \A c \in Cases \ {n} : StatusOf(c)' = StatusOf(c)
  BY <1>1 DEF StatusOf
<1>3. StatusOf(n) = "planned"
  BY <1>0 DEF StatusOf
<1>4. StatusOf(n)' = stage
  BY <1>0, <1>1 DEF StatusOf
<1>5. \A d \in Cases : n < d => StatusOf(d) = "unread"
  <2>1. \A d \in Cases : n < d => ledger[d] = {}
    BY <1>0 DEF Inv, Place
  <2>2. QED
    BY <2>1, StatusFacts
<1>6. QED
  BY <1>2, <1>3, <1>4, <1>5

\* The limit skips the case at hand.
LEMMA SkipMaps ==
    ASSUME Inv, SkipForLimit, config.op = "send"
    PROVE  [Promise!PromiseNext]_(Promise!promiseVars)
<1>n. PICK n \in Cases : n = read
  BY DEF Inv, Place, SkipForLimit
<1>1. /\ \A c \in Cases \ {n} : StatusOf(c)' = StatusOf(c)
      /\ StatusOf(n) = "planned" /\ StatusOf(n)' = "skipped"
      /\ \A d \in Cases : n < d => StatusOf(d) = "unread"
  <2>1. pc = "decide" /\ config' = config /\ Log(n, {"skipped"})
    BY <1>n DEF SkipForLimit, LedgerStep, LoopStep
  <2>2. QED
    BY <1>n, <2>1, DecidedMaps
<1>2. RunStatus = "open" /\ RunStatus' = RunStatus
  BY DEF RunStatus, SkipForLimit, LedgerStep, LoopStep, Ended
<1>3. Promise!Move(n, "planned", "skipped")
  BY <1>1, <1>2, MovesOne
<1>4. Promise!SkipCase(n)
  BY <1>1, <1>3, Vocabulary DEF Promise!SkipCase, Promise!Latest, Statuses
<1>5. QED
  BY <1>2, <1>4, Vocabulary DEF Promise!PromiseNext, RunStatus

\* A case is started while the limit leaves room, so nothing was skipped.
LEMMA StartMaps ==
    ASSUME Inv, StartCase, config.op = "send"
    PROVE  [Promise!PromiseNext]_(Promise!promiseVars)
<1>n. PICK n \in Cases : n = read
  BY DEF Inv, Place, StartCase, LedgerStep, LoopStep, InCase
<1>1. /\ \A c \in Cases \ {n} : StatusOf(c)' = StatusOf(c)
      /\ StatusOf(n) = "planned" /\ StatusOf(n)' = "started"
      /\ \A d \in Cases : n < d => StatusOf(d) = "unread"
  <2>1. pc = "start" /\ config' = config /\ Log(n, {"started"})
    BY <1>n DEF StartCase, LedgerStep, LoopStep
  <2>2. QED
    BY <1>n, <2>1, DecidedMaps
<1>2. RunStatus = "open" /\ RunStatus' = RunStatus
  BY DEF RunStatus, StartCase, LedgerStep, LoopStep, Ended
<1>3. Promise!Move(n, "planned", "started")
  BY <1>1, <1>2, MovesOne
<1>4. \A d \in Cases : StatusOf(d) # "skipped"
  <2>1. \A d \in Cases : "skipped" \notin ledger[d]
    BY DEF Inv, Counts, Outcomes, StartCase, LedgerStep, LoopStep, Loop, InCase
  <2>2. QED
    BY <2>1, StatusFacts
<1>5. n \in {c \in Cases : InShard(c)}
  BY <1>n DEF Inv, Place, StartCase, LedgerStep, LoopStep, InCase
<1>6. Promise!StartCase(n)
  BY <1>1, <1>3, <1>4, <1>5, Vocabulary DEF Promise!StartCase, Promise!Latest, Statuses
<1>7. QED
  BY <1>2, <1>6, Vocabulary DEF Promise!PromiseNext, RunStatus

\* The verdict records the case.
LEMMA RecordMaps ==
    ASSUME Inv, LedgerStep("verdict", read, "verdict_finalized", "tally"), config.op = "send"
    PROVE  [Promise!PromiseNext]_(Promise!promiseVars)
<1>0. pc = "verdict" /\ config' = config /\ Log(read, {"verdict_finalized"})
  BY DEF LedgerStep, LoopStep
<1>n. PICK n \in Cases : n = read
  BY <1>0 DEF Inv, Place, InCase
<1>1. /\ ledger \in [Entries -> SUBSET Stages] /\ Cases \subseteq Entries
      /\ "started" \in ledger[n] /\ ledger[n] \cap {"skipped", "verdict_finalized"} = {}
  BY <1>0, <1>n, EntryFacts DEF Inv, TypeOK, Place, InCase
<1>2. /\ ledger'[n] = ledger[n] \cup {"verdict_finalized"}
      /\ \A c \in Cases \ {n} : ledger'[c] = ledger[c]
  BY <1>0, <1>n, <1>1, LogType, StageSets
<1>3. \A c \in Cases \ {n} : StatusOf(c)' = StatusOf(c)
  BY <1>0, <1>2 DEF StatusOf
<1>4. StatusOf(n) = "started" /\ StatusOf(n)' = "recorded"
  BY <1>0, <1>1, <1>2 DEF StatusOf
<1>5. RunStatus = "open" /\ RunStatus' = RunStatus
  BY DEF RunStatus, LedgerStep, LoopStep, Ended
<1>6. Promise!Move(n, "started", "recorded")
  BY <1>3, <1>4, <1>5, MovesOne
<1>7. QED
  BY <1>5, <1>6, Vocabulary DEF Promise!PromiseNext, Promise!RecordCase, RunStatus

\* An abnormal end breaks the run.
LEMMA EndMaps ==
    ASSUME Inv, config.op = "send", config' = config, pc \notin Ended, pc' \in {"failed", "killed"},
           ledger' = ledger
    PROVE  [Promise!PromiseNext]_(Promise!promiseVars)
<1>1. RunStatus = "open" /\ RunStatus' = "broken"
  BY DEF RunStatus, Ended
<1>2. Statuses' = Statuses
  BY DEF Statuses, StatusOf
<1>3. Promise!BreakRun
  BY <1>1, <1>2 DEF Promise!BreakRun, Statuses, RunStatus
<1>4. QED
  BY <1>1, <1>3 DEF Promise!PromiseNext, RunStatus

\* A normal end completes it: only a loop that read the whole campaign gets there.
LEMMA CompletionMaps ==
    ASSUME Inv, Finalize, pc' = "done", config.op = "send"
    PROVE  [Promise!PromiseNext]_(Promise!promiseVars)
<1>0. pc = "finalize" /\ ~aborted /\ ledger' = ledger /\ config' = config
  BY DEF Finalize
<1>1. RunStatus = "open" /\ RunStatus' = "complete"
  BY <1>0 DEF RunStatus, Ended
<1>2. Statuses' = Statuses
  BY <1>0 DEF Statuses, StatusOf
<1>3. \A c \in Cases : c <= read
  BY <1>0, EntryFacts DEF Inv, Outcomes, CleanEnd, Cases
<1>4. ASSUME NEW c \in Cases PROVE StatusOf(c) \notin {"unread", "started"}
  <2>1. ledger[c] # {} /\ ("started" \in ledger[c] => "verdict_finalized" \in ledger[c])
    BY <1>0, <1>3 DEF Inv, Outcomes, CleanEnd, InCase, Recorded
  <2>2. QED
    BY <2>1, StatusFacts
<1>5. ASSUME NEW c \in Cases, InShard(c) PROVE StatusOf(c) \in {"skipped", "recorded"}
  <2>1. "verdict_finalized" \in ledger[c] \/ "skipped" \in ledger[c]
    BY <1>0, <1>3, <1>5 DEF Inv, Outcomes, CleanEnd, InCase, Recorded
  <2>2. QED
    BY <2>1, StatusFacts
<1>6. Promise!CompleteRun
  BY <1>1, <1>2, <1>4, <1>5, Vocabulary DEF Promise!CompleteRun, Statuses, RunStatus
<1>7. QED
  BY <1>1, <1>6 DEF Promise!PromiseNext, RunStatus

\* The configuration is fixed: the other operations never touch the promise.
LEMMA OtherOperations ==
    ASSUME Inv, [Next]_vars
    PROVE  /\ config' = config
           /\ config.op # "send" => [Promise!PromiseNext]_(Promise!promiseVars)
<1>1. config' = config
  <2>1. CASE Start
    BY <2>1 DEF Start
  <2>2. CASE OpenSocket
    BY <2>2 DEF OpenSocket
  <2>3. CASE ReadCase
    BY <2>3 DEF ReadCase, LoopStep
  <2>4. CASE OtherShard
    BY <2>4 DEF OtherShard, LoopStep
  <2>5. CASE SkipForLimit
    BY <2>5 DEF SkipForLimit, LedgerStep, LoopStep
  <2>6. CASE SkipForDisk
    BY <2>6 DEF SkipForDisk, LoopStep
  <2>7. CASE RefuseCase
    BY <2>7 DEF RefuseCase
  <2>8. CASE SelectCase
    BY <2>8 DEF SelectCase, LedgerStep, LoopStep
  <2>9. CASE StartCase
    BY <2>9 DEF StartCase, LedgerStep, LoopStep
  <2>10. CASE BuildPacket
    BY <2>10 DEF BuildPacket, LedgerStep, LoopStep
  <2>11. CASE WritePacket
    BY <2>11 DEF WritePacket, LoopStep
  <2>12. CASE PcapLogged
    BY <2>12 DEF PcapLogged, LedgerStep, LoopStep
  <2>13. CASE AnnounceSend
    BY <2>13 DEF AnnounceSend, LedgerStep, LoopStep
  <2>14. CASE SendPacket
    BY <2>14 DEF SendPacket, LoopStep
  <2>15. CASE SendLogged
    BY <2>15 DEF SendLogged, LedgerStep, LoopStep
  <2>16. CASE WriteArtifact
    BY <2>16, ArtifactFacts DEF WriteArtifact, LoopStep
  <2>17. CASE Finish
    BY <2>17 DEF Finish, LedgerStep, LoopStep
  <2>18. CASE Tally
    BY <2>18 DEF Tally, LoopStep
  <2>19. CASE LoopEnds
    BY <2>19 DEF LoopEnds, LoopStep
  <2>20. CASE LoopRaises
    BY <2>20 DEF LoopRaises
  <2>21. CASE BeginReplay
    BY <2>21 DEF BeginReplay, LoopStep
  <2>22. CASE Tcpreplay
    BY <2>22 DEF Tcpreplay, LoopStep
  <2>23. CASE ConcludeReplay
    BY <2>23 DEF ConcludeReplay, LoopStep
  <2>24. CASE RaisesUnguarded
    BY <2>24 DEF RaisesUnguarded
  <2>25. CASE Finalize
    BY <2>25 DEF Finalize
  <2>26. CASE Kill
    BY <2>26 DEF Kill
  <2>27. CASE UNCHANGED vars
    BY <2>27 DEF vars
  <2>28. QED
    BY <2>1, <2>2, <2>3, <2>4, <2>5, <2>6, <2>7, <2>8, <2>9, <2>10,
       <2>11, <2>12, <2>13, <2>14, <2>15, <2>16, <2>17, <2>18, <2>19, <2>20,
       <2>21, <2>22, <2>23, <2>24, <2>25, <2>26, <2>27 DEF Next, Stopped
<1>2. ASSUME config.op # "send" PROVE [Promise!PromiseNext]_(Promise!promiseVars)
  <2>1. \A c \in Cases : StatusOf(c)' = StatusOf(c)
    BY <1>1, <1>2 DEF StatusOf
  <2>2. RunStatus' = RunStatus
    BY <1>1, <1>2 DEF RunStatus
  <2>3. QED
    BY <2>1, <2>2, Stays
<1>3. QED
  BY <1>1, <1>2

\* Every step of the runner is a step of the promise or a stutter.
LEMMA StepMaps == Inv /\ [Next]_vars => [Promise!PromiseNext]_(Promise!promiseVars)
<1> SUFFICES ASSUME Inv, [Next]_vars, config.op = "send"
             PROVE  [Promise!PromiseNext]_(Promise!promiseVars)
  BY OtherOperations
<1>0. config' = config
  BY OtherOperations
<1>1. CASE ReadCase \/ SkipForLimit \/ StartCase
  BY <1>1, PlanMaps, SkipMaps, StartMaps
<1>2. CASE SelectCase \/ BuildPacket \/ PcapLogged \/ AnnounceSend \/ SendLogged
  <2>1. /\ pc \in InCase \cup {"decide"} /\ pc' \in Loop
        /\ \E stage \in {"selected", "packet_built", "pcap_written", "send_started", "send_finished"} :
              Log(read, {stage})
    BY <1>2 DEF SelectCase, BuildPacket, PcapLogged, AnnounceSend, SendLogged, LedgerStep, LoopStep,
       InCase, Loop
  <2>2. PICK stage \in {"selected", "packet_built", "pcap_written", "send_started", "send_finished"} :
           Log(read, {stage})
    BY <2>1
  <2>3. {stage} \in SUBSET Stages /\ {stage} \cap {"skipped", "started", "verdict_finalized"} = {}
    BY <2>2 DEF Stages
  <2>4. QED
    BY <1>0, <2>1, <2>2, <2>3, StageMaps
<1>3. CASE Finish
  <2>1. CASE LedgerStep("record", read, "artifact_finalized", "verdict")
    <3>1. pc \in InCase /\ pc' \in Loop /\ Log(read, {"artifact_finalized"})
      BY <2>1 DEF LedgerStep, LoopStep, InCase, Loop
    <3>2. QED
      BY <1>0, <3>1, StageMaps, StageSets
  <2>2. QED
    BY <1>3, <2>1, RecordMaps DEF Finish
<1>4. CASE OtherShard \/ WritePacket \/ SendPacket \/ Tally \/ LoopEnds \/ RefuseCase \/ LoopRaises
           \/ OpenSocket \/ UNCHANGED vars
  <2>1. ledger' = ledger /\ (pc' = pc \/ (pc \notin Ended /\ pc' \notin Ended))
    BY <1>4 DEF OtherShard, WritePacket, SendPacket, Tally, LoopEnds, RefuseCase, LoopRaises, OpenSocket,
       LoopStep, Loop, Ended, vars
  <2>2. RunStatus' = RunStatus
    BY <1>0, <2>1 DEF RunStatus, Ended
  <2>3. QED
    BY <1>0, <2>1, <2>2, QuietMaps
<1>5. CASE WriteArtifact
  <2>1. ledger' = ledger /\ pc \notin Ended /\ pc' \notin Ended
    BY <1>5, ArtifactFacts DEF Ended
  <2>2. RunStatus' = RunStatus
    BY <1>0, <2>1 DEF RunStatus, Ended
  <2>3. QED
    BY <1>0, <2>1, <2>2, QuietMaps
<1>6. CASE Start
  <2>1. ledger' = ledger /\ pc = "gate" /\ pc' \in {"read", "socket", "replay", "failed"}
    BY <1>6 DEF Start
  <2>2. CASE pc' # "failed"
    <3>1. RunStatus' = RunStatus
      BY <1>0, <2>1, <2>2 DEF RunStatus, Ended
    <3>2. QED
      BY <1>0, <2>1, <3>1, QuietMaps
  <2>3. QED
    BY <1>0, <2>1, <2>2, EndMaps DEF Ended
<1>7. CASE SkipForDisk \/ BeginReplay \/ Tcpreplay \/ ConcludeReplay
  BY <1>7 DEF SkipForDisk, BeginReplay, Tcpreplay, ConcludeReplay, LoopStep, Inv, Place, Replaying
<1>8. CASE RaisesUnguarded \/ Kill
  <2>1. ledger' = ledger /\ pc \notin Ended /\ pc' \in {"failed", "killed"}
    BY <1>8 DEF RaisesUnguarded, Kill, Ended
  <2>2. QED
    BY <1>0, <2>1, EndMaps
<1>9. CASE Finalize
  <2>1. pc = "finalize" /\ pc' \in {"done", "failed"} /\ ledger' = ledger
    BY <1>9 DEF Finalize
  <2>2. CASE pc' = "done"
    BY <1>9, <2>2, CompletionMaps
  <2>3. CASE pc' = "failed"
    BY <1>0, <2>1, <2>3, EndMaps DEF Ended
  <2>4. QED
    BY <2>1, <2>2, <2>3
<1>10. QED
  BY <1>1, <1>2, <1>3, <1>4, <1>5, <1>6, <1>7, <1>8, <1>9 DEF Next, Stopped

\* The promise starts with an unread campaign.
LEMMA InitMaps == Init => Promise!PromiseInit
<1> SUFFICES ASSUME Init PROVE Promise!PromiseInit
  OBVIOUS
<1>1. \A c \in Cases : StatusOf(c) = "unread"
  BY NetAssumption DEF Init, StatusOf, Cases, Entries
<1>2. RunStatus = "open"
  BY DEF Init, RunStatus, Ended
<1>3. QED
  BY <1>1, <1>2, Vocabulary DEF Promise!PromiseInit, Statuses, RunStatus

\* send keeps the promise of every orchestrator, with a finally clause that runs
\* after any exception of its loop: cases are read in order, started only before
\* the first skip, recorded once, and a normal end leaves none without outcome.
THEOREM SendKeepsPromise == Spec => KeepsPromise
<1>1. QED
  BY Invariance, InitMaps, StepMaps, PTL DEF Spec, KeepsPromise, Promise!PromiseSpec

-----------------------------------------------------------------------------
(* Packets *)

\* The fold of the library, unfolded to the function it recurses over.
Iterated(words, iter) ==
    iter = [s \in SUBSET DOMAIN words |->
              IF s = {} THEN 0
              ELSE words[CHOOSE x \in s : TRUE] + iter[s \ {CHOOSE x \in s : TRUE}]]

\* The fold of Sum is the last of its steps.
LEMMA SumIterates ==
    ASSUME NEW words
    PROVE  Sum(words) = (CHOOSE iter : Iterated(words, iter))[DOMAIN words]
BY DEF Sum, FoldSeq, FoldFunction, FoldFunctionOnSet, MapThenFoldSet, Iterated

\* Ten terms, the terms of a set of positions, and all of them but one.
Ten(t) == t[1] + t[2] + t[3] + t[4] + t[5] + t[6] + t[7] + t[8] + t[9] + t[10]
Terms(words, s) == [i \in 1..10 |-> IF i \in s THEN words[i] ELSE 0]

Blank(t, x) == [t EXCEPT ![x] = 0]

\* One of ten terms, and the rest.
LEMMA TenLess ==
    ASSUME NEW t \in [1..10 -> Nat], NEW x \in 1..10
    PROVE  Ten(t) = t[x] + Ten(Blank(t, x)) /\ Ten(t) \in Nat /\ Ten(Blank(t, x)) \in Nat
<1>1. x \in 1..5 => Ten(t) = t[x] + Ten(Blank(t, x))
  BY DEF Ten, Blank
<1>2. x \in 6..10 => Ten(t) = t[x] + Ten(Blank(t, x))
  BY DEF Ten, Blank
<1>3. Ten(t) \in Nat /\ Ten(Blank(t, x)) \in Nat
  BY DEF Ten, Blank
<1> QED BY <1>1, <1>2, <1>3

\* A set without one of its members.
Less(s, x) == s \ {x}

\* The terms of a set are one of its members and the terms of the others.
LEMMA TermsStep ==
    ASSUME NEW words, NEW s, NEW x \in s, \A i \in s : i \in 1..10 /\ words[i] \in Nat
    PROVE  Ten(Terms(words, s)) = words[x] + Ten(Terms(words, Less(s, x)))
<1>1. Terms(words, s) \in [1..10 -> Nat] /\ x \in 1..10 /\ Terms(words, s)[x] = words[x]
  BY DEF Terms
<1>2. Terms(words, Less(s, x)) = Blank(Terms(words, s), x)
  BY DEF Terms, Less, Blank
<1> QED BY <1>1, <1>2, TenLess

\* The sum of up to ten words is ten terms, those that are missing zero.
LEMMA SumIsTen ==
    ASSUME NEW n \in 0..10, NEW words \in [1..n -> Nat]
    PROVE  Sum(words) = Ten(Terms(words, 1..n))
<1> DEFINE g == [s \in SUBSET DOMAIN words |-> Ten(Terms(words, s))]
           f == CHOOSE iter : Iterated(words, iter)
           pick(s) == CHOOSE x \in s : TRUE
<1>1. DOMAIN words = 1..n
  OBVIOUS
<1>2. Iterated(words, g)
  <2>1. ASSUME NEW s \in SUBSET DOMAIN words
        PROVE  Ten(Terms(words, s)) = IF s = {} THEN 0 ELSE words[pick(s)] + g[s \ {pick(s)}]
    <3>1. CASE s = {}
      BY <3>1 DEF Ten, Terms
    <3>2. CASE s # {}
      <4>1. PICK x \in s : x = pick(s)
        BY <3>2
      <4>2. \A i \in s : i \in 1..10 /\ words[i] \in Nat
        BY <1>1
      <4>3. Ten(Terms(words, s)) = words[x] + Ten(Terms(words, Less(s, x)))
        BY ONLY <4>2, x \in s, TermsStep
      <4>4. Less(s, x) \in SUBSET DOMAIN words
        BY DEF Less
      <4> QED BY <3>2, <4>1, <4>3, <4>4 DEF Less
    <3> QED BY <3>1, <3>2
  <2> QED BY <2>1 DEF Iterated
<1>3. Iterated(words, f)
  BY <1>2
<1> HIDE DEF f
<1>4. ASSUME NEW s \in SUBSET DOMAIN words PROVE f[s] = IF s = {} THEN 0 ELSE words[pick(s)] + f[s \ {pick(s)}]
  BY <1>3 DEF Iterated
<1>5. ASSUME NEW s \in SUBSET DOMAIN words
      PROVE  IsFiniteSet(s) /\ Cardinality(s) \in Nat
             /\ (s # {} => pick(s) \in s /\ Cardinality(s \ {pick(s)}) = Cardinality(s) - 1
                           /\ s \ {pick(s)} \in SUBSET DOMAIN words)
  <2>1. IsFiniteSet(s)
    <3>1. IsFiniteSet(1..n)
      BY FS_Interval
    <3> QED BY <1>1, <3>1, FS_Subset
  <2>2. s # {} => pick(s) \in s
    OBVIOUS
  <2> HIDE DEF pick
  <2> QED BY <2>1, <2>2, FS_CardinalityType, FS_RemoveElement
<1> DEFINE Bad == {Cardinality(s) : s \in {r \in SUBSET DOMAIN words : f[r] # Ten(Terms(words, r))}}
<1>6. Bad = {}
  <2> SUFFICES ASSUME Bad # {} PROVE FALSE
    OBVIOUS
  <2>1. Bad \in SUBSET Nat
    BY <1>5
  <2>2. PICK k \in Bad : \A j \in Bad : k <= j
    <3> HIDE DEF Bad
    <3> QED BY <2>1, LeastNat
  <2>3. PICK s \in SUBSET DOMAIN words : f[s] # Ten(Terms(words, s)) /\ k = Cardinality(s)
    BY <2>2
  <2>4. s # {}
    <3>1. Ten(Terms(words, {})) = 0
      BY DEF Ten, Terms
    <3> QED BY <1>4, <2>3, <3>1
  <2> DEFINE r == s \ {pick(s)}
  <2>5. f[r] = Ten(Terms(words, r))
    <3>1. r \in SUBSET DOMAIN words /\ Cardinality(r) = k - 1 /\ k \in Nat
      BY <1>5, <2>3, <2>4
    <3> HIDE DEF r
    <3>2. Cardinality(r) \notin Bad
      <4> HIDE DEF Bad
      <4> QED BY <2>2, <3>1
    <3> QED BY <3>1, <3>2
  <2>6. f[s] = words[pick(s)] + f[r]
    BY <1>4, <2>4
  <2>7. Ten(Terms(words, s)) = words[pick(s)] + Ten(Terms(words, r))
    <3>1. PICK x \in s : x = pick(s)
      BY <2>4
    <3>2. \A i \in s : i \in 1..10 /\ words[i] \in Nat
      BY <1>1
    <3>3. Ten(Terms(words, s)) = words[x] + Ten(Terms(words, Less(s, x)))
      BY ONLY <3>2, x \in s, TermsStep
    <3> QED BY <3>1, <3>3 DEF Less
  <2> QED BY <2>3, <2>5, <2>6, <2>7
<1>7. f[DOMAIN words] = Ten(Terms(words, DOMAIN words))
  <2>1. DOMAIN words \in SUBSET DOMAIN words
    OBVIOUS
  <2> QED BY <1>6, <2>1
<1> QED BY <1>1, <1>7, SumIterates DEF f

\* The end-around carry leaves the rest by 65535, and never leaves 0 of a sum
\* that is not.
Rest(m) == m % 65535
CarryOf(total) == IF total = 0 THEN 0 ELSE 1 + Rest(total - 1)

\* Quotient and remainder by 65536.
LEMMA Division ==
    ASSUME NEW m \in Nat, NEW q, q = m \div 65536, NEW r, r = m % 65536
    PROVE  q \in Nat /\ r \in Nat /\ r < 65536 /\ m = 65536 * q + r
<1>1. q \in Nat
  OBVIOUS
<1>2. r \in Nat /\ r < 65536
  OBVIOUS
<1>3. m = 65536 * q + r
  BY <1>1, <1>2
<1> QED BY ONLY <1>1, <1>2, <1>3

\* A number below the divisor is its own remainder.
LEMMA SmallRest == ASSUME NEW d \in Nat \ {0}, NEW m \in Nat, m < d, NEW r, r = m % d PROVE r = m
OBVIOUS

\* The remainder by 65535 and what does not change it.
LEMMA RestIs ==
    ASSUME NEW m \in Nat
    PROVE  /\ Rest(m) \in Nat /\ Rest(m) < 65535
           /\ m < 65535 => Rest(m) = m
           /\ \A q \in Nat : Rest(m + 65535 * q) = Rest(m)
<1>1. m < 65535 => Rest(m) = m
  <2>1. PICK d \in Nat \ {0} : d = 65535
    OBVIOUS
  <2>2. PICK r : r = m % d
    OBVIOUS
  <2>3. m < d => r = m
    BY ONLY <2>2, m \in Nat, d \in Nat \ {0}, SmallRest
  <2>4. Rest(m) = r
    BY ONLY <2>1, <2>2 DEF Rest
  <2> QED BY ONLY <2>1, <2>3, <2>4
<1>2. ASSUME NEW q \in Nat PROVE Rest(m + 65535 * q) = Rest(m)
  BY DEF Rest
<1>3. Rest(m) \in Nat /\ Rest(m) < 65535
  BY DEF Rest
<1> QED BY <1>1, <1>2, <1>3

\* Adding the carries back once keeps what is left at the end.
LEMMA CarryStep ==
    ASSUME NEW total \in Nat
    PROVE  /\ total < 65536 => CarryOf(total) = total
           /\ total >= 65536 =>
                /\ (total % 65536) + (total \div 65536) \in Nat
                /\ (total % 65536) + (total \div 65536) < total
                /\ CarryOf((total % 65536) + (total \div 65536)) = CarryOf(total)
<1>1. ASSUME total < 65536 PROVE CarryOf(total) = total
  <2>1. total > 0 => total - 1 \in Nat /\ total - 1 < 65535
    BY <1>1
  <2>2. total > 0 => Rest(total - 1) = total - 1
    BY <2>1, RestIs
  <2> QED BY <2>2 DEF CarryOf
<1>2. ASSUME total >= 65536
      PROVE  /\ (total % 65536) + (total \div 65536) \in Nat
             /\ (total % 65536) + (total \div 65536) < total
             /\ CarryOf((total % 65536) + (total \div 65536)) = CarryOf(total)
  <2>1. PICK q : q = total \div 65536
    OBVIOUS
  <2>2. PICK r : r = total % 65536
    OBVIOUS
  <2>3. q \in Nat /\ r \in Nat /\ r < 65536 /\ total = 65536 * q + r
    BY ONLY <2>1, <2>2, total \in Nat, Division
  <2>4. q >= 1 /\ r + q \in Nat \ {0} /\ r + q < total
        /\ total - 1 = (r + q - 1) + 65535 * q /\ r + q - 1 \in Nat
    BY ONLY <1>2, <2>3
  <2>5. PICK m \in Nat : m = r + q - 1
    BY <2>4
  <2>6. Rest(total - 1) = Rest(m)
    BY ONLY <2>3, <2>4, <2>5, RestIs
  <2>7. CarryOf(r + q) = CarryOf(total)
    BY ONLY <1>2, <2>3, <2>4, <2>5, <2>6 DEF CarryOf
  <2> QED BY ONLY <2>1, <2>2, <2>4, <2>7
<1> QED BY <1>1, <1>2

\* The loop of _checksum has a closed form.
LEMMA CarriedIs == \A total \in Nat : carried[total] = CarryOf(total)
<1> DEFINE Carry(f) == f = [total \in Nat |-> IF total < 65536 THEN total
                                              ELSE f[(total % 65536) + (total \div 65536)]]
           f == CHOOSE f : Carry(f)
           g == [total \in Nat |-> CarryOf(total)]
<1>1. Carry(g)
  <2>1. ASSUME NEW total \in Nat
        PROVE  CarryOf(total) = IF total < 65536 THEN total ELSE g[(total % 65536) + (total \div 65536)]
    <3>1. CASE total < 65536
      BY <3>1, CarryStep
    <3>2. CASE total >= 65536
      <4>1. (total % 65536) + (total \div 65536) \in Nat
        BY <3>2, CarryStep
      <4> QED BY <3>2, <4>1, CarryStep
    <3> QED BY <3>1, <3>2
  <2> QED BY <2>1
<1>2. carried = f
  BY DEF carried
<1>3. Carry(f)
  BY <1>1
<1> HIDE DEF f
<1>4. ASSUME NEW total \in Nat
      PROVE  f[total] = IF total < 65536 THEN total ELSE f[(total % 65536) + (total \div 65536)]
  BY <1>3
<1> DEFINE Bad == {total \in Nat : f[total] # CarryOf(total)}
<1>5. Bad = {}
  <2> SUFFICES ASSUME Bad # {} PROVE FALSE
    OBVIOUS
  <2>1. PICK k \in Bad : \A j \in Bad : k <= j
    <3>1. Bad \in SUBSET Nat
      OBVIOUS
    <3> HIDE DEF Bad
    <3> QED BY <3>1, LeastNat
  <2>2. k \in Nat /\ k >= 65536
    BY <1>4, CarryStep
  <2>3. PICK m \in Nat : m = (k % 65536) + (k \div 65536) /\ m < k /\ CarryOf(m) = CarryOf(k)
    BY <2>2, CarryStep
  <2>4. m \notin Bad /\ m \in Nat
    <3> HIDE DEF Bad
    <3> QED BY <2>1, <2>2, <2>3
  <2>5. f[k] = f[m]
    BY <1>4, <2>2, <2>3
  <2> QED BY <2>3, <2>4, <2>5
<1> QED BY <1>2, <1>5

\* The words are the numbers below 2^16.
LEMMA WordIs == \A w : w \in Word <=> w \in Nat /\ w <= 65535
<1>1. PICK M \in Nat : M = 65535
  OBVIOUS
<1>2. Word = 0..M
  BY <1>1 DEF Word
<1>3. ASSUME NEW S, S = 0..M PROVE \A w : w \in S <=> w \in Nat /\ w <= M
  BY <1>3
<1>4. \A w : w \in Word <=> w \in Nat /\ w <= M
  BY ONLY <1>2, <1>3
<1> QED BY ONLY <1>1, <1>4

\* What the loop leaves is a word, is not zero and differs by a multiple of 65535.
LEMMA CarryIsWord ==
    ASSUME NEW total \in Nat \ {0}
    PROVE  /\ CarryOf(total) \in Nat \ {0} /\ CarryOf(total) <= 65535
           /\ \E q \in Nat : total = CarryOf(total) + 65535 * q
<1>1. PICK m \in Nat : m = total - 1
  OBVIOUS
<1>2. PICK r : r = Rest(m)
  OBVIOUS
<1>3. r \in Nat /\ r < 65535
  BY <1>2, RestIs
<1>4. \E q \in Nat : m = r + 65535 * q
  <2>1. PICK q \in Nat : q = m \div 65535
    OBVIOUS
  <2>2. m = 65535 * q + r
    BY <1>2, <1>3, <2>1 DEF Rest
  <2> QED BY <2>1, <2>2, <1>3
<1>5. CarryOf(total) = 1 + r
  BY <1>1, <1>2 DEF CarryOf
<1> QED BY <1>1, <1>3, <1>4, <1>5

\* Of n words, a has a zero at p and another word at q that is not, and b is a
\* with its checksum at p.
Filled(n, p, q, a, b) ==
    /\ n \in 1..10 /\ p \in 1..n /\ q \in 1..n
    /\ a \in [1..n -> Word] /\ a[p] = 0 /\ a[q] # 0
    /\ b = [a EXCEPT ![p] = Checksum(a)]

\* A region that holds the checksum of itself with zero in its place verifies,
\* whatever its words are, unless they are all zero.
LEMMA ChecksumVerifies ==
    ASSUME NEW n, NEW p, NEW q, NEW a, NEW b, Filled(n, p, q, a, b)
    PROVE  Checksum(a) \in Word /\ b \in [1..n -> Word] /\ Verifies(b)
<1>0. /\ n \in 1..10 /\ p \in 1..n /\ q \in 1..n
      /\ a \in [1..n -> Word] /\ a[p] = 0 /\ a[q] # 0
      /\ b = [a EXCEPT ![p] = Checksum(a)]
  BY DEF Filled
<1>1. a \in [1..n -> Nat] /\ n \in 0..10 /\ p \in 1..10 /\ q \in 1..10
  BY <1>0, WordIs
<1>2. PICK t : t = Terms(a, 1..n)
  OBVIOUS
<1>3. t \in [1..10 -> Nat] /\ t[q] = a[q] /\ t[p] = 0 /\ Sum(a) = Ten(t)
  BY <1>0, <1>1, <1>2, SumIsTen DEF Terms
<1>4. Sum(a) \in Nat \ {0}
  <2>1. Ten(t) = t[q] + Ten(Blank(t, q)) /\ Ten(t) \in Nat /\ Ten(Blank(t, q)) \in Nat
    <3>1. t \in [1..10 -> Nat]
      BY <1>3
    <3> QED BY ONLY <1>1, <3>1, TenLess
  <2>2. a[q] \in Nat \ {0}
    BY <1>0, <1>1
  <2>3. t[q] \in Nat \ {0} /\ Sum(a) = Ten(t)
    BY ONLY <1>3, <2>2
  <2> QED BY ONLY <2>1, <2>3
<1>5. PICK c : c = Checksum(a)
  OBVIOUS
<1>6. PICK total \in Nat \ {0} : total = Sum(a)
  BY ONLY <1>4
<1>7. PICK carry : carry = CarryOf(total)
  OBVIOUS
<1>8. c = 65535 - carry
  BY <1>5, <1>6, <1>7, CarriedIs DEF Checksum
<1>9. /\ carry \in Nat \ {0} /\ carry <= 65535
      /\ \E k \in Nat : total = carry + 65535 * k
  BY ONLY <1>7, total \in Nat \ {0}, CarryIsWord
<1>10. PICK k \in Nat : total = carry + 65535 * k
  BY <1>9
<1>11. c \in Nat /\ c <= 65535 /\ total + c = 65535 * (k + 1)
  BY <1>8, <1>9, <1>10
<1>12. c \in Word
  BY <1>11, WordIs
<1>13. b \in [1..n -> Word] /\ b \in [1..n -> Nat] /\ b[p] = c
  BY <1>0, <1>1, <1>5, <1>11, <1>12
<1>14. Sum(b) = c + total
  <2>1. PICK u : u = Terms(b, 1..n)
    OBVIOUS
  <2>2. Sum(b) = Ten(u) /\ u \in [1..10 -> Nat] /\ u[p] = c
    BY <1>0, <1>1, <1>13, <2>1, SumIsTen DEF Terms
  <2>3. Blank(u, p) = t
    BY <1>0, <1>1, <1>2, <1>3, <1>5, <2>1, <2>2 DEF Terms, Blank
  <2>4. Ten(u) = u[p] + Ten(Blank(u, p))
    BY ONLY <1>1, <2>2, TenLess
  <2> QED BY <1>3, <1>6, <2>2, <2>3, <2>4
<1>15. Sum(b) > 0 /\ Sum(b) % 65535 = 0
  <2>1. PICK s \in Nat : s = Sum(b) /\ s = 65535 * (k + 1)
    BY <1>11, <1>14
  <2>2. s % 65535 = 0
    BY ONLY <2>1, k \in Nat
  <2> QED BY <2>1, <2>2
<1> QED BY <1>5, <1>12, <1>13, <1>15 DEF Verifies

\* Concatenations of words.
LEMMA JoinedAs ==
    ASSUME NEW s \in Seq(Word), NEW u \in Seq(Word), NEW r, r = s \o u
    PROVE  /\ r \in Seq(Word) /\ Len(r) = Len(s) + Len(u) /\ Len(s) \in Nat /\ Len(u) \in Nat
           /\ \A i \in 1..Len(s) : r[i] = s[i]
           /\ \A i \in 1..Len(u) : r[Len(s) + i] = u[i]
           /\ SubSeq(r, Len(s) + 1, Len(r)) = u
           /\ SubSeq(r, 1, Len(s)) = s
<1>1. /\ r \in Seq(Word) /\ Len(r) = Len(s) + Len(u) /\ Len(s) \in Nat /\ Len(u) \in Nat
      /\ \A i \in 1..Len(r) : r[i] = IF i <= Len(s) THEN s[i] ELSE u[i - Len(s)]
  BY ConcatProperties, LenProperties
<1>2. SubSeq(r, 1, Len(s)) = s
  <2>1. SubSeq(r, 1, Len(s)) \in Seq(Word) /\ Len(SubSeq(r, 1, Len(s))) = Len(s)
    BY <1>1
  <2>2. \A i \in 1..Len(s) : SubSeq(r, 1, Len(s))[i] = s[i]
    BY <1>1
  <2> QED BY <2>1, <2>2, SeqEqual
<1>3. SubSeq(r, Len(s) + 1, Len(r)) = u
  <2>1. /\ SubSeq(r, Len(s) + 1, Len(r)) \in Seq(Word)
        /\ Len(SubSeq(r, Len(s) + 1, Len(r))) = Len(u)
    BY <1>1
  <2>2. \A i \in 1..Len(u) : SubSeq(r, Len(s) + 1, Len(r))[i] = u[i]
    BY <1>1
  <2> QED BY <2>1, <2>2, SeqEqual
<1>4. /\ \A i \in 1..Len(s) : r[i] = s[i]
      /\ \A i \in 1..Len(u) : r[Len(s) + i] = u[i]
  BY <1>1
<1> QED BY <1>1, <1>2, <1>3, <1>4

\* The words of two sequences joined.
LEMMA Joined ==
    ASSUME NEW s \in Seq(Word), NEW u \in Seq(Word)
    PROVE  /\ s \o u \in Seq(Word) /\ Len(s \o u) = Len(s) + Len(u) /\ Len(s) \in Nat /\ Len(u) \in Nat
           /\ \A i \in 1..Len(s) : (s \o u)[i] = s[i]
           /\ \A i \in 1..Len(u) : (s \o u)[Len(s) + i] = u[i]
           /\ SubSeq(s \o u, Len(s) + 1, Len(s \o u)) = u
           /\ SubSeq(s \o u, 1, Len(s)) = s
<1>1. PICK r : r = s \o u
  OBVIOUS
<1>2. /\ r \in Seq(Word) /\ Len(r) = Len(s) + Len(u) /\ Len(s) \in Nat /\ Len(u) \in Nat
      /\ \A i \in 1..Len(s) : r[i] = s[i]
      /\ \A i \in 1..Len(u) : r[Len(s) + i] = u[i]
      /\ SubSeq(r, Len(s) + 1, Len(r)) = u
      /\ SubSeq(r, 1, Len(s)) = s
  BY ONLY <1>1, JoinedAs, s \in Seq(Word), u \in Seq(Word)
<1> QED BY ONLY <1>1, <1>2

\* A function on 1..n is a sequence of n words.
LEMMA FunctionIsSeq ==
    ASSUME NEW n \in Nat, NEW s \in [1..n -> Word]
    PROVE  s \in Seq(Word) /\ Len(s) = n
OBVIOUS

\* And the other way around.
LEMMA SeqIsFunction ==
    ASSUME NEW n \in Nat, NEW s \in Seq(Word), Len(s) = n
    PROVE  s \in [1..n -> Word]
OBVIOUS

\* A part of a target that is of its type.
Has(t, name) == t[name] \in TargetTypes[name]

\* A number of sixteen bits is a word.
LEMMA SmallWords == \A w \in Nat : w <= 65535 => w \in Word
BY WordIs

\* What Buildable says of the parts of a target, as words.
LEMMA TargetWords ==
    ASSUME NEW t
    PROVE  /\ Has(t, "src_mac") => t.src_mac \in Seq(Word) /\ Len(t.src_mac) = 3
           /\ Has(t, "dst_mac") => t.dst_mac \in Seq(Word) /\ Len(t.dst_mac) = 3
           /\ Has(t, "src_ipv4") => t.src_ipv4 \in Seq(Word) /\ Len(t.src_ipv4) = 2
           /\ Has(t, "dst_ipv4") => t.dst_ipv4 \in Seq(Word) /\ Len(t.dst_ipv4) = 2
           /\ Has(t, "src_ipv6") => t.src_ipv6 \in Seq(Word) /\ Len(t.src_ipv6) = 8
           /\ Has(t, "dst_ipv6") => t.dst_ipv6 \in Seq(Word) /\ Len(t.dst_ipv6) = 8
           /\ Has(t, "src_port") => t.src_port \in Word
           /\ Has(t, "tcp_port") => t.tcp_port \in Word
           /\ Has(t, "udp_port") => t.udp_port \in Word
<1>1. /\ Has(t, "src_mac") => t.src_mac \in [1..3 -> Word]
      /\ Has(t, "dst_mac") => t.dst_mac \in [1..3 -> Word]
      /\ Has(t, "src_ipv4") => t.src_ipv4 \in [1..2 -> Word]
      /\ Has(t, "dst_ipv4") => t.dst_ipv4 \in [1..2 -> Word]
      /\ Has(t, "src_ipv6") => t.src_ipv6 \in [1..8 -> Word]
      /\ Has(t, "dst_ipv6") => t.dst_ipv6 \in [1..8 -> Word]
      /\ Has(t, "src_port") => t.src_port \in Word
      /\ Has(t, "tcp_port") => t.tcp_port \in Word
      /\ Has(t, "udp_port") => t.udp_port \in Word
  BY DEF Has, TargetTypes
<1>2. 2 \in Nat /\ 3 \in Nat /\ 8 \in Nat
  OBVIOUS
<1>3. /\ Has(t, "src_mac") => t.src_mac \in Seq(Word) /\ Len(t.src_mac) = 3
      /\ Has(t, "dst_mac") => t.dst_mac \in Seq(Word) /\ Len(t.dst_mac) = 3
  BY ONLY <1>1, <1>2, FunctionIsSeq
<1>4. /\ Has(t, "src_ipv4") => t.src_ipv4 \in Seq(Word) /\ Len(t.src_ipv4) = 2
      /\ Has(t, "dst_ipv4") => t.dst_ipv4 \in Seq(Word) /\ Len(t.dst_ipv4) = 2
  BY ONLY <1>1, <1>2, FunctionIsSeq
<1>5. /\ Has(t, "src_ipv6") => t.src_ipv6 \in Seq(Word) /\ Len(t.src_ipv6) = 8
      /\ Has(t, "dst_ipv6") => t.dst_ipv6 \in Seq(Word) /\ Len(t.dst_ipv6) = 8
  BY ONLY <1>1, <1>2, FunctionIsSeq
<1> QED BY ONLY <1>1, <1>3, <1>4, <1>5

\* The payload of every packet is three words.
LEMMA PangeaWords == Pangea \in Seq(Word) /\ Len(Pangea) = 3
<1>1. Octets(112, 97) \in Word /\ Octets(110, 103) \in Word /\ Octets(101, 97) \in Word
  BY SmallWords DEF Octets
<1> QED BY <1>1 DEF Pangea

\* Two octets make a word.
LEMMA OctetsAreWords == ASSUME NEW high \in 0..255, NEW low \in 0..255 PROVE Octets(high, low) \in Word
<1>1. high \in Nat /\ low \in Nat /\ high <= 255 /\ low <= 255
  OBVIOUS
<1>2. PICK w : w = 256 * high + low
  OBVIOUS
<1>3. w \in Nat /\ w <= 65535
  BY ONLY <1>1, <1>2
<1> QED BY ONLY <1>2, <1>3, SmallWords DEF Octets

\* The sizes of the packets.
LEMMA Sizes == ASSUME NEW n \in {7, 13} PROVE 20 + 2 * n \in Word /\ 2 * n \in Word
<1>1. 34 \in Word /\ 46 \in Word /\ 14 \in Word /\ 26 \in Word
  BY SmallWords
<1>2. CASE n = 7
  BY ONLY <1>1, <1>2
<1>3. CASE n = 13
  BY ONLY <1>1, <1>3
<1> QED BY <1>2, <1>3

\* The words of the headers that no target decides.
LEMMA ConstantsAreWords ==
    /\ 0 \in Word /\ 1 \in Word /\ 2054 \in Word /\ 2048 \in Word /\ 34525 \in Word
    /\ 14 \in Word /\ 64240 \in Word /\ 5 * 4096 + 2 \in Word /\ 6 * 4096 \in Word
<1>1. /\ 0 \in Word /\ 1 \in Word /\ 2054 \in Word /\ 2048 \in Word /\ 34525 \in Word
      /\ 14 \in Word /\ 64240 \in Word
  BY ONLY SmallWords
<1>2. 5 * 4096 + 2 \in Word /\ 6 * 4096 \in Word
  BY ONLY SmallWords
<1> QED BY ONLY <1>1, <1>2

\* The first words of the headers are words.
LEMMA HeadsAreWords ==
    /\ Octets(69, 0) \in Word /\ Octets(8, 0) \in Word /\ Octets(128, 0) \in Word
    /\ Octets(6, 4) \in Word
BY SmallWords DEF Octets

\* A TCP segment is thirteen words, its checksum zero.
LEMMA TcpSegmentWords ==
    ASSUME NEW t, Has(t, "src_port"), Has(t, "tcp_port")
    PROVE  TcpSegment(t) \in Seq(Word) /\ Len(TcpSegment(t)) = 13 /\ TcpSegment(t)[9] = 0
<1> DEFINE head == <<t.src_port, t.tcp_port, 0, 1, 0, 0, 5 * 4096 + 2, 64240, 0, 0>>
<1>1. head \in Seq(Word) /\ Len(head) = 10 /\ head[9] = 0
  <2>1. /\ t.src_port \in Word /\ t.tcp_port \in Word /\ 0 \in Word /\ 1 \in Word
        /\ 5 * 4096 + 2 \in Word /\ 64240 \in Word
    <3>1. t.src_port \in Word /\ t.tcp_port \in Word
      BY TargetWords
    <3> QED BY ONLY <3>1, ConstantsAreWords
  <2> QED BY ONLY <2>1
<1> HIDE DEF head
<1>2. PICK r : r = head \o Pangea
  OBVIOUS
<1>3. /\ r \in Seq(Word) /\ Len(r) = Len(head) + Len(Pangea)
      /\ \A i \in 1..Len(head) : r[i] = head[i]
  <2>1. head \in Seq(Word) /\ Pangea \in Seq(Word)
    BY <1>1, PangeaWords
  <2> QED BY ONLY <1>2, <2>1, JoinedAs
<1>4. r \in Seq(Word) /\ Len(r) = 13 /\ r[9] = head[9]
  BY ONLY <1>1, <1>3, PangeaWords
<1> QED BY ONLY <1>1, <1>2, <1>4 DEF TcpSegment, head

\* A UDP segment is seven words, says so, and has no checksum.
LEMMA UdpSegmentWords ==
    ASSUME NEW t, Has(t, "src_port"), Has(t, "udp_port")
    PROVE  /\ UdpSegment(t) \in Seq(Word) /\ Len(UdpSegment(t)) = 7
           /\ UdpSegment(t)[3] = 14 /\ UdpSegment(t)[4] = 0
<1> DEFINE head == <<t.src_port, t.udp_port, 8 + 2 * Len(Pangea), 0>>
<1>1. head \in Seq(Word) /\ Len(head) = 4 /\ head[3] = 14 /\ head[4] = 0
  <2>1. 8 + 2 * Len(Pangea) = 14
    BY PangeaWords
  <2>2. t.src_port \in Word /\ t.udp_port \in Word /\ 0 \in Word /\ 14 \in Word
    <3>1. t.src_port \in Word /\ t.udp_port \in Word
      BY TargetWords
    <3> QED BY ONLY <3>1, ConstantsAreWords
  <2> QED BY ONLY <2>1, <2>2
<1> HIDE DEF head
<1>2. PICK r : r = head \o Pangea
  OBVIOUS
<1>3. /\ r \in Seq(Word) /\ Len(r) = Len(head) + Len(Pangea)
      /\ \A i \in 1..Len(head) : r[i] = head[i]
  <2>1. head \in Seq(Word) /\ Pangea \in Seq(Word)
    BY <1>1, PangeaWords
  <2> QED BY ONLY <1>2, <2>1, JoinedAs
<1>4. r \in Seq(Word) /\ Len(r) = 7 /\ r[3] = head[3] /\ r[4] = head[4]
  BY ONLY <1>1, <1>3, PangeaWords
<1> QED BY ONLY <1>1, <1>2, <1>4 DEF UdpSegment, head

\* The checksum of an ICMP message is right.
LEMMA IcmpPayloadWords ==
    IcmpPayload \in Seq(Word) /\ Len(IcmpPayload) = 7 /\ Verifies(IcmpPayload)
<1> DEFINE head(c) == <<Octets(8, 0), c, 1, 1>>
           body(c) == head(c) \o Pangea
<1>1. ASSUME NEW c \in Word
      PROVE  /\ body(c) \in Seq(Word) /\ Len(body(c)) = 7 /\ body(c)[1] = Octets(8, 0) /\ body(c)[2] = c
             /\ \A i \in {3, 4} : body(c)[i] = 1
             /\ \A i \in 1..3 : body(c)[4 + i] = Pangea[i]
  <2>1. /\ head(c) \in Seq(Word) /\ Len(head(c)) = 4 /\ head(c)[1] = Octets(8, 0) /\ head(c)[2] = c
        /\ head(c)[3] = 1 /\ head(c)[4] = 1
    BY ONLY ConstantsAreWords, HeadsAreWords, c \in Word
  <2>2. PICK h : h = head(c)
    OBVIOUS
  <2>3. PICK r : r = h \o Pangea
    OBVIOUS
  <2>4. /\ h \in Seq(Word) /\ Len(h) = 4 /\ h[1] = Octets(8, 0) /\ h[2] = c
        /\ h[3] = 1 /\ h[4] = 1
    BY ONLY <2>1, <2>2
  <2>5. /\ r \in Seq(Word) /\ Len(r) = 7 /\ \A i \in 1..4 : r[i] = h[i]
        /\ \A i \in 1..3 : r[4 + i] = Pangea[i]
    <3>1. h \in Seq(Word) /\ Pangea \in Seq(Word)
      BY ONLY <2>4, PangeaWords
    <3>2. /\ r \in Seq(Word) /\ Len(r) = Len(h) + Len(Pangea)
          /\ \A i \in 1..Len(h) : r[i] = h[i]
          /\ \A i \in 1..Len(Pangea) : r[Len(h) + i] = Pangea[i]
      BY ONLY <2>3, <3>1, JoinedAs
    <3> QED BY ONLY <2>4, <3>2, PangeaWords
  <2>6. r[1] = Octets(8, 0) /\ r[2] = c /\ \A i \in {3, 4} : r[i] = 1
    BY ONLY <2>4, <2>5
  <2>7. r = body(c)
    BY <2>2, <2>3
  <2> QED BY ONLY <2>5, <2>6, <2>7
<1>2. PICK a : a = body(0)
  OBVIOUS
<1>3. PICK c : c = Checksum(a)
  OBVIOUS
<1>4. PICK b : b = [a EXCEPT ![2] = c]
  OBVIOUS
<1>5. /\ a \in Seq(Word) /\ Len(a) = 7 /\ a[1] = Octets(8, 0) /\ a[2] = 0
      /\ \A i \in {3, 4} : a[i] = 1
      /\ \A i \in 1..3 : a[4 + i] = Pangea[i]
  <2> HIDE DEF body
  <2>1. 0 \in Word
    BY ONLY ConstantsAreWords
  <2> QED BY ONLY <1>1, <1>2, <2>1
<1>6. a \in [1..7 -> Word] /\ a[1] # 0
  <2>1. Octets(8, 0) # 0
    BY DEF Octets
  <2>2. a \in [1..7 -> Word]
    BY ONLY <1>5, SeqIsFunction
  <2> QED BY ONLY <1>5, <2>1, <2>2
<1>7. 7 \in 1..10 /\ 1 \in 1..7 /\ 2 \in 1..7
  OBVIOUS
<1>8. c \in Word /\ b \in [1..7 -> Word] /\ Verifies(b)
  <2>1. Filled(7, 2, 1, a, b)
    BY ONLY <1>3, <1>4, <1>5, <1>6, <1>7 DEF Filled
  <2> QED BY ONLY <1>3, <2>1, ChecksumVerifies
<1>9. body(c) = b
  <2>1. /\ body(c) \in Seq(Word) /\ Len(body(c)) = 7 /\ body(c)[1] = Octets(8, 0) /\ body(c)[2] = c
        /\ \A i \in {3, 4} : body(c)[i] = 1
        /\ \A i \in 1..3 : body(c)[4 + i] = Pangea[i]
    BY <1>1, <1>8
  <2> HIDE DEF body
  <2>2. b \in Seq(Word) /\ Len(b) = 7
    BY ONLY <1>8, FunctionIsSeq
  <2>3. \A i \in 1..7 : body(c)[i] = b[i]
    BY <1>4, <1>5, <1>6, <2>1
  <2> QED BY <2>1, <2>2, <2>3, SeqEqual
<1>10. IcmpPayload = body(c)
  BY <1>2, <1>3 DEF IcmpPayload
<1> HIDE DEF body
<1>11. b \in Seq(Word) /\ Len(b) = 7
  BY ONLY <1>8, FunctionIsSeq
<1> QED BY ONLY <1>8, <1>9, <1>10, <1>11

\* The ICMPv6 message is seven words, its checksum zero.
LEMMA Icmpv6PayloadWords ==
    Icmpv6Payload \in Seq(Word) /\ Len(Icmpv6Payload) = 7 /\ Icmpv6Payload[2] = 0
<1> DEFINE head == <<Octets(128, 0), 0, 1, 1>>
<1>1. head \in Seq(Word) /\ Len(head) = 4 /\ head[2] = 0
  BY ONLY ConstantsAreWords, HeadsAreWords
<1> HIDE DEF head
<1>2. PICK r : r = head \o Pangea
  OBVIOUS
<1>3. /\ r \in Seq(Word) /\ Len(r) = Len(head) + Len(Pangea)
      /\ \A i \in 1..Len(head) : r[i] = head[i]
  <2>1. head \in Seq(Word) /\ Pangea \in Seq(Word)
    BY <1>1, PangeaWords
  <2> QED BY ONLY <1>2, <2>1, JoinedAs
<1>4. r \in Seq(Word) /\ Len(r) = 7 /\ r[2] = head[2]
  BY ONLY <1>1, <1>3, PangeaWords
<1> QED BY ONLY <1>1, <1>2, <1>4 DEF Icmpv6Payload, head

\* An ARP message is words.
LEMMA ArpPayloadWords ==
    ASSUME NEW t, \A name \in {"src_mac", "dst_mac", "src_ipv4", "dst_ipv4"} : Has(t, name)
    PROVE  ArpPayload(t) \in Seq(Word)
<1> DEFINE head == <<1, EtherTypes.ipv4, Octets(6, 4), 1>>
<1>1. head \in Seq(Word)
  <2>1. EtherTypes.ipv4 \in Word
    BY ONLY ConstantsAreWords DEF EtherTypes
  <2> QED BY ONLY <2>1, ConstantsAreWords, HeadsAreWords
<1> HIDE DEF head
<1>2. ArpPayload(t) = (((head \o t.src_mac) \o t.src_ipv4) \o t.dst_mac) \o t.dst_ipv4
  BY DEF ArpPayload, head
<1> QED BY <1>1, <1>2, TargetWords

\* Two words are put in front of each other: where each of three parts is found.
LEMMA JoinedThree ==
    ASSUME NEW h \in Seq(Word), NEW x \in Seq(Word), NEW y \in Seq(Word), NEW r, r = h \o x \o y
    PROVE  /\ r \in Seq(Word) /\ Len(r) = Len(h) + Len(x) + Len(y)
           /\ \A i \in 1..Len(h) : r[i] = h[i]
           /\ \A i \in 1..Len(x) : r[Len(h) + i] = x[i]
           /\ \A i \in 1..Len(y) : r[Len(h) + Len(x) + i] = y[i]
<1>1. PICK z : z = h \o x
  OBVIOUS
<1>2. /\ z \in Seq(Word) /\ Len(z) = Len(h) + Len(x) /\ Len(h) \in Nat /\ Len(x) \in Nat
      /\ \A i \in 1..Len(h) : z[i] = h[i]
      /\ \A i \in 1..Len(x) : z[Len(h) + i] = x[i]
  BY ONLY <1>1, JoinedAs, h \in Seq(Word), x \in Seq(Word)
<1>3. r = z \o y
  BY <1>1
<1>4. /\ r \in Seq(Word) /\ Len(r) = Len(z) + Len(y) /\ Len(y) \in Nat
      /\ \A i \in 1..Len(z) : r[i] = z[i]
      /\ \A i \in 1..Len(y) : r[Len(z) + i] = y[i]
  <2>1. z \in Seq(Word)
    BY ONLY <1>2
  <2> QED BY ONLY <2>1, <1>3, JoinedAs, y \in Seq(Word)
<1>5. \A i \in 1..Len(h) : i \in 1..Len(z)
  BY ONLY <1>2
<1>6. \A i \in 1..Len(x) : Len(h) + i \in 1..Len(z)
  BY ONLY <1>2
<1> QED BY ONLY <1>2, <1>4, <1>5, <1>6

Ipv4Header(size, kind, src, dst, checksum) ==
    <<Octets(69, 0), size, 1, 0, kind, checksum>> \o src \o dst

\* Its ten words.
HeaderWords(r, size, kind, src, dst, checksum) ==
    /\ r \in Seq(Word) /\ Len(r) = 10
    /\ r[1] = Octets(69, 0) /\ r[2] = size /\ r[3] = 1 /\ r[4] = 0 /\ r[5] = kind
    /\ r[6] = checksum /\ r[7] = src[1] /\ r[8] = src[2] /\ r[9] = dst[1] /\ r[10] = dst[2]

\* The words of an IPv4 header, one by one.
LEMMA Ipv4HeaderWords ==
    ASSUME NEW size \in Word, NEW kind \in Word, NEW src \in Seq(Word), NEW dst \in Seq(Word),
           Len(src) = 2, Len(dst) = 2, NEW checksum \in Word,
           NEW r, r = Ipv4Header(size, kind, src, dst, checksum)
    PROVE  HeaderWords(r, size, kind, src, dst, checksum)
<1>1. PICK h : h = <<Octets(69, 0), size, 1, 0, kind, checksum>>
  OBVIOUS
<1>2. /\ h \in Seq(Word) /\ Len(h) = 6 /\ h[1] = Octets(69, 0) /\ h[2] = size /\ h[3] = 1
      /\ h[4] = 0 /\ h[5] = kind /\ h[6] = checksum
  BY ONLY <1>1, ConstantsAreWords, HeadsAreWords, size \in Word, kind \in Word, checksum \in Word
<1>3. r = h \o src \o dst
  BY ONLY <1>1, r = Ipv4Header(size, kind, src, dst, checksum) DEF Ipv4Header
<1>4. /\ r \in Seq(Word) /\ Len(r) = Len(h) + Len(src) + Len(dst)
      /\ \A i \in 1..Len(h) : r[i] = h[i]
      /\ \A i \in 1..Len(src) : r[Len(h) + i] = src[i]
      /\ \A i \in 1..Len(dst) : r[Len(h) + Len(src) + i] = dst[i]
  <2>1. h \in Seq(Word)
    BY ONLY <1>2
  <2> QED BY ONLY <2>1, <1>3, JoinedThree, src \in Seq(Word), dst \in Seq(Word)
<1>5. r[1] = h[1] /\ r[2] = h[2] /\ r[3] = h[3] /\ r[4] = h[4] /\ r[5] = h[5] /\ r[6] = h[6]
  BY ONLY <1>2, <1>4
<1>6. r[6 + 1] = src[1] /\ r[6 + 2] = src[2]
  BY ONLY <1>2, <1>4, Len(src) = 2
<1>7. r[6 + 2 + 1] = dst[1] /\ r[6 + 2 + 2] = dst[2]
  BY ONLY <1>2, <1>4, Len(src) = 2, Len(dst) = 2
<1>8. Len(r) = 10
  BY ONLY <1>2, <1>4, Len(src) = 2, Len(dst) = 2
<1>9. r[7] = src[1] /\ r[8] = src[2] /\ r[9] = dst[1] /\ r[10] = dst[2]
  BY ONLY <1>6, <1>7
<1>10. r \in Seq(Word)
  BY ONLY <1>4
<1>11. /\ r[1] = Octets(69, 0) /\ r[2] = size /\ r[3] = 1 /\ r[4] = 0 /\ r[5] = kind
       /\ r[6] = checksum
  BY ONLY <1>2, <1>5
<1> QED BY ONLY <1>8, <1>9, <1>10, <1>11 DEF HeaderWords

\* The checksum of an IPv4 header is right.
LEMMA Ipv4HeaderVerifies ==
    ASSUME NEW size \in Word, NEW kind \in Word, NEW src \in Seq(Word), NEW dst \in Seq(Word),
           Len(src) = 2, Len(dst) = 2,
           NEW r, r = Ipv4Header(size, kind, src, dst, Checksum(Ipv4Header(size, kind, src, dst, 0)))
    PROVE  r \in Seq(Word) /\ Len(r) = 10 /\ r[2] = size /\ r[5] = kind /\ Verifies(r)
<1>1. PICK a : a = Ipv4Header(size, kind, src, dst, 0)
  OBVIOUS
<1>2. PICK c : c = Checksum(a)
  OBVIOUS
<1>3. PICK b : b = [a EXCEPT ![6] = c]
  OBVIOUS
<1>4. HeaderWords(a, size, kind, src, dst, 0)
  <2>1. 0 \in Word
    BY ONLY ConstantsAreWords
  <2> QED BY ONLY <1>1, <2>1, Ipv4HeaderWords, size \in Word, kind \in Word, src \in Seq(Word),
             dst \in Seq(Word), Len(src) = 2, Len(dst) = 2
<1>5. a \in [1..10 -> Word] /\ a[1] # 0
  <2>1. Octets(69, 0) # 0
    BY DEF Octets
  <2>2. a \in [1..10 -> Word]
    BY ONLY <1>4, SeqIsFunction DEF HeaderWords
  <2> QED BY ONLY <1>4, <2>1, <2>2 DEF HeaderWords
<1>6. 10 \in 1..10 /\ 1 \in 1..10 /\ 6 \in 1..10
  OBVIOUS
<1>7. c \in Word /\ b \in [1..10 -> Word] /\ Verifies(b)
  <2>1. a[6] = 0
    BY ONLY <1>4 DEF HeaderWords
  <2>2. Filled(10, 6, 1, a, b)
    BY ONLY <1>2, <1>3, <1>5, <1>6, <2>1 DEF Filled
  <2> QED BY ONLY <1>2, <2>2, ChecksumVerifies
<1>8. r = Ipv4Header(size, kind, src, dst, c)
  BY <1>1, <1>2
<1>9. HeaderWords(r, size, kind, src, dst, c)
  <2>1. c \in Word
    BY ONLY <1>7
  <2> QED BY ONLY <2>1, <1>8, Ipv4HeaderWords, size \in Word, kind \in Word, src \in Seq(Word),
             dst \in Seq(Word), Len(src) = 2, Len(dst) = 2
<1>10. r = b
  <2>1. b \in Seq(Word) /\ Len(b) = 10
    BY ONLY <1>7, FunctionIsSeq
  <2>2. \A i \in 1..10 : r[i] = b[i]
    BY <1>3, <1>4, <1>5, <1>9 DEF HeaderWords
  <2> QED BY <1>9, <2>1, <2>2, SeqEqual DEF HeaderWords
<1> QED BY ONLY <1>7, <1>9, <1>10 DEF HeaderWords

Ipv4Of(t, body, number) ==
    Ipv4Header(20 + 2 * Len(body), Octets(64, number), t.src_ipv4, t.dst_ipv4,
               Checksum(Ipv4Header(20 + 2 * Len(body), Octets(64, number), t.src_ipv4, t.dst_ipv4, 0)))
      \o body

\* A datagram is accepted, and this is in it.
Carries(datagram, accepted, upper, number, body) ==
    datagram \in Seq(Word) /\ accepted /\ upper.number = number /\ upper.body = body

\* An IPv4 datagram gets past the network layer, and what was put in is found in it.
LEMMA Ipv4OfAccepted ==
    ASSUME NEW t, Has(t, "src_ipv4"), Has(t, "dst_ipv4"),
           NEW body \in Seq(Word), Len(body) \in {7, 13}, NEW number \in {1, 6, 17},
           NEW datagram, datagram = Ipv4Of(t, body, number)
    PROVE  Carries(datagram, Ipv4Accepts(datagram), Ipv4Upper(datagram), number, body)
<1>1. PICK size : size = 20 + 2 * Len(body)
  OBVIOUS
<1>2. PICK kind : kind = Octets(64, number)
  OBVIOUS
<1>3. body \in Seq(Word) /\ Len(body) \in {7, 13} /\ number \in {1, 6, 17}
  OBVIOUS
<1>4. size \in Word
  BY ONLY <1>1, <1>3, Sizes
<1>5. kind \in Word /\ kind % 256 = number
  <2>1. number \in 0..255 /\ 64 \in 0..255
    BY ONLY <1>3
  <2>2. kind \in Word
    BY ONLY <1>2, <2>1, OctetsAreWords
  <2>3. kind % 256 = number
    BY ONLY <1>2, <1>3 DEF Octets
  <2> QED BY <2>2, <2>3
<1>6. PICK src : src = t.src_ipv4
  OBVIOUS
<1>7. PICK dst : dst = t.dst_ipv4
  OBVIOUS
<1>8. src \in Seq(Word) /\ dst \in Seq(Word) /\ Len(src) = 2 /\ Len(dst) = 2
  BY <1>6, <1>7, TargetWords
<1>9. PICK header : header = Ipv4Header(size, kind, src, dst, Checksum(Ipv4Header(size, kind, src, dst, 0)))
  OBVIOUS
<1>10. header \in Seq(Word) /\ Len(header) = 10 /\ header[2] = size /\ header[5] = kind /\ Verifies(header)
  <2>1. kind \in Word
    BY ONLY <1>5
  <2> QED BY ONLY <1>4, <2>1, <1>8, <1>9, Ipv4HeaderVerifies
<1>11. datagram = header \o body
  BY <1>1, <1>2, <1>6, <1>7, <1>9 DEF Ipv4Of
<1>12. /\ datagram \in Seq(Word) /\ Len(datagram) = Len(header) + Len(body)
       /\ SubSeq(datagram, Len(header) + 1, Len(datagram)) = body
       /\ SubSeq(datagram, 1, Len(header)) = header
       /\ \A i \in 1..Len(header) : datagram[i] = header[i]
  <2>1. header \in Seq(Word) /\ body \in Seq(Word)
    BY ONLY <1>3, <1>10
  <2> QED BY ONLY <2>1, <1>11, JoinedAs
<1>13. SubSeq(datagram, 1, 10) = header /\ SubSeq(datagram, 11, Len(datagram)) = body
  <2>1. Len(header) = 10 /\ 10 + 1 = 11
    BY ONLY <1>10
  <2> QED BY ONLY <1>12, <2>1
<1>14. header[2] = Bytes(datagram)
  BY ONLY <1>1, <1>3, <1>10, <1>12 DEF Bytes
<1>15. datagram[5] % 256 = number
  BY ONLY <1>5, <1>10, <1>12
<1>16. Ipv4Accepts(datagram)
  BY ONLY <1>10, <1>13, <1>14 DEF Ipv4Accepts
<1>17. Ipv4Upper(datagram).number = number /\ Ipv4Upper(datagram).body = body
  BY ONLY <1>13, <1>15 DEF Ipv4Upper
<1> QED BY ONLY <1>12, <1>16, <1>17 DEF Carries

\* What a receiver's transport layer makes of the words behind the header.
Judged(protocol, upper) == IF protocol \in Summed THEN TransportAccepts(upper) ELSE Unsummed(upper)

\* What _ipv4_packet builds.
LEMMA Ipv4Judged ==
    ASSUME NEW t, NEW protocol, protocol \notin {"arp", "ipv6", "icmpv6"},
           \A name \in Uses(protocol) : Has(t, name),
           NEW datagram, datagram = Ipv4Packet(t, protocol)
    PROVE  datagram \in Seq(Word) /\ Ipv4Accepts(datagram) /\ Judged(protocol, Ipv4Upper(datagram))
<1>1. Has(t, "src_ipv4") /\ Has(t, "dst_ipv4")
  BY DEF Uses
<1>2. CASE protocol = "udp"
  <2>1. PICK body : body = UdpSegment(t)
    OBVIOUS
  <2>2. datagram = Ipv4Of(t, body, 17)
    BY <1>2, <2>1 DEF Ipv4Packet, Ipv4Of, Ipv4Header
  <2>3. Has(t, "src_port") /\ Has(t, "udp_port")
    BY <1>2 DEF Uses
  <2>4. body \in Seq(Word) /\ Len(body) = 7 /\ body[3] = 14 /\ body[4] = 0
    BY <2>1, <2>3, UdpSegmentWords
  <2>5. Len(body) \in {7, 13} /\ 17 \in {1, 6, 17} /\ body \in Seq(Word)
    BY ONLY <2>4
  <2>6. Carries(datagram, Ipv4Accepts(datagram), Ipv4Upper(datagram), 17, body)
    BY ONLY <1>1, <2>2, <2>5, Ipv4OfAccepted
  <2>7. body[3] = Bytes(body)
    BY ONLY <2>4 DEF Bytes
  <2>8. PICK upper : upper = Ipv4Upper(datagram)
    OBVIOUS
  <2>9. TransportAccepts(upper)
    BY ONLY <2>4, <2>6, <2>7, <2>8 DEF Carries, TransportAccepts
  <2> QED BY <1>2, <2>6, <2>8, <2>9 DEF Carries, Judged, Summed
<1>3. CASE protocol = "icmp"
  <2>1. PICK body : body = IcmpPayload
    OBVIOUS
  <2>2. datagram = Ipv4Of(t, body, 1)
    BY <1>3, <2>1 DEF Ipv4Packet, Ipv4Of, Ipv4Header
  <2>3. body \in Seq(Word) /\ Len(body) \in {7, 13} /\ Verifies(body) /\ 1 \in {1, 6, 17}
    BY <2>1, IcmpPayloadWords
  <2>4. Carries(datagram, Ipv4Accepts(datagram), Ipv4Upper(datagram), 1, body)
    BY ONLY <1>1, <2>2, <2>3, Ipv4OfAccepted
  <2>5. PICK upper : upper = Ipv4Upper(datagram)
    OBVIOUS
  <2>6. TransportAccepts(upper)
    BY ONLY <2>3, <2>4, <2>5 DEF Carries, TransportAccepts
  <2> QED BY <1>3, <2>4, <2>5, <2>6 DEF Carries, Judged, Summed
<1>4. CASE protocol \notin {"udp", "icmp"}
  <2>1. PICK body : body = TcpSegment(t)
    OBVIOUS
  <2>2. datagram = Ipv4Of(t, body, 6)
    BY <1>4, <2>1 DEF Ipv4Packet, Ipv4Of, Ipv4Header
  <2>3. Has(t, "src_port") /\ Has(t, "tcp_port")
    BY <1>4 DEF Uses
  <2>4. body \in Seq(Word) /\ Len(body) \in {7, 13} /\ body[9] = 0 /\ 6 \in {1, 6, 17}
    BY <2>1, <2>3, TcpSegmentWords
  <2>5. Carries(datagram, Ipv4Accepts(datagram), Ipv4Upper(datagram), 6, body)
    BY ONLY <1>1, <2>2, <2>4, Ipv4OfAccepted
  <2>6. PICK upper : upper = Ipv4Upper(datagram)
    OBVIOUS
  <2>7. Unsummed(upper)
    BY ONLY <2>4, <2>5, <2>6 DEF Carries, Unsummed
  <2> QED BY <1>4, <2>5, <2>6, <2>7 DEF Carries, Judged, Summed
<1> QED BY <1>2, <1>3, <1>4

Ipv6Head(size, kind) == <<6 * 4096, 0, size, kind>>
Ipv6Of(t, body, next) ==
    Ipv6Head(2 * Len(body), Octets(next, 64)) \o t.src_ipv6 \o t.dst_ipv6 \o body

\* An IPv6 datagram gets past the network layer, and what was put in is found in it.
LEMMA Ipv6OfAccepted ==
    ASSUME NEW t, Has(t, "src_ipv6"), Has(t, "dst_ipv6"),
           NEW body \in Seq(Word), Len(body) \in {7, 13}, NEW next \in {6, 58},
           NEW datagram, datagram = Ipv6Of(t, body, next)
    PROVE  Carries(datagram, Ipv6Accepts(datagram), Ipv6Upper(datagram), next, body)
<1>1. PICK h : h = Ipv6Head(2 * Len(body), Octets(next, 64))
  OBVIOUS
<1>2. h \in Seq(Word) /\ Len(h) = 4 /\ h[3] = 2 * Len(body) /\ h[4] = Octets(next, 64)
  <2>1. next \in 0..255 /\ 64 \in 0..255
    BY ONLY next \in {6, 58}
  <2>2. PICK kind \in Word : kind = Octets(next, 64)
    BY ONLY <2>1, OctetsAreWords
  <2>3. PICK size \in Word : size = 2 * Len(body)
    BY ONLY Sizes, Len(body) \in {7, 13}
  <2>4. h = Ipv6Head(size, kind)
    BY ONLY <1>1, <2>2, <2>3
  <2>5. 6 * 4096 \in Word /\ 0 \in Word
    BY ONLY ConstantsAreWords
  <2>6. h \in Seq(Word) /\ Len(h) = 4 /\ h[3] = size /\ h[4] = kind
    BY ONLY <2>4, <2>5, size \in Word, kind \in Word DEF Ipv6Head
  <2> QED BY ONLY <2>2, <2>3, <2>6
<1>3. PICK src : src = t.src_ipv6
  OBVIOUS
<1>4. PICK dst : dst = t.dst_ipv6
  OBVIOUS
<1>5. src \in Seq(Word) /\ dst \in Seq(Word) /\ Len(src) = 8 /\ Len(dst) = 8
  BY <1>3, <1>4, TargetWords
<1>6. PICK header : header = h \o src \o dst
  OBVIOUS
<1>7. /\ header \in Seq(Word) /\ Len(header) = Len(h) + Len(src) + Len(dst)
      /\ \A i \in 1..Len(h) : header[i] = h[i]
  <2>1. h \in Seq(Word) /\ src \in Seq(Word) /\ dst \in Seq(Word)
    BY ONLY <1>2, <1>5
  <2> QED BY ONLY <1>6, <2>1, JoinedThree
<1>8. /\ header \in Seq(Word) /\ Len(header) = 20
      /\ header[3] = 2 * Len(body) /\ header[4] = Octets(next, 64)
  BY ONLY <1>2, <1>5, <1>7
<1>9. datagram = header \o body
  BY ONLY <1>1, <1>3, <1>4, <1>6, datagram = Ipv6Of(t, body, next) DEF Ipv6Of
<1>10. /\ datagram \in Seq(Word) /\ Len(datagram) = Len(header) + Len(body)
       /\ \A i \in 1..Len(header) : datagram[i] = header[i]
       /\ SubSeq(datagram, Len(header) + 1, Len(datagram)) = body
  <2>1. header \in Seq(Word)
    BY ONLY <1>8
  <2> QED BY ONLY <2>1, <1>9, body \in Seq(Word), JoinedAs
<1>11. datagram[3] = 2 * Len(body) /\ Len(datagram) = 20 + Len(body)
  BY ONLY <1>8, <1>10
<1>12. datagram[3] = Bytes(datagram) - 40
  BY ONLY <1>11, Len(body) \in {7, 13} DEF Bytes
<1>13. datagram[4] \div 256 = next
  <2>1. datagram[4] = Octets(next, 64)
    BY ONLY <1>8, <1>10
  <2> QED BY ONLY <2>1, next \in {6, 58} DEF Octets
<1>14. SubSeq(datagram, 21, Len(datagram)) = body
  <2>1. Len(header) + 1 = 21
    BY ONLY <1>8
  <2> QED BY ONLY <1>10, <2>1
<1>15. Ipv6Upper(datagram).number = next /\ Ipv6Upper(datagram).body = body
  BY ONLY <1>13, <1>14 DEF Ipv6Upper
<1>16. Ipv6Accepts(datagram)
  BY ONLY <1>12 DEF Ipv6Accepts
<1> QED BY ONLY <1>10, <1>15, <1>16 DEF Carries

\* What _ipv6_packet builds.
LEMMA Ipv6Judged ==
    ASSUME NEW t, NEW protocol \in {"ipv6", "icmpv6"}, \A name \in Uses(protocol) : Has(t, name),
           NEW datagram, datagram = Ipv6Packet(t, protocol)
    PROVE  datagram \in Seq(Word) /\ Ipv6Accepts(datagram) /\ Judged(protocol, Ipv6Upper(datagram))
<1>1. datagram = Ipv6Of(t, IF protocol = "icmpv6" THEN Icmpv6Payload ELSE TcpSegment(t),
                        IF protocol = "icmpv6" THEN 58 ELSE 6)
  BY DEF Ipv6Packet, Ipv6Of, Ipv6Head
<1>2. Has(t, "src_ipv6") /\ Has(t, "dst_ipv6")
  BY DEF Uses
<1>3. ASSUME NEW body \in Seq(Word), Len(body) \in {7, 13}, NEW next \in {6, 58},
             datagram = Ipv6Of(t, body, next),
             (next = 6 /\ body[9] = 0) \/ (next = 58 /\ body[2] = 0)
      PROVE  datagram \in Seq(Word) /\ Ipv6Accepts(datagram) /\ Judged(protocol, Ipv6Upper(datagram))
  <2>1. Carries(datagram, Ipv6Accepts(datagram), Ipv6Upper(datagram), next, body)
    BY ONLY <1>2, <1>3, Ipv6OfAccepted
  <2>2. PICK upper : upper = Ipv6Upper(datagram)
    OBVIOUS
  <2>3. Unsummed(upper)
    BY ONLY <1>3, <2>1, <2>2 DEF Carries, Unsummed
  <2> QED BY <2>1, <2>2, <2>3 DEF Carries, Judged, Summed
<1>4. CASE protocol = "icmpv6"
  <2>1. PICK body : body = Icmpv6Payload
    OBVIOUS
  <2>2. datagram = Ipv6Of(t, body, 58)
    BY ONLY <1>1, <1>4, <2>1
  <2>3. body \in Seq(Word) /\ Len(body) \in {7, 13} /\ body[2] = 0 /\ 58 \in {6, 58}
    BY <2>1, Icmpv6PayloadWords
  <2> QED BY ONLY <2>2, <2>3, <1>3
<1>5. CASE protocol = "ipv6"
  <2>1. PICK body : body = TcpSegment(t)
    OBVIOUS
  <2>2. datagram = Ipv6Of(t, body, 6)
    BY ONLY <1>1, <1>5, <2>1
  <2>3. Has(t, "src_port") /\ Has(t, "tcp_port")
    BY <1>5 DEF Uses
  <2>4. body \in Seq(Word) /\ Len(body) \in {7, 13} /\ body[9] = 0 /\ 6 \in {6, 58}
    BY <2>1, <2>3, TcpSegmentWords
  <2> QED BY ONLY <2>2, <2>4, <1>3
<1> QED BY <1>4, <1>5

\* A packet of this type, with this behind its seven words of Ethernet.
FrameOf(r, type, body) ==
    /\ \A i \in 1..Len(r) : r[i] \in Word
    /\ r[7] = type /\ SubSeq(r, 8, Len(r)) = body

\* The parts of an Ethernet frame.
LEMMA Framed ==
    ASSUME NEW m \in Seq(Word), Len(m) = 6, NEW type \in Word, NEW body \in Seq(Word),
           NEW r, r = m \o (<<type>> \o body)
    PROVE  FrameOf(r, type, body)
<1>1. PICK u : u = <<type>>
  OBVIOUS
<1>2. u \in Seq(Word) /\ Len(u) = 1 /\ u[1] = type
  BY <1>1
<1>3. PICK front : front = m \o u
  OBVIOUS
<1>4. front \in Seq(Word) /\ Len(front) = Len(m) + Len(u) /\ \A i \in 1..Len(u) : front[Len(m) + i] = u[i]
  <2>1. u \in Seq(Word)
    BY ONLY <1>2
  <2> QED BY ONLY <2>1, <1>3, m \in Seq(Word), JoinedAs
<1>5. front \in Seq(Word) /\ Len(front) = 7 /\ front[7] = type
  <2>1. front[6 + 1] = type
    BY ONLY <1>2, <1>4, Len(m) = 6
  <2> QED BY ONLY <1>2, <1>4, <2>1, Len(m) = 6
<1>6. r = front \o body
  <2>1. r = m \o (u \o body)
    BY <1>1
  <2>2. u \in Seq(Word)
    BY <1>2
  <2> QED BY ONLY <1>3, <2>1, <2>2, m \in Seq(Word), body \in Seq(Word), ConcatAssociative
<1>7. /\ r \in Seq(Word) /\ \A i \in 1..Len(front) : r[i] = front[i]
      /\ SubSeq(r, Len(front) + 1, Len(r)) = body
  <2>1. front \in Seq(Word)
    BY <1>5
  <2> QED BY ONLY <2>1, <1>6, body \in Seq(Word), JoinedAs
<1>8. r[7] = type /\ SubSeq(r, 7 + 1, Len(r)) = body
  BY ONLY <1>5, <1>7
<1>9. \A i \in 1..Len(r) : r[i] \in Word
  BY ONLY <1>7
<1>10. SubSeq(r, 8, Len(r)) = body
  <2>1. 7 + 1 = 8
    OBVIOUS
  <2> QED BY ONLY <1>8, <2>1
<1> QED BY ONLY <1>8, <1>9, <1>10 DEF FrameOf

\* A frame around what a network layer accepts.
LEMMA FrameJudged ==
    ASSUME NEW case, NEW packet, packet = Packet(case), NetworkAccepts(packet),
           packet[7] # EtherTypes.arp => Judged(case.protocol, Upper(packet)),
           packet[7] = EtherTypes.arp => case.protocol = "arp"
    PROVE  AsBuilt(case)
<1>1. PICK upper : upper = Upper(packet)
  OBVIOUS
<1>2. case.protocol \in Summed => Accepts(packet)
  BY <1>1 DEF Accepts, Judged
<1>3. case.protocol \notin Summed => Unsummed(upper)
  BY <1>1 DEF Judged, Summed
<1> QED BY ONLY packet = Packet(case), NetworkAccepts(packet), <1>1, <1>2, <1>3 DEF AsBuilt

\* Whatever the case, what could be built passes the tests of a receiver, but for
\* the checksums that are left out.
LEMMA PacketAsBuilt ==
    ASSUME NEW case, Buildable(case)
    PROVE  AsBuilt(case)
<1>1. PICK t : t = Full(case.target)
  OBVIOUS
<1>2. /\ \A name \in Uses(case.protocol) : Has(t, name)
      /\ Has(t, "src_mac") /\ Has(t, "dst_mac")
  BY <1>1 DEF Buildable, Has, Uses
<1>3. PICK m : m = t.dst_mac \o t.src_mac
  OBVIOUS
<1>4. m \in Seq(Word) /\ Len(m) = 6
  <2>1. /\ t.src_mac \in Seq(Word) /\ Len(t.src_mac) = 3
        /\ t.dst_mac \in Seq(Word) /\ Len(t.dst_mac) = 3
    BY <1>2, TargetWords
  <2>2. m \in Seq(Word) /\ Len(m) = Len(t.dst_mac) + Len(t.src_mac)
    BY ONLY <1>3, <2>1, Joined
  <2> QED BY ONLY <2>1, <2>2
<1>5. EtherTypes.arp # EtherTypes.ipv4 /\ EtherTypes.arp # EtherTypes.ipv6 /\ EtherTypes.ipv4 # EtherTypes.ipv6
  BY DEF EtherTypes
<1>6. EtherTypes.arp \in Word /\ EtherTypes.ipv4 \in Word /\ EtherTypes.ipv6 \in Word
  BY ONLY ConstantsAreWords DEF EtherTypes
<1>7. PICK r : r = Packet(case)
  OBVIOUS
<1>8. CASE case.protocol = "arp"
  <2>1. r = m \o (<<EtherTypes.arp>> \o ArpPayload(t))
    BY ONLY <1>1, <1>3, <1>7, <1>8 DEF Packet
  <2>2. ArpPayload(t) \in Seq(Word)
    <3>1. \A name \in {"src_mac", "dst_mac", "src_ipv4", "dst_ipv4"} : Has(t, name)
      BY <1>2, <1>8 DEF Uses
    <3> QED BY <3>1, ArpPayloadWords
  <2>3. FrameOf(r, EtherTypes.arp, ArpPayload(t))
    BY ONLY <1>4, <1>6, <2>1, <2>2, Framed
  <2>4. NetworkAccepts(r) /\ r[7] = EtherTypes.arp
    BY ONLY <1>5, <2>3 DEF NetworkAccepts, FrameOf
  <2> QED BY ONLY <1>7, <1>8, <2>4, FrameJudged
<1>9. CASE case.protocol \in {"ipv6", "icmpv6"}
  <2>1. PICK d : d = Ipv6Packet(t, case.protocol)
    OBVIOUS
  <2>2. r = m \o (<<EtherTypes.ipv6>> \o d)
    BY ONLY <1>1, <1>3, <1>7, <1>9, <2>1 DEF Packet
  <2>3. d \in Seq(Word) /\ Ipv6Accepts(d) /\ Judged(case.protocol, Ipv6Upper(d))
    BY ONLY <1>2, <1>9, <2>1, Ipv6Judged
  <2>4. FrameOf(r, EtherTypes.ipv6, d)
    BY ONLY <1>4, <1>6, <2>2, <2>3, Framed
  <2>5. r[7] = EtherTypes.ipv6 /\ Datagram(r) = d
    BY ONLY <2>4 DEF FrameOf, Datagram
  <2>6. NetworkAccepts(r)
    BY ONLY <1>5, <2>3, <2>4, <2>5 DEF NetworkAccepts, FrameOf
  <2>7. Judged(case.protocol, Upper(r))
    BY ONLY <1>5, <2>3, <2>5 DEF Upper
  <2>8. r[7] # EtherTypes.arp
    BY ONLY <1>5, <2>5
  <2> QED BY ONLY <1>7, <2>6, <2>7, <2>8, FrameJudged
<1>10. CASE case.protocol \notin {"arp", "ipv6", "icmpv6"}
  <2>1. PICK d : d = Ipv4Packet(t, case.protocol)
    OBVIOUS
  <2>2. r = m \o (<<EtherTypes.ipv4>> \o d)
    BY ONLY <1>1, <1>3, <1>7, <1>10, <2>1 DEF Packet
  <2>3. d \in Seq(Word) /\ Ipv4Accepts(d) /\ Judged(case.protocol, Ipv4Upper(d))
    BY ONLY <1>2, <1>10, <2>1, Ipv4Judged
  <2>4. FrameOf(r, EtherTypes.ipv4, d)
    BY ONLY <1>4, <1>6, <2>2, <2>3, Framed
  <2>5. r[7] = EtherTypes.ipv4 /\ Datagram(r) = d
    BY ONLY <2>4 DEF FrameOf, Datagram
  <2>6. NetworkAccepts(r)
    BY ONLY <1>5, <2>3, <2>4, <2>5 DEF NetworkAccepts, FrameOf
  <2>7. Judged(case.protocol, Upper(r))
    BY ONLY <2>3, <2>5 DEF Upper
  <2>8. r[7] # EtherTypes.arp
    BY ONLY <1>5, <2>5
  <2> QED BY ONLY <1>7, <2>6, <2>7, <2>8, FrameJudged
<1> QED BY <1>8, <1>9, <1>10

\* What went out could be built, and so could what is about to go out.
Built ==
    /\ pc \in {"write", "announce", "send"} => Buildable(Campaign[read])
    /\ \A c \in Output : Buildable(Campaign[c])

\* Only a case that can be built goes past the build.
LEMMA BuiltStep == Built /\ Place /\ [Next]_vars => Built'
<1> SUFFICES ASSUME Built, Place, [Next]_vars PROVE Built'
  OBVIOUS
<1>a. ASSUME UNCHANGED <<wire, pcap>>, pc' \notin {"write", "announce", "send"} PROVE Built'
  BY <1>a DEF Built, Output
<1>b. ASSUME pc \in {"write", "announce", "send"} PROVE read \in Cases /\ Buildable(Campaign[read])
  BY <1>b DEF Built, Place, InCase
<1>c. ASSUME pcap' \subseteq pcap \cup (IF pc = "write" THEN {read} ELSE {}),
             wire' \subseteq wire \cup {0} \cup (IF pc = "send" THEN {read} ELSE {})
      PROVE  \A c \in Output' : Buildable(Campaign[c])
  <2>1. ASSUME NEW c \in Output' PROVE c \in Output \/ (c = read /\ pc \in {"write", "send"})
    BY <1>c DEF Output
  <2> QED BY <1>b, <2>1 DEF Built
<1>1. CASE UNCHANGED vars
  BY <1>1 DEF vars, Built, Output
<1>2. CASE Start
  BY <1>2, <1>a DEF Start
<1>3. CASE OpenSocket
  BY <1>3, <1>a DEF OpenSocket
<1>4. CASE ReadCase \/ OtherShard \/ SkipForLimit \/ SkipForDisk \/ RefuseCase \/ SelectCase
  BY <1>4, <1>a DEF ReadCase, OtherShard, SkipForLimit, SkipForDisk, RefuseCase, SelectCase,
                    LoopStep, LedgerStep
<1>5. CASE StartCase \/ PcapLogged \/ SendLogged \/ WriteArtifact \/ Finish \/ Tally \/ LoopEnds
  BY <1>5, <1>a DEF StartCase, PcapLogged, SendLogged, WriteArtifact, Finish, Tally, LoopEnds,
                    LoopStep, LedgerStep
<1>6. CASE BeginReplay \/ ConcludeReplay \/ Finalize
  BY <1>6, <1>a DEF BeginReplay, ConcludeReplay, Finalize, LoopStep
<1>7. CASE BuildPacket
  BY <1>7 DEF BuildPacket, LedgerStep, LoopStep, Built, Output
<1>8. CASE AnnounceSend
  BY <1>8 DEF AnnounceSend, LedgerStep, LoopStep, Built, Output
<1>9. CASE WritePacket
  BY <1>9, <1>c DEF WritePacket, LoopStep, Built
<1>10. CASE SendPacket
  BY <1>10, <1>c DEF SendPacket, LoopStep, Built
<1>11. CASE Tcpreplay
  BY <1>11, <1>c DEF Tcpreplay, LoopStep, Built
<1>12. CASE RaisesUnguarded
  BY <1>12, <1>c DEF RaisesUnguarded, TornWire, Built
<1>13. CASE LoopRaises
  BY <1>13, <1>c DEF LoopRaises, TornWire, TornPcap, Built
<1>14. CASE Kill
  BY <1>14, <1>c DEF Kill, TornWire, TornPcap, Built
<1> QED
  BY <1>1, <1>2, <1>3, <1>4, <1>5, <1>6, <1>7, <1>8, <1>9, <1>10, <1>11, <1>12, <1>13, <1>14
     DEF Next, Stopped

\* Whatever the addresses and ports of its case, a packet that goes out or into
\* the pcap file passes every test of a receiver if it is ARP, ICMP or UDP, and
\* every test of the network layer, with its TCP or ICMPv6 checksum left zero, if
\* it is anything else.
THEOREM PacketsAreAsBuilt == Spec => []PacketsAsBuilt
<1>1. Init => Built
  BY DEF Init, Built, Output
<1>2. Built => PacketsAsBuilt
  BY PacketAsBuilt DEF Built, PacketsAsBuilt
<1>3. Inv => Place
  BY DEF Inv
<1> QED BY <1>1, <1>2, <1>3, BuiltStep, Invariance, PTL DEF Spec
=============================================================================
