------------------------------- MODULE NetRun -------------------------------
(***************************************************************************)
(* The network protocol runner, NetProtocolRunner of                       *)
(* pangea_fuzz/net_protocol/run.py: generate_pcap writes the packets of a  *)
(* campaign into a file, send puts them on an interface, replay hands a    *)
(* pcap file to tcpreplay under one pseudo case (number 0 here).  The      *)
(* three share the run context, one process, and its files.  Building a    *)
(* packet can fail, and so can every write; the wire and the routing table *)
(* are external.                                                           *)
(***************************************************************************)
EXTENDS Integers, FiniteSets, RunArtifacts, Packets

CONSTANTS
    NCases,                 \* lines of the campaign file
    CaseIndex,              \* position -> campaign_index, all different
    Campaign,               \* position -> the case: protocol, field, strategy, target
    ShardCount, ShardIndex,
    Limit, NoLimit,
    DefaultRoutes,          \* interfaces that own a default route
    Configs                 \* records of op, dry_run, allow_send, allow_disruptive,
                            \* iface, iface_allowlist, forbid_default_route_iface

Cases == 1..NCases
Entries == 0..NCases

ASSUME NetAssumption ==
    /\ NCases \in Nat /\ CaseIndex \in [Cases -> Nat]
    /\ ShardCount \in Nat \ {0} /\ ShardIndex \in Nat
    /\ NoLimit \notin Int /\ Limit \in Int \cup {NoLimit}

\* generate gives a case the protocol of its field; the catalog lists these two
\* under arp.
ASSUME NetCampaignAssumption ==
    \A c \in Cases :
       Campaign[c].field \in {"arp.sender_mac", "arp.target_ip"} => Campaign[c].protocol = "arp"

\* A hardware address is the one part of a target that build_packet does not
\* check: _mac takes as many octets as it is given.  default_target writes six.
ASSUME NetTargetAssumption ==
    \A c \in Cases : \A name \in {"src_mac", "dst_mac"} :
       Full(Campaign[c].target)[name] \in TargetTypes[name]

VARIABLES
    config,         \* NetRunConfig and the operation
    pc,             \* where the operation is
    aborted,        \* an exception is on its way to the finally clause
    routes,         \* what _default_route_ifaces returned
    read, selected,
    wire,           \* entries whose packets went out
    pcap,           \* cases whose packet is in packets.pcap
    dirs,           \* entry -> case directory (see RunArtifacts)
    ledger,         \* entry -> stages appended
    fatal,          \* fatal_stop_reason
    files           \* run-level files

vars == <<config, pc, aborted, routes, read, selected, wire, pcap, dirs, ledger, fatal, files>>

Ended == {"done", "failed", "killed"}
Stages == {"planned", "skipped", "selected", "started", "packet_built", "pcap_written",
           "send_started", "send_finished", "replay_started", "replay_finished",
           "artifact_finalized", "verdict_finalized"}
Loop == {"read", "decide", "start", "build", "write", "logged", "announce", "send",
         "sent", "artifact", "summary", "record", "verdict", "tally"}

\* _is_disruptive
Disruptive(case) ==
    \/ case.protocol \in {"arp", "icmpv6"}
    \/ case.field \in {"tcp.flags", "icmpv6.nd_ra_ns_na"}
    \/ case.strategy \in {"sequence_error", "conflict_mapping"}

Live == config.op # "pcap" /\ ~config.dry_run
InShard(c) == CaseIndex[c] % ShardCount = ShardIndex
LimitReached == Limit # NoLimit /\ selected >= Limit
Log(e, stages) == ledger' = [ledger EXCEPT ![e] = @ \cup stages]

\* What may have happened of the step in hand when the run is torn away.
TornWire ==
    wire' \in {wire} \cup (CASE pc = "send" -> {wire \cup {read}}
                             [] pc = "tcpreplay" /\ Live -> {wire \cup {0}}
                             [] OTHER -> {})
TornDirs ==
    dirs' \in {dirs} \cup (IF pc = "replayed"
                           THEN {[dirs EXCEPT ![0] = d] : d \in {"yaml", "summary"}} ELSE {})

\* The pcap file is buffered: all that was written after some packet is lost
\* when the process is killed, or when the flush on closing it fails.
TornPcap ==
    \E last \in Entries :
       pcap' = {c \in pcap \cup (IF pc = "write" THEN {read} ELSE {}) : c <= last}

Init ==
    /\ config \in Configs
    /\ pc = "gate" /\ aborted = FALSE /\ routes = {}
    /\ read = 0 /\ selected = 0
    /\ wire = {} /\ pcap = {}
    /\ dirs = [e \in Entries |-> "none"]
    /\ ledger = [e \in Entries |-> {}]
    /\ fatal = "none" /\ files = {}
-----------------------------------------------------------------------------
(* Before the loop *)

\* The tests of send in their order; generate_pcap has none, and replay only
\* asks for consent.
Admitted(seen) ==
    /\ Live => config.allow_send
    /\ config.op = "send" =>
         /\ config.iface # ""
         /\ Live => /\ config.iface_allowlist # {} => config.iface \in config.iface_allowlist
                    /\ config.forbid_default_route_iface => config.iface \notin seen

\* What _default_route_ifaces returns: nothing when ip route cannot be run.
RouteAnswers == {DefaultRoutes, {}}

Start ==
    /\ pc = "gate"
    /\ IF config.op = "send" /\ Live THEN routes' \in RouteAnswers ELSE routes' = {}
    /\ IF Admitted(routes')
       THEN /\ files' = {"run-manifest.json"}
            /\ pc' = CASE config.op = "replay" -> "replay"
                       [] config.op = "send" /\ Live -> "socket"
                       [] OTHER -> "read"
       ELSE pc' = "failed" /\ UNCHANGED files
    /\ UNCHANGED <<config, aborted, read, selected, wire, pcap, dirs, ledger, fatal>>

OpenSocket ==
    /\ pc = "socket"
    /\ pc' = "read"
    /\ UNCHANGED <<config, aborted, routes, read, selected, wire, pcap, dirs, ledger,
                   fatal, files>>
-----------------------------------------------------------------------------
(* The loop of generate_pcap and send *)

LoopStep(from, to) ==
    /\ pc = from
    /\ pc' = to
    /\ UNCHANGED <<config, aborted, routes, files>>

\* A ledger entry of its own.
LedgerStep(from, e, stage, to) ==
    /\ LoopStep(from, to)
    /\ Log(e, {stage})
    /\ UNCHANGED <<read, selected, wire, pcap, dirs, fatal>>

ReadCase ==
    /\ read < NCases
    /\ LoopStep("read", "decide")
    /\ read' = read + 1
    /\ Log(read + 1, {"planned"})
    /\ UNCHANGED <<selected, wire, pcap, dirs, fatal>>

OtherShard ==
    /\ LoopStep("decide", "read")
    /\ ~InShard(read)
    /\ UNCHANGED <<read, selected, wire, pcap, dirs, ledger, fatal>>

SkipForLimit ==
    /\ pc = "decide" /\ InShard(read) /\ LimitReached
    /\ LedgerStep("decide", read, "skipped", "read")

\* Seeded fault: the skip reason is stored as the stop reason.
SkipForDisk_Reason ==
    /\ pc = "decide" /\ config.op = "pcap" /\ InShard(read) /\ ~LimitReached
    /\ LoopStep("decide", "read")
    /\ fatal' = "disk budget exhausted"
    /\ Log(read, {"skipped"})
    /\ UNCHANGED <<read, selected, wire, pcap, dirs>>

\* Only generate_pcap looks at the disk, for every case anew.
SkipForDisk ==
    /\ pc = "decide" /\ config.op = "pcap" /\ InShard(read) /\ ~LimitReached
    /\ LoopStep("decide", "read")
    /\ fatal' = "disk_budget_exhausted"
    /\ Log(read, {"skipped"})
    /\ UNCHANGED <<read, selected, wire, pcap, dirs>>

\* Seeded fault: send does not look at the kind of case.
NeedsConsent_Ignored(c) == FALSE
NeedsConsent(c) == Live /\ Disruptive(Campaign[c]) /\ ~config.allow_disruptive

\* Seeded fault: a refused case is passed over silently.
RefuseCase_PassesOver ==
    /\ pc = "decide" /\ InShard(read) /\ ~LimitReached /\ NeedsConsent(read)
    /\ LoopStep("decide", "read")
    /\ UNCHANGED <<read, selected, wire, pcap, dirs, ledger, fatal>>

\* send raises PermissionError in the middle of the campaign.
RefuseCase ==
    /\ pc = "decide" /\ InShard(read) /\ ~LimitReached /\ NeedsConsent(read)
    /\ aborted' = TRUE
    /\ pc' = "finalize"
    /\ UNCHANGED <<config, routes, read, selected, wire, pcap, dirs, ledger, fatal, files>>

SelectCase ==
    /\ pc = "decide" /\ InShard(read) /\ ~LimitReached /\ ~NeedsConsent(read)
    /\ LedgerStep("decide", read, "selected", "start")

\* Seeded fault: the run loop does not call case_started.
StartCase_Unlogged ==
    /\ LoopStep("start", "build")
    /\ UNCHANGED <<read, selected, wire, pcap, dirs, ledger, fatal>>

StartCase == LedgerStep("start", read, "started", "build")

\* build_packet (see Packets; LoopRaises if it raises), then packet_built.
BuildPacket ==
    /\ LedgerStep("build", read, "packet_built",
           CASE config.op = "pcap" -> "write" [] Live -> "announce" [] OTHER -> "artifact")
    /\ Buildable(Campaign[read])

\* Seeded fault: a dry run leaves the pcap file alone.
WritePacket_NotDry ==
    /\ LoopStep("write", "logged")
    /\ pcap' = IF config.dry_run THEN pcap ELSE pcap \cup {read}
    /\ UNCHANGED <<read, selected, wire, dirs, ledger, fatal>>

WritePacket ==
    /\ LoopStep("write", "logged")
    /\ pcap' = pcap \cup {read}
    /\ UNCHANGED <<read, selected, wire, dirs, ledger, fatal>>

PcapLogged == LedgerStep("logged", read, "pcap_written", "artifact")

AnnounceSend == LedgerStep("announce", read, "send_started", "send")

SendPacket ==
    /\ LoopStep("send", "sent")
    /\ wire' = wire \cup {read}
    /\ UNCHANGED <<read, selected, pcap, dirs, ledger, fatal>>

SendLogged == LedgerStep("sent", read, "send_finished", "artifact")

\* _write_case_artifact: case.yaml, the packet, then summary.json.
WriteArtifact ==
    /\ \E step \in {<<"artifact", "summary", "yaml">>, <<"summary", "record", "summary">>} :
          LoopStep(step[1], step[2]) /\ dirs' = [dirs EXCEPT ![read] = step[3]]
    /\ UNCHANGED <<read, selected, wire, pcap, ledger, fatal>>

\* case_finished
Finish ==
    \/ LedgerStep("record", read, "artifact_finalized", "verdict")
    \/ LedgerStep("verdict", read, "verdict_finalized", "tally")

Tally ==
    /\ LoopStep("tally", "read")
    /\ selected' = selected + 1
    /\ UNCHANGED <<read, wire, pcap, dirs, ledger, fatal>>

LoopEnds ==
    /\ read = NCases
    /\ LoopStep("read", "finalize")
    /\ UNCHANGED <<read, selected, wire, pcap, dirs, ledger, fatal>>

\* A line that does not parse, a packet that cannot be built, a write that
\* fails, a send the kernel refuses: the finally clause finalizes all the same.
LoopRaises ==
    /\ pc \in Loop
    /\ aborted' = TRUE
    /\ pc' = "finalize"
    /\ TornWire /\ TornPcap
    /\ UNCHANGED <<config, routes, read, selected, dirs, ledger, fatal, files>>
-----------------------------------------------------------------------------
(* replay *)

BeginReplay ==
    /\ LoopStep("replay", "tcpreplay")
    /\ Log(0, {"selected", "started", "replay_started"})
    /\ UNCHANGED <<read, selected, wire, pcap, dirs, fatal>>

\* tcpreplay runs without a timeout; its exit code only names the verdict.
Tcpreplay ==
    /\ LoopStep("tcpreplay", "replayed")
    /\ wire' = IF Live THEN wire \cup {0} ELSE wire
    /\ UNCHANGED <<read, selected, pcap, dirs, ledger, fatal>>

ConcludeReplay ==
    /\ LoopStep("replayed", "finalize")
    /\ dirs' = [dirs EXCEPT ![0] = "summary"]
    /\ Log(0, {"replay_finished", "artifact_finalized", "verdict_finalized"})
    /\ UNCHANGED <<read, selected, wire, pcap, fatal>>

\* Before the try statement of the loop, and everywhere in replay, an
\* exception ends the run without its summary.
RaisesUnguarded ==
    /\ pc \in {"gate", "socket", "replay", "tcpreplay", "replayed"}
    /\ pc' = "failed"
    /\ TornWire /\ TornDirs
    /\ UNCHANGED <<config, aborted, routes, read, selected, pcap, ledger, fatal, files>>
-----------------------------------------------------------------------------
Finalize ==
    /\ pc = "finalize"
    /\ \/ /\ files' = files \cup {"run-summary.json", "index.json"}
          /\ pc' = IF aborted THEN "failed" ELSE "done"
       \/ /\ files' \in {files, files \cup {"run-summary.json"}}   \* a write of it fails
          /\ pc' = "failed"
    /\ UNCHANGED <<config, aborted, routes, read, selected, wire, pcap, dirs, ledger, fatal>>

Kill ==
    /\ pc \notin Ended
    /\ pc' = "killed"
    /\ TornWire /\ TornDirs /\ TornPcap
    /\ UNCHANGED <<config, aborted, routes, read, selected, ledger, fatal, files>>

Stopped == pc \in Ended /\ UNCHANGED vars

Next ==
    \/ Start \/ OpenSocket
    \/ ReadCase \/ OtherShard \/ SkipForLimit \/ SkipForDisk \/ RefuseCase \/ SelectCase
    \/ StartCase \/ BuildPacket \/ WritePacket \/ PcapLogged
    \/ AnnounceSend \/ SendPacket \/ SendLogged
    \/ WriteArtifact \/ Finish \/ Tally \/ LoopEnds \/ LoopRaises
    \/ BeginReplay \/ Tcpreplay \/ ConcludeReplay \/ RaisesUnguarded
    \/ Finalize \/ Kill \/ Stopped

Spec == Init /\ [][Next]_vars
-----------------------------------------------------------------------------
TypeOK ==
    /\ config \in Configs
    /\ pc \in Loop \cup Ended \cup {"gate", "socket", "replay", "tcpreplay", "replayed", "finalize"}
    /\ aborted \in BOOLEAN /\ routes \subseteq DefaultRoutes
    /\ read \in Entries /\ selected \in Entries
    /\ wire \subseteq Entries /\ pcap \subseteq Cases
    /\ dirs \in [Entries -> DirStates]
    /\ ledger \in [Entries -> SUBSET Stages]
    /\ fatal \in {"none", "disk_budget_exhausted"}
    /\ files \subseteq RunFiles

Recorded == {e \in Entries : "verdict_finalized" \in ledger[e]}

\* The fields net_field_catalog.yaml marks disruptive_requires_opt_in.
OptInFields == {"arp.sender_mac", "arp.target_ip", "icmpv6.nd_ra_ns_na", "tcp.flags"}

\* Nothing goes out in a dry run or without --allow-send.  send keeps to the
\* shard, the limit, the allowed interfaces, and announces every packet in the
\* ledger first; a case on a field the catalog marks as disruptive never goes
\* out without its own consent, whatever went out before it.
WireConsent ==
    /\ wire # {} => Live /\ config.allow_send
    /\ config.op = "send" /\ wire # {} =>
         /\ \A c \in wire : /\ InShard(c) /\ "send_started" \in ledger[c]
                            /\ Campaign[c].field \in OptInFields => config.allow_disruptive
         /\ Limit # NoLimit => Cardinality(wire) <= Limit
         /\ config.iface \in config.iface_allowlist \/ config.iface_allowlist = {}
         /\ config.iface \notin routes \/ ~config.forbid_default_route_iface

\* The packets that went out or into the pcap file.
Output == pcap \cup (wire \ {0})

\* A receiver takes every ARP, ICMP and UDP packet: the lengths, the IPv4 header
\* checksum and the ICMP checksum are right, also when the target takes the sums
\* to their limits and the mutation of the case asks for a wrong length or
\* checksum, since build_packet does not look at it.  Every other packet gets
\* past the network layer, and no further unless by chance: the checksum of its
\* TCP segment or ICMPv6 message is left zero.
Summed == {"arp", "icmp", "udp"}
AsBuilt(case) ==
    LET packet == Packet(case)
    IN  IF case.protocol \in Summed
        THEN Accepts(packet)
        ELSE NetworkAccepts(packet) /\ Unsummed(Upper(packet))
PacketsAsBuilt == \A c \in Output : AsBuilt(Campaign[c])

\* The packet of a checksum_error case has a wrong checksum, where the packet of
\* the same case without its mutation has a right one
\* (net_field_catalog.yaml: ipv4.header_checksum, strategies checksum_error).
MutationReachesPacket ==
    \A c \in Output : Campaign[c].strategy = "checksum_error" => ~AsBuilt(Campaign[c])

\* Whatever interrupts a run into a fresh directory, inspect-run calls it
\* complete only when every packet that went out is recorded with a verdict.
LossShows ==
    InspectComplete(files, dirs, ledger) => wire \subseteq Recorded

\* The books and the output agree.  A pcap run that ends normally recorded a
\* verdict for the packets of its file and no others; of a send that was not
\* killed, the verdicts are those of the packets on the wire, but for the one
\* in hand when an exception struck.
OutputMatchesBooks ==
    /\ config.op = "pcap" /\ pc = "done" => pcap = Recorded
    /\ config.op = "send" /\ Live /\ pc \in {"done", "failed"} =>
         /\ Recorded \subseteq wire /\ Cardinality(wire \ Recorded) <= 1
         /\ pc = "done" => wire = Recorded

StatusOf(c) ==
    CASE config.op # "send" \/ ledger[c] = {} -> "unread"
      [] config.op = "send" /\ "verdict_finalized" \in ledger[c] -> "recorded"
      [] config.op = "send" /\ "skipped" \in ledger[c]
           /\ "verdict_finalized" \notin ledger[c] -> "skipped"
      [] config.op = "send" /\ "started" \in ledger[c]
           /\ ledger[c] \cap {"skipped", "verdict_finalized"} = {} -> "started"
      [] OTHER -> "planned"

Promise == INSTANCE CaseLifecycle
           WITH status <- [c \in Cases |-> StatusOf(c)],
                run <- CASE config.op # "send" \/ pc \notin Ended -> "open"
                         [] config.op = "send" /\ pc = "done" -> "complete"
                         [] OTHER -> "broken",
                Mine <- {c \in Cases : InShard(c)}

\* send keeps the promise every orchestrator makes.  (generate_pcap does not: it
\* may start a case again behind one it skipped for the disk.)
KeepsPromise == Promise!PromiseSpec
=============================================================================
