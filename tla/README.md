# Verification of pangea-fuzz

TLA+ models of the core of pangea-fuzz: the loops that run a campaign of fuzz
cases against a storage target, keep books about them and clean up; the proxy
that mutates the traffic between host and target; and the way from settings and
generated campaigns over several hosts to the report. Small instances are
checked with TLC; every safety property of these runs is proved for every
instance with TLAPS.

## 1. The system

pangea-fuzz runs campaigns (a JSONL file, one case per line) in three modes. A
run reads the campaign in order, filters the cases of its shard, executes each,
writes one directory per case, and keeps run-level files beside them.

| Component | Source | State | Operations | Interacts with |
|---|---|---|---|---|
| Run context | `pangea_fuzz/runtime.py` `RunContext` | counters, verdict and skip counts, failure buckets, `fatal_stop_reason`; on disk the append-only `case-ledger.jsonl`, `events.jsonl`, `progress.json`, `run-manifest.json`, `run-summary.json`, `index.json` | `start`, `ledger`, `case_selected/started/skipped/finished`, `should_stop_for_disk`, `finalize`, artifact policy | called by the three run loops |
| Inspection, report | `runtime.py` `inspect_run`, `report.py` | none, reads what runs left | completeness rules | after, or beside, a run |
| TLS run loop | `nvmetcp_tls_fuzz/run.py` `RunOrchestrator` | loop counters, stop flag, in-flight futures | serial loop, or `ProcessPoolExecutor` with a bounded window | run context, case worker |
| TLS case worker | same file, `_run_one_case` | case directory; the host's NVMe controller | gates, keyctl, nvme discover/connect, fio or vdbench, nvme disconnect | shares one subsystem NQN with every other worker |
| KV run loop | `nvme_kv_fuzz/run.py` | loop counters, fuse, pacing mark | consent and device precheck, pacing, case, fuse | run context, executor, oracle |
| KV executor, oracle, writer | `executor_linux.py`, `oracle.py`, `artifacts.py` | case directory | nvme io-passthru with a timeout; verdict | device |
| Network runner | `pangea_fuzz/net_protocol/run.py` | raw socket, pcap writer | `generate_pcap`, `send`, `replay` | run context, packet builder |
| Packets, pcap | `packets.py`, `pcap.py` | none | build, checksum, write | network runner |
| Split proxy, fake target, PDU codec, mutation engine | `nvmetcp_tls_fuzz/` | per connection: two pipes, frame ordinals | forward, rewrite, close | each other, over sockets |
| Generators, campaigns | `case_generator.py`, `campaign.py`, `catalog.py`, `mutator.py` of the modes | the campaign file | draw the random cases, generate, write line by line | read by the run loops |
| Settings | `pangea_fuzz/config.py`, `cli.py` of the modes | none | defaults, file, command line, validation | start the run loops |
| Multi-mode report | `pangea_fuzz/report.py`, `report.py` of the modes | none | counts over a root of run directories | reads what several hosts left |
| TLS oracle, single-case runner | `nvmetcp_tls_fuzz/oracle.py`, `runner.py` | none | verdict of a trace | - |
| YAML parsers, report rendering | the rest | none | data in, data out | - |

What is hard here: results of pool workers come back in any order and in sets;
an exception in the parent leaves calls running; every counter has a copy in the
loop and one in the context; the books are several files written one after the
other, and can be interrupted between any two; a stop condition must stay in
force for the rest of the campaign; workers share a controller on the host; a
tool can time out after it has done its work; and the tools that later judge a
run (`inspect-run`, the report) see only files.

What makes each part correct:

- *run loops*: every case of the shard ends skipped or recorded, once; nothing
  starts after a stop; limit, window, pacing and fuse hold; verdicts rest on
  evidence; the summary agrees with the ledger; the run ends.
- *case worker*: no tool runs around a gate (but see `GatesHold`, section 3); IO goes over the case's own
  connection; a controller is left behind only for a cause; `summary.json`
  precedes the return.
- *inspection*: "complete" is said only of runs that lost nothing.
- *failure buckets, artifact policy*: a bucket samples the failures it should in
  whatever order they come; the evidence of a failure survives every policy.
- *packets*: lengths, and the checksums that the builder computes, are those a
  receiver computes.
- *settings*: the command line before the file before the default, where the
  documents say so; a zero is a value; what is invalid starts no run.
- *campaign*: the file holds what was asked for; the hosts that share it execute
  every case once; the reports agree with what happened.
- *split proxy*: a rule changes the frame it names and nothing else; what is
  sent is written on; the end of one stream ends the connection.

The hazards, each with its line, are in `PROJECT.json`.

## 2. Modules

| Module | Models | Actions and state |
|---|---|---|
| `CaseLifecycle` | the promise of an orchestrator, abstract | `status` per case, `run`; plan, skip, start, record, complete, break |
| `RunArtifacts` | `inspect_run`, the report's incomplete rule | operators over directories, ledger stages and files |
| `TlsRun` | `RunOrchestrator.run` (TLS) with `RunContext` | one action per step of the loop between two points where another process, an error or a kill can intervene; `CaseOpens/Concludes/Returns/Raises` for the pool's calls |
| `CaseCall` | contract of one `_run_one_case` call, abstract | open, conclude, return, raise, torn summary |
| `TlsCase` | `_run_one_case`, several side by side | one action per tool call and per way it ends; `owner` is the host's controller for the NQN |
| `KvRun` | `RunOrchestrator.run` and `_run_one_case` (KV), executor, oracle, writer | one action per step; `Torn` for operations interrupted between writes |
| `NetRun` | `NetProtocolRunner`: `generate_pcap`, `send`, `replay` | one action per write, packet and gate; `wire` and `pcap` are the output; `Torn*` for a step that an exception or a kill tears |
| `Packets` | `build_packet` of the network mode: layers, lengths, checksums; the tests of a receiver, of all layers | operators over 16-bit words |
| `Pdu` | the framing of `pdu.py`, the mutation engine of `mutator.py` | operators over byte sequences |
| `SplitProxy` | one connection: the two `_pipe` coroutines of `split_proxy.py`, the client coroutine of `fake_target.py`, rules, closes | a step is what a coroutine does between two awaits that can block, or what asyncio's transports do for it; per direction, `in` are the bytes on their way to the proxy, `reader` and `eof` the pipe's `StreamReader`, `out` the bytes written and not yet received, `writer` whether the connection they go to is open, closed with bytes left to flush, or lost |
| `ArtifactPolicy` | `_record_failure_bucket`, `apply_artifact_policy` and what it calls | cases recorded in any order, the policy case by case and file by file, broken off, run again |
| `Settings` | defaults, scalars of the file, merge, the fold of command line and file into a run's settings, validation | operators over records; `Precedence` says what the documents promise |
| `CaseGen` | the case generators and `io_passthru` argument builder, the campaign's share of random cases | operators: the set of cases a generator can return |
| `LongRun` | `generate-campaign`, a run per host, `generate-report`, on one set of files | the generator line by line, launches, a case read, opened, concluded; breaks and kills |
| `MCTlsRun`, `MCTlsCase`, `MCKvRun`, `MCNetRun`, `MCSplitProxy`, `MCArtifactPolicy`, `MCLongRun` | instances for TLC | constants only |
| `TlsRunProofs` | safety of `TlsRun`; it implements `CaseLifecycle`; its summary agrees with its ledger | |
| `TlsCaseProofs` | safety of `TlsCase`; it implements `CaseCall` | |
| `KvRunProofs`, `NetRunProofs` | safety of `KvRun` and `NetRun`; both implement `CaseLifecycle`; the packets of the second | |
| `ArtifactPolicyProofs` | the evidence of failures, the failure buckets | |
| `LongRunProofs` | the campaign file, the cases in it, the settings, the partition, the reports | |
| `SplitProxyProofs` | what is forwarded, and what comes back | |
| `Recursion` | facts about recursive functions and `FlattenSeq` that two of the others rest on | |

Composition: `TlsRun`, `KvRun` and the `send` of `NetRun` are refinements of
`CaseLifecycle` (`KeepsPromise`; `generate_pcap` is not: after a disk stop it may
start a case again behind one it skipped). `LongRun` composes `CaseGen` and
`Settings` with runs reduced to what another host or the report can see of them.
`NetRun` takes its packets from `Packets`.
`TlsRun` abstracts a case to four actions; `CaseCall` states
that abstraction per call and `TlsCase` is shown to implement it
(`KeepsContract`), so the assumption the loop makes about a case is checked
against the worker's own code. `SplitProxy` is built on `Pdu`; its specification
is one of streams: what is forwarded is the sender's stream with the rules
applied (`OnlyRulesDiffer`), and end to end the proxy and the target compose
(`EndToEnd`). `ArtifactPolicy` details the part of the run context that the loops
abstract. (`CaseCall` starts each call from a fresh
directory; `TlsRun` also covers a directory that an earlier run filled.)

How state corresponds to code, where it is not by name: `read` is `planned`,
`selected`/`executed` are the loop's counts, `stopping` is
`selected_limit_reached`, `counted`/`skips`/`fatal` are the context's,
`batch` is what is left of `done` after a `wait()`, `cur` is the case between
`case_finished` and `executed_count += 1`, `job` is the state of a call in the
pool, `aborted` is an exception on its way out. `dirs` abstracts a case
directory to how far it got; `ledger` keeps the stages appended for a case.

`X_Fault` operators marked "Seeded fault" stand beside the action `X` they
deform; nothing refers to them except the mutation table in `PROJECT.json`.

## 3. Runs

| Run | Expected | Shows |
|---|---|---|
| `tls_pool` | pass | two workers, window of two, five cases, limit four: window, books, stop, verdict evidence, completeness rule, finalize alone, termination of the run and of every call unless the main process is killed, promise |
| `tls_serial` | pass | one worker, two shards, limit two: the limit |
| `tls_rerun` | violation | a directory used twice hides a crash from `inspect-run` |
| `tls_case` | pass | all 512 configurations (engine, fio template, lifecycle, dry run, write consent, key import, discover, disconnect, 1 or 2 workers), a read and a randrw case: gates, connection lifecycle, controllers accounted for, contract |
| `tls_shared` | violation | with two workers a case is turned away by another's controller |
| `kv_run` | pass | every observation of the device, fuse at two hangs, limit three, a foreign shard case in between, leftovers, interruptions: fuse, evidence, consent, pacing, stop reasons, promise |
| `kv_summary` | violation | an exception leaves a KV run without its summary |
| `net_run` | pass | the three operations under all 288 configurations, with every write, packet and tool failing: consent for the wire, losses visible to `inspect-run`, books that match the output, packets right where they are summed, promise of `send` |
| `net_mutation` | violation | a case that asks for a wrong checksum is sent with the right one |
| `split_proxy` | pass | four frames through proxy and target under eight rule lists, with half and full closes, resets, failures and every buffer full: framing, rules, end to end, delivery, spread of a close but for two wedges |
| `campaign` | pass | three modes, campaigns of up to three cases, two hosts, some 1800 commands, a broken generator, a kill and a second launch: settings, campaign file, cases that fit their catalog, each case once, reports that agree |
| `buckets` | pass | four cases in every order, two runs into one directory, five policies, each file operation a place to stop: buckets against their definition, evidence kept |

The four violations are disagreements between the documentation and the code;
`PROJECT.json` quotes the lines.

These properties carry exceptions that are part of what they say:

- `GatesHold`: the write gate asks the case (`_is_write_case`, `run.py:708`), the
  command comes from the builder, and a `--fio-template` with an `rw` line of its
  own (`run.py:125`) writes for a case that reads, without `--allow-write`. The
  documents say that write workloads are forbidden by default (`src/README.md:269`);
  these are not. The property says that there is no other way: without consent a
  workload that writes is one of such a template, for a case that reads. Runs
  with such a template are among those of `tls_case`.
- `PacketsAsBuilt`: an ARP, ICMP or UDP packet passes every test of a receiver
  (`Accepts`; UDP over IPv4 may leave its checksum out). Every other one, TCP
  and ICMPv6, passes the tests of the network layer only: the builder leaves the
  checksum behind it zero (`packets.py:59`, `:76`), so a receiver drops it unless
  that happens to be right, and its TCP or ICMPv6 code is not reached.

- `SettingsPrecede`: an empty text counts as not given; a switch of the command
  line cannot take a setting of the file back; an empty value in the file leaves
  tools, addresses and keys at what comes behind it; and a second name of a
  setting (`tls_keyring`, `runtime`, `timeout`, `tls_key_source`) is never
  reached, because the first has a default.
- `EachCaseOnce` and `ReportsAgree` speak of hosts that started on a closed file
  (`early`), ran one shard each (`Partition`) and hold no case of another shard
  (`Stale`). Nothing in the code notices when one of these fails: the cases are
  then lost or doubled, and the model reaches such states.
- `CasesFit`: a mutation of `kv.reserved_bits`, `kv.key_not_exist` or
  `kv.exist_missing` does not reach the command, although the case must be
  rejected. The property shows that these are the only ones; that a plain
  command of a `kv.reserved_bits` case is reported when it succeeds, it excuses.
- `CloseSpreads` excepts failed coroutines and `Wedged`, see Fairness below.

And some say less than their subject could suggest. `EvidenceFirst` is about a
process that ends, not about a host that goes down: the code never calls `fsync`.
`WireConsent` judges the routes the code saw: an `ip route` that fails counts as
no default route. `OutputMatchesBooks` says nothing of the pcap file of an
interrupted run.

### Bounds

Every bound is a constant in a `.cfg`.

- `tls_pool`: five cases is one more than the limit, so the limit, a skip after
  it, a full window of two, a partial batch and the drain loop all happen; two
  workers and a window of two (`InflightPerWorker = 1`) make the window fill and
  batches of one and two appear. The code's factor of four is covered by the
  proofs, where the constant is arbitrary.
- `tls_serial`: six cases, three of the shard, two of them within the limit. The
  promise of the serial loop is not run here: `RunKeepsPromise` holds for one worker too.
- `tls_case`: two cases suffice for the interference of one controller; one of
  them writes.
- `kv_run`: four cases of the shard and one foreign case that lies between two
  of them; a fuse of two and a limit of three, so either can come first;
  interval two and durations 0 and 1 so that pacing sometimes waits.
- `net_run`: six cases, five of the shard, one of them disruptive and in the
  middle, so that packets are out before it is refused, and the last one with a
  port that does not fit, which cannot be built; a limit of three is
  reached with two cases left; two interfaces and no interface, with and without
  an allowlist.

  `Packets` uses addresses near the top of their range, for which the checksum's
  carry carries a second time.
- `campaign`: two hosts are the fewest that can share a campaign; three cases
  give one of them two; shares of 2.7, 0.6 and half a case meet every branch of
  the rounding; jobs of zero cases and of a ratio above one are refused or fail.
  Each command sets one thing (every option and every key of the file with each
  kind of word) and is tried at the first launch of host 1; the others get shards.
  The catalogs are rows of the shipped ones, one per kind of strategy and per
  place of a command that a field can go to, with values narrowed to three bits:
  the properties compare places and membership, not sizes. 3.2 million states.
- `split_proxy`: the common header is scaled to three bytes, the type and a
  length of two bytes, so that every mutation of the engine (bit flip, byte swap,
  value and byte overwrite, with truncation of values that do not fit) applies
  to one of its fields; two bytes of length keep byte order observable. Four
  requests: one answered with ICResp, one with a capsule, one whose length is
  below the header size, and one of five bytes that is more than what is free.
  Sockets hold two bytes (`SocketRoom`), a transport two more before `drain()`
  blocks (`HighWater`), and a reader stops receiving once it holds anything
  (`ReadLimit = 0`). Both wedges happen within these bounds; without the fourth request
  the one with the gone host does not, as both directions must be full. The rule lists rewrite types,
  shorten and lengthen frames, write past the end of a frame, apply two rules to
  one frame, and raise.
- `buckets`: two buckets, one of two failures and one of one, so that sampling
  by the first and by every n-th differ and the order matters; two runs, so that
  leftovers of the first (a compressed log) meet the second; policies that
  sample none, compress, keep or drop each kind of file, or are disabled.

Verdicts of TLS cases are two values: the loop only counts them.

### Fairness

Two runs use fairness (`FairSpec`). `tls_pool` does for `Termination`, which
says that the run ends and that every call handed to the pool is run to its end,
unless the main process is killed first. The main process is weakly fair: it is
sequential Python code and blocks only in `wait()` and in leaving the pool. While
it lives, an idle worker takes the next queued call. When it is killed nothing is
promised: the queued calls are in its memory, and its executor's thread feeds at
most one more than there are workers to the queue they read. These may still be
taken, the others are lost (`Fed`, `Kill`); a call that a worker has taken goes on.
A call makes progress because each tool it starts has a
`timeout=` (`run.py:473`, `_run_nvme_step`, `_import_tls_key`); this relies on
a killed child being reaped, which a process stuck in an uninterruptible system
call would break - the code has no answer to that, and the property says nothing
of it. Failures and the kill are never fair.

`split_proxy` does for `Delivery` and `CloseSpreads`: the asyncio event loop
serves its sockets (weak fairness of `Receive` and `Flush`) and resumes a
coroutine whose await is over (of each pipe, of the target's coroutine and of
the outgoing connection), and a host that has not closed reads what it is sent.
Sending, closing, resets and the collection of abandoned connections are not
fair. `Delivery` is about what the pipes have written (`forwarded`): every
request, rewritten, and the rewritten answer to each, so a pipe that reads a frame
and drops it breaks it.

`CloseSpreads` names one exception that is not a failed coroutine, `Wedged`. The
target waits in `drain()` for its answers to be read, and so does not read. In one
form the host has gone, the pipe towards it has ended, and the other pipe waits
in `drain()` for the target. In the other the pipe towards the target has ended
and closed its writer; that stops the reading of the target's answers at once
(`split_proxy.py:75`), while the connection is closed only when the bytes still
held back are out, and the pipe waits for that in `wait_closed()` (`:76`). Both
are reachable.

## 4. Proofs

Each proof module carries one inductive invariant, some a second: one lemma per
action (or per conjunct and action) shows that it is preserved, and the theorems
combine them with PTL. Each invariant was first checked with TLC on the instances
above. Every invariant of a run is stated by one of these theorems, and so are
`StopHonoured`, `KeepsPromise`, `KeepsContract` and the other properties of steps;
what is left to TLC is named below.

| Module | Theorem: property |
|---|---|
| `TlsRunProofs` | `TypeCorrect`: `TypeOK`; `WindowBounded`: `InflightBounded`; `NothingForgotten`: `NoCaseForgotten`; `VerdictsBacked`: `VerdictBacked`; `StopsHonoured`: `StopHonoured`; `LimitHolds`: `LimitRespected`; `CompleteRan`: `CompleteMeansRan`; `FinalizesAlone`: `FinalizeAlone`; `RunKeepsPromise`: `KeepsPromise`; `SummaryIsFaithful`: `SummaryFaithful` |
| `TlsCaseProofs` | `TypeCorrect`: `TypeOK`; `Gates`: `GatesHold`; `Owned`: `OwnConnection`; `Controllers`: `ControllersAccounted`; `CallsKeepContract`: `KeepsContract` |
| `KvRunProofs` | `TypeCorrect`: `TypeOK`; `FuseIsFinal`: `FuseHolds`; `EvidenceIsFirst`: `EvidenceFirst`; `ConsentIsFirst`: `ConsentFirst`; `IsPaced`: `Paced`; `StopIsExplained`: `StopExplained`; `RunKeepsPromise`: `KeepsPromise` |
| `NetRunProofs` | `TypeCorrect`: `TypeOK`; `WireNeedsConsent`: `WireConsent`; `LossesShow`: `LossShows`; `BooksMatchOutput`: `OutputMatchesBooks`; `SendKeepsPromise`: `KeepsPromise`; `PacketsAreAsBuilt`: `PacketsAsBuilt` |
| `SplitProxyProofs` | `OnlyTheRulesDiffer`: `OnlyRulesDiffer`; `EndToEndHolds`: `EndToEnd` |
| `ArtifactPolicyProofs` | `EvidenceSurvives`: `EvidenceKept`; `BucketsAreFaithful`: `BucketsFaithful` |
| `LongRunProofs` | `CampaignsAreExact`: `CampaignExact`; `GeneratedCasesFit`: `CasesFit`; `SettingsComeInOrder`: `SettingsPrecede`; `CasesExecutedOnce`: `EachCaseOnce`; `ReportsTellTheTruth`: `ReportsAgree` |

### Assumptions

They hold for every value of the constants that satisfies the assumptions of the
modules, each of which is something the code checks or produces:

- `TlsRun`, `KvRun`: shard and worker counts as `RunConfig.__post_init__`
  enforces them; any limit in `TlsRun` (it is not validated there), a positive
  one in `KvRun`; a positive pacing interval (`validate_config`).
- `TlsCase`: a finite set of calls; configurations that pass `__post_init__`.
- `NetRun`: any shard index and any limit, which this mode does not validate;
  `NetCampaignAssumption`: a case on `arp.sender_mac` or `arp.target_ip` is an
  arp case, as the generator takes the protocol from the field's catalog row
  (`net_field_catalog.yaml:14-15`). It is used once, for the clause of
  `WireConsent` on the opt-in fields: `Disruptive` looks at the field of some
  cases and at the protocol of others, so without it an ARP field on a case of
  another protocol would pass. `TypeOK` and `OutputMatchesBooks` do not use it.
- `ArtifactPolicy`: nothing but the types of the policies.
- `NetTargetAssumption`, for `PacketsAsBuilt` alone: the hardware addresses of a
  case have six octets. `default_target` writes them so; of all the parts of a
  target, these are the one that `build_packet` does not check (`_mac`,
  `packets.py:79`), and a packet with another length has its layers in the wrong
  place. An address or a port that is none raises (`Buildable`), which is part of
  the model.
- `SplitProxy`: the host sends whole frames, one per request, of any number,
  length and content; `RulesAssumption` gives a rule its type (a direction, an
  ordinal, a mutation as `Mutation` declares it), of any path, value and order.
  The answers of the target are frames of any length.
- `LongRun`: a finite, non-empty set of hosts; integer counts. `CasesFit` and
  `CampaignExact` use what the shipped catalogs have in common:
  `TlsCatalogAssumption`, no TLS row lists `random_value` itself or must be
  accepted, and bit widths are numbers (`field_catalog.yaml`);
  `KvCatalogAssumption`, a row under a strategy that must be rejected names only
  values that a plain command does not have in the word it goes to, but for the
  three fields that go nowhere (`kv_field_catalog.yaml`, with the key prefix of
  the defaults). With a row that breaks
  the second, a case would expect a rejection of a command that is plain.
- `Settings`: `NumeralAssumption`, the words that stand for a number stand for no
  other scalar.

### Arguments

*`TlsRun`.* None of its properties is inductive. The invariant adds to `TypeOK`:
`Control`, what each program point implies about the batch, the case at hand and
the pool (a serial run has nothing in flight; nothing runs after the pool was
left); `Evidence`, a call that returned has its verdict, a verdict its
`summary.json`, and a recorded case has returned; `Window`, the strict bound at
the points from which a submit is reachable; `Stops`, a skipped case implies that
the stop flag is up; `DiskBooks`, until an exception the stop reason and the skip
counter move together; `Accounted`, where every started case is; `LimitBooks`,
while the flag is down the limit has room. For the refinement, `Unrecorded` says
that a call is announced before it is made and recorded at most once, and
`Decided` that until an exception every case read is started or skipped when it
is of the shard. For the summary, `Tallies` follows the three counters that are
kept apart: at "record" the verdict counts are one ahead of the ledger
(`OneAhead`), at "tally" the executed count is one behind (`OneBehind`),
elsewhere they agree, and an exception freezes the difference of at most one.

*`TlsCase`.* The invariant is per case: `Progress` ties the place of a call to the
tools it has run and their results, `Possession` ties it to the controller - a
case past its connect that still holds it is `owner`, and an `owner` that is
through has a failed connect or disconnect behind it. `Crowd` bounds the calls
at work by the workers, and `Turned`, for one worker, gives a refused connect its
cause. `CallsKeepContract` maps each step to one of `CaseCall` or to a stutter.

*`KvRun`.* `Place` and `Counts` fix what the case at hand has in its ledger and
what the counters count; `Clock` carries the pacing mark; `EvidenceFirst` and
`Consent` are inductive with them. The fuse is the hard part: `Fuse` says that
the counter of hangs is the length of the streak of hangs at the end of the
recorded cases of the shard (`Streak`), so a streak of the configured length
always meets a blown fuse. `Outcomes` says what happened to every case read so
far, which gives `StopExplained` and the refinement.

*`SplitProxy`.* A stream is compared with its frames, so the first half of the
proof is about these. `Frames`, the parser, is a recursive function over byte
sequences; `Recursion` shows that its equation has a solution, a call being made
on a shorter stream, which allows to unfold it. From there: the frames of whole
frames followed by something are those frames followed by its frames
(`FramesConcat`), so more input only adds to what the rules make of a stream
(`StreamBegins`), by one rewritten frame for one frame (`StreamNext`), and the
answers of the target compose likewise (`AnswersNext`). `OnlyRulesDiffer` alone
is not inductive, as it says nothing of where a pipe is in its stream. `Carried`
does: for each direction there are whole frames, as many as the pipe's ordinal,
such that what was forwarded is what the rules make of them, and until the
connection ends they and the bytes on their way are all that was sent. `Served`
is its counterpart for the target: the frames it has answered, followed by its
buffer and what is on its way to it, are what was forwarded to it. Both are
worded for a stream that may have lost its tail, so most steps are covered by one
lemma (`AgeingKeeps`): they shorten or end something and leave the books alone.
What a rule does when it raises, in the middle of several for one frame, is in
`Passed`: the frames before the first on which one raises. A rewritten length can
cost the target its framing; nothing in the proof needs the forwarded stream to
be whole. `Carried` and `Served` were run through TLC with a witness for the
frames.

*`NetRun`.* `Admission` keeps the answers of the gates; `Announced` and `Books`
tie the wire and the pcap file to the ledger at every place between a packet and
its verdict; `Outcomes` is as for `KvRun`.
For the packets, the loop of `_checksum` has a closed form: adding the carries
until there are none leaves a number in 1..65535 that differs from the sum by a
multiple of 65535, unless the sum is zero (`CarriedIs`, `CarryIsWord`). So words
that hold their own checksum sum up to a multiple of 65535 that is not zero, and a
receiver's test passes (`ChecksumVerifies`), whatever the addresses; the headers
begin with a word that is not zero. For TCP and ICMPv6 nothing is to be summed: the
theorem says that their checksum words are zero. That a packet on the wire was built before,
also when the step was torn, is an invariant of its own (`Built`).

*`ArtifactPolicy`.* The step that removes a log relies on the compressed one
having been written in this visit from the whole log of the last run
(`Compressing`), and on the policy visiting only cases that ran (`Visits`).
A bucket is described by positions in the sequence of recorded cases: a failure
adds the last position of its bucket, whose rank is the new count, and the ranks
of the earlier ones stay, so the sample grows by it exactly if its rank is one the
policy asks for.

*`LongRun`.* Per host, `Covered` says that a run has the summaries of all cases of
its shard behind its position, `InFile` that no case directory lies beyond the
file, `Reported` what a run summary was written from; `Steady` that a host which
started on the closed file sees it unchanged. That the hosts together execute
each case exactly once is then counted: with as many hosts as shards, a
partition is a surjection onto the residues between sets of the same size, hence
an injection, so a residue has one host. `ReportsAgree` follows by an injection
from the summaries into the lines of the file: were a case lost, it would miss
one line, and the rate would be below one. `CasesFit` goes by the generator: a case
in hand is one the generator can return for the state of its random budget
(`GeneratedCases`), and each of these fits. `SettingsPrecede` is no matter of
histories: it follows setting by setting, by the six kinds of settings, from how
defaults, file and command line are folded.

### Only model-checked

- Liveness (`Termination`, `Delivery`, `CloseSpreads`): the proof system has no
  rule for `ENABLED`.
- The four violations, which are runs of the model by nature.
- `TypeOK` of the modules that have none is a part of the inductive invariant of
  their proof (`Types`, `Booked`, `Typed`); their other invariants fail first.

Induction over data is proved where it is needed, without the library's theorems
that take an operator as a parameter: `Recursion` states induction over numbers
for a set (`InductionOnNat`), and that a recursion whose calls are of smaller
measure has a solution for functions that give base, step and argument
(`RecursionByMeasure`). The folds of the library are unfolded to the function they
choose (`SumIterates`, `RewritingIterates`, `Flattening`).

## 5. Not modelled, and why

- YAML parsers, character by character: what a scalar becomes is in `Settings`,
  the rest is layout. Parsing of the catalogs.
- Seeds of the generators: the pseudo-random choice is free, so reproducibility
  is not stated; original values of a mutated field.
- Report rendering, coverage tables, failure lists, `pack-repro`: formatting and
  file copying. `replay` and `minimize` of a single case run what is modelled.
- Command lines of the tools: abstracted to whether they write to the device
  (a fio template to whether it follows the case, reads or writes), but for the
  `io-passthru` arguments, which `CaseGen` builds.
- Lists in the settings (extra arguments, allowed interfaces).
- `progress.json`, the manifest, the artifact index and the budget figures:
  reports of values the models hold. `max_total_gb` is one of them: it only
  warns (`runtime.py:268`).
- The TLS oracle (`oracle.py`), a pure function that only the `analyze` command
  calls on files given by hand, and the single-case runner, which writes one
  directory and has no caller beside the tests' examples.
- `FAIL_CLEANUP` of the KV oracle never arises in a run: no caller passes it the
  controller lists (`nvme_kv_fuzz/oracle.py:64`).
- Of the network runner, `packet-trace.jsonl` and the pause between two packets:
  the code reads neither back. A `tcpreplay` that hangs blocks the run for good
  (`run.py:182` has no timeout), so no liveness of `replay` is stated.
- The device's identity between precheck and commands (`nvme_kv_fuzz/run.py:66`):
  the code looks once, and the model has one device.
- TLS below the split proxy, and more than one of its connections: they share
  nothing but the rules.
- Torn lines inside a file: a ledger entry is appended whole or not at all
  (`inspect_run` skips a line it cannot parse, so a torn entry counts as absent).
- Two runs writing into one directory at the same time.

## 6. Plan

Done: the run loops (`TlsRun`, `KvRun`, `NetRun`), the case calls (`TlsCase`), the
completeness rule, the failure buckets and the artifact policy, packets, the
split proxy, settings, generators, the sharded campaign and its reports: checked,
and their safety proved.

What could follow:

1. `SplitProxy`: an abstract link that carries frames, as a specification the
   proxy implements, from `Carried`.
2. Type correctness of the modules that keep it inside their invariant, as
   theorems of their own.
3. The TLS oracle as a decision list against the verdict table of the documents,
   should a caller come to rely on it.
