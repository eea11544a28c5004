--------------------------- MODULE ArtifactPolicy ---------------------------
(***************************************************************************)
(* The failure buckets a run keeps while cases are recorded, and what its  *)
(* artifact policy does to the case directories when it is finalized       *)
(* (pangea_fuzz/runtime.py: _record_failure_bucket, apply_artifact_policy, *)
(* _trim_pass_case, _apply_fail_bucket_policy).  Cases are recorded in any *)
(* order, the policy can be interrupted between two file operations, and a *)
(* later run can use the directory again.  A case has one log, one payload *)
(* and one capture file.                                                   *)
(***************************************************************************)
EXTENDS Integers, Sequences, FiniteSets, SequencesExt

CONSTANTS
    Cases,
    BucketKey,      \* case -> its bucket, or NoBucket for a PASS_ verdict
    NoBucket,
    Policies,       \* records of enabled, keep_first, keep_every, compress,
                    \* keep_full, keep_payload, keep_pcap
    MaxRuns         \* bound: runs into the directory

ASSUME PolicyAssumption ==
    /\ BucketKey \in [Cases -> STRING \cup {NoBucket}] /\ MaxRuns \in Nat \ {0}
    /\ \A p \in Policies : p.keep_first \in Nat /\ p.keep_every \in Nat

Keys == {BucketKey[c] : c \in Cases} \ {NoBucket}
Failing(c) == BucketKey[c] # NoBucket

VARIABLES
    policy,
    run,            \* number of the run
    phase,          \* "record", "policy", "compress", "done" or "broken"
    recorded,       \* cases in the order of case_finished
    buckets,        \* failure_buckets: key -> seen, first, last, sampled
    announced,      \* keys in the order of their new_failure_bucket events
    todo,           \* summaries the policy has still to visit
    visiting,       \* the case whose log is being compressed
    made,           \* case -> size of the log it wrote last, "none" before
    files           \* case -> log, gz, payload, pcap in its directory

vars == <<policy, run, phase, recorded, buckets, announced, todo, visiting, made, files>>
books == <<policy, run, recorded, buckets, announced>>

NoFiles == [log |-> "none", gz |-> "none", payload |-> FALSE, pcap |-> FALSE]
NewRun(p, n) ==
    /\ policy' = p /\ run' = n /\ phase' = "record" /\ recorded' = <<>>
    /\ buckets' = [k \in {} |-> 0] /\ announced' = <<>> /\ todo' = {}

Init ==
    /\ policy \in Policies /\ run = 1 /\ phase = "record" /\ recorded = <<>>
    /\ buckets = [k \in {} |-> 0] /\ announced = <<>> /\ todo = {} /\ visiting \in Cases
    /\ made = [c \in Cases |-> "none"] /\ files = [c \in Cases |-> NoFiles]
-----------------------------------------------------------------------------
(* case_finished *)

Bucket(k) == IF k \in DOMAIN buckets THEN buckets[k]
             ELSE [seen |-> 0, kept |-> 0, first |-> 0, last |-> 0, sampled |-> <<>>]

\* Seeded fault: the first sample is missed, the counter moves afterwards.
Sampled_Late(seen) ==
    \/ seen < policy.keep_first
    \/ policy.keep_every > 0 /\ seen % policy.keep_every = 0

Sampled(seen) ==
    \/ seen <= policy.keep_first
    \/ policy.keep_every > 0 /\ seen % policy.keep_every = 0

RecordFailureBucket(c) ==
    LET k == BucketKey[c]
        seen == Bucket(k).seen + 1
        bucket == [Bucket(k) EXCEPT !.seen = seen, !.last = c,
                                    !.first = IF seen = 1 THEN c ELSE @,
                                    !.kept = IF Sampled(seen) THEN @ + 1 ELSE @,
                                    !.sampled = IF Sampled(seen) THEN Append(@, c) ELSE @]
    IN  /\ buckets' = [j \in DOMAIN buckets \cup {k} |-> IF j = k THEN bucket ELSE buckets[j]]
        /\ announced' = IF seen = 1 /\ Sampled(seen) THEN Append(announced, k) ELSE announced

\* The case wrote its files, over those of an earlier run; a compressed log of
\* that run stays.
CaseFinished(c) ==
    /\ phase = "record" /\ c \notin Range(recorded)
    /\ recorded' = Append(recorded, c)
    /\ IF Failing(c) THEN RecordFailureBucket(c) ELSE UNCHANGED <<buckets, announced>>
    /\ \E size \in {"short", "long"} :
         /\ made' = [made EXCEPT ![c] = size]
         /\ files' = [files EXCEPT ![c] =
              [log |-> size, payload |-> TRUE, pcap |-> TRUE,
               gz |-> IF @.gz = "new" THEN "old" ELSE @.gz]]
    /\ UNCHANGED <<policy, run, phase, todo, visiting>>
-----------------------------------------------------------------------------
(* apply_artifact_policy, from finalize *)

\* Every summary below the directory, those of earlier runs among them.
BeginPolicy ==
    /\ phase = "record"
    /\ IF policy.enabled
       THEN phase' = "policy" /\ todo' = {c \in Cases : made[c] # "none"}
       ELSE phase' = "done" /\ UNCHANGED todo
    /\ UNCHANGED <<books, visiting, made, files>>

Visit(c) ==
    /\ phase = "policy" /\ c \in todo /\ \A d \in todo : c <= d
    /\ todo' = todo \ {c}

Trimmed(f) == [f EXCEPT !.log = IF @ = "long" THEN "tail" ELSE @,
                        !.payload = @ /\ policy.keep_payload,
                        !.pcap = @ /\ policy.keep_pcap]

TrimPassCase(c) ==
    /\ Visit(c) /\ ~Failing(c)
    /\ files' = IF policy.keep_full THEN files ELSE [files EXCEPT ![c] = Trimmed(@)]
    /\ UNCHANGED <<books, phase, visiting, made>>

\* Nothing in the policy looks at the bucket of the case.
KeepFailure(c) ==
    /\ Visit(c) /\ Failing(c)
    /\ ~policy.compress \/ files[c].log # "long"
    /\ UNCHANGED <<books, phase, visiting, made, files>>

\* Seeded fault: a compressed log that is already there is taken for this one.
Compress_Trusts(c) ==
    /\ Visit(c) /\ Failing(c) /\ policy.compress /\ files[c].log = "long"
    /\ files' = [files EXCEPT ![c].gz = IF @ = "none" THEN "part" ELSE @]
    /\ phase' = "compress" /\ visiting' = c
    /\ UNCHANGED <<books, made>>

\* gzip.open truncates what was there.
Compress(c) ==
    /\ Visit(c) /\ Failing(c) /\ policy.compress /\ files[c].log = "long"
    /\ files' = [files EXCEPT ![c].gz = "part"]
    /\ phase' = "compress" /\ visiting' = c
    /\ UNCHANGED <<books, made>>

CompressDone ==
    /\ phase = "compress"
    /\ files' = [files EXCEPT ![visiting].gz = IF @ = "part" THEN "new" ELSE @,
                              ![visiting].log = "none"]
    /\ phase' = "policy"
    /\ UNCHANGED <<books, todo, visiting, made>>

PolicyDone ==
    /\ phase = "policy" /\ todo = {}
    /\ phase' = "done"
    /\ UNCHANGED <<books, todo, visiting, made, files>>

\* A failed file operation, or a kill: a pass case may be half trimmed (its
\* log emptied but the tail not written), a compressed log incomplete or whole
\* beside the plain one.
PolicyBreaks ==
    /\ phase \in {"policy", "compress"}
    /\ \/ UNCHANGED files
       \/ /\ phase = "compress" /\ files' = [files EXCEPT ![visiting].gz = "new"]
       \/ \E c \in todo :
            /\ phase = "policy" /\ (\A d \in todo : c <= d)
            /\ ~Failing(c) /\ ~policy.keep_full
            /\ files' \in {[files EXCEPT ![c].log = IF @ = "long" THEN "cut" ELSE @],
                           [files EXCEPT ![c] = [Trimmed(@) EXCEPT !.pcap = files[c].pcap]]}
    /\ phase' = "broken"
    /\ UNCHANGED <<books, todo, visiting, made>>

\* The directory is used again, with the policy of that run.
NextRun ==
    /\ phase \in {"record", "done", "broken"} /\ run < MaxRuns
    /\ \E p \in Policies : NewRun(p, run + 1)
    /\ UNCHANGED <<visiting, made, files>>

Next ==
    \/ \E c \in Cases :
         CaseFinished(c) \/ TrimPassCase(c) \/ KeepFailure(c) \/ Compress(c)
    \/ BeginPolicy \/ CompressDone \/ PolicyDone \/ PolicyBreaks \/ NextRun

Spec == Init /\ [][Next]_vars
-----------------------------------------------------------------------------
\* Where the failures of a bucket are among the recorded cases, which of them
\* the i-th recorded case is, and which the policy asks for as samples: the
\* first keep_first and every keep_every-th.
Positions(k) == {i \in DOMAIN recorded : BucketKey[recorded[i]] = k}
Rank(i) == Cardinality({j \in Positions(BucketKey[recorded[i]]) : j <= i})
Asked(rank) == rank <= policy.keep_first \/ \E q \in 1..rank : rank = q * policy.keep_every
Picked(k) == {i \in Positions(k) : Asked(Rank(i))}

\* In whatever order the pool delivers failures, a bucket counts its failures,
\* names the first and the last, keeps as samples those the policy asks for, and
\* is announced once, when its first failure is a sample (with keep_first 0 a
\* new bucket is silent).
BucketFaithful(k, bucket) ==
    /\ bucket.seen = Cardinality(Positions(k))
    /\ \E i \in Positions(k) : bucket.first = recorded[i] /\ \A j \in Positions(k) : i <= j
    /\ \E i \in Positions(k) : bucket.last = recorded[i] /\ \A j \in Positions(k) : j <= i
    /\ bucket.kept = Cardinality(Picked(k)) /\ Len(bucket.sampled) = bucket.kept
    /\ Range(bucket.sampled) = {recorded[i] : i \in Picked(k)}
    /\ Cardinality({i \in DOMAIN announced : announced[i] = k}) = (IF Asked(1) THEN 1 ELSE 0)

BucketsFaithful ==
    /\ DOMAIN buckets = {BucketKey[c] : c \in {d \in Range(recorded) : Failing(d)}}
    /\ \A k \in DOMAIN buckets : BucketFaithful(k, buckets[k])

\* The evidence of a failure survives the policies of its run and of later
\* ones, interrupted or not: its log is there in full, plain or compressed by
\* this case's run and not by an earlier one, with payload and capture.  A pass
\* case never loses its log entirely but to a torn rewrite.
EvidenceKept ==
    \A c \in Cases : made[c] # "none" =>
      IF Failing(c)
      THEN /\ files[c].log = made[c] \/ (files[c].log = "none" /\ files[c].gz = "new")
           /\ files[c].payload /\ files[c].pcap
      ELSE files[c].log \in {made[c], "tail", "cut"}
=============================================================================
