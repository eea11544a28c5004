------------------------ MODULE ArtifactPolicyProofs ------------------------
(***************************************************************************)
(* What the artifact policy leaves of a failure's evidence, proved for     *)
(* every set of cases, every assignment of buckets, every set of policies  *)
(* and any number of runs into the directory.                              *)
(*                                                                         *)
(* EvidenceKept is not inductive: the step that removes a plain log relies *)
(* on the compressed one having been written, in this very visit, from the *)
(* whole log of the case's last run (Compressing), and the policy only     *)
(* visits cases that have run (Visits).                                    *)
(*                                                                         *)
(* BucketsFaithful needs the types of the books (Booked).  It speaks of    *)
(* positions in the recorded sequence, so that a step adds one position at *)
(* the end and the ranks of the earlier failures stay.                     *)
(***************************************************************************)
EXTENDS ArtifactPolicy, TLAPS, FiniteSetTheorems

CaseFiles == [log : {"none", "short", "long", "tail", "cut"},
              gz : {"none", "part", "new", "old"}, payload : BOOLEAN, pcap : BOOLEAN]

Types ==
    /\ visiting \in Cases /\ made \in [Cases -> {"none", "short", "long"}]
    /\ files \in [Cases -> CaseFiles]

Visits == \A c \in todo : c \in Cases /\ made[c] # "none"

Compressing ==
    phase = "compress" => /\ Failing(visiting) /\ made[visiting] = "long"
                          /\ files[visiting].log = "long" /\ files[visiting].gz = "part"

\* What the policy and the runs owe to one case.
Owed(c) ==
    made[c] # "none" =>
      IF Failing(c)
      THEN /\ files[c].log = made[c] \/ (files[c].log = "none" /\ files[c].gz = "new")
           /\ files[c].payload /\ files[c].pcap
      ELSE files[c].log \in {made[c], "tail", "cut"}

Kept == Types /\ Visits /\ Compressing /\ \A c \in Cases : Owed(c)

LEMMA KeptInit == Init => Kept
BY DEF Init, Kept, Types, CaseFiles, NoFiles, Visits, Compressing, Owed

\* Nothing on disk moves, and the policy is not in the middle of a visit.
LEMMA DiskUntouched ==
    ASSUME Kept, UNCHANGED <<visiting, made, files>>, phase' # "compress",
           \A c \in todo' : c \in Cases /\ made[c] # "none"
    PROVE  Kept'
BY DEF Kept, Types, CaseFiles, Visits, Compressing, Owed, Failing

\* A case that records anew writes its log over the old one and leaves a
\* compressed log that is no longer its own.
LEMMA CaseFinishedKeeps ==
    ASSUME Kept, NEW c \in Cases, CaseFinished(c)
    PROVE  Kept'
<1>1. PICK size \in {"short", "long"} :
        /\ made' = [made EXCEPT ![c] = size]
        /\ files' = [files EXCEPT ![c] =
             [log |-> size, payload |-> TRUE, pcap |-> TRUE,
              gz |-> IF files[c].gz = "new" THEN "old" ELSE files[c].gz]]
  BY DEF CaseFinished, Kept, Types
<1>2. files[c].gz \in {"none", "part", "new", "old"}
  BY DEF Kept, Types, CaseFiles
<1>3. phase = "record" /\ UNCHANGED <<policy, run, phase, todo, visiting>>
  BY DEF CaseFinished
<1>4. Types'
  BY <1>1, <1>2, <1>3 DEF Kept, Types, CaseFiles
<1>5. Visits' /\ Compressing'
  BY <1>1, <1>3 DEF Kept, Types, Visits, Compressing
<1>6. ASSUME NEW d \in Cases PROVE Owed(d)'
  <2>1. CASE d = c
    BY <1>1, <2>1 DEF Kept, Types, Owed, Failing
  <2>2. CASE d # c
    BY <1>1, <2>2 DEF Kept, Types, Owed, Failing
  <2> QED BY <2>1, <2>2
<1> QED BY <1>4, <1>5, <1>6 DEF Kept

\* Trimming spares the failures; a pass case keeps its log, its tail or, after
\* a torn rewrite, what was left of it.
LEMMA TrimKeeps ==
    ASSUME Kept, NEW c \in Cases, ~Failing(c), phase' # "compress",
           NEW f \in CaseFiles,
           files' = [files EXCEPT ![c] = f],
           f.log = files[c].log \/ f.log \in {"tail", "cut"},
           UNCHANGED <<visiting, made>>,
           \A d \in todo' : d \in todo
    PROVE  Kept'
<1>1. Types' /\ Visits' /\ Compressing'
  BY DEF Kept, Types, Visits, Compressing
<1>2. ASSUME NEW d \in Cases PROVE Owed(d)'
  BY DEF Kept, Types, Owed, Failing
<1> QED BY <1>1, <1>2 DEF Kept

LEMMA TrimmedType ==
    ASSUME NEW f \in CaseFiles
    PROVE  /\ Trimmed(f) \in CaseFiles
           /\ Trimmed(f).log = f.log \/ Trimmed(f).log = "tail"
BY DEF CaseFiles, Trimmed

LEMMA TrimPassCaseKeeps ==
    ASSUME Kept, NEW c \in Cases, TrimPassCase(c)
    PROVE  Kept'
<1>1. /\ phase' # "compress" /\ ~Failing(c) /\ UNCHANGED <<visiting, made>>
      /\ \A d \in todo' : d \in todo
  BY DEF TrimPassCase, Visit
<1>2. CASE policy.keep_full
  BY <1>1, <1>2, DiskUntouched DEF TrimPassCase, Kept, Visits
<1>3. CASE ~policy.keep_full
  <2>1. files[c] \in CaseFiles /\ files' = [files EXCEPT ![c] = Trimmed(files[c])]
    BY <1>3 DEF TrimPassCase, Kept, Types
  <2> QED BY <1>1, <2>1, TrimmedType, TrimKeeps
<1> QED BY <1>2, <1>3

\* The compressed log is begun on top of whatever was there, from the whole
\* log of the last run.
LEMMA CompressKeeps ==
    ASSUME Kept, NEW c \in Cases, Compress(c)
    PROVE  Kept'
<1>1. /\ Failing(c) /\ files[c].log = "long" /\ c \in todo
      /\ files' = [files EXCEPT ![c].gz = "part"]
      /\ phase' = "compress" /\ visiting' = c /\ made' = made /\ todo' = todo \ {c}
  BY DEF Compress, Visit, books
<1>2. made[c] = "long" /\ Owed(c)
  BY <1>1 DEF Kept, Visits, Owed
<1>3. files' \in [Cases -> CaseFiles] /\ files'[c].gz = "part"
      /\ files'[c].log = files[c].log /\ files'[c].payload = files[c].payload
      /\ files'[c].pcap = files[c].pcap /\ \A d \in Cases \ {c} : files'[d] = files[d]
  BY <1>1 DEF Kept, Types, CaseFiles
<1>4. Types' /\ Visits' /\ Compressing'
  BY <1>1, <1>2, <1>3 DEF Kept, Types, Visits, Compressing, Failing
<1>5. ASSUME NEW d \in Cases PROVE Owed(d)'
  BY <1>1, <1>2, <1>3 DEF Kept, Owed, Failing
<1> QED BY <1>4, <1>5 DEF Kept

\* The plain log goes only once the compressed one is whole.
LEMMA CompressDoneKeeps ==
    ASSUME Kept, CompressDone
    PROVE  Kept'
<1>1. /\ Failing(visiting) /\ files[visiting].gz = "part" /\ visiting \in Cases
      /\ phase' = "policy" /\ UNCHANGED <<visiting, made, todo>> /\ Owed(visiting)
  BY DEF CompressDone, Kept, Types, Compressing, books
<1>2. files' = [files EXCEPT ![visiting].gz = IF @ = "part" THEN "new" ELSE @,
                             ![visiting].log = "none"]
  BY DEF CompressDone
<1>3. files' \in [Cases -> CaseFiles] /\ files'[visiting].gz = "new"
      /\ files'[visiting].log = "none" /\ files'[visiting].payload = files[visiting].payload
      /\ files'[visiting].pcap = files[visiting].pcap
      /\ \A d \in Cases \ {visiting} : files'[d] = files[d]
  BY <1>1, <1>2 DEF Kept, Types, CaseFiles
<1>4. Types' /\ Visits' /\ Compressing'
  BY <1>1, <1>3 DEF Kept, Types, Visits, Compressing
<1>5. ASSUME NEW d \in Cases PROVE Owed(d)'
  <2>1. CASE d = visiting
    BY <1>1, <1>3, <2>1 DEF Kept, Compressing, Owed, Failing, CompressDone
  <2>2. CASE d # visiting
    BY <1>1, <1>3, <2>2 DEF Kept, Owed, Failing
  <2> QED BY <2>1, <2>2
<1> QED BY <1>4, <1>5 DEF Kept

\* Wherever the policy is interrupted, the plain log of a failure is still
\* there: it is removed by the last operation of its visit.
LEMMA PolicyBreaksKeeps ==
    ASSUME Kept, PolicyBreaks
    PROVE  Kept'
<1>1. phase' = "broken" /\ UNCHANGED <<visiting, made, todo>>
  BY DEF PolicyBreaks, books
<1>2. CASE UNCHANGED files
  BY <1>1, <1>2, DiskUntouched DEF Kept, Visits
<1>3. CASE phase = "compress" /\ files' = [files EXCEPT ![visiting].gz = "new"]
  <2>1. visiting \in Cases
    BY DEF Kept, Types
  <2>2. files' \in [Cases -> CaseFiles] /\ \A d \in Cases :
          /\ files'[d].log = files[d].log /\ files'[d].payload = files[d].payload
          /\ files'[d].pcap = files[d].pcap
          /\ files'[d].gz = files[d].gz \/ files'[d].gz = "new"
    BY <1>3, <2>1 DEF Kept, Types, CaseFiles
  <2>3. Types' /\ Visits' /\ Compressing'
    BY <1>1, <2>2 DEF Kept, Types, Visits, Compressing
  <2>4. ASSUME NEW d \in Cases PROVE Owed(d)'
    BY <1>1, <2>2 DEF Kept, Owed, Failing
  <2> QED BY <2>3, <2>4 DEF Kept
<1>4. ASSUME NEW c \in todo, ~Failing(c),
             files' \in {[files EXCEPT ![c].log = IF @ = "long" THEN "cut" ELSE @],
                         [files EXCEPT ![c] = [Trimmed(@) EXCEPT !.pcap = files[c].pcap]]}
      PROVE  Kept'
  <2>1. c \in Cases /\ files[c] \in CaseFiles
    BY DEF Kept, Types, Visits
  <2>2. CASE files' = [files EXCEPT ![c].log = IF @ = "long" THEN "cut" ELSE @]
    <3> DEFINE f == [files[c] EXCEPT !.log = IF @ = "long" THEN "cut" ELSE @]
    <3>1. f \in CaseFiles /\ (f.log = files[c].log \/ f.log \in {"tail", "cut"})
      BY <2>1 DEF CaseFiles
    <3>2. files' = [files EXCEPT ![c] = f]
      BY <2>1, <2>2 DEF Kept, Types
    <3> HIDE DEF f
    <3> QED BY <1>1, <1>4, <2>1, <3>1, <3>2, TrimKeeps
  <2>3. CASE files' = [files EXCEPT ![c] = [Trimmed(@) EXCEPT !.pcap = files[c].pcap]]
    <3> DEFINE f == [Trimmed(files[c]) EXCEPT !.pcap = files[c].pcap]
    <3>1. f \in CaseFiles /\ (f.log = files[c].log \/ f.log \in {"tail", "cut"})
      BY <2>1 DEF CaseFiles, Trimmed
    <3>2. files' = [files EXCEPT ![c] = f]
      BY <2>1, <2>3 DEF Kept, Types
    <3> HIDE DEF f
    <3> QED BY <1>1, <1>4, <2>1, <3>1, <3>2, TrimKeeps
  <2> QED BY <1>4, <2>2, <2>3
<1> QED BY <1>2, <1>3, <1>4 DEF PolicyBreaks

LEMMA KeptStep ==
    ASSUME Kept, [Next]_vars
    PROVE  Kept'
<1>1. ASSUME NEW c \in Cases, CaseFinished(c) PROVE Kept'
  BY <1>1, CaseFinishedKeeps
<1>2. ASSUME NEW c \in Cases, TrimPassCase(c) PROVE Kept'
  BY <1>2, TrimPassCaseKeeps
<1>3. ASSUME NEW c \in Cases, KeepFailure(c) PROVE Kept'
  BY <1>3, DiskUntouched DEF KeepFailure, Visit, Kept, Visits
<1>4. ASSUME NEW c \in Cases, Compress(c) PROVE Kept'
  BY <1>4, CompressKeeps
<1>5. CASE BeginPolicy
  BY <1>5, DiskUntouched DEF BeginPolicy, Kept, Visits
<1>6. CASE CompressDone
  BY <1>6, CompressDoneKeeps
<1>7. CASE PolicyDone
  BY <1>7, DiskUntouched DEF PolicyDone, Kept, Visits
<1>8. CASE PolicyBreaks
  BY <1>8, PolicyBreaksKeeps
<1>9. CASE NextRun
  BY <1>9, DiskUntouched DEF NextRun, NewRun
<1>10. CASE UNCHANGED vars
  BY <1>10 DEF vars, Kept, Types, CaseFiles, Visits, Compressing, Owed, Failing
<1> QED BY <1>1, <1>2, <1>3, <1>4, <1>5, <1>6, <1>7, <1>8, <1>9, <1>10 DEF Next

\* The evidence of a failure survives the policies of its run and of every
\* later run into the directory, whichever file operation one of them fails
\* or is killed at.
THEOREM EvidenceSurvives == Spec => []EvidenceKept
<1>1. Kept => EvidenceKept
  BY DEF Kept, Owed, EvidenceKept
<1> QED BY <1>1, KeptInit, KeptStep, PTL DEF Spec
-----------------------------------------------------------------------------
(* The failure buckets *)

BucketRecord == [seen : Nat, kept : Nat, first : Cases, last : Cases, sampled : Seq(Cases)]

Booked ==
    /\ policy \in Policies /\ recorded \in Seq(Cases)
    /\ announced \in Seq(DOMAIN buckets)
    /\ \A k \in DOMAIN buckets : buckets[k] \in BucketRecord
    /\ BucketsFaithful

LEMMA BookedInit == Init => Booked
BY DEF Init, Booked, BucketsFaithful, Range

\* The policy's test by remainder asks for the same samples.
LEMMA SampledIsAsked ==
    ASSUME NEW rank \in Nat \ {0}, policy \in Policies
    PROVE  Sampled(rank) <=> Asked(rank)
<1> DEFINE d == policy.keep_every
<1>1. d \in Nat
  BY PolicyAssumption
<1>2. ASSUME d > 0, rank % d = 0 PROVE \E q \in 1..rank : rank = q * d
  <2>1. rank = (rank \div d) * d /\ rank \div d \in Int
    BY <1>1, <1>2
  <2> DEFINE q == rank \div d
  <2>2. q \in Int /\ rank = q * d
    BY <2>1
  <2> HIDE DEF q
  <2>3. q >= 1
    BY <1>1, <1>2, <2>2
  <2>4. q <= rank
    BY <1>1, <1>2, <2>2, <2>3
  <2> QED BY <2>2, <2>3, <2>4
<1>3. ASSUME NEW q \in 1..rank, rank = q * d PROVE d > 0 /\ rank % d = 0
  <2>1. d > 0
    BY <1>1, <1>3
  <2>2. (q * d) % d = 0
    BY <1>1, <2>1
  <2> QED BY <1>3, <2>1, <2>2
<1> HIDE DEF d
<1> QED BY <1>1, <1>2, <1>3 DEF Sampled, Asked, d

\* Recording a case adds its position to its own bucket and to no other.
LEMMA PositionsFinite ==
    ASSUME recorded \in Seq(Cases), NEW CONSTANT k
    PROVE  /\ Positions(k) \subseteq 1..Len(recorded)
           /\ IsFiniteSet(Positions(k)) /\ Cardinality(Positions(k)) \in Nat
           /\ IsFiniteSet(Picked(k)) /\ Cardinality(Picked(k)) \in Nat
<1>1. Positions(k) \subseteq 1..Len(recorded) /\ Picked(k) \subseteq Positions(k)
  BY DEF Positions, Picked
<1>2. IsFiniteSet(1..Len(recorded))
  BY FS_Interval
<1> QED BY <1>1, <1>2, FS_Subset, FS_CardinalityType

LEMMA PositionsAfter ==
    ASSUME recorded \in Seq(Cases), NEW CONSTANT c \in Cases, recorded' = Append(recorded, c),
           NEW CONSTANT k
    PROVE  Positions(k)' = Positions(k) \cup (IF BucketKey[c] = k THEN {Len(recorded) + 1} ELSE {})
<1>1. DOMAIN recorded' = DOMAIN recorded \cup {Len(recorded) + 1} /\ recorded'[Len(recorded) + 1] = c
      /\ \A i \in DOMAIN recorded : recorded'[i] = recorded[i]
  OBVIOUS
<1> QED BY <1>1 DEF Positions

\* An earlier failure keeps its rank; the new one ranks after those before it.
LEMMA RankAfter ==
    ASSUME recorded \in Seq(Cases), NEW CONSTANT c \in Cases, recorded' = Append(recorded, c),
           NEW CONSTANT n, n = Len(recorded)
    PROVE  /\ \A i \in DOMAIN recorded : Rank(i)' = Rank(i)
           /\ Rank(n + 1)' = Cardinality(Positions(BucketKey[c])) + 1
<1>1. n \in Nat /\ DOMAIN recorded = 1..n /\ recorded'[n + 1] = c
      /\ \A i \in 1..n : recorded'[i] = recorded[i]
  OBVIOUS
<1>2. ASSUME NEW CONSTANT i \in 1..n PROVE Rank(i)' = Rank(i)
  <2>1. \A k : Positions(k) \subseteq 1..n
    BY <1>1 DEF Positions
  <2>2. \A k : Positions(k)' = Positions(k) \cup (IF BucketKey[c] = k THEN {n + 1} ELSE {})
    BY PositionsAfter
  <2>3. {j \in Positions(BucketKey[recorded[i]])' : j <= i} = {j \in Positions(BucketKey[recorded[i]]) : j <= i}
    BY <1>1, <2>1, <2>2
  <2>4. recorded'[i] = recorded[i]
    BY <1>1
  <2> QED BY <2>3, <2>4 DEF Rank, Positions
<1>3. Rank(n + 1)' = Cardinality(Positions(BucketKey[c])) + 1
  <2>1. Positions(BucketKey[c])' = Positions(BucketKey[c]) \cup {n + 1}
    BY PositionsAfter
  <2>2. Positions(BucketKey[c]) \subseteq 1..n /\ IsFiniteSet(Positions(BucketKey[c]))
    BY PositionsFinite
  <2>3. {j \in Positions(BucketKey[c])' : j <= n + 1} = Positions(BucketKey[c]) \cup {n + 1}
    BY <1>1, <2>1, <2>2
  <2>4. Rank(n + 1)' = Cardinality(Positions(BucketKey[c]) \cup {n + 1})
    BY <1>1, <2>3 DEF Rank, Positions
  <2>5. n + 1 \notin Positions(BucketKey[c])
    BY <1>1, <2>2
  <2> QED BY <2>2, <2>4, <2>5, FS_AddElement
<1> QED BY <1>1, <1>2, <1>3

LEMMA PickedAfter ==
    ASSUME recorded \in Seq(Cases), NEW CONSTANT c \in Cases, recorded' = Append(recorded, c),
           policy' = policy, NEW CONSTANT k, NEW CONSTANT n, n = Len(recorded)
    PROVE  Picked(k)' = Picked(k) \cup
             (IF BucketKey[c] = k /\ Asked(Cardinality(Positions(k)) + 1) THEN {n + 1} ELSE {})
<1>1. Positions(k) \subseteq DOMAIN recorded /\ DOMAIN recorded = 1..n /\ n \in Nat
  BY DEF Positions
<1>2. \A r : Asked(r)' = Asked(r)
  BY DEF Asked
<1>3. \A i \in Positions(k) : Rank(i)' = Rank(i)
  BY <1>1, RankAfter
<1>4. Positions(k)' = Positions(k) \cup (IF BucketKey[c] = k THEN {n + 1} ELSE {})
  BY PositionsAfter
<1>5. BucketKey[c] = k => Rank(n + 1)' = Cardinality(Positions(k)) + 1
  BY RankAfter
<1>6. Picked(k)' = {i \in Positions(k)' : Asked(Rank(i)')}
  BY <1>2 DEF Picked, Asked
<1> QED BY <1>1, <1>3, <1>4, <1>5, <1>6 DEF Picked

\* What the books say of a failing key, announced or not.
Tally(k, b) ==
    /\ b.seen = Cardinality(Positions(k)) /\ b.kept = Cardinality(Picked(k))
    /\ b.sampled \in Seq(Cases) /\ Len(b.sampled) = b.kept
    /\ Range(b.sampled) = {recorded[i] : i \in Picked(k)}
    /\ Cardinality({i \in DOMAIN announced : announced[i] = k})
         = (IF b.seen > 0 /\ Asked(1) THEN 1 ELSE 0)
    /\ b.seen = 0 <=> k \notin DOMAIN buckets
    /\ b.seen = 0 <=> Positions(k) = {}

LEMMA SoFar ==
    ASSUME Booked, NEW CONSTANT c \in Cases, NEW CONSTANT k, k = BucketKey[c], Failing(c)
    PROVE  Tally(k, Bucket(k))
<1>1. Booked /\ recorded \in Seq(Cases)
  BY DEF Booked
<1>2. CASE k \in DOMAIN buckets
  <2>1. Bucket(k) = buckets[k] /\ buckets[k] \in BucketRecord /\ BucketFaithful(k, buckets[k])
    BY <1>1, <1>2 DEF Booked, BucketsFaithful, Bucket
  <2>2. Positions(k) # {} /\ IsFiniteSet(Positions(k)) /\ Cardinality(Positions(k)) \in Nat
    BY <1>1, <2>1, PositionsFinite DEF BucketFaithful
  <2>3. Cardinality(Positions(k)) > 0
    BY <2>2, FS_EmptySet
  <2> QED BY <1>2, <2>1, <2>2, <2>3 DEF BucketFaithful, BucketRecord, Tally
<1>3. CASE k \notin DOMAIN buckets
  <2>1. Positions(k) = {}
    <3> SUFFICES ASSUME NEW i \in DOMAIN recorded, BucketKey[recorded[i]] = k PROVE FALSE
      BY DEF Positions
    <3>1. recorded[i] \in Range(recorded) /\ Failing(recorded[i])
      BY DEF Range, Failing
    <3> QED BY <1>1, <1>3, <3>1 DEF Booked, BucketsFaithful
  <2>2. Picked(k) = {} /\ {recorded[i] : i \in Picked(k)} = {}
    BY <2>1 DEF Picked
  <2>3. {i \in DOMAIN announced : announced[i] = k} = {}
    <3>1. \A i \in DOMAIN announced : announced[i] \in DOMAIN buckets
      BY <1>1 DEF Booked
    <3> QED BY <1>3, <3>1
  <2>4. Bucket(k).seen = 0 /\ Bucket(k).kept = 0 /\ Bucket(k).sampled = <<>>
    BY <1>3 DEF Bucket
  <2>5. Range(<<>>) = {}
    BY DEF Range
  <2>6. Bucket(k).sampled \in Seq(Cases) /\ Len(Bucket(k).sampled) = Bucket(k).kept
    BY <2>4
  <2>7. Cardinality({}) = 0
    BY FS_EmptySet
  <2>8. Cardinality(Positions(k)) = 0 /\ Cardinality(Picked(k)) = 0
        /\ Cardinality({i \in DOMAIN announced : announced[i] = k}) = 0
    BY <2>1, <2>2, <2>3, <2>7
  <2>9. Range(Bucket(k).sampled) = {recorded[i] : i \in Picked(k)}
    BY <2>2, <2>4, <2>5
  <2> QED BY <1>3, <2>1, <2>4, <2>6, <2>8, <2>9 DEF Tally
<1> QED BY <1>2, <1>3

\* Recording a case changes nothing of the buckets of other keys.
LEMMA OthersStay ==
    ASSUME Booked, NEW CONSTANT c \in Cases, recorded' = Append(recorded, c), policy' = policy,
           NEW CONSTANT k, k \in DOMAIN buckets, k # BucketKey[c],
           {i \in DOMAIN announced' : announced'[i] = k} = {i \in DOMAIN announced : announced[i] = k},
           k \in DOMAIN buckets', buckets'[k] = buckets[k]
    PROVE  BucketFaithful(k, buckets[k])'
<1> DEFINE n == Len(recorded)
<1>1. BucketFaithful(k, buckets[k]) /\ recorded \in Seq(Cases)
  BY DEF Booked, BucketsFaithful
<1>2. Positions(k)' = Positions(k)
  <2>1. \A j : Positions(j)' = Positions(j) \cup (IF BucketKey[c] = j THEN {n + 1} ELSE {})
    BY <1>1, PositionsAfter
  <2> QED BY <2>1
<1>3. Picked(k)' = Picked(k)
  BY <1>1, PickedAfter
<1>4. \A i \in Positions(k) : recorded'[i] = recorded[i]
  BY <1>1 DEF Positions
<1>5. Picked(k) \subseteq Positions(k)
  BY DEF Picked
<1>6. {recorded'[i] : i \in Picked(k)} = {recorded[i] : i \in Picked(k)}
  BY <1>4, <1>5
<1>7. Asked(1)' = Asked(1)
  BY DEF Asked
<1>8. /\ \E i \in Positions(k) : buckets[k].first = recorded'[i] /\ \A j \in Positions(k) : i <= j
      /\ \E i \in Positions(k) : buckets[k].last = recorded'[i] /\ \A j \in Positions(k) : j <= i
  BY <1>1, <1>4 DEF BucketFaithful
<1> QED BY <1>1, <1>2, <1>3, <1>6, <1>7, <1>8 DEF BucketFaithful

LEMMA KeysAfter ==
    ASSUME recorded \in Seq(Cases), NEW CONSTANT c \in Cases, recorded' = Append(recorded, c)
    PROVE  {BucketKey[e] : e \in {d \in Range(recorded) : Failing(d)}}'
             = {BucketKey[e] : e \in {d \in Range(recorded) : Failing(d)}}
               \cup (IF Failing(c) THEN {BucketKey[c]} ELSE {})
<1>1. Range(recorded)' = Range(recorded) \cup {c}
  BY DEF Range
<1> QED BY <1>1 DEF Failing

\* Of sequences, sets and records in general.
LEMMA RangeAppend ==
    ASSUME NEW S, NEW s \in Seq(S), NEW e \in S
    PROVE  Range(Append(s, e)) = Range(s) \cup {e} /\ Append(s, e) \in Seq(S)
           /\ Len(Append(s, e)) = Len(s) + 1
BY DEF Range

LEMMA OneMore ==
    ASSUME NEW S, IsFiniteSet(S), NEW e, e \notin S
    PROVE  Cardinality(S \cup {e}) = Cardinality(S) + 1 /\ Cardinality(S) \in Nat
BY FS_AddElement, FS_CardinalityType

\* The bucket of the failure that is recorded.
LEMMA OwnBucketAfter ==
    ASSUME Booked, NEW CONSTANT c \in Cases, recorded' = Append(recorded, c), policy' = policy,
           NEW CONSTANT k, k = BucketKey[c], Failing(c), RecordFailureBucket(c)
    PROVE  /\ k \in DOMAIN buckets' /\ buckets'[k] \in BucketRecord
           /\ BucketFaithful(k, buckets[k])'
           /\ announced' \in Seq(DOMAIN buckets')
           /\ \A j \in DOMAIN buckets \ {k} :
                {i \in DOMAIN announced' : announced'[i] = j} = {i \in DOMAIN announced : announced[i] = j}
<1>0. PICK b : b = Bucket(k)
  OBVIOUS
<1>1. /\ recorded \in Seq(Cases) /\ policy \in Policies /\ announced \in Seq(DOMAIN buckets)
      /\ k \in DOMAIN buckets => buckets[k] \in BucketRecord /\ BucketFaithful(k, buckets[k])
  BY DEF Booked, BucketsFaithful
<1>2. PICK n \in Nat : n = Len(recorded)
  BY <1>1
<1>3. /\ b.seen = Cardinality(Positions(k)) /\ b.kept = Cardinality(Picked(k))
      /\ b.sampled \in Seq(Cases) /\ Len(b.sampled) = b.kept
      /\ Range(b.sampled) = {recorded[i] : i \in Picked(k)}
      /\ Cardinality({i \in DOMAIN announced : announced[i] = k})
           = (IF b.seen > 0 /\ Asked(1) THEN 1 ELSE 0)
      /\ b.seen = 0 <=> k \notin DOMAIN buckets
      /\ b.seen = 0 <=> Positions(k) = {}
  <2>1. Tally(k, b)
    BY <1>0, SoFar
  <2> QED BY <2>1 DEF Tally
<1>4. /\ Positions(k) \subseteq 1..n /\ Picked(k) \subseteq Positions(k)
      /\ IsFiniteSet(Positions(k)) /\ b.seen \in Nat /\ IsFiniteSet(Picked(k)) /\ b.kept \in Nat
  BY <1>1, <1>2, <1>3, PositionsFinite DEF Picked
<1> DEFINE seen == b.seen + 1
<1>5. seen \in Nat \ {0} /\ (Sampled(seen) <=> Asked(seen))
  BY <1>1, <1>4, SampledIsAsked
<1>6. /\ Positions(k)' = Positions(k) \cup {n + 1}
      /\ Picked(k)' = Picked(k) \cup (IF Asked(seen) THEN {n + 1} ELSE {})
  BY <1>1, <1>2, <1>3, PositionsAfter, PickedAfter
<1>7. recorded'[n + 1] = c /\ \A i \in 1..n : recorded'[i] = recorded[i]
  BY <1>1, <1>2
<1>8. seen > 1 => b.first \in Cases
  BY <1>0, <1>1, <1>3, <1>4 DEF Bucket, BucketRecord
<1>9. /\ k \in DOMAIN buckets' /\ DOMAIN buckets' = DOMAIN buckets \cup {k}
      /\ buckets'[k].seen = seen /\ buckets'[k].last = c
      /\ buckets'[k].first = (IF seen = 1 THEN c ELSE b.first)
      /\ buckets'[k].kept = (IF Asked(seen) THEN b.kept + 1 ELSE b.kept)
      /\ buckets'[k].sampled = (IF Asked(seen) THEN Append(b.sampled, c) ELSE b.sampled)
      /\ buckets'[k] = [seen |-> buckets'[k].seen, kept |-> buckets'[k].kept,
                        first |-> buckets'[k].first, last |-> buckets'[k].last,
                        sampled |-> buckets'[k].sampled]
  <2>1. /\ DOMAIN buckets' = DOMAIN buckets \cup {k}
        /\ buckets'[k] = [b EXCEPT !.seen = seen, !.last = c,
                                   !.first = IF seen = 1 THEN c ELSE @,
                                   !.kept = IF Sampled(seen) THEN @ + 1 ELSE @,
                                   !.sampled = IF Sampled(seen) THEN Append(@, c) ELSE @]
    BY <1>0 DEF RecordFailureBucket
  <2>2. b = [seen |-> b.seen, kept |-> b.kept, first |-> b.first, last |-> b.last, sampled |-> b.sampled]
    BY <1>0, <1>1 DEF Bucket, BucketRecord
  <2> HIDE DEF seen
  <2> QED BY <1>5, <2>1, <2>2
<1>10. announced' = IF seen = 1 /\ Asked(1) THEN Append(announced, k) ELSE announced
  BY <1>0, <1>5 DEF RecordFailureBucket
<1>11. buckets'[k] \in BucketRecord
  <2>1. /\ buckets'[k].seen \in Nat /\ buckets'[k].kept \in Nat /\ buckets'[k].last \in Cases
        /\ buckets'[k].sampled \in Seq(Cases)
    BY <1>3, <1>4, <1>5, <1>9, RangeAppend
  <2>2. buckets'[k].first \in Cases
    BY <1>4, <1>8, <1>9
  <2> QED BY <1>9, <2>1, <2>2 DEF BucketRecord
<1>12. announced' \in Seq(DOMAIN buckets')
  BY <1>1, <1>9, <1>10
<1>13. ASSUME NEW j \in DOMAIN buckets \ {k}
       PROVE  {i \in DOMAIN announced' : announced'[i] = j} = {i \in DOMAIN announced : announced[i] = j}
  BY <1>1, <1>10
<1>14. buckets'[k].seen = Cardinality(Positions(k)')
  <2>1. n + 1 \notin Positions(k)
    BY <1>2, <1>4
  <2> HIDE DEF seen
  <2>2. Cardinality(Positions(k) \cup {n + 1}) = Cardinality(Positions(k)) + 1
    BY <1>4, <2>1, OneMore
  <2> QED BY <1>3, <1>6, <1>9, <2>2 DEF seen
<1>15. \E i \in Positions(k)' : buckets'[k].first = recorded'[i] /\ \A j \in Positions(k)' : i <= j
  <2>1. CASE seen = 1
    <3>1. Positions(k)' = {n + 1}
      BY <1>3, <1>4, <1>6, <2>1
    <3>2. buckets'[k].first = c
      BY <1>9, <2>1
    <3> QED BY <1>2, <1>7, <3>1, <3>2
  <2>2. CASE seen # 1
    <3>1. k \in DOMAIN buckets /\ Bucket(k) = buckets[k]
      BY <1>0, <1>3, <1>4, <2>2 DEF Bucket
    <3>2. PICK i \in Positions(k) : b.first = recorded[i] /\ \A j \in Positions(k) : i <= j
      BY <1>0, <1>1, <3>1 DEF BucketFaithful
    <3> QED BY <1>2, <1>4, <1>6, <1>7, <1>9, <2>2, <3>2
  <2> QED BY <2>1, <2>2
<1>16. \E i \in Positions(k)' : buckets'[k].last = recorded'[i] /\ \A j \in Positions(k)' : j <= i
  <2>1. n + 1 \in Positions(k)' /\ \A j \in Positions(k)' : j <= n + 1
    BY <1>2, <1>4, <1>6
  <2> QED BY <2>1, <1>7, <1>9
<1>17. buckets'[k].kept = Cardinality(Picked(k)') /\ Len(buckets'[k].sampled) = buckets'[k].kept
  <2>1. CASE Asked(seen)
    <3>1. n + 1 \notin Picked(k)
      BY <1>2, <1>4
    <3>2. Cardinality(Picked(k) \cup {n + 1}) = b.kept + 1
      BY <1>3, <1>4, <3>1, OneMore
    <3> QED BY <1>3, <1>6, <1>9, <2>1, <3>2
  <2>2. CASE ~Asked(seen)
    BY <1>3, <1>6, <1>9, <2>2
  <2> QED BY <2>1, <2>2
<1>18. Range(buckets'[k].sampled) = {recorded'[i] : i \in Picked(k)'}
  <2>1. {recorded'[i] : i \in Picked(k)} = {recorded[i] : i \in Picked(k)}
    BY <1>4, <1>7
  <2>2. Range(Append(b.sampled, c)) = Range(b.sampled) \cup {c}
    BY <1>3, RangeAppend
  <2> HIDE DEF seen
  <2>3. CASE Asked(seen)
    <3>1. {recorded'[i] : i \in Picked(k) \cup {n + 1}} = {recorded'[i] : i \in Picked(k)} \cup {c}
      BY <1>7
    <3>2. buckets'[k].sampled = Append(b.sampled, c) /\ Picked(k)' = Picked(k) \cup {n + 1}
      BY <1>6, <1>9, <2>3
    <3> QED BY <1>3, <2>1, <2>2, <3>1, <3>2
  <2>4. CASE ~Asked(seen)
    BY <1>3, <1>6, <1>9, <2>1, <2>4
  <2> QED BY <2>3, <2>4
<1>19. Cardinality({i \in DOMAIN announced' : announced'[i] = k}) = (IF Asked(1) THEN 1 ELSE 0)
  <2>1. PICK A : A = {i \in DOMAIN announced : announced[i] = k}
    OBVIOUS
  <2>2. IsFiniteSet(A)
    BY <1>1, <2>1, FS_Interval, FS_Subset
  <2>3. CASE seen = 1 /\ Asked(1)
    <3>1. PICK m \in Nat : m = Len(announced)
      BY <1>1
    <3>2. announced' = Append(announced, k)
      BY <1>10, <2>3
    <3>3. {i \in DOMAIN announced' : announced'[i] = k} = A \cup {m + 1} /\ m + 1 \notin A
      BY <1>1, <2>1, <3>1, <3>2
    <3>4. Cardinality(A) = 0
      BY <1>3, <1>4, <2>1, <2>3
    <3>5. Cardinality(A \cup {m + 1}) = 1
      BY <2>2, <3>3, <3>4, OneMore
    <3> QED BY <2>3, <3>3, <3>5
  <2>4. CASE ~(seen = 1 /\ Asked(1))
    <3>1. announced' = announced
      BY <1>10, <2>4
    <3>2. Asked(1) => b.seen > 0
      BY <1>4, <2>4
    <3> QED BY <1>3, <3>1, <3>2
  <2> QED BY <2>3, <2>4
<1>20. Asked(1)' = Asked(1)
  BY DEF Asked
<1>21. BucketFaithful(k, buckets[k])'
  BY <1>14, <1>15, <1>16, <1>17, <1>18, <1>19, <1>20 DEF BucketFaithful
<1> QED BY <1>9, <1>11, <1>12, <1>13, <1>21

LEMMA CaseFinishedBooks ==
    ASSUME Booked, NEW CONSTANT c \in Cases, CaseFinished(c)
    PROVE  Booked'
<1>1. recorded' = Append(recorded, c) /\ policy' = policy /\ recorded \in Seq(Cases)
  BY DEF CaseFinished, Booked
<1>2. recorded' \in Seq(Cases) /\ policy' \in Policies
  BY <1>1 DEF Booked
<1>3. CASE Failing(c)
  <2> DEFINE k == BucketKey[c]
  <2>1. RecordFailureBucket(c)
    BY <1>3 DEF CaseFinished
  <2>2. /\ k \in DOMAIN buckets' /\ buckets'[k] \in BucketRecord /\ BucketFaithful(k, buckets[k])'
        /\ announced' \in Seq(DOMAIN buckets')
        /\ \A j \in DOMAIN buckets \ {k} :
             {i \in DOMAIN announced' : announced'[i] = j} = {i \in DOMAIN announced : announced[i] = j}
    BY <1>1, <1>3, <2>1, OwnBucketAfter
  <2>3. /\ DOMAIN buckets' = DOMAIN buckets \cup {k}
        /\ \A j \in DOMAIN buckets \ {k} : buckets'[j] = buckets[j]
    BY <2>1 DEF RecordFailureBucket
  <2>4. ASSUME NEW CONSTANT j, j \in DOMAIN buckets \ {k}
        PROVE  buckets'[j] \in BucketRecord /\ BucketFaithful(j, buckets[j])'
    BY <1>1, <2>2, <2>3, <2>4, OthersStay DEF Booked
  <2>5. DOMAIN buckets' = {BucketKey[e] : e \in {d \in Range(recorded) : Failing(d)}}'
    BY <1>1, <1>3, <2>3, KeysAfter DEF Booked, BucketsFaithful
  <2>6. \A j \in DOMAIN buckets' : BucketFaithful(j, buckets[j])'
    BY <2>2, <2>3, <2>4
  <2> QED BY <1>2, <2>2, <2>3, <2>4, <2>5, <2>6 DEF Booked, BucketsFaithful
<1>4. CASE ~Failing(c)
  <2>1. UNCHANGED <<buckets, announced>>
    BY <1>4 DEF CaseFinished
  <2>2. \A j \in DOMAIN buckets : j # BucketKey[c]
    BY <1>4 DEF Booked, BucketsFaithful, Failing
  <2>3. ASSUME NEW CONSTANT j, j \in DOMAIN buckets PROVE BucketFaithful(j, buckets[j])'
    BY <1>1, <2>1, <2>2, <2>3, OthersStay
  <2>4. DOMAIN buckets = {BucketKey[e] : e \in {d \in Range(recorded) : Failing(d)}}'
    BY <1>1, <1>4, KeysAfter DEF Booked, BucketsFaithful
  <2> QED BY <1>2, <2>1, <2>3, <2>4 DEF Booked, BucketsFaithful
<1> QED BY <1>3, <1>4

LEMMA BooksUntouched ==
    ASSUME Booked, UNCHANGED books
    PROVE  Booked'
<1>1. UNCHANGED <<policy, recorded, buckets, announced>>
  BY DEF books
<1>2. \A k : Positions(k)' = Positions(k)
  BY <1>1 DEF Positions
<1>3. \A i : Rank(i)' = Rank(i)
  BY <1>1 DEF Rank, Positions
<1>4. \A r : Asked(r)' = Asked(r)
  BY <1>1 DEF Asked
<1>5. \A k : Picked(k)' = Picked(k)
  BY <1>2, <1>3, <1>4 DEF Picked
<1>6. ASSUME NEW CONSTANT k, k \in DOMAIN buckets PROVE BucketFaithful(k, buckets[k])'
  <2>1. BucketFaithful(k, buckets[k])
    BY <1>6 DEF Booked, BucketsFaithful
  <2>2. Positions(k)' = Positions(k) /\ Picked(k)' = Picked(k) /\ Asked(1)' = Asked(1)
    BY <1>2, <1>4, <1>5
  <2> QED BY <1>1, <2>1, <2>2 DEF BucketFaithful
<1> QED BY <1>1, <1>6 DEF Booked, BucketsFaithful, Failing

LEMMA NextRunBooks ==
    ASSUME NextRun
    PROVE  Booked'
BY DEF NextRun, NewRun, Booked, BucketsFaithful, Range

\* In every state of every run into the directory, in whatever order cases are
\* recorded and whichever policy of whichever run is interrupted, each bucket
\* counts its failures, names the first and the last, holds exactly the samples
\* the policy asks for and was announced as the policy asks.
THEOREM BucketsAreFaithful == Spec => []BucketsFaithful
<1>1. Booked /\ [Next]_vars => Booked'
  <2> SUFFICES ASSUME Booked, [Next]_vars PROVE Booked'
    OBVIOUS
  <2>1. ASSUME NEW c \in Cases, CaseFinished(c) PROVE Booked'
    BY <2>1, CaseFinishedBooks
  <2>2. CASE UNCHANGED books
    BY <2>2, BooksUntouched
  <2>3. CASE NextRun
    BY <2>3, NextRunBooks
  <2>4. CASE UNCHANGED vars
    BY <2>2, <2>4 DEF vars, books
  <2> QED BY <2>1, <2>2, <2>3, <2>4 DEF Next, TrimPassCase, KeepFailure, Compress, BeginPolicy,
            CompressDone, PolicyDone, PolicyBreaks
<1>2. Booked => BucketsFaithful
  BY DEF Booked
<1> QED BY BookedInit, <1>1, <1>2, PTL DEF Spec
=============================================================================
