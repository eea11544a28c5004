------------------------------ MODULE CaseGen -------------------------------
(***************************************************************************)
(* The case generators of the three modes (case_generator.py, catalog.py   *)
(* and campaign.py of each).  The pseudo-random generator is a free        *)
(* choice: an operator is the set of the cases a generator can return.     *)
(* A catalog is a set of fields; fields not of a mode are not of its       *)
(* records.  Values of more bits than a model needs are narrowed there.    *)
(***************************************************************************)
EXTENDS Integers, FiniteSets

CONSTANTS
    TlsCatalog,     \* [path, pdu_type, direction, strategies, oracle, bit_width,
                    \*  legal_values, boundary_values, invalid_values]
    KvCatalog,      \* [path, leaf, operation, strategies, oracle, bit_width, ... as above]
    NetCatalog,     \* [path, protocol, strategies]
    KvNsid,         \* --nsid of the generator, and nsid of the run's configuration
    KeyLengths,     \* lengths a key can have: invalid_key_size, and any other strategy
    ValueLengths    \* lengths a value can have: legal_boundary, and any other strategy

\* No row of the TLS catalog must be accepted, or asks for random values itself.
ASSUME TlsCatalogAssumption ==
    \A f \in TlsCatalog : /\ "random_value" \notin f.strategies /\ f.oracle # "must_succeed"
                          /\ f.bit_width \in Nat

\* The first of the lists of a field that has something in it.
Either(a, b, c) == IF a # {} THEN a ELSE IF b # {} THEN b ELSE c
Values(set) == {[is |-> "value", n |-> v] : v \in set}
Event == {[is |-> "event", n |-> 0]}
\* A random value; the width is capped (at 63 bits, 31 for KV).
Random(field) == Values(0..(2 ^ field.bit_width - 1))
StrategiesOf(catalog) == UNION {f.strategies : f \in catalog}
-----------------------------------------------------------------------------
(* NVMe/TCP TLS *)

TlsDirections == {"host", "target", "both"}
TlsCommands == {"connect", "identify", "read", "write", "flush"}

\* Seeded fault: a field of the host serves in every direction.
TlsMatching_OneWay(direction, pdu_type) ==
    {f \in TlsCatalog : f.pdu_type = pdu_type /\ f.direction \in {direction, "both", "host"}}

\* FieldCatalog.matching for the strategies None and random_value.
TlsMatching(direction, pdu_type) ==
    {f \in TlsCatalog : /\ f.pdu_type = pdu_type
                        /\ direction # "both" => f.direction \in {direction, "both"}}

TlsMutated(f, strategy) ==
    CASE strategy \in {"invalid_enum", "reserved_nonzero", "offset_out_of_range", "length_mismatch"} ->
             Values(Either(f.invalid_values, f.boundary_values, {2 ^ f.bit_width - 1}))
      [] strategy = "legal_boundary" -> Values(Either(f.boundary_values, f.legal_values, {0}))
      [] strategy = "bit_flip" -> {[is |-> "bit", n |-> b] : b \in 0..(f.bit_width - 1)}
      [] strategy \in {"endian_swap", "duplicate", "drop", "delay", "sequence_error",
                       "digest_flag_mismatch"} -> Event
      [] strategy = "random_value" -> Random(f)
      [] OTHER -> Values(Either(f.invalid_values, Either(f.boundary_values, f.legal_values, {0}), {}))

TlsAllowed(f, strategy) ==
    CASE strategy = "legal_boundary" /\ f.oracle = "must_succeed" -> {"PASS_VALID"}
      [] f.pdu_type = "tls_key" /\ ~(strategy = "legal_boundary" /\ f.oracle = "must_succeed") ->
             {"PASS_REJECTED"}
      [] OTHER -> {"PASS_REJECTED", "PASS_DISCONNECTED"}

TlsPhase(f) ==
    CASE f.pdu_type \in {"icreq", "icresp", "tls_key"} -> "connect"
      [] f.pdu_type \in {"capsule_cmd", "response_capsule"} -> "command"
      [] f.pdu_type \in {"h2cdata", "c2hdata", "r2t"} -> "data_transfer"
      [] f.pdu_type = "termreq" -> "termination"
      [] OTHER -> "frame_decode"

\* iter_cases: a direction without fields of the PDU is taken as "both".
TlsCases(flagged) ==
    UNION {LET fitting == TlsMatching(direction, pdu)
               used == IF fitting = {} THEN "both" ELSE direction
           IN  UNION {UNION {{[direction |-> used, pdu_type |-> pdu, field |-> f,
                               strategy |-> s, mutated |-> m, phase |-> TlsPhase(f),
                               allowed |-> TlsAllowed(f, s)] : m \in TlsMutated(f, s)}
                             : s \in IF flagged THEN {"random_value"} ELSE f.strategies}
                      : f \in TlsMatching(used, pdu)}
           : direction \in TlsDirections, pdu \in {f.pdu_type : f \in TlsCatalog}}
-----------------------------------------------------------------------------
(* NVMe KV *)

KV_OPCODES == [store |-> 1, retrieve |-> 2, list |-> 6, delete |-> 16, exist |-> 20]
Operations == DOMAIN KV_OPCODES

KvMatching(operations, strategy) ==
    {f \in KvCatalog : /\ f.operation \in operations \cup {"any"}
                       /\ strategy # "random_value" => strategy \in f.strategies}

\* Fields of any operation serve when the operation has none for the strategy.
KvFields(op, strategy) ==
    Either(KvMatching({op}, strategy), KvMatching(Operations, strategy), {})

KvMutated(f, strategy) ==
    CASE strategy = "legal_boundary" -> Values(Either(f.boundary_values, f.legal_values, {0}))
      [] strategy = "random_value" -> Random(f)
      [] strategy \in {"reserved_nonzero", "length_mismatch", "invalid_key_size", "buffer_too_small"} ->
             Values(Either(f.invalid_values, f.boundary_values, {1}))
      [] strategy \in {"option_conflict", "key_not_exist", "duplicate_store", "delete_race",
                       "list_prefix_boundary"} -> Event
      [] OTHER -> Values(Either(f.invalid_values, Either(f.boundary_values, f.legal_values, {0}), {}))

\* The target must not carry the command out.
RejectOnly == {"key_not_exist", "invalid_key_size", "length_mismatch", "reserved_nonzero",
               "buffer_too_small"}

KvAllowed(f, strategy) ==
    CASE strategy = "legal_boundary" /\ f.oracle = "must_succeed" -> {"PASS_VALID"}
      [] strategy \in RejectOnly -> {"PASS_REJECTED", "PASS_RECOVERED"}
      [] OTHER -> {"PASS_VALID", "PASS_REJECTED", "PASS_RECOVERED"}

MakeCdw(key, value) ==
    [cdw2 |-> 0, cdw3 |-> 0, cdw10 |-> key, cdw11 |-> value, cdw12 |-> 0, cdw13 |-> 0,
     cdw14 |-> 0, cdw15 |-> 0, option_bits |-> 0, reserved_bits |-> 0]

\* Where a mutation of the field goes: a part of the command or nowhere.
Lands(f, strategy) ==
    CASE f.leaf \in DOMAIN MakeCdw(0, 0) -> f.leaf
      [] f.leaf = "key_length" -> "cdw10"
      [] f.leaf \in {"value_length", "host_buffer_size"} -> "cdw11"
      [] OTHER -> IF strategy = "reserved_nonzero" THEN "reserved_bits" ELSE "nowhere"

KvCase(op, f, strategy, mutated, key, value) ==
    LET number == mutated.is = "value"
        place == Lands(f, strategy)
        plain == MakeCdw(key, value)
    IN  [operation |-> op, field |-> f, strategy |-> strategy, mutated |-> mutated,
         opcode |-> IF f.path = "kv.opcode" /\ number THEN mutated.n ELSE KV_OPCODES[op],
         nsid |-> IF f.path = "kv.nsid" /\ number THEN mutated.n ELSE KvNsid,
         key_length |-> key, value_length |-> value,
         cdw |-> IF place \in DOMAIN plain /\ number
                 THEN [plain EXCEPT ![place] = mutated.n] ELSE plain,
         allowed |-> KvAllowed(f, strategy)]

KvCases(flagged) ==
    UNION {UNION {{KvCase(op, f, s, m, key, value) : m \in KvMutated(f, s),
                        key \in KeyLengths[s = "invalid_key_size"],
                        value \in IF op \in {"store", "retrieve"} THEN ValueLengths[s = "legal_boundary"]
                                 ELSE {0}}
                  : f \in KvFields(op, s)}
           : op \in Operations, s \in IF flagged THEN {"random_value"} ELSE StrategiesOf(KvCatalog)}

\* What build_io_passthru puts on the command line of nvme io-passthru.
Argv(case) ==
    [opcode |-> case.opcode,
     nsid |-> IF case.nsid = 0 THEN KvNsid ELSE case.nsid,
     cdw |-> [c \in DOMAIN case.cdw \ {"option_bits", "reserved_bits"} |-> case.cdw[c]],
     write |-> case.operation = "store",
     data_len |-> CASE case.operation = "store" -> case.value_length
                    [] case.operation \in {"retrieve", "list", "exist"} ->
                           LET buffer == IF case.cdw.cdw11 = 0 THEN 4096 ELSE case.cdw.cdw11
                           IN  IF buffer > case.value_length THEN buffer ELSE case.value_length
                    [] OTHER -> 0]

\* The command of the case without its mutation.
PlainArgv(case) ==
    Argv([case EXCEPT !.opcode = KV_OPCODES[case.operation], !.nsid = KvNsid,
                      !.cdw = MakeCdw(case.key_length, case.value_length)])

\* Fields that do not change the command: a rejection has to come from the state
\* of the store.
SilentFields == {"kv.reserved_bits", "kv.key_not_exist", "kv.exist_missing"}

\* What a word of the command can be without a mutation.
PlainWord(word, op, strategy) ==
    CASE word = "cdw10" -> KeyLengths[strategy = "invalid_key_size"]
      [] word = "cdw11" /\ op \in {"store", "retrieve"} -> ValueLengths[strategy = "legal_boundary"]
      [] OTHER -> {0}

\* The rows of the KV catalog name values that no plain command has.
ASSUME KvCatalogAssumption ==
    \A op \in Operations, s \in RejectOnly : \A f \in KvFields(op, s) :
       \/ f.path \in SilentFields
       \/ /\ Lands(f, s) \in DOMAIN MakeCdw(0, 0) \ {"option_bits", "reserved_bits"}
          /\ \A m \in KvMutated(f, s) : m.is = "value" /\ m.n \notin PlainWord(Lands(f, s), op, s)
-----------------------------------------------------------------------------
(* Network protocols *)

NetCases(flagged) ==
    UNION {{[protocol |-> f.protocol, field |-> f, strategy |-> s]
            : s \in IF flagged THEN {"random_value"} ELSE f.strategies} : f \in NetCatalog}

CasesOf(mode, flagged) ==
    CASE mode = "tls" -> TlsCases(flagged) [] mode = "kv" -> KvCases(flagged)
      [] OTHER -> NetCases(flagged)
-----------------------------------------------------------------------------
(* Campaigns *)

\* Python's round of n / d: halves go to the even neighbour.
Round(n, d) ==
    LET low == n \div d
        rest == 2 * (n % d)
    IN  IF rest > d \/ (rest = d /\ low % 2 = 1) THEN low + 1 ELSE low

RandomBudget(job) == Round(job.count * job.ratio, 10)

\* validate(), which the network mode does not have, and random.sample.
JobRaises(mode, job) ==
    \/ mode # "net" /\ (job.count <= 0 \/ job.ratio \notin 0..10)
    \/ RandomBudget(job) \notin 0..job.count
=============================================================================
