----------------------------- MODULE MCLongRun ------------------------------
(* A small instance of LongRun for TLC: rows of the shipped catalogs, their *)
(* values narrowed to a few bits, and commands that set one thing at a time.*)
EXTENDS LongRun, TLC

MCNumeral == ("0" :> 0) @@ ("1" :> 1) @@ ("2" :> 2) @@ ("5" :> 5) @@ ("20" :> 20)
             @@ ("120" :> 120) @@ ("200" :> 200) @@ ("4420" :> 4420)

TlsRow(path, pdu, direction, strategies, bits, legal, boundary, invalid) ==
    [path |-> path, pdu_type |-> pdu, direction |-> direction, strategies |-> strategies,
     oracle |-> "reject_or_disconnect", bit_width |-> bits, legal_values |-> legal,
     boundary_values |-> boundary, invalid_values |-> invalid]
MCTlsCatalog == {
    TlsRow("common.type", "common", "both",
           {"legal_boundary", "invalid_enum", "sequence_error", "bit_flip"}, 3, {0, 1, 2}, {0, 4}, {3, 7}),
    TlsRow("icreq.pfv", "icreq", "host", {"legal_boundary", "invalid_enum", "bit_flip"}, 2, {0}, {0, 1}, {1, 3}),
    TlsRow("icresp.pfv", "icresp", "target", {"legal_boundary", "invalid_enum", "bit_flip"}, 2, {0}, {0, 1}, {1, 3}),
    TlsRow("c2hdata.payload.order", "c2hdata", "target",
           {"sequence_error", "delay", "duplicate"}, 2, {0}, {1}, {1}),
    TlsRow("termreq.reserved", "termreq", "both", {"reserved_nonzero", "bit_flip"}, 2, {0}, {0}, {1, 3}),
    TlsRow("tls.key.missing", "tls_key", "host", {"drop", "sequence_error"}, 1, {0}, {1}, {1})}

KvRow(leaf, operation, strategies, bits, legal, boundary, invalid) ==
    [path |-> "kv." \o leaf, leaf |-> leaf, operation |-> operation, strategies |-> strategies,
     oracle |-> "must_reject_or_recover", bit_width |-> bits, legal_values |-> legal,
     boundary_values |-> boundary, invalid_values |-> invalid]
MCKvCatalog == {
    KvRow("opcode", "any", {"legal_boundary", "random_value"}, 1, {2, 16}, {}, {0, 255}),
    KvRow("nsid", "any", {"legal_boundary", "random_value"}, 2, {1}, {}, {0, 3}),
    KvRow("cdw2", "any", {"reserved_nonzero", "random_value"}, 1, {0}, {}, {1, 3}),
    KvRow("cdw10", "any", {"legal_boundary", "length_mismatch", "random_value"}, 1, {}, {0, 1}, {0, 2}),
    KvRow("cdw11", "any", {"legal_boundary", "length_mismatch", "buffer_too_small", "random_value"},
          1, {}, {0, 1}, {3}),
    KvRow("key_length", "any", {"legal_boundary", "invalid_key_size", "length_mismatch", "random_value"},
          1, {}, {1, 2}, {0, 3}),
    KvRow("host_buffer_size", "retrieve", {"buffer_too_small", "legal_boundary", "random_value"},
          1, {}, {0, 1}, {0}),
    KvRow("option_bits", "store", {"option_conflict", "duplicate_store", "random_value"}, 1, {0}, {}, {3}),
    KvRow("reserved_bits", "any", {"reserved_nonzero", "random_value"}, 1, {0}, {}, {1, 3}),
    KvRow("prp_sgl_direction", "any", {"option_conflict", "random_value"}, 1, {0, 1}, {}, {2}),
    KvRow("key_not_exist", "retrieve", {"key_not_exist"}, 1, {0}, {}, {1}),
    KvRow("delete_race", "delete", {"delete_race"}, 1, {0}, {}, {1}),
    KvRow("list_prefix", "list", {"list_prefix_boundary", "legal_boundary"}, 1, {}, {0, 1, 3}, {2}),
    KvRow("exist_missing", "exist", {"key_not_exist", "legal_boundary"}, 1, {0}, {}, {1})}
MCKeyLengths == FALSE :> {19} @@ TRUE :> {263}
MCValueLengths == TRUE :> {0, 8192} @@ FALSE :> {256}

NetRow(path, protocol, strategies) == [path |-> path, protocol |-> protocol, strategies |-> strategies]
MCNetCatalog == {
    NetRow("arp.opcode", "arp", {"invalid_enum", "sequence_error", "random_value"}),
    NetRow("ipv4.header_checksum", "ipv4", {"checksum_error", "random_value"}),
    NetRow("tcp.flags", "tcp", {"sequence_error", "reserved_nonzero", "random_value"})}

\* Shares of 2.7, 0.6 and half a case; the last two are refused by the modes
\* with a validation, and a ratio above one by all.
MCJobs == {[count |-> 3, ratio |-> 9], [count |-> 2, ratio |-> 3], [count |-> 1, ratio |-> 5],
           [count |-> 0, ratio |-> 0], [count |-> 2, ratio |-> 15]}

-----------------------------------------------------------------------------
(* Commands *)

Command(m, cli, file) == [mode |-> m, cli |-> cli @@ IF m = "tls" THEN [device |-> "ns"] ELSE <<>>,
                          file |-> file]
Shard(m, i, n) == Command(m, [shard_index |-> i, shard_count |-> n], <<>>)

Plain(word) == [word |-> word, quoted |-> FALSE]
Words == {Plain(w) : w \in {"", "true", "false", "False", "null", "0", "5", "other"}}
         \cup {[word |-> w, quoted |-> TRUE] : w \in {"", "5"}}
OptionsFor(name) ==
    {<<>>} \cup
    CASE Settings[name].kind = "number" -> {name :> n : n \in {0, 2}}
      [] Settings[name].kind \in {"text", "chain"} ->
             {name :> t : t \in IF name = "keep_pcap" THEN {"never", "all"} ELSE {"", "given"}}
      [] Settings[name].kind = "pcap" -> {"keep_pcap" :> t : t \in {"never", "all"}}
      [] OTHER -> {name :> TRUE}
FilesFor(s) ==
    {<<>>} \cup {s.keys[i] :> w : i \in DOMAIN s.keys, w \in Words}
    \cup {(s.keys[1] :> w) @@ (s.keys[Len(s.keys)] :> Plain("last")) : w \in Words}
Probes == UNION {{Command(m, cli, file) : cli \in OptionsFor(name), file \in FilesFor(Settings[name])}
                 : name \in Names("tls"), m \in {"tls"}}
          \cup UNION {{Command(m, cli, file) : cli \in OptionsFor(name),
                           file \in {<<>>} \cup {Settings[name].keys[1] :> Plain("5")}}
                      : name \in Names("kv"), m \in {"kv", "net"}}
Shards == {Shard(m, i, 2) : m \in {"tls", "kv", "net"}, i \in 0..1}
OddShards == {Shard("net", 0, 0), Shard("net", 2, 2),
              Command("tls", <<>>, ("shard_index" :> Plain("1")) @@ ("shard_count" :> Plain("2")))}
MCLaunches == [o \in {1, 2} \X {"off", "killed"} |->
                  IF o = <<1, "off">> THEN Probes \cup Shards \cup OddShards ELSE Shards]
=============================================================================
