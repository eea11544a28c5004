------------------------------ MODULE MCNetRun ------------------------------
(* Small instances of NetRun for TLC. *)
EXTENDS NetRun

\* The second case is of the other shard.
MCIndex == [c \in 1..NCases |-> IF c = 2 THEN 1 ELSE 2 * c]

\* Addresses that make the first carry of an ICMP datagram's header overflow again.
MCExtreme == [src_ipv4 |-> <<65535, 31000>>, dst_ipv4 |-> <<0, 452>>,
              dst_ipv6 |-> [i \in 1..8 |-> 65535], src_port |-> 65535]
MCCase(field, protocol, strategy, target) ==
    [field |-> field, protocol |-> protocol, strategy |-> strategy, target |-> target]
MCCampaign == <<
    MCCase("ipv4.header_checksum", "ipv4", "checksum_error", <<>>),
    MCCase("arp.hwtype", "arp", "invalid_enum", <<>>),
    MCCase("icmpv6.nd_ra_ns_na", "icmpv6", "random_value", MCExtreme),
    MCCase("icmp.checksum", "icmp", "checksum_error", MCExtreme),
    MCCase("udp.length", "udp", "invalid_length", MCExtreme),
    MCCase("tcp.dst_port", "tcp", "legal_boundary", [tcp_port |-> 65536])>>     \* cannot be built
MCRoutes == {"uplink"}
MCConfigs(ops) ==
    [op : ops, dry_run : BOOLEAN, allow_send : BOOLEAN, allow_disruptive : BOOLEAN,
     iface : {"", "test", "uplink"}, iface_allowlist : {{}, {"test"}},
     forbid_default_route_iface : BOOLEAN]
MCAllConfigs == MCConfigs({"pcap", "send", "replay"})
MCPcapConfigs == MCConfigs({"pcap"})
=============================================================================
