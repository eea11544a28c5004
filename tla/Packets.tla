------------------------------ MODULE Packets -------------------------------
(***************************************************************************)
(* The packet builder of the network protocol mode                         *)
(* (pangea_fuzz/net_protocol/packets.py).  A packet is the sequence of its *)
(* 16-bit words: everything build_packet writes has an even length.  An    *)
(* address of a target is a sequence of words, a port a number.            *)
(***************************************************************************)
EXTENDS Naturals, SequencesExt

Word == 0..65535
Octets(high, low) == 256 * high + low
EtherTypes == [arp |-> 2054, ipv4 |-> 2048, ipv6 |-> 34525]
Pangea == <<Octets(112, 97), Octets(110, 103), Octets(101, 97)>>    \* b"pangea"

Sum(words) == FoldSeq(LAMBDA w, total : w + total, 0, words)

\* The end-around carry of _checksum.
carried[total \in Nat] ==
    IF total < 65536 THEN total ELSE carried[(total % 65536) + (total \div 65536)]

\* Seeded fault: the carry is added in once.
Checksum_OneCarry(words) ==
    65535 - (((Sum(words) % 65536) + (Sum(words) \div 65536)) % 65536)

Checksum(words) == 65535 - carried[Sum(words)]

DefaultTarget ==
    [src_mac  |-> <<512, 0, 1>>,   dst_mac  |-> <<512, 0, 2>>,
     src_ipv4 |-> <<49152, 513>>,  dst_ipv4 |-> <<49152, 522>>,
     src_ipv6 |-> <<8193, 3512, 0, 0, 0, 0, 0, 1>>,
     dst_ipv6 |-> <<8193, 3512, 0, 0, 0, 0, 0, 16>>,
     src_port |-> 40000, tcp_port |-> 4420, udp_port |-> 4420]

\* A case may leave out any part of its target.
Full(target) == [name \in DOMAIN DefaultTarget |->
    IF name \in DOMAIN target THEN target[name] ELSE DefaultTarget[name]]

\* What struct and ipaddress accept, and a hardware address of six octets.
TargetTypes ==
    [src_mac |-> [1..3 -> Word], dst_mac |-> [1..3 -> Word],
     src_ipv4 |-> [1..2 -> Word], dst_ipv4 |-> [1..2 -> Word],
     src_ipv6 |-> [1..8 -> Word], dst_ipv6 |-> [1..8 -> Word],
     src_port |-> Word, tcp_port |-> Word, udp_port |-> Word]

\* The parts of the target that the packet of a protocol is made of.
Uses(protocol) == {"src_mac", "dst_mac"} \cup
    CASE protocol = "ipv6"            -> {"src_ipv6", "dst_ipv6", "src_port", "tcp_port"}
      [] protocol = "icmpv6"          -> {"src_ipv6", "dst_ipv6"}
      [] protocol \in {"arp", "icmp"} -> {"src_ipv4", "dst_ipv4"}
      [] protocol = "udp"             -> {"src_ipv4", "dst_ipv4", "src_port", "udp_port"}
      [] OTHER                        -> {"src_ipv4", "dst_ipv4", "src_port", "tcp_port"}

\* build_packet raises on an address or a port that is not one.
Buildable(case) == \A name \in Uses(case.protocol) : Full(case.target)[name] \in TargetTypes[name]

ArpPayload(t) ==
    <<1, EtherTypes.ipv4, Octets(6, 4), 1>> \o t.src_mac \o t.src_ipv4 \o t.dst_mac \o t.dst_ipv4

TcpSegment(t) ==
    <<t.src_port, t.tcp_port, 0, 1, 0, 0, 5 * 4096 + 2, 64240, 0, 0>> \o Pangea

UdpSegment(t) == <<t.src_port, t.udp_port, 8 + 2 * Len(Pangea), 0>> \o Pangea

IcmpPayload ==
    LET body(checksum) == <<Octets(8, 0), checksum, 1, 1>> \o Pangea
    IN  body(Checksum(body(0)))

Icmpv6Payload == <<Octets(128, 0), 0, 1, 1>> \o Pangea

\* "ethernet", and every name that is not listed, is sent as TCP over IPv4.
Ipv4Packet(t, protocol) ==
    LET payload == CASE protocol = "udp"  -> UdpSegment(t)
                     [] protocol = "icmp" -> IcmpPayload
                     [] OTHER             -> TcpSegment(t)
        number  == CASE protocol = "udp" -> 17 [] protocol = "icmp" -> 1 [] OTHER -> 6
        header(checksum) ==
            <<Octets(69, 0), 20 + 2 * Len(payload), 1, 0, Octets(64, number), checksum>>
              \o t.src_ipv4 \o t.dst_ipv4
    IN  header(Checksum(header(0))) \o payload

Ipv6Packet(t, protocol) ==
    LET payload == IF protocol = "icmpv6" THEN Icmpv6Payload ELSE TcpSegment(t)
        next    == IF protocol = "icmpv6" THEN 58 ELSE 6
    IN  <<6 * 4096, 0, 2 * Len(payload), Octets(next, 64)>> \o t.src_ipv6 \o t.dst_ipv6 \o payload

\* build_packet: the protocol and the target of the case, and nothing else.
Packet(case) ==
    LET t == Full(case.target)
    IN  t.dst_mac \o t.src_mac \o
        CASE case.protocol = "arp" -> <<EtherTypes.arp>> \o ArpPayload(t)
          [] case.protocol \in {"ipv6", "icmpv6"} ->
                 <<EtherTypes.ipv6>> \o Ipv6Packet(t, case.protocol)
          [] OTHER -> <<EtherTypes.ipv4>> \o Ipv4Packet(t, case.protocol)
-----------------------------------------------------------------------------
(* The receiver's side (RFC 791, 792, 768, 8200, 9293, 4443), to judge the  *)
(* packets by                                                              *)

\* The words of a checked region, checksum included, add up to minus zero.
Verifies(words) == Sum(words) > 0 /\ Sum(words) % 65535 = 0

Bytes(words) == 2 * Len(words)
Datagram(packet) == SubSeq(packet, 8, Len(packet))

Ipv4Accepts(datagram) ==
    LET header == SubSeq(datagram, 1, 10)
    IN  header[2] = Bytes(datagram) /\ Verifies(header)

Ipv6Accepts(datagram) == datagram[3] = Bytes(datagram) - 40

NetworkAccepts(packet) ==
    /\ \A i \in 1..Len(packet) : packet[i] \in Word
    /\ packet[7] = EtherTypes.ipv4 => Ipv4Accepts(Datagram(packet))
    /\ packet[7] = EtherTypes.ipv6 => Ipv6Accepts(Datagram(packet))

\* What is behind the network header: its number, its words, and the pseudo
\* header that its checksum covers as well.
Ipv4Upper(datagram) ==
    LET number == datagram[5] % 256
        body   == SubSeq(datagram, 11, Len(datagram))
    IN  [number |-> number, body |-> body,
         pseudo |-> SubSeq(datagram, 7, 10) \o <<number, Bytes(body)>>]

Ipv6Upper(datagram) ==
    LET number == datagram[4] \div 256
        body   == SubSeq(datagram, 21, Len(datagram))
    IN  [number |-> number, body |-> body,
         pseudo |-> SubSeq(datagram, 5, 20) \o <<Bytes(body), number>>]

Upper(packet) == IF packet[7] = EtherTypes.ipv4 THEN Ipv4Upper(Datagram(packet))
                                                ELSE Ipv6Upper(Datagram(packet))

\* ICMP sums its message.  UDP over IPv4 may leave the checksum out.  Everything
\* else, TCP (6) and ICMPv6 (58), sums the pseudo header and the message.
TransportAccepts(upper) ==
    CASE upper.number = 1  -> Verifies(upper.body)
      [] upper.number = 17 -> /\ upper.body[3] = Bytes(upper.body)
                              /\ upper.body[4] = 0 \/ Verifies(upper.pseudo \o upper.body)
      [] OTHER             -> Verifies(upper.pseudo \o upper.body)

\* The tests of a receiver, before it looks at what it was sent.
Accepts(packet) ==
    /\ NetworkAccepts(packet)
    /\ packet[7] # EtherTypes.arp => TransportAccepts(Upper(packet))

\* The checksum of a TCP segment or an ICMPv6 message is left zero, which is as
\* good as wrong: no receiver may take it for "none".
Unsummed(upper) == \/ upper.number = 6 /\ upper.body[9] = 0
                   \/ upper.number = 58 /\ upper.body[2] = 0
=============================================================================
