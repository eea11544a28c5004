-------------------------------- MODULE Pdu --------------------------------
(***************************************************************************)
(* NVMe/TCP frames as byte sequences (nvmetcp_tls_fuzz/pdu.py) and the     *)
(* mutations MutationEngine applies to them (mutator.py).  The common      *)
(* header is scaled: of its five fields only type and plen decide          *)
(* anything, so it is one byte of type and two bytes of little-endian      *)
(* plen.  A payload byte read where a header is expected is a header.      *)
(***************************************************************************)
EXTENDS Integers, Sequences, SequencesExt

HEADER_SIZE == 3
Byte == 0..255

PduType == [ICREQ |-> 0, ICRESP |-> 1, CAPSULE_CMD |-> 4, RESPONSE_CAPSULE |-> 5]

Plen(pdu) == pdu[2] + 256 * pdu[3]

\* What readexactly asks for: the header, and max(0, plen - HEADER_SIZE) more.
FrameLength(stream) == IF Plen(stream) > HEADER_SIZE THEN Plen(stream) ELSE HEADER_SIZE

\* A whole frame is at the head of the stream.
Complete(stream) == Len(stream) >= HEADER_SIZE /\ Len(stream) >= FrameLength(stream)

FirstFrame(stream) == SubSeq(stream, 1, FrameLength(stream))
AfterFrame(stream) == SubSeq(stream, FrameLength(stream) + 1, Len(stream))

\* NvmeTcpFrame.to_bytes of a header without payload: padded with zeros.
ToBytes(type, plen) ==
    <<type, plen % 256, plen \div 256>> \o [i \in 1..(plen - HEADER_SIZE) |-> 0]
-----------------------------------------------------------------------------
\* field path -> <<offset, width>>; the header fields that are left out behave
\* like unused payload.
FIELD_LAYOUT == [f \in {"common.type", "common.plen"} |->
                   IF f = "common.type" THEN <<1, 1>> ELSE <<2, 2>>]

\* The bytes of a field, as _write stores an integer: masked to the width.
LittleEndian(n, width) == [i \in 1..width |-> (n \div 256^(i - 1)) % 256]

Field(pdu, path) == IF path = "common.type" THEN pdu[1] ELSE Plen(pdu)

twoTo[bit \in Nat] == IF bit = 0 THEN 1 ELSE 2 * twoTo[bit - 1]
Flip(n, bit) == IF (n \div twoTo[bit]) % 2 = 1 THEN n - twoTo[bit] ELSE n + twoTo[bit]

\* Slice assignment: bytes beyond the end of the pdu extend it.
Overwrite(pdu, offset, bytes) ==
    SubSeq(pdu, 1, offset - 1) \o bytes \o SubSeq(pdu, offset + Len(bytes), Len(pdu))

\* n is the integer value or the bit; "none" stands for a mutation with neither.
Mutations == [path : STRING, n : Int, bytes : Seq(Byte),
              strategy : {"bit_flip", "endian_swap", "value", "bytes", "none"}]

Raises(m) ==
    \/ m.path \notin DOMAIN FIELD_LAYOUT
    \/ m.strategy = "none"
    \/ m.strategy = "bit_flip" /\ m.n < 0

Apply(pdu, m) ==
    LET offset == FIELD_LAYOUT[m.path][1]
        width  == FIELD_LAYOUT[m.path][2]
        Store(bytes) == Overwrite(pdu, offset, bytes)
    IN  CASE m.strategy = "bit_flip" ->
                 Store(LittleEndian(Flip(Field(pdu, m.path), m.n), width))
          [] m.strategy = "endian_swap" ->
                 Store(Reverse(SubSeq(pdu, offset, offset + width - 1)))
          [] m.strategy = "value" -> Store(LittleEndian(m.n, width))
          [] m.strategy = "bytes" -> Store(m.bytes)
=============================================================================
