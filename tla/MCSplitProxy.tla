---------------------------- MODULE MCSplitProxy ----------------------------
(* A small instance of SplitProxy for TLC. *)
EXTENDS SplitProxy

\* ICReq and a command, with payloads that read as headers, a data frame whose
\* plen is smaller than the header, and one that fills the sockets.
MCRequests == << <<0, 6, 0, 4, 0, 0>>, <<4, 6, 0, 4, 0, 0>>, <<6, 0, 0>>, <<6, 5, 0, 0, 0>> >>

Rule(d, k, path, strategy, n, bytes) ==
    [direction |-> d, ordinal |-> k,
     mutation |-> [path |-> path, strategy |-> strategy, n |-> n, bytes |-> bytes]]

MCRuleLists ==
    { <<>>,
      \* the target waits for bytes that never come
      <<Rule("host_to_target", 1, "common.plen", "bit_flip", 7, <<>>)>>,
      <<Rule("host_to_target", 1, "common.plen", "endian_swap", 0, <<>>)>>,
      \* payload is taken for a header
      <<Rule("host_to_target", 2, "common.plen", "value", 3, <<>>)>>,
      \* bytes beyond the end of the frame, in two rules for one frame
      <<Rule("host_to_target", 3, "common.plen", "bytes", 0, <<5, 0, 1, 2>>),
        Rule("host_to_target", 3, "common.type", "value", 260, <<>>)>>,
      <<Rule("target_to_host", 2, "common.type", "bit_flip", 9, <<>>),
        Rule("target_to_host", 1, "common.plen", "value", 70000, <<>>)>>,
      \* a field the layout does not know
      <<Rule("target_to_host", 1, "icreq.pfv", "value", 1, <<>>)>>,
      <<Rule("host_to_target", 2, "common.plen", "none", 0, <<>>)>> }
=============================================================================
