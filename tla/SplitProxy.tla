----------------------------- MODULE SplitProxy -----------------------------
(***************************************************************************)
(* One connection through the split proxy (nvmetcp_tls_fuzz/split_proxy.py) *)
(* to the fake target (fake_target.py).  Two coroutines forward frames,    *)
(* one per direction, each rewriting the frames its rules name by ordinal. *)
(* A step is what a coroutine does between two awaits that can block.      *)
(*                                                                         *)
(*   host  --in[h2t]-->  proxy  --out[h2t]-->  target                      *)
(*   host  <--out[t2h]-- proxy  <--in[t2h]---  target                      *)
(*                                                                         *)
(* The host, the sockets, asyncio's transports and the garbage collector   *)
(* are external.  close() of a StreamWriter stops reading from its         *)
(* connection at once; the connection is lost, which the reader of the     *)
(* other direction and the peer see as the end of their streams, only when *)
(* the bytes the transport holds back have gone out.  wait_closed() waits  *)
(* for that.                                                               *)
(***************************************************************************)
EXTENDS Pdu, FiniteSets

CONSTANTS
    Requests,       \* the frames the host sends, in order
    RuleLists,      \* the proxy's possible rules: sequences of records of
                    \* direction, ordinal, mutation
    SocketRoom,     \* bytes the sockets between a writer and a reader hold
    HighWater,      \* bytes a transport holds back before drain() blocks
    ReadLimit,      \* bytes a reader holds before it stops receiving
    IcRespPlen, CapsulePlen

Directions == {"host_to_target", "target_to_host"}
Other(d) == IF d = "host_to_target" THEN "target_to_host" ELSE "host_to_target"
Sender(d) == IF d = "host_to_target" THEN "host" ELSE "target"
Receiver(d) == Sender(Other(d))

ASSUME ProxyAssumption ==
    /\ SocketRoom \in Nat /\ HighWater \in Nat /\ ReadLimit \in Nat
    /\ Requests \in Seq(Seq(Byte))
    /\ \A k \in DOMAIN Requests : Complete(Requests[k]) /\ FrameLength(Requests[k]) = Len(Requests[k])
    /\ {IcRespPlen, CapsulePlen} \subseteq HEADER_SIZE + 1..65535

ASSUME RulesAssumption ==
    RuleLists \subseteq Seq([direction : Directions, ordinal : Int, mutation : Mutations])

VARIABLES
    rules,
    pipe,       \* direction -> "connecting", "read", "drain", "closing" (in
                \* wait_closed), "ended" or "crashed"
    ordinal,    \* direction -> frames read
    in, inEof,  \* direction -> bytes on their way to the proxy; the last ones
    reader, eof,\* direction -> buffer and _eof of the pipe's StreamReader
    out,        \* direction -> bytes written and not received at the other end
    writer,     \* direction -> "open", "closing" (closed, not flushed) or "lost"
    gone,       \* endpoints that closed their connection
    target,     \* "read" or "drain"
    buffer,     \* the target's StreamReader
    sent,       \* direction -> bytes the endpoint wrote to an open connection
    forwarded   \* direction -> bytes the pipe wrote

vars == <<rules, pipe, ordinal, in, inEof, reader, eof, out, writer, gone, target, buffer,
          sent, forwarded>>
endpoints == <<gone, target, buffer, sent>>

Init ==
    /\ rules \in RuleLists
    /\ pipe = [d \in Directions |-> "connecting"]
    /\ ordinal = [d \in Directions |-> 0]
    /\ in = [d \in Directions |-> <<>>] /\ inEof = [d \in Directions |-> FALSE]
    /\ reader = [d \in Directions |-> <<>>] /\ eof = [d \in Directions |-> FALSE]
    /\ out = [d \in Directions |-> <<>>] /\ writer = [d \in Directions |-> "open"]
    /\ gone = {} /\ target = "read" /\ buffer = <<>>
    /\ sent = [d \in Directions |-> <<>>] /\ forwarded = [d \in Directions |-> <<>>]

\* The transport holds nothing back; little enough for drain() to return.
Flushed(bytes) == Len(bytes) <= SocketRoom
Drained(bytes) == Len(bytes) <= SocketRoom + HighWater
-----------------------------------------------------------------------------
(* The rules *)

Names(rule, d, k) == rule.direction = d /\ rule.ordinal = k
RuleRaises(d, k) == \E i \in DOMAIN rules : Names(rules[i], d, k) /\ Raises(rules[i].mutation)
Rewritten(d, k, frame) ==
    FoldLeft(LAMBDA f, rule : IF Names(rule, d, k) THEN Apply(f, rule.mutation) ELSE f, frame, rules)
-----------------------------------------------------------------------------
(* The proxy *)

Connect ==
    /\ pipe["host_to_target"] = "connecting"
    /\ \/ pipe' = [d \in Directions |-> "read"] /\ UNCHANGED gone
       \/ pipe' = [d \in Directions |-> "crashed"] /\ gone' = gone \cup {"target"}
    /\ UNCHANGED <<rules, ordinal, in, inEof, reader, eof, out, writer, target, buffer, sent, forwarded>>

\* The transport of an open connection hands what has arrived to the reader,
\* unless that holds enough and the pipe does not wait for more.
Receive(d) ==
    /\ writer[Other(d)] = "open" /\ ~eof[d]
    /\ Len(reader[d]) <= ReadLimit \/ (pipe[d] = "read" /\ ~Complete(reader[d]))
    /\ in[d] # <<>> \/ inEof[d]
    /\ reader' = [reader EXCEPT ![d] = @ \o in[d]]
    /\ in' = [in EXCEPT ![d] = <<>>]
    /\ eof' = [eof EXCEPT ![d] = inEof[d]]
    /\ UNCHANGED <<rules, pipe, ordinal, inEof, out, writer, endpoints, forwarded>>

\* Seeded fault: the ordinal is counted after the rules are looked up.
ReadFrame_LateOrdinal(d) ==
    LET frame == Rewritten(d, ordinal[d], FirstFrame(reader[d]))
    IN  /\ pipe[d] = "read" /\ Complete(reader[d])
        /\ ~RuleRaises(d, ordinal[d])
        /\ reader' = [reader EXCEPT ![d] = AfterFrame(@)]
        /\ ordinal' = [ordinal EXCEPT ![d] = @ + 1]
        /\ pipe' = [pipe EXCEPT ![d] = "drain"]
        /\ out' = [out EXCEPT ![d] = @ \o frame]
        /\ forwarded' = [forwarded EXCEPT ![d] = @ \o frame]
        /\ UNCHANGED <<rules, in, inEof, eof, writer, endpoints>>

\* Seeded fault: a frame no rule names is taken and not written when it is the
\* last the reader holds.
ReadFrame_DropsLast(d) ==
    LET k == ordinal[d] + 1
        frame == Rewritten(d, k, FirstFrame(reader[d]))
        dropped == frame = FirstFrame(reader[d]) /\ AfterFrame(reader[d]) = <<>>
    IN  /\ pipe[d] = "read" /\ Complete(reader[d]) /\ ~RuleRaises(d, k)
        /\ reader' = [reader EXCEPT ![d] = AfterFrame(@)]
        /\ ordinal' = [ordinal EXCEPT ![d] = k]
        /\ pipe' = [pipe EXCEPT ![d] = IF dropped THEN "read" ELSE "drain"]
        /\ IF dropped \/ Receiver(d) \in gone \/ writer[d] = "lost"
           THEN UNCHANGED <<out, forwarded>>
           ELSE /\ out' = [out EXCEPT ![d] = @ \o frame]
                /\ forwarded' = [forwarded EXCEPT ![d] = @ \o frame]
        /\ UNCHANGED <<rules, in, inEof, eof, writer, endpoints>>

\* A frame is read, rewritten and written; to a connection that is lost the
\* write does nothing.  A rule that raises ends the coroutine.
ReadFrame(d) ==
    LET k == ordinal[d] + 1
        frame == Rewritten(d, k, FirstFrame(reader[d]))
    IN  /\ pipe[d] = "read" /\ Complete(reader[d])
        /\ reader' = [reader EXCEPT ![d] = AfterFrame(@)]
        /\ ordinal' = [ordinal EXCEPT ![d] = k]
        /\ IF RuleRaises(d, k)
           THEN pipe' = [pipe EXCEPT ![d] = "crashed"] /\ UNCHANGED <<out, forwarded>>
           ELSE /\ pipe' = [pipe EXCEPT ![d] = "drain"]
                /\ IF Receiver(d) \in gone \/ writer[d] = "lost"
                   THEN UNCHANGED <<out, forwarded>>
                   ELSE /\ out' = [out EXCEPT ![d] = @ \o frame]
                        /\ forwarded' = [forwarded EXCEPT ![d] = @ \o frame]
        /\ UNCHANGED <<rules, in, inEof, eof, writer, endpoints>>

Drain(d) ==
    /\ pipe[d] = "drain" /\ Drained(out[d])
    /\ pipe' = [pipe EXCEPT ![d] = "read"]
    /\ UNCHANGED <<rules, ordinal, in, inEof, reader, eof, out, writer, endpoints, forwarded>>

\* connection_lost: the reader of the connection is fed the end of its stream,
\* and the bytes the transport never received are lost; the socket is closed,
\* and the reset that answers such bytes may cost the peer what it has not read.
Lose(d) ==
    LET o == Other(d) IN
    /\ writer' = [writer EXCEPT ![d] = "lost"]
    /\ in' = [in EXCEPT ![o] = <<>>] /\ inEof' = [inEof EXCEPT ![o] = TRUE]
    /\ eof' = [eof EXCEPT ![o] = TRUE]
    /\ \E delivered \in (IF in[o] = <<>> THEN {out[d]} ELSE Prefixes(out[d])) :
          out' = [out EXCEPT ![d] = delivered]

\* writer.close()
CloseWriter(d) ==
    \/ writer[d] = "open" /\ Flushed(out[d]) /\ Lose(d)
    \/ /\ writer[d] = "open" /\ ~Flushed(out[d])
       /\ writer' = [writer EXCEPT ![d] = "closing"]
       /\ UNCHANGED <<in, inEof, eof, out>>
    \/ writer[d] # "open" /\ UNCHANGED <<in, inEof, eof, out, writer>>

\* The last byte a closed writer held back goes out.
Flush(d) ==
    /\ writer[d] = "closing" /\ Flushed(out[d])
    /\ Lose(d)
    /\ UNCHANGED <<rules, pipe, ordinal, reader, endpoints, forwarded>>

\* Seeded fault: the end of one stream is not passed on.
EndOfStream_Silent(d) ==
    /\ pipe[d] = "read" /\ eof[d] /\ ~Complete(reader[d])
    /\ pipe' = [pipe EXCEPT ![d] = "ended"]
    /\ UNCHANGED <<rules, ordinal, in, inEof, reader, eof, out, writer, endpoints, forwarded>>

\* IncompleteReadError
EndOfStream(d) ==
    /\ pipe[d] = "read" /\ eof[d] /\ ~Complete(reader[d])
    /\ pipe' = [pipe EXCEPT ![d] = "closing"]
    /\ CloseWriter(d)
    /\ UNCHANGED <<rules, ordinal, reader, endpoints, forwarded>>

\* wait_closed() returns, or raises the reset the connection was lost with.
WaitClosed(d) ==
    /\ pipe[d] = "closing" /\ writer[d] = "lost"
    /\ \/ pipe' = [pipe EXCEPT ![d] = "ended"]
       \/ Receiver(d) \in gone /\ pipe' = [pipe EXCEPT ![d] = "crashed"]
    /\ UNCHANGED <<rules, ordinal, in, inEof, reader, eof, out, writer, endpoints, forwarded>>

\* The peer of the connection the pipe reads or waits on has closed it.
Broken(d) == \/ pipe[d] = "read" /\ Sender(d) \in gone
             \/ pipe[d] = "drain" /\ (Receiver(d) \in gone \/ writer[d] = "lost")

\* ConnectionResetError
PipeReset(d) ==
    /\ Broken(d)
    /\ pipe' = [pipe EXCEPT ![d] = "closing"]
    /\ CloseWriter(d)
    /\ UNCHANGED <<rules, ordinal, reader, endpoints, forwarded>>

\* Any other exception, BrokenPipeError among them: the writer stays open.
PipeCrash(d) ==
    /\ Broken(d)
    /\ pipe' = [pipe EXCEPT ![d] = "crashed"]
    /\ UNCHANGED <<rules, ordinal, in, inEof, reader, eof, out, writer, endpoints, forwarded>>

\* Once gather has raised, the interpreter may close either connection: the
\* streams library does in some versions, and so does StreamWriter.__del__.
Collect(d) ==
    /\ \E e \in Directions : pipe[e] = "crashed"
    /\ writer[d] = "open"
    /\ CloseWriter(d)
    /\ UNCHANGED <<rules, pipe, ordinal, reader, endpoints, forwarded>>
-----------------------------------------------------------------------------
(* The fake target *)

\* default_handler
Response(frame) ==
    CASE frame[1] = PduType.ICREQ -> ToBytes(PduType.ICRESP, IcRespPlen)
      [] frame[1] = PduType.CAPSULE_CMD -> ToBytes(PduType.RESPONSE_CAPSULE, CapsulePlen)
      [] OTHER -> <<>>

\* Its reader receives as those of the proxy do.
TargetPulls ==
    /\ "target" \notin gone /\ out["host_to_target"] # <<>>
    /\ Len(buffer) <= ReadLimit \/ (target = "read" /\ ~Complete(buffer))
    /\ buffer' = buffer \o out["host_to_target"]
    /\ out' = [out EXCEPT !["host_to_target"] = <<>>]
    /\ UNCHANGED <<rules, pipe, ordinal, in, inEof, reader, eof, writer, gone, target, sent, forwarded>>

\* Seeded fault: the payload of a frame is left in the stream.
TargetServes_HeaderOnly ==
    LET response == Response(FirstFrame(buffer)) IN
    /\ target = "read" /\ "target" \notin gone /\ Complete(buffer)
    /\ buffer' = SubSeq(buffer, HEADER_SIZE + 1, Len(buffer))
    /\ target' = IF response = <<>> THEN "read" ELSE "drain"
    /\ in' = [in EXCEPT !["target_to_host"] = @ \o response]
    /\ sent' = [sent EXCEPT !["target_to_host"] = @ \o response]
    /\ UNCHANGED <<rules, pipe, ordinal, inEof, reader, eof, out, writer, gone, forwarded>>

TargetServes ==
    LET response == Response(FirstFrame(buffer))
        reply == IF inEof["target_to_host"] THEN <<>> ELSE response
    IN  /\ target = "read" /\ "target" \notin gone /\ Complete(buffer)
        /\ buffer' = AfterFrame(buffer)
        /\ target' = IF response = <<>> THEN "read" ELSE "drain"
        /\ in' = [in EXCEPT !["target_to_host"] = @ \o reply]
        /\ sent' = [sent EXCEPT !["target_to_host"] = @ \o reply]
        /\ UNCHANGED <<rules, pipe, ordinal, inEof, reader, eof, out, writer, gone, forwarded>>

TargetDrains ==
    /\ target = "drain" /\ "target" \notin gone
    /\ Drained(in["target_to_host"])
    /\ target' = "read"
    /\ UNCHANGED <<rules, pipe, ordinal, in, inEof, reader, eof, out, writer, gone, buffer, sent,
                   forwarded>>

\* The proxy has closed the connection: the end of the stream, or a reset that
\* may come before it.  The finally clause closes the writer.
TargetEnds ==
    /\ "target" \notin gone /\ writer["host_to_target"] = "lost"
    /\ gone' = gone \cup {"target"}
    /\ out' = [out EXCEPT !["host_to_target"] = <<>>]
    /\ UNCHANGED <<rules, pipe, ordinal, in, inEof, reader, eof, writer, target, buffer, sent, forwarded>>
-----------------------------------------------------------------------------
(* The host *)

HostSends ==
    /\ "host" \notin gone /\ ~inEof["host_to_target"]
    /\ \E k \in DOMAIN Requests :
         /\ sent["host_to_target"] = FlattenSeq(SubSeq(Requests, 1, k - 1))
         /\ in' = [in EXCEPT !["host_to_target"] = @ \o Requests[k]]
         /\ sent' = [sent EXCEPT !["host_to_target"] = @ \o Requests[k]]
    /\ UNCHANGED <<rules, pipe, ordinal, inEof, reader, eof, out, writer, gone, target, buffer, forwarded>>

HostReads ==
    /\ "host" \notin gone /\ out["target_to_host"] # <<>>
    /\ out' = [out EXCEPT !["target_to_host"] = <<>>]
    /\ UNCHANGED <<rules, pipe, ordinal, in, inEof, reader, eof, writer, endpoints, forwarded>>

\* It stops sending, or closes altogether.
HostCloses ==
    /\ "host" \notin gone
    /\ inEof' = [inEof EXCEPT !["host_to_target"] = TRUE]
    /\ \/ ~inEof["host_to_target"] /\ UNCHANGED <<gone, out>>
       \/ gone' = gone \cup {"host"} /\ out' = [out EXCEPT !["target_to_host"] = <<>>]
    /\ UNCHANGED <<rules, pipe, ordinal, in, reader, eof, writer, target, buffer, sent, forwarded>>
-----------------------------------------------------------------------------
Pipe(d) == ReadFrame(d) \/ Drain(d) \/ EndOfStream(d) \/ WaitClosed(d)
Target == TargetPulls \/ TargetServes \/ TargetDrains \/ TargetEnds

Next ==
    \/ Connect
    \/ \E d \in Directions : Receive(d) \/ Flush(d) \/ Pipe(d) \/ PipeReset(d) \/ PipeCrash(d) \/ Collect(d)
    \/ Target
    \/ HostSends \/ HostReads \/ HostCloses

\* The event loop serves its sockets and resumes a coroutine whose await is over;
\* a host that has not closed reads what it is sent.
Fairness ==
    /\ WF_vars(Connect) /\ WF_vars(Target) /\ WF_vars(HostReads)
    /\ \A d \in Directions : WF_vars(Receive(d)) /\ WF_vars(Flush(d)) /\ WF_vars(Pipe(d))

Spec == Init /\ [][Next]_vars
FairSpec == Spec /\ Fairness
-----------------------------------------------------------------------------
\* The frames of a stream, by their headers.
Frames(stream) ==
    LET from[s \in Seq(Byte)] ==
            IF Complete(s) THEN <<FirstFrame(s)>> \o from[AfterFrame(s)] ELSE <<>>
    IN  from[stream]

\* The stream with every rule of the direction applied to the frame it names,
\* up to the first frame whose rule raises.
RewrittenStream(d, stream) ==
    LET frames == Frames(stream)
        passed == {k \in DOMAIN frames : \A j \in 1..k : ~RuleRaises(d, j)}
    IN  FlattenSeq([k \in 1..Cardinality(passed) |-> Rewritten(d, k, frames[k])])

\* The stream of a target that reads the given one.
Answers(stream) == FlattenSeq([k \in DOMAIN Frames(stream) |-> Response(Frames(stream)[k])])

\* However reads, writes and closes of the two coroutines interleave, each
\* direction carries the sender's frames, complete, in order and each once, and
\* a rule changes the frame of its direction and ordinal and no other.  A rule
\* that raises lets nothing more through.
OnlyRulesDiffer ==
    \A d \in Directions : IsPrefix(forwarded[d], RewrittenStream(d, sent[d]))

\* End to end: what reaches the host are the rewritten answers to the rewritten
\* requests, as if the rules had been applied before and after an undisturbed
\* exchange - also when a rewritten length makes the target lose its framing.
EndToEnd ==
    LET asked == RewrittenStream("host_to_target", sent["host_to_target"])
    IN  IsPrefix(forwarded["target_to_host"],
                 RewrittenStream("target_to_host", Answers(asked)))

Crashed == \E d \in Directions : pipe[d] = "crashed"
Closed == gone # {} \/ \E d \in Directions : inEof[d]

\* What the pipe of a direction owes: every request, rewritten, and the rewritten
\* answer to each of these.
Due(d) ==
    LET asked == RewrittenStream("host_to_target", sent["host_to_target"])
    IN  IF d = "host_to_target" THEN asked
        ELSE RewrittenStream("target_to_host", Answers(asked))

\* What the host sends is written on, every byte of it, and so are the answers
\* it gives rise to, unless an end closes or a coroutine has failed.
Delivery ==
    \A d \in Directions : forwarded[d] # Due(d) ~> (forwarded[d] = Due(d) \/ Closed \/ Crashed)

\* The target waits in drain() for its answers to be read, with its reader full,
\* and the pipe towards it waits for the target to read.  Nobody reads the
\* answers: the host has gone and their pipe has ended, while the other is in
\* drain(); or the pipe towards the target has closed its writer, which stops
\* the reading, and is in wait_closed() until its last bytes are out.
Wedged ==
    /\ target = "drain" /\ ~Drained(in["target_to_host"]) /\ Len(buffer) > ReadLimit
    /\ \/ /\ pipe["host_to_target"] = "drain" /\ ~Drained(out["host_to_target"])
          /\ pipe["target_to_host"] = "ended" /\ Len(reader["target_to_host"]) > ReadLimit
       \/ /\ pipe["host_to_target"] = "closing" /\ writer["host_to_target"] = "closing"
          /\ ~Flushed(out["host_to_target"])

\* When one end closes, the proxy ends both directions and the target's
\* connection, but for a coroutine that failed or a wedge.
CloseSpreads ==
    Closed ~> (Crashed \/ Wedged \/
               ("target" \in gone /\ \A d \in Directions : pipe[d] = "ended"))
=============================================================================
