----------------------------- MODULE TcpFramer -----------------------------
(***************************************************************************)
(* The control channel's length-prefix codec (src/control_node/            *)
(* tcp_framer.cpp) as one client thread uses it (control_node.cpp,         *)
(* client_loop): the bytes the peer wrote arrive in recv chunks of any     *)
(* size, each chunk is fed to the decoder, and the loop pops every ready   *)
(* frame.  Bytes are numbers 0 .. 255; a payload is a sequence of them.    *)
(***************************************************************************)
EXTENDS Naturals, Sequences
LOCAL INSTANCE SequencesExt

CONSTANTS
    Messages,      \* the byte strings the peer writes, in order
    MaxChunk,      \* the largest recv chunk (4096 in the code)
    MaxFrameLen    \* the desynchronisation limit, 10 * 1024 * 1024

ASSUME FramerAssumption ==
    /\ Messages \in Seq(Seq(0 .. 255))
    /\ MaxChunk \in Nat \ {0}
    /\ MaxFrameLen \in Nat

VARIABLES
    fed,           \* how many bytes of the stream recv has returned
    buffer,        \* TcpFramer::buffer_
    ready,         \* TcpFramer::ready_frames_
    popped         \* the frames client_loop has popped and handled, in order

framerVars == <<fed, buffer, ready, popped>>

\* The bytes on the wire: the peer's writes back to back.
Wire == FlattenSeq(Messages)

\* TcpFramer::encode: a 4-byte big-endian length, then the payload.
Encode(p) ==
    << (Len(p) \div 16777216) % 256, (Len(p) \div 65536) % 256,
       (Len(p) \div 256) % 256, Len(p) % 256 >> \o p

\* Mutant: the length prefix read little-endian.
FrameLenLE(buf) == buf[4] * 16777216 + buf[3] * 65536 + buf[2] * 256 + buf[1]

\* The length prefix at the front of the buffer, read big-endian.
FrameLen(buf) == buf[1] * 16777216 + buf[2] * 65536 + buf[3] * 256 + buf[4]

(***************************************************************************)
(* try_extract_frames: while 4 bytes are buffered, read the length; a      *)
(* length over the limit clears the buffer and stops; an incomplete frame  *)
(* stops; a complete one moves to the ready queue.  The result is the pair *)
(* <<buffer, ready>>.                                                      *)
(***************************************************************************)
RECURSIVE Extract(_, _)
Extract(buf, rdy) ==
    IF Len(buf) < 4 THEN <<buf, rdy>>
    ELSE IF FrameLen(buf) > MaxFrameLen THEN << <<>>, rdy >>
    ELSE IF Len(buf) < 4 + FrameLen(buf) THEN <<buf, rdy>>
    ELSE Extract(SubSeq(buf, 5 + FrameLen(buf), Len(buf)),
                 Append(rdy, SubSeq(buf, 5, 4 + FrameLen(buf))))

FramerInit ==
    /\ fed = 0
    /\ buffer = <<>>
    /\ ready = <<>>
    /\ popped = <<>>

\* recv returns the next k bytes and feed appends them and extracts.
Feed(k) ==
    /\ fed + k <= Len(Wire)
    /\ LET r == Extract(buffer \o SubSeq(Wire, fed + 1, fed + k), ready)
       IN  /\ buffer' = r[1]
           /\ ready' = r[2]
    /\ fed' = fed + k
    /\ UNCHANGED popped

\* while (framer.has_frame()) handle(framer.pop_frame()).
PopFrame ==
    /\ ready # <<>>
    /\ popped' = Append(popped, Head(ready))
    /\ ready' = Tail(ready)
    /\ UNCHANGED <<fed, buffer>>

\* reset(): both queues dropped.  client_loop never calls it.
FramerReset ==
    /\ buffer' = <<>>
    /\ ready' = <<>>
    /\ UNCHANGED <<fed, popped>>

FramerNext ==
    \/ \E k \in 1 .. MaxChunk : Feed(k)
    \/ PopFrame

(***************************************************************************)
(* TCP delivers every byte the peer wrote, and the client loop polls       *)
(* again after each recv and drains the ready queue before it does.        *)
(***************************************************************************)
FramerSpec ==
    /\ FramerInit
    /\ [][FramerNext]_framerVars
    /\ WF_framerVars(\E k \in 1 .. MaxChunk : Feed(k))
    /\ WF_framerVars(PopFrame)

=============================================================================
