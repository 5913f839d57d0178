---------------------------- MODULE MCTcpFramer ----------------------------
(***************************************************************************)
(* The decoder fed by every chunking of a short stream.  Five commands,     *)
(* one of them empty (a legal zero-length frame), recv chunks of 1 to 5    *)
(* bytes: chunks split the length prefix, split the payload and join two   *)
(* frames.  The limit is the code's 10 MiB; the desynchronisation stream   *)
(* starts with a prefix over it.                                           *)
(***************************************************************************)
EXTENDS TcpFramer

CmdA == <<71, 69, 84, 32, 72>>
CmdB == <<>>
CmdC == <<83, 69>>
MCSent == <<CmdA, CmdB, CmdC, CmdA, CmdC>>

MCMessages == [i \in 1 .. Len(MCSent) |-> Encode(MCSent[i])]

\* A peer that writes a length prefix over the limit before the commands.
MCDesyncMessages == << <<1, 0, 0, 0>> >> \o MCMessages

MCMaxFrameLen == 10 * 1024 * 1024

(***************************************************************************)
(* The framer implements the message stream: the frames client_loop pops   *)
(* are the commands the peer sent, in order, and every one of them is      *)
(* popped.  The refinement maps the abstract delivered sequence to popped. *)
(***************************************************************************)
Stream == INSTANCE MessageStream WITH Sent <- MCSent, delivered <- popped

FramerRefinesStream == Stream!MsgSpec

=============================================================================
