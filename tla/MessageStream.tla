--------------------------- MODULE MessageStream ---------------------------
(***************************************************************************)
(* What the control channel promises a client thread (spec section 4.8):   *)
(* the commands a peer sent arrive as whole messages, in the order sent,   *)
(* each exactly once, and every one of them eventually arrives.            *)
(***************************************************************************)
EXTENDS Naturals, Sequences

CONSTANT Sent        \* the messages the peer sent, in order

VARIABLE delivered   \* the messages handed to the reader so far

MsgInit == delivered = <<>>

\* The next message in the order sent reaches the reader.
Deliver ==
    /\ Len(delivered) < Len(Sent)
    /\ delivered' = Append(delivered, Sent[Len(delivered) + 1])

MsgSpec == MsgInit /\ [][Deliver]_delivered /\ WF_delivered(Deliver)

=============================================================================
