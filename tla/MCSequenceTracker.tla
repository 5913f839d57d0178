------------------------- MODULE MCSequenceTracker -------------------------
(***************************************************************************)
(* The sequence tracker on a small instance: one source, 3-bit sequence    *)
(* numbers (so the 2^32 wrap is reached in a few frames) and a 4-bit       *)
(* window (so frames fall both inside and beyond the window).              *)
(***************************************************************************)
EXTENDS SequenceTracker

MCSources == {1}
MCSeqMod == 8
MCWindowSize == 4

=============================================================================
