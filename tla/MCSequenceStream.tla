------------------------- MODULE MCSequenceStream -------------------------
(***************************************************************************)
(* The sequence tracker fed by senders that number their frames           *)
(* consecutively modulo 2^32 (a uint32_t counter) over a network that may  *)
(* lose frames but neither reorders nor duplicates them.  The ghost        *)
(* nextSend[s] is the number source s puts on its next frame and lost is   *)
(* how many of its frames were lost just before the one last tracked.      *)
(* One source, 3-bit sequence numbers and a 4-bit window, as in            *)
(* MCSequenceTracker; at most MaxLoss frames are lost in a row.            *)
(***************************************************************************)
EXTENDS SequenceTracker

VARIABLES nextSend, lost

MCSources == {1}
MCSeqMod == 8
MCWindowSize == 4

\* The longest run of consecutive frames the network loses.
MaxLoss == 1

streamVars == <<trkVars, nextSend, lost>>

StreamInit ==
    /\ TrkInit
    /\ nextSend \in [Sources -> SeqNum]
    /\ lost = 0

\* The network loses n frames of source s and delivers the next one, which
\* the gateway hands to track.
Deliver(s, n) ==
    /\ Track(s, U32(nextSend[s] + n))
    /\ nextSend' = [nextSend EXCEPT ![s] = U32(@ + n + 1)]
    /\ lost' = n

StreamNext == \E s \in Sources, n \in 0 .. MaxLoss : Deliver(s, n)

StreamSpec == StreamInit /\ [][StreamNext]_streamVars

(***************************************************************************)
(* Once a source is tracked, a frame it sent after every frame tracked so  *)
(* far is OK when none was lost in between, and a GAP of the number lost   *)
(* otherwise (spec glossary: a gap is the sequence jumping ahead by n,     *)
(* implying n lost frames; section 4.3: gap_size is the number of missing  *)
(* sequence numbers, and next_expected wraps modulo 2^32).  It is never    *)
(* REORDER or DUPLICATE, including when the loss straddles the wrap of     *)
(* the sequence counter.                                                   *)
(***************************************************************************)
LossReportedAsGap ==
    lastEvt.result \in {"OK", "GAP", "REORDER", "DUPLICATE"} =>
        /\ lastEvt.result = IF lost = 0 THEN "OK" ELSE "GAP"
        /\ lastEvt.gap_size = lost

=============================================================================
