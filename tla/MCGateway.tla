------------------------------ MODULE MCGateway ------------------------------
(***************************************************************************)
(* The gateway on a small instance.  Source 0 is both a sensor and the id  *)
(* malformed frames are recorded against; source 1 is a second sensor.     *)
(* Sequence numbers have 3 bits and the window 4, so a handful of frames   *)
(* wrap the counter and overrun the window.  The wire carries a well-      *)
(* formed TRACK frame, the same frame with a bad CRC, and a frame with a   *)
(* bad version.                                                            *)
(***************************************************************************)
EXTENDS Gateway

MCSources == {0, 1}
MCSeqMod == 8
MCWindowSize == 4

GoodFrame == [len |-> 47, version |-> 1, msg_type |-> 2, payload_len |-> 25,
              crc_ok |-> TRUE]
MCDatagrams ==
    { GoodFrame,
      [GoodFrame EXCEPT !.crc_ok = FALSE],
      [GoodFrame EXCEPT !.version = 99] }

=============================================================================
