---------------------------- MODULE MCGatewayMain ----------------------------
(* The gateway process on the instance of MCGateway, with two frames.     *)
EXTENDS GatewayMain

MCSources == {0, 1}
MCSeqMod == 8
MCWindowSize == 4
GoodFrame == [len |-> 47, version |-> 1, msg_type |-> 2, payload_len |-> 25,
              crc_ok |-> TRUE]
MCDatagrams == { GoodFrame, [GoodFrame EXCEPT !.version = 99] }
=============================================================================
