--------------------------- MODULE TelemetryParser ---------------------------
(***************************************************************************)
(* parse_frame (src/gateway/telemetry_parser.cpp) over the fields of a     *)
(* datagram it looks at.  A datagram is abstracted to the record of its    *)
(* length, the header fields the checks read, and whether the 4 bytes      *)
(* after the payload equal the CRC-32 of header and payload (the CRC       *)
(* engine itself is not part of this module).                              *)
(***************************************************************************)
EXTENDS Naturals

FRAME_HEADER_SIZE == 18
FRAME_CRC_SIZE == 4
MAX_PAYLOAD_SIZE == 1024
PROTOCOL_VERSION == 1
MsgTypes == 1 .. 4          \* PLOT .. ENGAGEMENT

Datagram == [len : 0 .. 65536, version : 0 .. 255, msg_type : 0 .. 255,
             payload_len : 0 .. 65535, crc_ok : BOOLEAN]

ParseErrors == {"OK", "TOO_SHORT", "BAD_VERSION", "BAD_MSG_TYPE",
                "PAYLOAD_TOO_LONG", "TRUNCATED", "CRC_MISMATCH"}

\* The length the frame must have: header, payload, and the CRC if enabled.
ExpectedLen(d, crc_enabled) ==
    FRAME_HEADER_SIZE + d.payload_len + (IF crc_enabled THEN FRAME_CRC_SIZE ELSE 0)

\* parse_frame: the checks in the order of the code, the earliest failure wins.
ParseFrame(d, crc_enabled) ==
    IF d.len < FRAME_HEADER_SIZE THEN "TOO_SHORT"
    ELSE IF d.version # PROTOCOL_VERSION THEN "BAD_VERSION"
    ELSE IF d.msg_type \notin MsgTypes THEN "BAD_MSG_TYPE"
    ELSE IF d.payload_len > MAX_PAYLOAD_SIZE THEN "PAYLOAD_TOO_LONG"
    ELSE IF d.len < ExpectedLen(d, crc_enabled) THEN "TRUNCATED"
    ELSE IF crc_enabled /\ ~d.crc_ok THEN "CRC_MISMATCH"
    ELSE "OK"

=============================================================================
