--------------------------- MODULE MCControlNode ---------------------------
(* A control node with two peers, each sending at most one request.       *)
EXTENDS ControlNode

CONSTANTS c1, c2

MCClients == {c1, c2}
MCCaps == ("get" :> "GET") @@ ("set" :> "SET") @@ ("crc" :> "CRC")
          @@ ("off" :> "OFF") @@ ("health" :> "HEALTH")
MCTrimmed == (" crc" :> "crc")

\* GET health, SET crc=off, SET  crc=maybe, and a request without '='.
MCRequests ==
    { [verb |-> "get", arg |-> "health", hasEq |-> FALSE, key |-> "", value |-> ""],
      [verb |-> "SET", arg |-> "crc=off", hasEq |-> TRUE, key |-> "crc", value |-> "off"],
      [verb |-> "set", arg |-> " crc=maybe", hasEq |-> TRUE, key |-> " crc", value |-> "maybe"],
      [verb |-> "SET", arg |-> "crc", hasEq |-> FALSE, key |-> "", value |-> ""] }

=============================================================================
