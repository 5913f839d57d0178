------------------------------ MODULE MCEventBus ------------------------------
(* Three subscribers: one to TRACKING, one to NETWORK, one to all.        *)
EXTENDS EventBus, TLC

CONSTANTS sa, sb, sc, TRACKING, NETWORK, ALL

MCWanted == (sa :> TRACKING) @@ (sb :> NETWORK) @@ (sc :> ALL)

=============================================================================
