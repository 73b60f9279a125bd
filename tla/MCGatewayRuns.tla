--------------------------- MODULE MCGatewayRuns ---------------------------
(***************************************************************************)
(* Runs over two sessions.                                                 *)
(***************************************************************************)
EXTENDS GatewayRuns

CONSTANTS alice, bob

TwoSessions == {alice, bob}
=============================================================================
