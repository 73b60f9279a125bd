-------------------------- MODULE MCHeartbeatWake --------------------------
(* Two targets, an interval wake and an action wake, two runners.          *)
EXTENDS HeartbeatWake

TwoPriorities == {1, 3}
=============================================================================
