-------------------------- MODULE MCFollowupQueue --------------------------
(* Four messages from two chats and from the web chat, to which no reply   *)
(* can be routed; a queue of two.                                          *)
EXTENDS FollowupQueue

MCTargetOf == << "dm", "dm", "group", "webchat" >>
WebChat == {"webchat"}
AllModes == {"collect", "followup"}

TwoPolicies == {"summarize", "new"}
=============================================================================
