--------------------------- MODULE MCNodeRegistry ---------------------------
EXTENDS NodeRegistry

\* Two requests: of two callers, or one caller's retry with the same key.
MCInvokes == {"first", "second"}
MCKeyings == {[i \in MCInvokes |-> i], [i \in MCInvokes |-> "first"]}
=============================================================================
