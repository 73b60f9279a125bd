-------------------------- MODULE MCDeliveryQueue --------------------------
(* Two messages: one of one payload, bestEffort, whose caller passes       *)
(* onError, and a strict one of two payloads that goes to a transcript.    *)
EXTENDS DeliveryQueue

First == {1}
Second == {2}
OneAndTwo == << 1, 2 >>
=============================================================================
