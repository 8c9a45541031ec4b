-------------------------- MODULE MCDeliveryTracker --------------------------
(* Three ticks of timeout leave room for a retry, for the wait that        *)
(* follows the last one and, where the policy bounds nothing, for a second *)
(* retry; two answers are enough for a duplicate, a contradiction or an    *)
(* ack followed by a reply.                                                *)
EXTENDS DeliveryTracker

AllExpectations == {{"ACK"}, {"REPLY"}, {"ACK", "REPLY"}}
AckOnly         == {{"ACK"}}
=============================================================================
