---------------------------- MODULE MCConnector ----------------------------
(* Two senders and a grant compete for a queue of two and a window of one; *)
(* stop() and close() may race with each other and with both loops.        *)
EXTENDS Connector

CONSTANTS s1, s2, c1, c2
=============================================================================
