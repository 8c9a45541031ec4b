----------------------------- MODULE MCRpcCalls -----------------------------
(* A stream of two items whose handler first calls the service it runs in, *)
(* on a node that may move once or back, with one fault.                   *)
EXTENDS RpcCalls

CONSTANTS feed, ask, p1, p2

OneInner == [c \in Calls |-> IF c = feed THEN ask ELSE NoCall]
=============================================================================
