-------------------------- MODULE MCUpstreamSession --------------------------
(* Two attempts: one that fails, or a session that is lost, and leaves its *)
(* connector or its answer behind, and one that finds them.               *)
EXTENDS UpstreamSession
=============================================================================
