--------------------------- MODULE MCInboxListener ---------------------------
(* Two messages, each sent again once, a crash and a recovery that works   *)
(* on a message while its copy comes in.                                   *)
EXTENDS InboxListener
=============================================================================
