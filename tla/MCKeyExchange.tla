---------------------------- MODULE MCKeyExchange ----------------------------
(* An envelope that waits for the key of its signature, one that is to be  *)
(* sealed for an address of the owner of that key, and two announcements   *)
(* at a time.                                                              *)
EXTENDS KeyExchange
MCSignedBy  == [e \in Signed |-> CHOOSE k \in Kids : TRUE]
MCRecipient == [e \in Sealed |-> CHOOSE x \in Addresses : TRUE]
=============================================================================
