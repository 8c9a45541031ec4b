---------------------------- MODULE MCCreditLink ----------------------------
(* A router between two leaves: what a leaf sends is for the other leaf or,*)
(* as a second topology has it, for the router itself too.  A window of    *)
(* two has a low watermark of zero: the next grant comes at the last       *)
(* moment; a window of four has one of one, so grants come early.          *)
EXTENDS CreditLink

CONSTANTS left, right, routerLeft, routerRight, east, west

RouterPeer == [e \in {left, right, routerLeft, routerRight} |->
                 CASE e = left -> routerLeft [] e = routerLeft -> left
                   [] e = right -> routerRight [] e = routerRight -> right]
RelayRoute == [e \in DOMAIN RouterPeer |->
                 CASE e = routerLeft -> {routerRight}
                   [] e = routerRight -> {routerLeft}
                   [] OTHER -> {Here}]
ServingRoute == [e \in DOMAIN RouterPeer |-> RelayRoute[e] \cup {Here}]
RouterSources == [e \in DOMAIN RouterPeer |->
                    CASE e = left -> {east} [] e = right -> {west}
                      [] OTHER -> {}]

(* Eastward and westward traffic cross each wire one way.                  *)
RouterCarries == [e \in DOMAIN RouterPeer |->
                    IF e \in {left, routerRight} THEN {east} ELSE {west}]
ASSUME RouterIsOneWay == OneWay(RouterCarries)
=============================================================================
