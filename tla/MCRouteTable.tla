---------------------------- MODULE MCRouteTable ----------------------------
(* One child that connects again while its earlier connections are still   *)
(* pending, attaching, routed or being removed.                            *)
EXTENDS RouteTable
=============================================================================
