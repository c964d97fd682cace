---------------------------- MODULE MCCloudBridge ----------------------------
(* CloudBridge for TLC: a call of BridgeBase, one of SendCommand and one   *)
(* of Flow, over two connections.                                          *)
EXTENDS CloudBridge
=============================================================================
