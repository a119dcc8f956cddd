---------------------------- MODULE MCRelayClient ----------------------------
(***************************************************************************)
(* RelayClient on a small instance: the queue and one task that warms up.   *)
(***************************************************************************)
EXTENDS RelayClient

OneWarmer == {"warm"}
=============================================================================
