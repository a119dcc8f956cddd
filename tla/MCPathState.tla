------------------------------ MODULE MCPathState ------------------------------
(***************************************************************************)
(* PathState on a small instance: the free policy, one pin to the relay and *)
(* one to a direct path; a peer that may move between two UDP endpoints.    *)
(***************************************************************************)
EXTENDS PathState

FreeAndPins == {"Auto", "RelayTcp", "DirectUdp"}
TwoEndpoints == {"e1", "e2"}
OneConn == {"k1"}
===============================================================================
