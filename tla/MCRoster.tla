------------------------------ MODULE MCRoster ------------------------------
(***************************************************************************)
(* Roster on a small instance: a network, a peer, the poll, and two         *)
(* reconciliations that overlap.                                            *)
(***************************************************************************)
EXTENDS Roster

OneNetwork == {"n1"}
OnePeer == {"p1"}
OneRefresher == {"poll"}
TwoCalls == {"c1", "c2"}
=============================================================================
