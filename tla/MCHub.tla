------------------------------- MODULE MCHub -------------------------------
(***************************************************************************)
(* Hub on a small instance: one device in one network, three upgrade        *)
(* requests of which two may be admitted at once.                           *)
(***************************************************************************)
EXTENDS Hub

OneDevice == {"d1"}
OneNetwork == {"n1"}
ThreeSockets == {"s1", "s2", "s3"}
=============================================================================
