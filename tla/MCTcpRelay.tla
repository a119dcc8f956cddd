----------------------------- MODULE MCTcpRelay -----------------------------
(***************************************************************************)
(* TcpRelay on a small instance: three connections of one device, of which  *)
(* two are admitted at once.                                                *)
(***************************************************************************)
EXTENDS TcpRelay

ThreeHandlers == {"h1", "h2", "h3"}
OneDevice == {"d1"}
=============================================================================
