----------------------------- MODULE MCUdpRelay -----------------------------
(***************************************************************************)
(* UdpRelay on a small instance: a device that sends frames to itself       *)
(* through the relay, two addresses, two nonces.                            *)
(***************************************************************************)
EXTENDS UdpRelay
=============================================================================
