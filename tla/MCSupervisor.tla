----------------------------- MODULE MCSupervisor -----------------------------
(***************************************************************************)
(* Supervisor with two ports, one of which is enough for rules to be in the *)
(* way of another worker, and a node that is started twice on one host.     *)
(***************************************************************************)
EXTENDS Supervisor

TwoPorts == {"p1", "p2"}
===============================================================================
