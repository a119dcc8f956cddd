--------------------------------- MODULE MCFlow ---------------------------------
(***************************************************************************)
(* Flow on a small instance: two OPENs and two connections make a repeated  *)
(* dial possible, two chunks each way a gap and a reordering.               *)
(***************************************************************************)
EXTENDS Flow

TwoConns == {"c1", "c2"}
===============================================================================
