-------------------------------- MODULE MCCodec --------------------------------
(***************************************************************************)
(* Codec on a small instance: more generations than are held, more          *)
(* counters than the window is wide, and each frame as often as it likes.   *)
(***************************************************************************)
EXTENDS Codec

SmallWindow == 2
FewGenerations == 2
===============================================================================
