------------------------------ MODULE MCSettings ------------------------------
(***************************************************************************)
(* Settings on a small instance.  Convergence needs a boot value that no    *)
(* worker starts with and one that is also the default; what overlapping    *)
(* fetches do to hot fields needs two hot values and no such boot values.   *)
(***************************************************************************)
EXTENDS Settings

OneHot == {"h0"}
TwoHot == {"h0", "h1"}

\* One value workers start with, one they do not.
GoodAndBad == {"b0", "bad"}
Bad == {"bad"}
OneBoot == {"b0"}

\* Fetches that may be in progress at once.
TwoTasks == {"t1", "t2"}
===============================================================================
