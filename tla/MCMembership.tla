------------------------------ MODULE MCMembership ------------------------------
(***************************************************************************)
(* Two networks with two host addresses each, addresses 5 and 6 and 9 and   *)
(* 10; the callers ask for a host of the first or for its broadcast address. *)
(***************************************************************************)
EXTENDS Membership, TLC

CONSTANTS n1, n2, d1, d2, d3

MCRequested == n1 :> [addr |-> 5, size |-> 4] @@ n2 :> [addr |-> 10, size |-> 4]

Symmetry == Permutations(Devices \ Managed) \cup Permutations(Tokens)
================================================================================
