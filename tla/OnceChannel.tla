------------------------------ MODULE OnceChannel ------------------------------
(***************************************************************************)
(* What the receiving side of a wire session promises about the frames of   *)
(* one peer, without windows or counters: a frame that was sealed is        *)
(* accepted at most once as long as its generation is remembered, in any    *)
(* order, and a generation is forgotten only when there are too many.       *)
(***************************************************************************)
EXTENDS Naturals

CONSTANT Generations  \* generations remembered at once

VARIABLES
  sent,  \* frames the peer has sealed, each with the generation it belongs to
  held,  \* frames accepted, of the generations remembered
  taken  \* number of frames accepted by the session

Init == sent = {} /\ held = {} /\ taken = 0

Seal ==
  /\ \E f \in sent' \ sent : sent' = sent \cup {f}
  /\ UNCHANGED <<held, taken>>

BootsOf(S) == {f.boot : f \in S}

\* The frames belong to more than Generations generations.
TooMany(S) ==
  \E g \in [0 .. Generations -> BootsOf(S)] :
    \A i, j \in 0 .. Generations : g[i] = g[j] => i = j

Accept(f) ==
  /\ f \notin held
  /\ \E forgotten \in SUBSET BootsOf(held \ {f}) :
       /\ f.boot \notin forgotten
       /\ forgotten # {} => TooMany(held \cup {f})
       /\ held' = {g \in held : g.boot \notin forgotten} \cup {f}
  /\ taken' = taken + 1
  /\ UNCHANGED sent

\* The session ends and another one takes its place.
Renew == held' = {} /\ taken' = 0 /\ UNCHANGED sent

Next == Seal \/ (\E f \in sent : Accept(f)) \/ Renew

Spec == Init /\ [][Next]_<<sent, held, taken>>
===============================================================================
