--------------------------------- MODULE Pipe ---------------------------------
(***************************************************************************)
(* What a flow promises to its two ends, without frames, numbers or tables: *)
(* a service reads a prefix of what the application wrote and the           *)
(* application a prefix of what the service wrote, and nothing is read      *)
(* twice, although the service may be connected more than once.             *)
(*                                                                         *)
(* Each direction has one thing that weakens it.  When the application's    *)
(* end is cut off, a connection that has read nothing may begin in the      *)
(* middle.  When the service's end is torn, by the removal or the           *)
(* replacement of its connection, the application may read chunks in any    *)
(* order, of any connection, but still each of them once.                   *)
(***************************************************************************)
EXTENDS Naturals, Sequences

CONSTANT Conns  \* connections to the service

VARIABLES
  wrote,      \* chunks the application wrote
  delivered,  \* positions of the chunks that each connection has read
  cut,        \* the application's end is cut off
  replied,    \* chunks the service wrote on each connection
  handed,     \* chunks the application has read: the connection and the position
  torn        \* the service's end is torn

up == <<wrote, delivered, cut>>
down == <<replied, handed, torn>>
vars == <<wrote, delivered, cut, replied, handed, torn>>

Elements(s) == {s[i] : i \in DOMAIN s}

Init ==
  /\ wrote = 0 /\ delivered = [c \in Conns |-> << >>] /\ cut = FALSE
  /\ replied = [c \in Conns |-> 0] /\ handed = << >> /\ torn = FALSE

Write == wrote' = wrote + 1 /\ UNCHANGED <<delivered, cut, down>>

Deliver(c, k) ==
  /\ \A d \in Conns : k \notin Elements(delivered[d])
  /\ k = Len(delivered[c]) + 1 \/ (cut /\ delivered[c] = << >>)
  /\ delivered' = [delivered EXCEPT ![c] = Append(@, k)]
  /\ UNCHANGED <<wrote, cut, down>>

Cut == ~cut /\ cut' = TRUE /\ UNCHANGED <<wrote, delivered, down>>

Reply(c) ==
  /\ replied' = [replied EXCEPT ![c] = @ + 1]
  /\ UNCHANGED <<handed, torn, up>>

Hand(c, k) ==
  /\ <<c, k>> \notin Elements(handed)
  /\ ~torn => k = Len(handed) + 1 /\ \A i \in DOMAIN handed : handed[i] = <<c, i>>
  /\ handed' = Append(handed, <<c, k>>)
  /\ UNCHANGED <<replied, torn, up>>

Tear == ~torn /\ torn' = TRUE /\ UNCHANGED <<replied, handed, up>>

Next ==
  \/ Write \/ Cut \/ Tear
  \/ \E c \in Conns :
       \/ Reply(c)
       \/ \E k \in 1 .. wrote : Deliver(c, k)
       \/ \E k \in 1 .. replied[c] : Hand(c, k)

Spec == Init /\ [][Next]_vars
===============================================================================
