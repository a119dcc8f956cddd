--------------------------------- MODULE Codec ---------------------------------
(***************************************************************************)
(* The receiving codec of one peer in one network                           *)
(* (skiff-core/src/protocol/wire.rs PacketCodec, crypto/replay.rs): which   *)
(* of the frames that arrive are accepted, and what the reception           *)
(* statistics count.                                                        *)
(*                                                                         *)
(* The peer numbers its frames from 1 under a random boot nonce, and draws  *)
(* a new nonce whenever its codec is built anew, with its process or with   *)
(* its session.  The network loses, reorders and duplicates frames at will: *)
(* a frame once sealed may arrive at any time.                              *)
(*                                                                         *)
(* A nonce is abstracted to its generation, the number of nonces the peer   *)
(* drew before it; the receiver compares nonces for equality only.  A frame *)
(* of another network fails decryption before any state is touched and is   *)
(* left out, as is one that does not parse.  try_open holds the codec's     *)
(* lock throughout.                                                         *)
(***************************************************************************)
EXTENDS Naturals, Sequences, SequencesExt

CONSTANTS
  Window,       \* WINDOW_BITS (128)
  Generations,  \* BOOT_NONCE_GENERATIONS (32)
  Nothing,      \* try_open returned None
  MaxBoots,     \* bound: restarts of the peer
  MaxSends,     \* bound: frames per generation of the peer
  MaxTaken,     \* bound: frames accepted by one session
  MaxRenewals   \* bound: sessions the receiver builds anew

ASSUME SizeAssumption == Window \in Nat \ {0} /\ Generations \in Nat \ {0}
ASSUME BoundsAssumption ==
  MaxBoots \in Nat /\ MaxSends \in Nat /\ MaxTaken \in Nat /\ MaxRenewals \in Nat

Frame == [boot : Nat, ctr : Nat \ {0}]
ASSUME NothingAssumption == Nothing \notin Frame

VARIABLES
  \* The peer.
  boot,     \* its generation
  counter,  \* send_counter
  sent,     \* frames sealed; each may arrive, at any time and again
  \* The receiver.
  gens,     \* generations: the last nonces seen, each with its ReplayWindow
  retired,  \* retired_seen, retired_lost
  out,      \* what the last try_open returned
  renewals  \* sessions built anew so far (bound only)

\* History, read by no guard but the bound: frames accepted of the generations
\* the codec holds, and the number of frames this session accepted.
VARIABLES accepted, taken

peer == <<boot, counter, sent>>
history == <<accepted, taken>>
vars == <<peer, gens, retired, out, renewals, history>>

Offsets == 0 .. Window - 1

\* ReplayWindow::new.  The bitmap is the set of its bits, bit o standing for the
\* counter highest - o; a window is initialized once bit 0 is set.
NewWindow(b) == [boot |-> b, high |-> 0, bits |-> {}, seen |-> 0, lost |-> 0]

Init ==
  /\ boot = 1 /\ counter = 0 /\ sent = {}
  /\ gens = << >> /\ retired = [seen |-> 0, lost |-> 0]
  /\ out = Nothing /\ renewals = 0
  /\ accepted = {} /\ taken = 0

-------------------------------------------------------------------------------
(***************************************************************************)
(* The replay window.                                                      *)
(***************************************************************************)

\* check_and_set returns true: the first counter, a newer one, or one of the
\* last Window that was not seen.
Accepts(w, c) ==
  \/ w.bits = {} \/ c > w.high
  \/ w.high - c < Window /\ w.high - c \notin w.bits

\* Mutant: the bitmap is not cleared of what leaves the window, nor moved.
ShiftNot(bits, delta) == bits \cup {0}

\* (bitmap << delta) | 1, and 1 alone when delta reaches the width.
Shift(bits, delta) == {o \in Offsets : o >= delta /\ o - delta \in bits} \cup {0}

\* Mutant: a late counter is not taken off the gap count.
RefundNot(lost) == lost

\* saturating_sub(1).
Refund(lost) == IF lost = 0 THEN 0 ELSE lost - 1

\* The window once check_and_set has accepted counter c.  An advance charges the
\* counters it skips as lost; a late counter is refunded.
Accepted(w, c) ==
  LET Moved(high, bits, lost) ==
        [boot |-> w.boot, high |-> high, bits |-> bits, seen |-> w.seen + 1,
         lost |-> lost]
  IN  IF w.bits = {} THEN Moved(c, {0}, w.lost)
      ELSE IF c > w.high
      THEN Moved(c, Shift(w.bits, c - w.high), w.lost + (c - w.high - 1))
      ELSE Moved(w.high, w.bits \cup {w.high - c}, Refund(w.lost))

-------------------------------------------------------------------------------
(***************************************************************************)
(* The codec.                                                              *)
(***************************************************************************)

\* seal: the next counter of the current generation.
Seal ==
  /\ counter < MaxSends
  /\ counter' = counter + 1
  /\ sent' = sent \cup {[boot |-> boot, ctr |-> counter + 1]}
  /\ out' = Nothing
  /\ UNCHANGED <<boot, gens, retired, renewals, history>>

\* The peer builds its codec anew.
Restart ==
  /\ boot < MaxBoots
  /\ boot' = boot + 1 /\ counter' = 0
  /\ out' = Nothing
  /\ UNCHANGED <<sent, gens, retired, renewals, history>>

Known(f) == \E i \in DOMAIN gens : gens[i].boot = f.boot
Current(f) == gens # << >> /\ Last(gens).boot = f.boot

\* try_open refuses: a generation that a newer arrival superseded, or a counter
\* the current window rejects.
Reject(f) ==
  /\ Known(f)
  /\ Current(f) => ~Accepts(Last(gens), f.ctr)
  /\ out' = Nothing
  /\ UNCHANGED <<peer, gens, retired, renewals, history>>

\* A frame is returned to the caller.
Return(f) ==
  /\ taken < MaxTaken
  /\ taken' = taken + 1
  /\ out' = f

\* try_open accepts a frame of the current generation.
OpenCurrent(f) ==
  /\ Current(f) /\ Accepts(Last(gens), f.ctr)
  /\ Return(f)
  /\ gens' = [gens EXCEPT ![Len(gens)] = Accepted(@, f.ctr)]
  /\ accepted' = accepted \cup {f}
  /\ UNCHANGED <<peer, retired, renewals>>

\* The oldest generation leaves when one more makes too many.
Evicts == Len(gens) + 1 > Generations

\* The statistics of an evicted generation are kept.
Retire(w) == retired' = [seen |-> retired.seen + w.seen, lost |-> retired.lost + w.lost]

\* Mutant: an unknown nonce replaces every generation held.
OpenNewFlipping(f) ==
  /\ ~Known(f)
  /\ Return(f)
  /\ gens' = << Accepted(NewWindow(f.boot), f.ctr) >>
  /\ UNCHANGED retired
  /\ accepted' = accepted \cup {f}
  /\ UNCHANGED <<peer, renewals>>

\* try_open meets an unknown nonce: it opens a new generation, which is the
\* current one from here on, and evicts the oldest if there are too many.
OpenNew(f) ==
  /\ ~Known(f)
  /\ Return(f)
  /\ LET new == Accepted(NewWindow(f.boot), f.ctr)
     IN  gens' = Append(IF Evicts THEN Tail(gens) ELSE gens, new)
  /\ IF Evicts
     THEN /\ Retire(Head(gens))
          /\ accepted' = {g \in accepted : g.boot # Head(gens).boot} \cup {f}
     ELSE /\ UNCHANGED retired
          /\ accepted' = accepted \cup {f}
  /\ UNCHANGED <<peer, renewals>>

\* The receiver's session is dropped, the peer having left the roster, and built
\* anew when it returns (refresh_one_network): with it a codec that knows nothing.
Renew ==
  /\ renewals < MaxRenewals
  /\ renewals' = renewals + 1
  /\ gens' = << >> /\ retired' = [seen |-> 0, lost |-> 0]
  /\ out' = Nothing
  /\ accepted' = {} /\ taken' = 0
  /\ UNCHANGED peer

Next ==
  \/ Seal \/ Restart \/ Renew
  \/ \E f \in sent : Reject(f) \/ OpenCurrent(f) \/ OpenNew(f)

Spec == Init /\ [][Next]_vars

-------------------------------------------------------------------------------
(***************************************************************************)
(* Properties.                                                             *)
(***************************************************************************)

WindowState ==
  [boot : Nat, high : Nat, bits : SUBSET Offsets, seen : Nat, lost : Nat]

\* Every variable keeps its type.
TypeOK ==
  /\ boot \in Nat /\ counter \in Nat /\ sent \subseteq Frame
  /\ gens \in Seq(WindowState)
  /\ retired \in [seen : Nat, lost : Nat]
  /\ out \in Frame \cup {Nothing} /\ renewals \in Nat
  /\ accepted \subseteq Frame /\ taken \in Nat

\* A frame of a generation the codec holds is accepted once, however often and
\* in whatever order the network presents it: what the flow layer relies on when
\* it takes a repeated number for a gap (ReplayWindow, try_open).
AcceptedOnce == [][out' # Nothing => out' \notin accepted]_vars

\* Nothing fresh is lost to the window: a frame of the current generation that
\* was never accepted and is less than Window behind is accepted, whatever came
\* before it (check_and_set).
FreshAccepted ==
  \A f \in sent \ accepted :
    Current(f) /\ Last(gens).high < f.ctr + Window => Accepts(Last(gens), f.ctr)

Held(i) == {f \in accepted : f.boot = gens[i].boot}

\* The loss that is reported never exceeds the frames that are missing: late
\* frames are taken off again (lost_total).
LossNotOverstated ==
  \A i \in DOMAIN gens :
    gens[i].lost + Cardinality(Held(i)) <= gens[i].high

\* The codec keeps the promise of the abstract channel.
Channel == INSTANCE OnceChannel WITH held <- accepted
ChannelSpec == Channel!Spec

-------------------------------------------------------------------------------
(***************************************************************************)
(* A claim of the repository that the code does not keep.                  *)
(***************************************************************************)

\* docs/protocol.md:69: only the newest generation is accepted, and frames of
\* older ones are always refused.  Here: no frame is accepted once one of a later
\* generation was.
OnlyNewestAccepted ==
  [][out' # Nothing => \A f \in accepted : f.boot <= out'.boot]_vars
===============================================================================
