------------------------------ MODULE CodecProofs ------------------------------
(***************************************************************************)
(* Proofs about Codec: for any width of the window and any number of        *)
(* generations, a codec accepts each frame of the generations it holds      *)
(* once, refuses no fresh one, and keeps the promise of OnceChannel.        *)
(***************************************************************************)
EXTENDS Codec, TLAPS, SequenceTheorems, FiniteSetTheorems

FrameOf(w, c) == [boot |-> w.boot, ctr |-> c]

\* The window of a generation stands for the frames of it that were accepted:
\* the bits for the last Window counters, and no frame is newer than `high'.
WindowExact(w, acc) ==
  /\ 0 \in w.bits
  /\ \A o \in Offsets :
       o \in w.bits <=> (o < w.high /\ FrameOf(w, w.high - o) \in acc)
  /\ \A f \in acc : f.boot = w.boot => f.ctr <= w.high

\* Every generation has one exact window, and every accepted frame a generation.
GensExact ==
  /\ \A i \in DOMAIN gens : WindowExact(gens[i], accepted)
  /\ \A i, j \in DOMAIN gens : gens[i].boot = gens[j].boot => i = j
  /\ \A f \in accepted : Known(f)

\* The peer's next frame is a new one.
SentBehind == \A f \in sent : f.boot <= boot /\ (f.boot = boot => f.ctr <= counter)

IInv == TypeOK /\ GensExact /\ SentBehind

-------------------------------------------------------------------------------
(***************************************************************************)
(* The window.                                                             *)
(***************************************************************************)

\* An accepted counter leaves a window of the same generation.
LEMMA AcceptedType ==
  ASSUME NEW w \in WindowState, NEW c \in Nat \ {0}, Accepts(w, c)
  PROVE  Accepted(w, c) \in WindowState /\ Accepted(w, c).boot = w.boot
<1>1. 0 \in Offsets
  BY SizeAssumption DEF Offsets
<1>2. CASE w.bits = {}
  BY <1>1, <1>2 DEF Accepted, WindowState
<1>3. CASE w.bits # {} /\ c > w.high
  <2>1. Shift(w.bits, c - w.high) \in SUBSET Offsets
    BY <1>1 DEF Shift
  <2>2. w.lost + (c - w.high - 1) \in Nat
    BY <1>3 DEF WindowState
  <2>3. QED
    BY <1>3, <2>1, <2>2 DEF Accepted, WindowState
<1>4. CASE w.bits # {} /\ ~(c > w.high)
  <2>1. w.high - c \in Offsets
    BY <1>4, SizeAssumption DEF Accepts, Offsets, WindowState
  <2>2. Refund(w.lost) \in Nat
    BY DEF Refund, WindowState
  <2>3. QED
    BY <1>4, <2>1, <2>2 DEF Accepted, WindowState
<1>5. QED
  BY <1>2, <1>3, <1>4

\* What the window accepts is new to it.
LEMMA AcceptsOnlyNew ==
  ASSUME NEW w \in WindowState, NEW acc \in SUBSET Frame, NEW f \in Frame,
         f.boot = w.boot, WindowExact(w, acc), Accepts(w, f.ctr)
  PROVE  f \notin acc
<1>1. CASE f.ctr > w.high
  BY <1>1 DEF WindowExact, WindowState, Frame
<1>2. CASE ~(f.ctr > w.high)
  <2>1. w.high - f.ctr \in Offsets /\ w.high - f.ctr \notin w.bits
    BY <1>2, SizeAssumption DEF WindowExact, Accepts, Offsets, WindowState, Frame
  <2>2. w.high - f.ctr < w.high /\ w.high - (w.high - f.ctr) = f.ctr
    BY <1>2 DEF WindowState, Frame
  <2>3. FrameOf(w, f.ctr) = f
    BY DEF FrameOf, Frame
  <2>4. QED
    BY <2>1, <2>2, <2>3 DEF WindowExact
<1>3. QED
  BY <1>1, <1>2

\* And what is new and not too old is accepted.
LEMMA NewIsAccepted ==
  ASSUME NEW w \in WindowState, NEW acc \in SUBSET Frame, NEW f \in Frame,
         f.boot = w.boot, WindowExact(w, acc), f \notin acc, w.high < f.ctr + Window
  PROVE  Accepts(w, f.ctr)
<1>1. CASE f.ctr > w.high
  BY <1>1 DEF Accepts
<1>2. CASE ~(f.ctr > w.high)
  <2>1. w.high - f.ctr \in Offsets /\ w.high - f.ctr < Window
    BY <1>2, SizeAssumption DEF Offsets, WindowState, Frame
  <2>2. w.high - (w.high - f.ctr) = f.ctr
    BY DEF WindowState, Frame
  <2>3. FrameOf(w, f.ctr) = f
    BY DEF FrameOf, Frame
  <2>4. w.high - f.ctr \notin w.bits
    BY <2>1, <2>2, <2>3 DEF WindowExact
  <2>5. QED
    BY <2>1, <2>4 DEF Accepts
<1>3. QED
  BY <1>1, <1>2

\* Frames of other generations are nothing to a window.
LEMMA OthersDoNotMatter ==
  ASSUME NEW w \in WindowState, NEW acc \in SUBSET Frame, NEW bcc \in SUBSET Frame,
         \A f \in Frame : f.boot = w.boot => (f \in acc <=> f \in bcc),
         WindowExact(w, acc)
  PROVE  WindowExact(w, bcc)
<1>1. ASSUME NEW o \in Offsets, o < w.high
      PROVE  FrameOf(w, w.high - o) \in Frame /\ FrameOf(w, w.high - o).boot = w.boot
  BY <1>1, SizeAssumption DEF FrameOf, Frame, WindowState, Offsets
<1>2. QED
  BY <1>1 DEF WindowExact

\* check_and_set keeps the window exact.
LEMMA StaysExact ==
  ASSUME NEW w \in WindowState, NEW acc \in SUBSET Frame, NEW f \in Frame,
         f.boot = w.boot, WindowExact(w, acc), Accepts(w, f.ctr)
  PROVE  WindowExact(Accepted(w, f.ctr), acc \cup {f})
<1> DEFINE v == Accepted(w, f.ctr)
<1>1. w.high \in Nat /\ w.bits \subseteq Offsets /\ w.bits # {} /\ f.ctr \in Nat \ {0}
  BY DEF WindowState, Frame, WindowExact
<1>2. \A c \in Nat : FrameOf(w, c) = f <=> c = f.ctr
  BY DEF FrameOf, Frame
<1>3. \A g \in acc : g.boot = w.boot => g.ctr <= w.high /\ g.ctr \in Nat
  BY DEF WindowExact, Frame
<1>4. CASE f.ctr > w.high
  <2> DEFINE delta == f.ctr - w.high
  <2>1. /\ v.boot = w.boot /\ v.high = f.ctr
        /\ v.bits = {o \in Offsets : o >= delta /\ o - delta \in w.bits} \cup {0}
    BY <1>1, <1>4 DEF Accepted, Shift, WindowState
  <2>2. ASSUME NEW o \in Offsets
        PROVE  o \in v.bits <=> (o < v.high /\ FrameOf(v, v.high - o) \in acc \cup {f})
    <3>1. o \in Nat /\ o < Window
      BY SizeAssumption DEF Offsets
    <3>2. FrameOf(v, v.high - o) = FrameOf(w, f.ctr - o)
      BY <2>1 DEF FrameOf
    <3>3. CASE o = 0
      BY <1>1, <1>2, <2>1, <3>2, <3>3
    <3>4. CASE o # 0 /\ o < delta
      <4>1. o \notin v.bits
        BY <1>1, <1>4, <2>1, <3>1, <3>4
      <4>2. f.ctr - o > w.high /\ f.ctr - o \in Nat /\ f.ctr - o # f.ctr
        BY <1>1, <1>4, <3>1, <3>4
      <4>3. FrameOf(w, f.ctr - o).boot = w.boot /\ FrameOf(w, f.ctr - o).ctr = f.ctr - o
        BY DEF FrameOf
      <4>4. FrameOf(w, f.ctr - o) \notin acc
        BY <1>1, <1>3, <4>2, <4>3
      <4>5. QED
        BY <1>2, <3>2, <4>1, <4>2, <4>4
    <3>5. CASE o # 0 /\ o >= delta
      <4>1. o - delta \in Offsets /\ w.high - (o - delta) = f.ctr - o
            /\ (o - delta < w.high <=> o < f.ctr)
        BY <1>1, <1>4, <3>1, <3>5, SizeAssumption DEF Offsets
      <4>2. o \in v.bits <=> o - delta \in w.bits
        BY <1>1, <2>1, <3>5
      <4>3. o - delta \in w.bits <=> (o < f.ctr /\ FrameOf(w, f.ctr - o) \in acc)
        BY <4>1 DEF WindowExact
      <4>4. o < f.ctr => f.ctr - o \in Nat /\ f.ctr - o # f.ctr
        BY <1>1, <3>1, <3>5
      <4>5. QED
        BY <1>2, <2>1, <3>2, <4>2, <4>3, <4>4
    <3>6. QED
      BY <1>1, <1>4, <3>1, <3>3, <3>4, <3>5
  <2>3. 0 \in v.bits
    BY <2>1
  <2>4. \A g \in acc \cup {f} : g.boot = v.boot => g.ctr <= v.high
    BY <1>1, <1>3, <1>4, <2>1
  <2>5. QED
    BY <2>2, <2>3, <2>4 DEF WindowExact
<1>5. CASE ~(f.ctr > w.high)
  <2>1. v.boot = w.boot /\ v.high = w.high /\ v.bits = w.bits \cup {w.high - f.ctr}
    BY <1>1, <1>5 DEF Accepted, WindowState
  <2>2. ASSUME NEW o \in Offsets
        PROVE  o \in v.bits <=> (o < v.high /\ FrameOf(v, v.high - o) \in acc \cup {f})
    <3>1. FrameOf(v, v.high - o) = FrameOf(w, w.high - o) /\ o \in Nat
      BY <2>1, SizeAssumption DEF FrameOf, Offsets
    <3>2. o = w.high - f.ctr <=> w.high - o = f.ctr
      BY <1>1, <3>1
    <3>3. o \in w.bits <=> (o < w.high /\ FrameOf(w, w.high - o) \in acc)
      BY DEF WindowExact
    <3>4. w.high - o = f.ctr => o < w.high
      BY <1>1, <3>1
    <3>5. o < w.high => w.high - o \in Nat
      BY <1>1, <3>1
    <3>6. QED
      BY <1>2, <2>1, <3>1, <3>2, <3>3, <3>4, <3>5
  <2>3. 0 \in v.bits
    BY <2>1 DEF WindowExact
  <2>4. \A g \in acc \cup {f} : g.boot = v.boot => g.ctr <= v.high
    BY <1>1, <1>3, <1>5, <2>1
  <2>5. QED
    BY <2>2, <2>3, <2>4 DEF WindowExact
<1>6. QED
  BY <1>4, <1>5

\* A new generation's window is exact from its first frame on.
LEMMA NewExact ==
  ASSUME NEW acc \in SUBSET Frame, NEW f \in Frame, \A g \in acc : g.boot # f.boot
  PROVE  /\ Accepted(NewWindow(f.boot), f.ctr) \in WindowState
         /\ Accepted(NewWindow(f.boot), f.ctr).boot = f.boot
         /\ WindowExact(Accepted(NewWindow(f.boot), f.ctr), acc \cup {f})
<1> DEFINE v == Accepted(NewWindow(f.boot), f.ctr)
<1>1. v = [boot |-> f.boot, high |-> f.ctr, bits |-> {0}, seen |-> 1, lost |-> 0]
  BY DEF Accepted, NewWindow
<1>2. 0 \in Offsets /\ \A o \in Offsets : o \in Nat
  BY SizeAssumption DEF Offsets
<1>3. f.boot \in Nat /\ f.ctr \in Nat \ {0}
  BY DEF Frame
<1>4. \A c \in Nat : FrameOf(v, c) = f <=> c = f.ctr
  BY <1>1 DEF FrameOf, Frame
<1>5. \A c \in Nat : FrameOf(v, c) \notin acc
  BY <1>1 DEF FrameOf
<1>6. \A o \in Offsets :
        o \in v.bits <=> (o < v.high /\ FrameOf(v, v.high - o) \in acc \cup {f})
  <2>1. TAKE o \in Offsets
  <2>2. v.bits = {0} /\ v.high = f.ctr
    BY <1>1
  <2>3. CASE o = 0
    BY <1>3, <1>4, <2>2, <2>3
  <2>4. CASE o # 0
    <3>1. o < f.ctr => f.ctr - o \in Nat /\ f.ctr - o # f.ctr
      BY <1>2, <1>3, <2>4
    <3>2. QED
      BY <1>4, <1>5, <2>2, <2>4, <3>1
  <2>5. QED
    BY <2>3, <2>4
<1>7. v \in WindowState
  BY <1>1, <1>2, <1>3 DEF WindowState
<1>8. \A g \in acc \cup {f} : g.boot = v.boot => g.ctr <= v.high
  BY <1>1, <1>3
<1>9. 0 \in v.bits /\ v.boot = f.boot
  BY <1>1
<1> HIDE DEF v
<1>10. WindowExact(v, acc \cup {f})
  BY <1>6, <1>8, <1>9 DEF WindowExact
<1>11. QED
  BY <1>7, <1>9, <1>10 DEF v

-------------------------------------------------------------------------------
(***************************************************************************)
(* The steps of the codec.                                                 *)
(***************************************************************************)

\* The current generation is one of those held, and its window is typed.
LEMMA GensType ==
  ASSUME TypeOK
  PROVE  /\ Len(gens) \in Nat /\ DOMAIN gens = 1 .. Len(gens)
         /\ \A i \in DOMAIN gens : gens[i] \in WindowState
         /\ \A f \in Frame : Current(f) =>
              /\ Len(gens) \in DOMAIN gens /\ Last(gens) = gens[Len(gens)]
              /\ gens[Len(gens)].boot = f.boot
BY LenProperties, ElementOfSeq, EmptySeq DEF TypeOK, Current, Last

\* A step that opens a new generation: what it knows by then.
New(f) == Accepted(NewWindow(f.boot), f.ctr)
Out == IF Evicts THEN 1 ELSE 0

\* A frame of an unknown nonce belongs to no accepted frame's generation.
LEMMA UnknownIsNew ==
  ASSUME TypeOK, GensExact, NEW f \in Frame, ~Known(f)
  PROVE  /\ \A g \in accepted : g.boot # f.boot
         /\ New(f) \in WindowState /\ New(f).boot = f.boot
<1>1. \A g \in accepted : g.boot # f.boot
  BY DEF GensExact, Known
<1>2. QED
  BY <1>1, NewExact DEF TypeOK, New

\* The generations after it: those before it, less the evicted one, and the new.
LEMMA NewGens ==
  ASSUME TypeOK, GensExact, NEW f \in Frame, OpenNew(f)
  PROVE  /\ gens' \in Seq(WindowState) /\ Out <= Len(gens) /\ Out \in {0, 1}
         /\ Len(gens') = Len(gens) - Out + 1
         /\ \A i \in 1 .. Len(gens) - Out : gens'[i] = gens[i + Out]
         /\ gens'[Len(gens')] = New(f)
<1> DEFINE kept == IF Evicts THEN Tail(gens) ELSE gens
<1>1. New(f) \in WindowState
  BY UnknownIsNew DEF OpenNew
<1>2. gens \in Seq(WindowState) /\ Len(gens) \in Nat
  BY GensType DEF TypeOK
<1>3. Evicts => gens # << >> /\ Len(gens) >= 1
  BY <1>2, SizeAssumption DEF Evicts
<1>4. /\ kept \in Seq(WindowState) /\ Len(kept) = Len(gens) - Out
      /\ \A i \in 1 .. Len(gens) - Out : kept[i] = gens[i + Out]
  <2>1. CASE Evicts
    BY <1>2, <1>3, <2>1, HeadTailProperties DEF Out
  <2>2. CASE ~Evicts
    BY <1>2, <2>2 DEF Out
  <2>3. QED
    BY <2>1, <2>2
<1>5. gens' = Append(kept, New(f))
  BY DEF OpenNew, New
<1>6. Out \in {0, 1} /\ Out <= Len(gens)
  BY <1>2, <1>3 DEF Out
<1> HIDE DEF kept
<1>7. QED
  BY <1>1, <1>2, <1>4, <1>5, <1>6, AppendProperties

\* Init is typed, and every step keeps the types.
LEMMA TypeInv ==
  ASSUME IInv, [Next]_vars
  PROVE  TypeOK'
<1>1. TypeOK /\ GensExact
  BY DEF IInv
<1>2. CASE Seal
  <2>1. [boot |-> boot, ctr |-> counter + 1] \in Frame
    BY <1>1 DEF TypeOK, Frame
  <2>2. QED
    BY <1>1, <1>2, <2>1 DEF Seal, TypeOK, history
<1>3. CASE Restart
  BY <1>1, <1>3 DEF Restart, TypeOK, history
<1>4. CASE Renew
  BY <1>1, <1>4 DEF Renew, TypeOK, peer
<1>5. ASSUME NEW f \in sent, Reject(f)
      PROVE  TypeOK'
  BY <1>1, <1>5 DEF Reject, TypeOK, peer, history
<1>6. ASSUME NEW f \in sent, OpenCurrent(f)
      PROVE  TypeOK'
  <2>1. f \in Frame /\ f.ctr \in Nat \ {0}
    BY <1>1 DEF TypeOK, Frame
  <2>2. Accepted(gens[Len(gens)], f.ctr) \in WindowState /\ Len(gens) \in 1 .. Len(gens)
    BY <1>1, <1>6, <2>1, GensType, AcceptedType DEF OpenCurrent
  <2>3. gens' \in Seq(WindowState)
    BY <1>1, <1>6, <2>2, ExceptSeq DEF OpenCurrent, TypeOK
  <2>4. QED
    BY <1>1, <1>6, <2>1, <2>3 DEF OpenCurrent, Return, TypeOK, peer
<1>7. ASSUME NEW f \in sent, OpenNew(f)
      PROVE  TypeOK'
  <2>1. f \in Frame
    BY <1>1 DEF TypeOK
  <2>2. gens' \in Seq(WindowState)
    BY <1>1, <1>7, <2>1, NewGens
  <2>3. retired' \in [seen : Nat, lost : Nat]
    <3>1. CASE Evicts
      <4>1. gens # << >> /\ gens \in Seq(WindowState)
        BY <1>1, <3>1, SizeAssumption DEF Evicts, TypeOK
      <4>2. Head(gens) \in WindowState
        BY <4>1, HeadTailProperties
      <4>3. QED
        BY <1>1, <1>7, <3>1, <4>2 DEF OpenNew, Retire, TypeOK, WindowState
    <3>2. CASE ~Evicts
      BY <1>1, <1>7, <3>2 DEF OpenNew, TypeOK
    <3>3. QED
      BY <3>1, <3>2
  <2>4. QED
    BY <1>1, <1>7, <2>1, <2>2, <2>3 DEF OpenNew, Return, TypeOK, peer
<1>8. CASE UNCHANGED vars
  BY <1>1, <1>8 DEF vars, TypeOK, peer, history
<1>9. QED
  BY <1>2, <1>3, <1>4, <1>5, <1>6, <1>7, <1>8 DEF Next

\* Accepting a frame of the current generation keeps every window exact.
LEMMA CurrentKeepsExact ==
  ASSUME TypeOK, GensExact, NEW f \in Frame, OpenCurrent(f)
  PROVE  GensExact'
<1> DEFINE n == Len(gens)
<1>1. /\ n \in DOMAIN gens /\ gens[n].boot = f.boot /\ Accepts(gens[n], f.ctr)
      /\ \A i \in DOMAIN gens : gens[i] \in WindowState
  BY GensType DEF OpenCurrent
<1>2. DOMAIN gens' = DOMAIN gens /\ accepted' = accepted \cup {f}
      /\ gens'[n] = Accepted(gens[n], f.ctr)
      /\ \A i \in DOMAIN gens : i # n => gens'[i] = gens[i]
  BY <1>1 DEF OpenCurrent
<1>3. f.ctr \in Nat \ {0} /\ accepted \in SUBSET Frame /\ accepted \cup {f} \in SUBSET Frame
  BY DEF Frame, TypeOK
<1>4. \A i \in DOMAIN gens : gens'[i].boot = gens[i].boot
  BY <1>1, <1>2, <1>3, AcceptedType
<1>5. ASSUME NEW i \in DOMAIN gens
      PROVE  WindowExact(gens'[i], accepted')
  <2>1. WindowExact(gens[i], accepted)
    BY DEF GensExact
  <2>2. CASE i = n
    BY <1>1, <1>2, <1>3, <2>1, <2>2, StaysExact
  <2>3. CASE i # n
    <3>1. gens[i].boot # f.boot
      BY <1>1, <2>3 DEF GensExact
    <3>2. WindowExact(gens[i], accepted \cup {f})
      BY <1>1, <1>3, <2>1, <3>1, OthersDoNotMatter
    <3>3. QED
      BY <1>2, <2>3, <3>2
  <2>4. QED
    BY <2>2, <2>3
<1>6. \A g \in accepted' : \E i \in DOMAIN gens : gens[i].boot = g.boot
  BY <1>1, <1>2 DEF GensExact, Known
<1>7. QED
  BY <1>2, <1>4, <1>5, <1>6 DEF GensExact, Known

\* So does opening a generation, whether or not another one leaves.
LEMMA NewKeepsExact ==
  ASSUME TypeOK, GensExact, NEW f \in Frame, OpenNew(f)
  PROVE  GensExact'
<1> DEFINE m == Len(gens')
<1>1. /\ gens' \in Seq(WindowState) /\ Out <= Len(gens) /\ Out \in {0, 1}
      /\ m = Len(gens) - Out + 1 /\ gens'[m] = New(f)
      /\ \A i \in 1 .. Len(gens) - Out : gens'[i] = gens[i + Out]
  BY NewGens
<1>2. /\ DOMAIN gens = 1 .. Len(gens) /\ DOMAIN gens' = 1 .. m
      /\ Len(gens) \in Nat /\ m \in Nat
      /\ \A i \in DOMAIN gens : gens[i] \in WindowState
  BY <1>1, GensType, LenProperties
<1>3. /\ New(f) \in WindowState /\ New(f).boot = f.boot
      /\ \A g \in accepted : g.boot # f.boot
      /\ \A i \in DOMAIN gens : gens[i].boot # f.boot
  BY UnknownIsNew DEF OpenNew, Known
<1>4. \A i \in DOMAIN gens' : i # m => /\ i + Out \in DOMAIN gens
                                      /\ gens'[i] = gens[i + Out]
                                      /\ (Evicts => i + Out # 1)
  BY <1>1, <1>2 DEF Out
<1>5. /\ accepted' \in SUBSET Frame /\ accepted' \subseteq accepted \cup {f}
      /\ f \in accepted'
      /\ \A g \in accepted : g \notin accepted' => Evicts /\ g.boot = gens[1].boot
      /\ \A g \in accepted' : Evicts /\ g # f => g.boot # gens[1].boot
  <2>1. CASE Evicts
    <3>1. gens # << >> /\ Head(gens) = gens[1]
      BY <1>1, <1>2, <2>1 DEF Out
    <3>2. accepted' = {g \in accepted : g.boot # Head(gens).boot} \cup {f}
      BY <2>1 DEF OpenNew
    <3>3. QED
      BY <2>1, <3>1, <3>2 DEF TypeOK
  <2>2. CASE ~Evicts
    BY <2>2 DEF OpenNew, TypeOK
  <2>3. QED
    BY <2>1, <2>2
<1>6. ASSUME NEW i \in DOMAIN gens'
      PROVE  WindowExact(gens'[i], accepted')
  <2>1. CASE i = m
    <3>1. WindowExact(New(f), accepted \cup {f})
      BY <1>3, NewExact DEF New, TypeOK
    <3>2. \A g \in Frame : g.boot = New(f).boot =>
                             (g \in accepted \cup {f} <=> g \in accepted')
      BY <1>3, <1>5
    <3>3. accepted \cup {f} \in SUBSET Frame
      BY DEF TypeOK
    <3>4. QED
      BY <1>1, <1>3, <1>5, <2>1, <3>1, <3>2, <3>3, OthersDoNotMatter
  <2>2. CASE i # m
    <3> DEFINE j == i + Out
    <3>1. j \in DOMAIN gens /\ gens'[i] = gens[j] /\ (Evicts => j # 1)
      BY <1>4, <2>2
    <3>2. WindowExact(gens[j], accepted) /\ gens[j].boot # f.boot
      BY <1>3, <3>1 DEF GensExact
    <3>3. Evicts => gens[j].boot # gens[1].boot
      <4>1. Evicts => 1 \in DOMAIN gens
        BY <1>1, <1>2 DEF Out
      <4>2. QED
        BY <3>1, <4>1 DEF GensExact
    <3>4. \A g \in Frame : g.boot = gens[j].boot =>
                             (g \in accepted <=> g \in accepted')
      BY <1>5, <3>2, <3>3
    <3>5. QED
      BY <1>2, <1>5, <3>1, <3>2, <3>4, OthersDoNotMatter DEF TypeOK
  <2>3. QED
    BY <2>1, <2>2
<1>7. ASSUME NEW i \in DOMAIN gens', NEW j \in DOMAIN gens', gens'[i].boot = gens'[j].boot
      PROVE  i = j
  <2>1. i # m => j # m
    BY <1>1, <1>3, <1>4, <1>7
  <2>2. j # m => i # m
    BY <1>1, <1>3, <1>4, <1>7
  <2>3. i # m /\ j # m => i + Out = j + Out
    BY <1>4, <1>7 DEF GensExact
  <2>4. QED
    BY <1>1, <1>2, <2>1, <2>2, <2>3
<1>8. ASSUME NEW g \in accepted'
      PROVE  \E i \in DOMAIN gens' : gens'[i].boot = g.boot
  <2>1. CASE g = f
    <3>1. m \in DOMAIN gens'
      BY <1>1, <1>2
    <3>2. QED
      BY <1>1, <1>3, <2>1, <3>1
  <2>2. CASE g # f
    <3>1. g \in accepted
      BY <1>5, <2>2
    <3>2. PICK k \in DOMAIN gens : gens[k].boot = g.boot
      BY <3>1 DEF GensExact, Known
    <3>3. Evicts => k # 1
      BY <1>5, <2>2, <3>2
    <3>4. k - Out \in 1 .. Len(gens) - Out /\ k - Out \in DOMAIN gens'
          /\ (k - Out) + Out = k
      BY <1>1, <1>2, <3>3 DEF Out
    <3>5. gens'[k - Out] = gens[k]
      BY <1>1, <3>4
    <3>6. QED
      BY <3>2, <3>4, <3>5
  <2>3. QED
    BY <2>1, <2>2
<1>9. QED
  BY <1>6, <1>7, <1>8 DEF GensExact, Known

-------------------------------------------------------------------------------
(***************************************************************************)
(* The theorems.                                                           *)
(***************************************************************************)

\* The invariant holds of a codec that knows nothing.
LEMMA InitInv == Init => IInv
<1> SUFFICES ASSUME Init PROVE IInv
  OBVIOUS
<1>1. gens = << >> /\ gens \in Seq(WindowState) /\ DOMAIN gens = {}
  BY EmptySeq DEF Init
<1>2. TypeOK
  BY <1>1 DEF Init, TypeOK, Frame
<1>3. QED
  BY <1>1, <1>2 DEF Init, IInv, GensExact, SentBehind

\* Every step keeps the invariant.
LEMMA StepInv == IInv /\ [Next]_vars => IInv'
<1> SUFFICES ASSUME IInv, [Next]_vars PROVE IInv'
  OBVIOUS
<1>1. TypeOK /\ GensExact /\ SentBehind
  BY DEF IInv
<1>2. TypeOK'
  BY TypeInv
<1>3. GensExact'
  <2>1. CASE Renew
    <3>1. gens' = << >> /\ accepted' = {} /\ DOMAIN gens' = {}
      BY <2>1 DEF Renew
    <3>2. QED
      BY <3>1 DEF GensExact
  <2>2. ASSUME NEW f \in sent, OpenCurrent(f)
        PROVE  GensExact'
    BY <1>1, <2>2, CurrentKeepsExact DEF TypeOK
  <2>3. ASSUME NEW f \in sent, OpenNew(f)
        PROVE  GensExact'
    BY <1>1, <2>3, NewKeepsExact DEF TypeOK
  <2>4. CASE UNCHANGED <<gens, accepted>>
    BY <1>1, <2>4 DEF GensExact, Known
  <2>5. QED
    BY <2>1, <2>2, <2>3, <2>4 DEF Next, Seal, Restart, Reject, vars, history
<1>4. SentBehind'
  <2>1. CASE Seal
    BY <1>1, <2>1 DEF Seal, SentBehind, TypeOK, Frame
  <2>2. CASE Restart
    BY <1>1, <2>2 DEF Restart, SentBehind, TypeOK, Frame
  <2>3. CASE UNCHANGED peer
    BY <1>1, <2>3 DEF SentBehind, peer
  <2>4. QED
    BY <2>1, <2>2, <2>3 DEF Next, Renew, Reject, OpenCurrent, OpenNew, vars
<1>5. QED
  BY <1>2, <1>3, <1>4 DEF IInv

\* The inductive invariant: every held generation has one window, which
\* stands for exactly the frames of it that were accepted.
THEOREM Invariant == Spec => []IInv
BY InitInv, StepInv, PTL DEF Spec

\* Every variable keeps its type, whatever the sizes.
THEOREM TypeCorrect == Spec => []TypeOK
BY Invariant, PTL DEF IInv

\* A frame of a generation the codec holds is accepted once.
THEOREM AlwaysAcceptedOnce == Spec => AcceptedOnce
<1>1. IInv /\ [Next]_vars => [out' # Nothing => out' \notin accepted]_vars
  <2> SUFFICES ASSUME IInv, Next, out' # Nothing
               PROVE  out' \notin accepted
    OBVIOUS
  <2>1. TypeOK /\ GensExact
    BY DEF IInv
  <2>2. ASSUME NEW f \in sent, OpenCurrent(f)
        PROVE  f \notin accepted /\ out' = f
    <3>1. /\ f \in Frame /\ Len(gens) \in DOMAIN gens /\ gens[Len(gens)].boot = f.boot
          /\ gens[Len(gens)] \in WindowState /\ Accepts(gens[Len(gens)], f.ctr)
      BY <2>1, <2>2, GensType DEF OpenCurrent, TypeOK
    <3>2. WindowExact(gens[Len(gens)], accepted)
      BY <2>1, <3>1 DEF GensExact
    <3>3. QED
      BY <2>1, <2>2, <3>1, <3>2, AcceptsOnlyNew DEF OpenCurrent, Return, TypeOK
  <2>3. ASSUME NEW f \in sent, OpenNew(f)
        PROVE  f \notin accepted /\ out' = f
    BY <2>1, <2>3 DEF OpenNew, Return, GensExact
  <2>4. QED
    BY <2>2, <2>3 DEF Next, Seal, Restart, Renew, Reject
<1>2. QED
  BY <1>1, Invariant, PTL DEF Spec, AcceptedOnce

\* No fresh frame of the current generation is refused.
THEOREM AlwaysFreshAccepted == Spec => []FreshAccepted
<1>1. IInv => FreshAccepted
  <2> SUFFICES ASSUME IInv, NEW f \in sent \ accepted, Current(f),
                      Last(gens).high < f.ctr + Window
               PROVE  Accepts(Last(gens), f.ctr)
    BY DEF FreshAccepted
  <2>1. TypeOK /\ GensExact
    BY DEF IInv
  <2>2. /\ f \in Frame /\ Len(gens) \in DOMAIN gens /\ gens[Len(gens)].boot = f.boot
        /\ gens[Len(gens)] \in WindowState /\ Last(gens) = gens[Len(gens)]
    BY <2>1, GensType DEF TypeOK
  <2>3. WindowExact(gens[Len(gens)], accepted)
    BY <2>1, <2>2 DEF GensExact
  <2>4. QED
    BY <2>1, <2>2, <2>3, NewIsAccepted DEF TypeOK
<1>2. QED
  BY <1>1, Invariant, PTL

-------------------------------------------------------------------------------
(***************************************************************************)
(* The loss that is reported.  The frames of a generation that were          *)
(* accepted have different counters, none above `high'; so when a late one   *)
(* finds no loss to be taken off, there is room for it.                      *)
(***************************************************************************)

Of(b, acc) == {f \in acc : f.boot = b}

\* The frames a window stands for are not more than its highest counter.
LEMMA NotMoreThanHigh ==
  ASSUME NEW w \in WindowState, NEW acc \in SUBSET Frame, WindowExact(w, acc)
  PROVE  /\ IsFiniteSet(Of(w.boot, acc)) /\ Cardinality(Of(w.boot, acc)) \in Nat
         /\ Cardinality(Of(w.boot, acc)) <= w.high
<1> DEFINE S == Of(w.boot, acc)
           ctr == [f \in S |-> f.ctr]
<1>1. w.high \in Nat
  BY DEF WindowState
<1>2. \A f \in S : f \in Frame /\ f.boot = w.boot /\ f.ctr \in 1 .. w.high
  BY <1>1 DEF WindowExact, Of, Frame
<1>3. \A f, g \in S : f.ctr = g.ctr => f = g
  BY <1>2 DEF Frame
<1>4. ctr \in Injection(S, 1 .. w.high)
  <2>1. ctr \in [S -> 1 .. w.high]
    BY <1>2
  <2>2. \A f, g \in S : ctr[f] = ctr[g] => f = g
    BY <1>3
  <2>3. QED
    BY <2>1, <2>2 DEF Injection, IsInjective
<1>5. IsFiniteSet(1 .. w.high) /\ Cardinality(1 .. w.high) = w.high
  BY <1>1, FS_Interval
<1> HIDE DEF ctr
<1>6. IsFiniteSet(S) /\ Cardinality(S) <= w.high
  BY <1>4, <1>5, FS_Injection
<1>7. QED
  BY <1>6, FS_CardinalityType

\* A frame that is accepted keeps the loss within what is missing.
LEMMA LossStays ==
  ASSUME NEW w \in WindowState, NEW acc \in SUBSET Frame, NEW f \in Frame,
         f.boot = w.boot, WindowExact(w, acc), Accepts(w, f.ctr),
         w.lost + Cardinality(Of(w.boot, acc)) <= w.high
  PROVE  Accepted(w, f.ctr).lost + Cardinality(Of(w.boot, acc \cup {f}))
           <= Accepted(w, f.ctr).high
<1> DEFINE v == Accepted(w, f.ctr)
           held == Cardinality(Of(w.boot, acc))
<1>1. /\ IsFiniteSet(Of(w.boot, acc)) /\ held \in Nat /\ held <= w.high
      /\ w.high \in Nat /\ w.lost \in Nat /\ w.bits # {} /\ f.ctr \in Nat
  BY NotMoreThanHigh DEF WindowState, WindowExact, Frame
<1>2. Cardinality(Of(w.boot, acc \cup {f})) = held + 1
  <2>1. Of(w.boot, acc \cup {f}) = Of(w.boot, acc) \cup {f} /\ f \notin Of(w.boot, acc)
    BY AcceptsOnlyNew DEF Of
  <2>2. QED
    BY <1>1, <2>1, FS_AddElement
<1>3. CASE f.ctr > w.high
  <2>1. v.lost = w.lost + (f.ctr - w.high - 1) /\ v.high = f.ctr
    BY <1>1, <1>3 DEF Accepted
  <2>2. QED
    BY <1>1, <1>2, <2>1
<1>4. CASE ~(f.ctr > w.high)
  <2>1. v.lost = Refund(w.lost) /\ v.high = w.high
    BY <1>1, <1>4 DEF Accepted
  <2>2. CASE w.lost # 0
    BY <1>1, <1>2, <2>1, <2>2 DEF Refund
  <2>3. CASE w.lost = 0
    <3>1. v \in WindowState /\ v.boot = w.boot
      BY AcceptedType DEF Frame
    <3>2. WindowExact(v, acc \cup {f}) /\ acc \cup {f} \in SUBSET Frame
      BY StaysExact
    <3>3. Cardinality(Of(w.boot, acc \cup {f})) <= v.high
      BY <3>1, <3>2, NotMoreThanHigh
    <3>4. QED
      BY <1>1, <1>2, <2>1, <2>3, <3>3 DEF Refund
  <2>4. QED
    BY <2>2, <2>3
<1>5. QED
  BY <1>3, <1>4

LossBounded ==
  \A i \in DOMAIN gens :
    gens[i].lost + Cardinality(Of(gens[i].boot, accepted)) <= gens[i].high

LEMMA LossCurrent ==
  ASSUME TypeOK, GensExact, LossBounded, NEW f \in Frame, OpenCurrent(f)
  PROVE  LossBounded'
<1> DEFINE n == Len(gens)
<1>1. /\ n \in DOMAIN gens /\ gens[n].boot = f.boot /\ Accepts(gens[n], f.ctr)
      /\ \A i \in DOMAIN gens : gens[i] \in WindowState
  BY GensType DEF OpenCurrent
<1>2. /\ DOMAIN gens' = DOMAIN gens /\ accepted' = accepted \cup {f}
      /\ gens'[n] = Accepted(gens[n], f.ctr)
      /\ \A i \in DOMAIN gens : i # n => gens'[i] = gens[i]
  BY <1>1 DEF OpenCurrent
<1>3. f.ctr \in Nat \ {0} /\ accepted \in SUBSET Frame
  BY DEF Frame, TypeOK
<1>4. ASSUME NEW i \in DOMAIN gens
      PROVE  gens'[i].lost + Cardinality(Of(gens'[i].boot, accepted')) <= gens'[i].high
  <2>1. /\ WindowExact(gens[i], accepted)
        /\ gens[i].lost + Cardinality(Of(gens[i].boot, accepted)) <= gens[i].high
    BY DEF GensExact, LossBounded
  <2>2. CASE i = n
    <3>1. gens'[n].boot = gens[n].boot
      BY <1>1, <1>2, <1>3, AcceptedType
    <3>2. QED
      BY <1>1, <1>2, <1>3, <2>1, <2>2, <3>1, LossStays
  <2>3. CASE i # n
    <3>1. gens[i].boot # f.boot
      BY <1>1, <2>3 DEF GensExact
    <3>2. Of(gens[i].boot, accepted \cup {f}) = Of(gens[i].boot, accepted)
      BY <3>1 DEF Of
    <3>3. QED
      BY <1>2, <2>1, <2>3, <3>2
  <2>4. QED
    BY <2>2, <2>3
<1>5. QED
  BY <1>2, <1>4 DEF LossBounded

LEMMA LossNew ==
  ASSUME TypeOK, GensExact, LossBounded, NEW f \in Frame, OpenNew(f)
  PROVE  LossBounded'
<1> DEFINE m == Len(gens')
<1>1. /\ gens' \in Seq(WindowState) /\ Out <= Len(gens) /\ Out \in {0, 1}
      /\ m = Len(gens) - Out + 1 /\ gens'[m] = New(f)
      /\ \A i \in 1 .. Len(gens) - Out : gens'[i] = gens[i + Out]
  BY NewGens
<1>2. /\ DOMAIN gens = 1 .. Len(gens) /\ DOMAIN gens' = 1 .. m
      /\ Len(gens) \in Nat /\ m \in Nat
  BY <1>1, GensType, LenProperties
<1>3. /\ New(f).boot = f.boot /\ \A g \in accepted : g.boot # f.boot
      /\ \A i \in DOMAIN gens : gens[i].boot # f.boot
  BY UnknownIsNew DEF OpenNew, Known
<1>4. ASSUME NEW b, b # f.boot, Evicts => b # Head(gens).boot
      PROVE  Of(b, accepted') = Of(b, accepted)
  <2>1. CASE Evicts
    BY <1>4, <2>1 DEF OpenNew, Of
  <2>2. CASE ~Evicts
    BY <1>4, <2>2 DEF OpenNew, Of
  <2>3. QED
    BY <2>1, <2>2
<1>5. ASSUME NEW i \in DOMAIN gens'
      PROVE  gens'[i].lost + Cardinality(Of(gens'[i].boot, accepted')) <= gens'[i].high
  <2>1. CASE i = m
    <3>1. Of(f.boot, accepted') = {f}
      BY <1>3 DEF OpenNew, Of
    <3>2. Cardinality({f}) = 1
      BY FS_Singleton
    <3>3. New(f).lost = 0 /\ New(f).high = f.ctr
      BY DEF New, Accepted, NewWindow
    <3>4. f.ctr \in Nat \ {0}
      BY DEF Frame
    <3>5. gens'[i] = New(f) /\ Of(gens'[i].boot, accepted') = {f}
      BY <1>1, <1>3, <2>1, <3>1
    <3>6. 0 + 1 <= f.ctr
      BY <3>4
    <3>7. QED
      BY <3>2, <3>3, <3>5, <3>6
  <2>2. CASE i # m
    <3> DEFINE j == i + Out
    <3>1. j \in DOMAIN gens /\ gens'[i] = gens[j] /\ (Evicts => j # 1)
      BY <1>1, <1>2, <2>2 DEF Out
    <3>2. Evicts => gens[j].boot # Head(gens).boot
      <4>1. Evicts => 1 \in DOMAIN gens /\ Head(gens) = gens[1]
        BY <1>1, <1>2 DEF Out
      <4>2. QED
        BY <3>1, <4>1 DEF GensExact
    <3>3. Of(gens[j].boot, accepted') = Of(gens[j].boot, accepted)
      BY <1>3, <1>4, <3>1, <3>2
    <3>4. gens[j].lost + Cardinality(Of(gens[j].boot, accepted)) <= gens[j].high
      BY <3>1 DEF LossBounded
    <3> HIDE DEF j
    <3>5. QED
      BY <3>1, <3>3, <3>4
  <2>3. QED
    BY <2>1, <2>2
<1>6. QED
  BY <1>5 DEF LossBounded

LEMMA LossNext == IInv /\ LossBounded /\ [Next]_vars => LossBounded'
<1> SUFFICES ASSUME IInv, LossBounded, [Next]_vars PROVE LossBounded'
  OBVIOUS
<1>1. TypeOK /\ GensExact
  BY DEF IInv
<1>2. CASE Renew
  <2>1. gens' = << >> /\ DOMAIN gens' = {}
    BY <1>2 DEF Renew
  <2>2. QED
    BY <2>1 DEF LossBounded
<1>3. ASSUME NEW f \in sent, OpenCurrent(f) PROVE LossBounded'
  BY <1>1, <1>3, LossCurrent DEF TypeOK
<1>4. ASSUME NEW f \in sent, OpenNew(f) PROVE LossBounded'
  BY <1>1, <1>4, LossNew DEF TypeOK
<1>5. CASE UNCHANGED <<gens, accepted>>
  BY <1>5 DEF LossBounded
<1>6. QED
  BY <1>2, <1>3, <1>4, <1>5 DEF Next, Seal, Restart, Reject, vars, history

\* The loss that is reported never exceeds the frames that are missing.
THEOREM AlwaysLossNotOverstated == Spec => []LossNotOverstated
<1>1. Init => LossBounded
  <2>1. Init => DOMAIN gens = {}
    BY EmptySeq DEF Init
  <2>2. QED
    BY <2>1 DEF LossBounded
<1>2. LossBounded => LossNotOverstated
  BY DEF LossBounded, LossNotOverstated, Held, Of
<1>3. QED
  BY <1>1, <1>2, LossNext, InitInv, StepInv, PTL DEF Spec

-------------------------------------------------------------------------------
(***************************************************************************)
(* Codec implements OnceChannel.                                           *)
(***************************************************************************)

\* A codec that evicts holds Generations generations, and frames of each.
LEMMA ManyBoots ==
  ASSUME TypeOK, GensExact, NEW f \in Frame, OpenNew(f), Evicts
  PROVE  Channel!TooMany(accepted \cup {f})
<1> DEFINE n == Generations
           B == Channel!BootsOf(accepted \cup {f})
           h == [i \in 0 .. n |-> IF i = 0 THEN f.boot ELSE gens[i].boot]
<1>1. /\ Len(gens) \in Nat /\ DOMAIN gens = 1 .. Len(gens) /\ n <= Len(gens)
      /\ \A i \in DOMAIN gens : gens[i] \in WindowState /\ gens[i].boot # f.boot
  BY GensType, SizeAssumption DEF Evicts, OpenNew, Known
<1>2. ASSUME NEW i \in DOMAIN gens
      PROVE  \E g \in accepted : g.boot = gens[i].boot
  <2>1. gens[i] \in WindowState /\ WindowExact(gens[i], accepted)
    BY <1>1 DEF GensExact
  <2>2. 0 \in Offsets
    BY SizeAssumption DEF Offsets
  <2>3. FrameOf(gens[i], gens[i].high - 0) \in accepted
    BY <2>1, <2>2 DEF WindowExact
  <2>4. QED
    BY <2>3 DEF FrameOf
<1>3. \A i \in 0 .. n : i # 0 => i \in DOMAIN gens
  BY <1>1, SizeAssumption
<1>4. h \in [0 .. n -> B]
  BY <1>2, <1>3 DEF Channel!BootsOf
<1>5. \A i, j \in 0 .. n : h[i] = h[j] => i = j
  BY <1>1, <1>3 DEF GensExact
<1> HIDE DEF h
<1>6. QED
  BY <1>4, <1>5 DEF Channel!TooMany

\* Every behaviour of the codec is one of the abstract channel.
THEOREM ImplementsChannel == Spec => ChannelSpec
<1>1. Init => Channel!Init
  BY DEF Init, Channel!Init
<1>2. IInv /\ [Next]_vars => [Channel!Next]_<<sent, accepted, taken>>
  <2> SUFFICES ASSUME IInv, [Next]_vars
               PROVE  [Channel!Next]_<<sent, accepted, taken>>
    OBVIOUS
  <2>1. TypeOK /\ GensExact /\ SentBehind
    BY DEF IInv
  <2>2. CASE Seal
    <3> DEFINE f == [boot |-> boot, ctr |-> counter + 1]
    <3>1. f \notin sent
      BY <2>1 DEF SentBehind, TypeOK
    <3>2. sent' = sent \cup {f} /\ sent' \ sent = {f}
      BY <2>2, <3>1 DEF Seal
    <3>3. Channel!Seal
      BY <2>2, <3>1, <3>2 DEF Channel!Seal, Seal, history
    <3>4. QED
      BY <3>3 DEF Channel!Next
  <2>3. CASE Renew
    BY <2>3 DEF Renew, Channel!Next, Channel!Renew, peer
  <2>4. ASSUME NEW f \in sent, OpenCurrent(f)
        PROVE  Channel!Accept(f)
    <3>1. /\ f \in Frame /\ Len(gens) \in DOMAIN gens /\ gens[Len(gens)].boot = f.boot
          /\ gens[Len(gens)] \in WindowState /\ Accepts(gens[Len(gens)], f.ctr)
      BY <2>1, <2>4, GensType DEF OpenCurrent, TypeOK
    <3>2. WindowExact(gens[Len(gens)], accepted)
      BY <2>1, <3>1 DEF GensExact
    <3>3. f \notin accepted
      BY <2>1, <3>1, <3>2, AcceptsOnlyNew DEF TypeOK
    <3>4. /\ {} \in SUBSET Channel!BootsOf(accepted \ {f})
          /\ accepted' = {g \in accepted : g.boot \notin {}} \cup {f}
      BY <2>4 DEF OpenCurrent
    <3>5. taken' = taken + 1 /\ UNCHANGED sent
      BY <2>4 DEF OpenCurrent, Return, peer
    <3>6. QED
      BY <3>3, <3>4, <3>5 DEF Channel!Accept
  <2>5. ASSUME NEW f \in sent, OpenNew(f)
        PROVE  Channel!Accept(f)
    <3>1. f \in Frame /\ f \notin accepted /\ \A g \in accepted : g.boot # f.boot
      BY <2>1, <2>5, UnknownIsNew DEF OpenNew, TypeOK
    <3>2. taken' = taken + 1 /\ UNCHANGED sent
      BY <2>5 DEF OpenNew, Return, peer
    <3>3. CASE Evicts
      <4> DEFINE b == Head(gens).boot
      <4>1. Channel!TooMany(accepted \cup {f})
        BY <2>1, <2>5, <3>1, <3>3, ManyBoots
      <4>2. 1 \in DOMAIN gens /\ Head(gens) = gens[1] /\ gens[1] \in WindowState
        <5>1. Len(gens) \in Nat /\ Len(gens) >= 1 /\ DOMAIN gens = 1 .. Len(gens)
          BY <2>1, <3>3, GensType, SizeAssumption DEF Evicts
        <5>2. QED
          BY <2>1, <5>1, GensType DEF TypeOK
      <4>3. b # f.boot
        BY <2>5, <4>2 DEF OpenNew, Known
      <4>4. \E g \in accepted : g.boot = b
        <5>1. WindowExact(gens[1], accepted) /\ 0 \in Offsets
          BY <2>1, <4>2, SizeAssumption DEF GensExact, Offsets
        <5>2. FrameOf(gens[1], gens[1].high - 0) \in accepted
          BY <5>1 DEF WindowExact
        <5>3. QED
          BY <4>2, <5>2 DEF FrameOf
      <4>5. {b} \in SUBSET Channel!BootsOf(accepted \ {f}) /\ f.boot \notin {b}
        BY <3>1, <4>3, <4>4 DEF Channel!BootsOf
      <4>6. accepted' = {g \in accepted : g.boot \notin {b}} \cup {f}
        BY <2>5, <3>3 DEF OpenNew
      <4> HIDE DEF b
      <4>7. \E forgotten \in SUBSET Channel!BootsOf(accepted \ {f}) :
              /\ f.boot \notin forgotten
              /\ forgotten # {} => Channel!TooMany(accepted \cup {f})
              /\ accepted' = {g \in accepted : g.boot \notin forgotten} \cup {f}
        BY <4>1, <4>5, <4>6
      <4>8. QED
        BY <3>1, <3>2, <4>7 DEF Channel!Accept
    <3>4. CASE ~Evicts
      <4>1. /\ {} \in SUBSET Channel!BootsOf(accepted \ {f})
            /\ accepted' = {g \in accepted : g.boot \notin {}} \cup {f}
        BY <2>5, <3>4 DEF OpenNew
      <4>2. QED
        BY <3>1, <3>2, <4>1 DEF Channel!Accept
    <3>5. QED
      BY <3>3, <3>4
  <2>6. CASE UNCHANGED <<sent, accepted, taken>>
    BY <2>6
  <2>7. QED
    BY <2>2, <2>3, <2>4, <2>5, <2>6
    DEF Next, Restart, Reject, vars, peer, history, Channel!Next
<1>3. QED
  BY <1>1, <1>2, Invariant, PTL DEF Spec, ChannelSpec, Channel!Spec
===============================================================================
