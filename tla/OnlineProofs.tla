---------------------------- MODULE OnlineProofs ------------------------------
(***************************************************************************)
(* Proofs about how the server knows where a device is and that it is       *)
(* online, each for itself: UdpRelay, for any devices, addresses, nonces    *)
(* and faults, and Hub with Presence, for any devices, networks, sockets    *)
(* and limit on them.                                                       *)
(***************************************************************************)
EXTENDS UdpRelay, Hub, FiniteSetTheorems, TLAPS

-------------------------------------------------------------------------------
(***************************************************************************)
(* Types.                                                                  *)
(***************************************************************************)

InHand == {"key", "found", "missing", "admit", "insert", "touch"}

\* What the relay's task has in hand, by where it is.
LEMMA HandType ==
  ASSUME h \in {Idle} \cup Handling \cup Relaying
  PROVE  /\ h.pc = "idle" => h = Idle
         /\ h.pc \in InHand => h \in Handling
         /\ h.pc = "relay" => h \in Relaying
BY DEF Idle, Handling, Relaying, InHand

\* A step of the task to another place keeps the type.
LEMMA HandlesType ==
  ASSUME NEW from \in InHand, NEW to \in InHand \cup {"idle"},
         h \in {Idle} \cup Handling \cup Relaying, Handles(from, to)
  PROVE  /\ h \in Handling /\ h.pc = from
         /\ h' \in {Idle} \cup Handling
         /\ h'.pc = to
         /\ to # "idle" => h'.dev = h.dev /\ h'.nonce = h.nonce /\ h'.from = h.from
<1>1. h \in Handling /\ h.pc = from
  BY HandType DEF Handles
<1>2. CASE to = "idle"
  BY <1>1, <1>2 DEF Handles, Idle
<1>3. CASE to # "idle"
  <2>1. h' = [h EXCEPT !.pc = to] /\ to \in InHand
    BY <1>3 DEF Handles
  <2>2. QED
    BY <1>1, <1>3, <2>1 DEF Handling, InHand
<1>4. QED
  BY <1>2, <1>3

LEMMA NoRegType ==
  NoReg \in [at : Endpoints \cup {Nowhere}, live : BOOLEAN] /\ NoReg.at = Nowhere
    /\ NoReg.live = FALSE
BY DEF NoReg

LEMMA TypeInit == Init => TypeOK
BY NoRegType, EndpointAssumption, BoundsAssumption DEF Init, TypeOK, Idle

LEMMA TypeNext == TypeOK /\ [Next]_vars => TypeOK'
<1> SUFFICES ASSUME TypeOK, [Next]_vars PROVE TypeOK'
  OBVIOUS
<1> USE DEF nodes, net, keys, counts, admin
<1>h. h \in {Idle} \cup Handling \cup Relaying
  BY DEF TypeOK
<1>0. Idle \in {Idle} /\ Idle.pc = "idle"
  BY DEF Idle
<1>1. ASSUME NEW d \in Clients, NEW n \in Nonces, SendRegister(d, n) PROVE TypeOK'
  BY <1>1 DEF TypeOK, SendRegister
<1>2. ASSUME NEW d \in Clients, AckArrives(d) PROVE TypeOK'
  BY <1>2 DEF TypeOK, AckArrives
<1>3. ASSUME NEW d \in Clients, HeartbeatAnswered(d) PROVE TypeOK'
  BY <1>3 DEF TypeOK, HeartbeatAnswered
<1>4. ASSUME NEW d \in Clients, NEW e \in Endpoints, Rebind(d, e) PROVE TypeOK'
  <2>1. addr' \in [Clients -> Endpoints] /\ obs' \in [Clients -> Endpoints \cup {Nowhere}]
    BY <1>4 DEF TypeOK, Rebind
  <2>2. faults' \in 0 .. MaxFaults
    BY <1>4, BoundsAssumption DEF TypeOK, Rebind, Faults
  <2>3. QED
    BY <1>4, <2>1, <2>2 DEF TypeOK, Rebind
<1>5. ASSUME NEW d \in Clients, NEW n \in Nonces, Lose(d, n) PROVE TypeOK'
  <2>1. sent' \in [Clients -> [Nonces -> Endpoints \cup {Nowhere}]]
    BY <1>5 DEF TypeOK, Lose
  <2>2. /\ admits' \in [Clients -> [Nonces -> Nat]]
        /\ forgot' \in [Clients -> [Nonces -> Nat]]
    BY <1>5 DEF TypeOK, Lose
  <2>3. QED
    BY <1>5, <2>1, <2>2 DEF TypeOK, Lose
<1>6. ASSUME NEW d \in Clients, NEW n \in Nonces, Arrive(d, n) PROVE TypeOK'
  <2>1. h' \in Handling
    BY <1>6 DEF TypeOK, Arrive, About, Handling
  <2>2. overlap' \subseteq Clients
    BY <1>6 DEF TypeOK, Arrive
  <2>3. QED
    BY <1>6, <2>1, <2>2 DEF TypeOK, Arrive
<1>7. CASE KeyCached
  <2>1. h' \in {Idle} \cup Handling
    BY <1>7, <1>h, HandlesType DEF KeyCached, InHand
  <2>2. QED
    BY <1>7, <2>1 DEF TypeOK, KeyCached
<1>8. CASE KeyRefused
  <2>1. h' \in {Idle} \cup Handling
    BY <1>8, <1>h, HandlesType DEF KeyRefused, InHand
  <2>2. QED
    BY <1>8, <2>1 DEF TypeOK, KeyRefused
<1>9. CASE KeyQueried
  <2>1. h' \in {Idle} \cup Handling
    BY <1>9, <1>h, HandlesType DEF KeyQueried, InHand
  <2>2. faults' \in 0 .. MaxFaults
    BY <1>9, BoundsAssumption DEF TypeOK, KeyQueried, Faults
  <2>3. QED
    BY <1>9, <2>1, <2>2 DEF TypeOK, KeyQueried
<1>10. CASE KeyFound
  <2>1. h' \in {Idle} \cup Handling /\ h.dev \in Clients
    BY <1>10, <1>h, HandlesType DEF KeyFound, InHand, Handling
  <2>2. QED
    BY <1>10, <2>1 DEF TypeOK, KeyFound
<1>11. CASE KeyMissing
  <2>1. h' \in {Idle} \cup Handling /\ h.dev \in Clients
    BY <1>11, <1>h, HandlesType DEF KeyMissing, InHand, Handling
  <2>2. QED
    BY <1>11, <2>1 DEF TypeOK, KeyMissing
<1>12. CASE Admit
  <2>1. h' \in {Idle} \cup Handling /\ h.dev \in Clients /\ h.nonce \in Nonces
    BY <1>12, <1>h, HandlesType DEF Admit, InHand, Handling
  <2>2. used' \in [Clients -> SUBSET Nonces]
    BY <1>12, <2>1 DEF TypeOK, Admit
  <2>3. admits' \in [Clients -> [Nonces -> Nat]]
    BY <1>12, <2>1 DEF TypeOK, Admit, Counted
  <2>4. QED
    BY <1>12, <2>1, <2>2, <2>3 DEF TypeOK, Admit, Counted
<1>13. CASE Seen
  <2>1. h' \in {Idle} \cup Handling
    BY <1>13, <1>h, HandlesType DEF Seen, InHand
  <2>2. QED
    BY <1>13, <2>1 DEF TypeOK, Seen
<1>14. CASE Insert
  <2>1. h' \in {Idle} \cup Handling /\ h.dev \in Clients /\ h.from \in Endpoints
    BY <1>14, <1>h, HandlesType DEF Insert, InHand, Handling
  <2>2. reg' \in [Clients -> [at : Endpoints \cup {Nowhere}, live : BOOLEAN]]
    BY <1>14, <2>1 DEF TypeOK, Insert
  <2>3. \A d \in Clients : reg'[d].live => reg'[d].at # Nowhere
    BY <1>14, <2>1, EndpointAssumption DEF TypeOK, Insert
  <2>4. QED
    BY <1>14, <2>1, <2>2, <2>3 DEF TypeOK, Insert
<1>15. CASE TouchAndAck
  <2>1. h' \in {Idle} \cup Handling /\ h.dev \in Clients /\ h.from \in Endpoints
    BY <1>15, <1>h, HandlesType DEF TouchAndAck, InHand, Handling
  <2>2. QED
    BY <1>15, <2>1 DEF TypeOK, TouchAndAck
<1>16. ASSUME NEW d \in Clients, NEW c \in Clients, NEW e \in Endpoints,
              RelaySource(d, c, e)
       PROVE  TypeOK'
  <2>1. h' \in Relaying
    BY <1>16 DEF RelaySource, Relaying
  <2>2. overlap' \subseteq Clients
    BY <1>16 DEF TypeOK, RelaySource
  <2>3. QED
    BY <1>16, <2>1, <2>2 DEF TypeOK, RelaySource
<1>17. CASE RelayForward
  <2>1. h \in Relaying /\ h' = Idle
    BY <1>17, <1>h, HandType DEF RelayForward, Handles
  <2>2. h.dev \in Clients /\ h.from \in Endpoints
    BY <2>1 DEF Relaying
  <2>3. QED
    BY <1>17, <2>1, <2>2 DEF TypeOK, RelayForward
<1>18. ASSUME NEW d \in Clients, RegExpires(d) PROVE TypeOK'
  <2>1. reg' \in [Clients -> [at : Endpoints \cup {Nowhere}, live : BOOLEAN]]
    BY <1>18, NoRegType DEF TypeOK, RegExpires
  <2>2. \A c \in Clients : reg'[c].live => reg'[c].at # Nowhere
    BY <1>18, NoRegType DEF TypeOK, RegExpires
  <2>3. QED
    BY <1>18, <2>1, <2>2 DEF TypeOK, RegExpires
<1>19. ASSUME NEW d \in Clients, KeyExpires(d) PROVE TypeOK'
  BY <1>19 DEF TypeOK, KeyExpires
<1>20. ASSUME NEW d \in Clients, RefusalExpires(d) PROVE TypeOK'
  BY <1>20 DEF TypeOK, RefusalExpires
<1>21. ASSUME NEW d \in Clients, NEW n \in Nonces, NonceExpires(d, n) PROVE TypeOK'
  <2>1. used' \in [Clients -> SUBSET Nonces]
    BY <1>21 DEF TypeOK, NonceExpires
  <2>2. forgot' \in [Clients -> [Nonces -> Nat]]
    <3>1. [forgot EXCEPT ![d][n] = @ + 1] \in [Clients -> [Nonces -> Nat]]
      BY DEF TypeOK
    <3>2. QED
      BY <1>21, <3>1 DEF TypeOK, NonceExpires
  <2>3. faults' \in 0 .. MaxFaults
    BY <1>21, BoundsAssumption DEF TypeOK, NonceExpires, Faults
  <2>4. QED
    BY <1>21, <2>1, <2>2, <2>3 DEF TypeOK, NonceExpires
<1>22. ASSUME NEW d \in Clients, DeleteRow(d) PROVE TypeOK'
  BY <1>22 DEF TypeOK, DeleteRow, Overlaps
<1>23. ASSUME NEW d \in Clients, RelayUnregister(d) PROVE TypeOK'
  <2>1. reg' \in [Clients -> [at : Endpoints \cup {Nowhere}, live : BOOLEAN]]
    BY <1>23, NoRegType DEF TypeOK, RelayUnregister
  <2>2. \A c \in Clients : reg'[c].live => reg'[c].at # Nowhere
    BY <1>23, NoRegType DEF TypeOK, RelayUnregister
  <2>3. QED
    BY <1>23, <2>1, <2>2 DEF TypeOK, RelayUnregister, Overlaps
<1>24. ASSUME NEW d \in Clients, RemovePresence(d) PROVE TypeOK'
  BY <1>24 DEF TypeOK, RemovePresence, Overlaps
<1>25. CASE ServerRestart
  <2>1. reg' \in [Clients -> [at : Endpoints \cup {Nowhere}, live : BOOLEAN]]
        /\ \A c \in Clients : reg'[c].live => reg'[c].at # Nowhere
    BY <1>25, NoRegType DEF ServerRestart, Blank
  <2>2. faults' \in 0 .. MaxFaults
    BY <1>25, BoundsAssumption DEF TypeOK, ServerRestart, Faults
  <2>3. forgot' \in [Clients -> [Nonces -> Nat]]
    <3> DEFINE Lost(d, n) == IF n \in used[d] /\ About(d, n) THEN 1 ELSE 0
    <3>1. \A d \in Clients, n \in Nonces : forgot[d][n] \in Nat /\ Lost(d, n) \in Nat
      BY DEF TypeOK
    <3>2. forgot' = [d \in Clients |-> [n \in Nonces |-> forgot[d][n] + Lost(d, n)]]
      BY <1>25 DEF ServerRestart
    <3> HIDE DEF Lost
    <3>3. \A d \in Clients, n \in Nonces : forgot[d][n] + Lost(d, n) \in Nat
      BY <3>1
    <3>4. QED
      BY <3>2, <3>3
  <2>4. QED
    BY <1>25, <2>1, <2>2, <2>3 DEF TypeOK, ServerRestart, Blank
<1>26. CASE UNCHANGED vars
  BY <1>26 DEF TypeOK, vars
<1>27. QED
  BY <1>1, <1>2, <1>3, <1>4, <1>5, <1>6, <1>7, <1>8, <1>9, <1>10, <1>11, <1>12, <1>13,
     <1>14, <1>15, <1>16, <1>17, <1>18, <1>19, <1>20, <1>21, <1>22, <1>23, <1>24, <1>25,
     <1>26 DEF Next, Handle, KeySteps

\* Every variable keeps its type, and an entry without an address is not valid.
THEOREM TypeCorrect == Spec => []TypeOK
<1>1. QED
  BY TypeInit, TypeNext, PTL DEF Spec

-------------------------------------------------------------------------------
(***************************************************************************)
(* What a step of the task leaves in its hands.                            *)
(***************************************************************************)

\* The relay has the REGISTER with a nonce in hand.
Carries(d, n) == h.pc \in InHand /\ h.dev = d /\ h.nonce = n

\* A datagram of the device is in the relay's hands.
Hands(d) == h.pc # "idle" /\ h.dev = d

\* A step that carries a datagram on takes up no other one.
LEMMA HandlesSame ==
  ASSUME NEW from \in InHand, NEW to \in InHand \cup {"idle"}, NEW d, NEW n,
         h \in {Idle} \cup Handling \cup Relaying, Handles(from, to)
  PROVE  /\ Carries(d, n)' => Carries(d, n)
         /\ Hands(d)' => Hands(d) /\ h'.pc = to
BY HandlesType DEF Carries, Hands, InHand

\* A frame that is forwarded leaves the relay's hands.
LEMMA ForwardFrees ==
  ASSUME NEW d, NEW n, RelayForward
  PROVE  ~Carries(d, n)' /\ ~Hands(d)' /\ h'.pc = "idle"
BY DEF RelayForward, Handles, Idle, Carries, Hands, InHand

-------------------------------------------------------------------------------
(***************************************************************************)
(* A nonce is admitted once, and again only after the guard lost it.  Of    *)
(* the admissions of a datagram one at most is not made up for by a loss,   *)
(* and of that one the guard has the nonce; a datagram nothing is left of   *)
(* has no history.                                                          *)
(***************************************************************************)

Remembered(d, n) ==
  /\ admits[d][n] <= forgot[d][n] + 1
  /\ n \notin used[d] => admits[d][n] <= forgot[d][n]
  /\ ~About(d, n) => admits[d][n] = 0 /\ ~Carries(d, n)

Once == \A d \in Clients, n \in Nonces : Remembered(d, n)

LEMMA OnceInit == Init => Once
BY DEF Init, Once, Remembered, Carries, Idle, InHand

\* A step that counts nothing, forgets nothing and takes up no datagram that is not about
\* keeps Once.
LEMMA OnceQuiet ==
  ASSUME Once, UNCHANGED <<counts, used, sent>>,
         \A d \in Clients, n \in Nonces : Carries(d, n)' => Carries(d, n) \/ About(d, n)
  PROVE  Once'
BY DEF Once, Remembered, About, counts

LEMMA OnceHandle ==
  ASSUME TypeOK, Once, Handle
  PROVE  Once'
<1> USE DEF nodes, net, keys, counts, admin
<1>h. h \in {Idle} \cup Handling \cup Relaying
  BY DEF TypeOK
<1>1. ASSUME NEW from \in InHand, NEW to \in InHand \cup {"idle"}, Handles(from, to),
             UNCHANGED <<counts, used, sent>>
      PROVE  Once'
  BY <1>1, <1>h, HandlesSame, OnceQuiet
<1>2. CASE KeySteps
  <2>1. CASE KeyCached
    BY <2>1, <1>1 DEF KeyCached, InHand
  <2>2. CASE KeyRefused
    BY <2>2, <1>1 DEF KeyRefused, InHand
  <2>3. CASE KeyQueried
    BY <2>3, <1>1 DEF KeyQueried, InHand
  <2>4. CASE KeyFound
    BY <2>4, <1>1 DEF KeyFound, InHand
  <2>5. CASE KeyMissing
    BY <2>5, <1>1 DEF KeyMissing, InHand
  <2>6. QED
    BY <1>2, <2>1, <2>2, <2>3, <2>4, <2>5 DEF KeySteps
<1>3. CASE Admit
  <2>1. /\ h.dev \in Clients /\ h.nonce \in Nonces /\ h.nonce \notin used[h.dev]
        /\ Carries(h.dev, h.nonce)
    BY <1>3, <1>h, HandlesType DEF Admit, InHand, Handling, Carries
  <2>2. ASSUME NEW d \in Clients, NEW n \in Nonces PROVE Remembered(d, n)'
    <3>1. Remembered(d, n) /\ (Carries(d, n)' => Carries(d, n)) /\ UNCHANGED <<sent, forgot>>
      BY <1>3, <1>h, HandlesSame DEF Admit, Counted, InHand, Once
    <3>2. admits[d][n] \in Nat /\ forgot[d][n] \in Nat
      BY DEF TypeOK
    <3>3. CASE d = h.dev /\ n = h.nonce
      <4>1. admits'[d][n] = admits[d][n] + 1 /\ n \in used'[d]
        BY <1>3, <2>1, <3>3 DEF Admit, Counted, TypeOK
      <4>2. admits[d][n] <= forgot[d][n] /\ About(d, n)
        BY <2>1, <3>1, <3>3 DEF Remembered
      <4>3. QED
        BY <3>1, <3>2, <4>1, <4>2 DEF Remembered, About
    <3>4. CASE ~(d = h.dev /\ n = h.nonce)
      <4>1. admits'[d][n] = admits[d][n] /\ used[d] \subseteq used'[d]
        BY <1>3, <2>1, <3>4 DEF Admit, Counted, TypeOK
      <4>2. QED
        BY <3>1, <4>1 DEF Remembered, About
    <3>5. QED
      BY <3>3, <3>4
  <2>3. QED
    BY <2>2 DEF Once
<1>4. CASE Seen
  BY <1>4, <1>1 DEF Seen, InHand
<1>5. CASE Insert
  BY <1>5, <1>1 DEF Insert, InHand
<1>6. CASE TouchAndAck
  BY <1>6, <1>1 DEF TouchAndAck, InHand
<1>7. CASE RelayForward
  BY <1>7, ForwardFrees, OnceQuiet DEF RelayForward
<1>8. QED
  BY <1>2, <1>3, <1>4, <1>5, <1>6, <1>7 DEF Handle

LEMMA OnceNext == TypeOK /\ Once /\ [Next]_vars => Once'
<1> SUFFICES ASSUME TypeOK, Once, [Next]_vars PROVE Once'
  OBVIOUS
<1> USE DEF nodes, net, keys, counts, admin
<1>1. ASSUME UNCHANGED <<counts, used, sent, h>> PROVE Once'
  BY <1>1, OnceQuiet DEF Carries
<1>2. CASE Handle
  BY <1>2, OnceHandle
<1>t. \A c \in Clients, m \in Nonces : admits[c][m] \in Nat /\ forgot[c][m] \in Nat
  BY DEF TypeOK
<1>3. CASE ServerRestart
  <2>1. ASSUME NEW c \in Clients, NEW m \in Nonces PROVE Remembered(c, m)'
    <3>1. /\ forgot'[c][m] = forgot[c][m] + IF m \in used[c] /\ About(c, m) THEN 1 ELSE 0
          /\ UNCHANGED <<admits, sent>> /\ h' = Idle
      BY <1>3 DEF ServerRestart, Blank
    <3>2. ~Carries(c, m)' /\ (About(c, m)' <=> About(c, m))
      BY <3>1 DEF Carries, Idle, InHand, About
    <3>3. admits[c][m] <= forgot'[c][m]
      BY <1>t, <3>1 DEF Once, Remembered
    <3>4. forgot'[c][m] \in Nat
      BY <1>t, <3>1
    <3>5. QED
      BY <1>t, <3>1, <3>2, <3>3, <3>4 DEF Once, Remembered
  <2>2. QED
    BY <2>1 DEF Once
<1>4. ASSUME NEW d \in Clients, NEW n \in Nonces, SendRegister(d, n) PROVE Once'
  <2>1. ASSUME NEW c \in Clients, NEW m \in Nonces
        PROVE  (~About(c, m)' => ~About(c, m)) /\ (Carries(c, m)' <=> Carries(c, m))
    BY <1>4 DEF SendRegister, TypeOK, About, Carries
  <2>2. UNCHANGED <<admits, forgot, used>>
    BY <1>4 DEF SendRegister
  <2>3. QED
    BY <2>1, <2>2 DEF Once, Remembered
<1>5. ASSUME NEW d \in Clients, NEW n \in Nonces, Lose(d, n) PROVE Once'
  <2>1. ASSUME NEW c \in Clients, NEW m \in Nonces PROVE Remembered(c, m)'
    <3>1. ~Carries(c, m)' /\ used' = used
      BY <1>5 DEF Lose, Carries, InHand
    <3>2. CASE c = d /\ m = n
      <4>1. admits'[c][m] = 0 /\ forgot'[c][m] = 0
        BY <1>5, <3>2 DEF Lose, TypeOK
      <4>2. QED
        BY <3>1, <4>1 DEF Remembered
    <3>3. CASE ~(c = d /\ m = n)
      <4>1. /\ admits'[c][m] = admits[c][m] /\ forgot'[c][m] = forgot[c][m]
            /\ sent'[c][m] = sent[c][m]
        BY <1>5, <3>3 DEF Lose, TypeOK
      <4>2. QED
        BY <3>1, <4>1 DEF Once, Remembered, About
    <3>4. QED
      BY <3>2, <3>3
  <2>2. QED
    BY <2>1 DEF Once
<1>6. ASSUME NEW d \in Clients, NEW n \in Nonces, Arrive(d, n) PROVE Once'
  <2>1. \A c \in Clients, m \in Nonces : Carries(c, m)' => About(c, m)
    BY <1>6 DEF Arrive, Carries
  <2>2. QED
    BY <1>6, <2>1, OnceQuiet DEF Arrive
<1>7. ASSUME NEW d \in Clients, NEW n \in Nonces, NonceExpires(d, n) PROVE Once'
  <2>1. ASSUME NEW c \in Clients, NEW m \in Nonces PROVE Remembered(c, m)'
    <3>1. /\ UNCHANGED <<admits, sent, h>>
          /\ (About(c, m)' <=> About(c, m)) /\ (Carries(c, m)' <=> Carries(c, m))
      BY <1>7 DEF NonceExpires, About, Carries
    <3>2. CASE c = d /\ m = n /\ About(d, n)
      <4>1. forgot'[c][m] = forgot[c][m] + 1
        BY <1>7, <3>2 DEF NonceExpires, TypeOK
      <4>2. QED
        BY <1>t, <3>1, <3>2, <4>1 DEF Once, Remembered
    <3>3. CASE c = d /\ m = n /\ ~About(d, n)
      <4>1. forgot' = forgot /\ admits[c][m] = 0
        BY <1>7, <3>3 DEF NonceExpires, Once, Remembered
      <4>2. QED
        BY <1>t, <3>1, <4>1 DEF Once, Remembered
    <3>4. CASE ~(c = d /\ m = n)
      <4>1. forgot'[c][m] = forgot[c][m] /\ (m \in used[c] <=> m \in used'[c])
        BY <1>7, <3>4 DEF NonceExpires, TypeOK
      <4>2. QED
        BY <3>1, <4>1 DEF Once, Remembered
    <3>5. QED
      BY <3>2, <3>3, <3>4
  <2>2. QED
    BY <2>1 DEF Once
<1>8. ASSUME NEW d \in Clients, NEW c \in Clients, NEW e \in Endpoints,
             RelaySource(d, c, e)
      PROVE  Once'
  BY <1>8, OnceQuiet DEF RelaySource, Carries, InHand
<1>9. ASSUME NEW d \in Clients,
             \/ AckArrives(d) \/ HeartbeatAnswered(d)
             \/ RegExpires(d) \/ KeyExpires(d) \/ RefusalExpires(d)
             \/ DeleteRow(d) \/ RelayUnregister(d) \/ RemovePresence(d)
             \/ \E e \in Endpoints : Rebind(d, e)
      PROVE  Once'
  BY <1>9, <1>1 DEF AckArrives, HeartbeatAnswered, RegExpires, KeyExpires, RefusalExpires,
     DeleteRow, RelayUnregister, RemovePresence, Rebind
<1>10. CASE UNCHANGED vars
  BY <1>10, <1>1 DEF vars
<1>11. QED
  BY <1>2, <1>3, <1>4, <1>5, <1>6, <1>7, <1>8, <1>9, <1>10 DEF Next

\* A REGISTER moves the registration once, however many copies of it arrive, and once more
\* for each time the guard lost its nonce while copies were about, to the ten minutes or to
\* a restart of the server.
THEOREM AdmitsOnce == Spec => []AdmittedOnce
<1>1. TypeOK /\ Once => AdmittedOnce
  BY DEF TypeOK, Once, Remembered, AdmittedOnce
<1>2. QED
  BY <1>1, TypeInit, TypeNext, OnceInit, OnceNext, PTL DEF Spec

-------------------------------------------------------------------------------
(***************************************************************************)
(* The presence record follows the registration.  Of a datagram whose       *)
(* source is about to be written there, the registration has that source,   *)
(* or none any more.                                                        *)
(***************************************************************************)

Held == h.pc \in {"touch", "relay"} => reg[h.dev].at \in {h.from, Nowhere}

Followed(d) ==
  reg[d].at # Nowhere /\ deleting[d] = "no" /\ ~(h.pc = "touch" /\ h.dev = d)
  => observed[d] = reg[d].at

Follows == Held /\ \A d \in Clients : Followed(d)

LEMMA FollowsInit == Init => Follows
BY NoRegType DEF Init, Follows, Held, Followed, Idle

\* A step after which the task touches no record keeps what it leaves alone.
LEMMA FollowsQuiet ==
  ASSUME Follows, UNCHANGED <<reg, observed, deleting>>,
         h' = h \/ (h.pc # "touch" /\ h'.pc \notin {"touch", "relay"})
  PROVE  Follows'
BY DEF Follows, Held, Followed

LEMMA FollowsHandle ==
  ASSUME TypeOK, Follows, Handle
  PROVE  Follows'
<1> USE DEF nodes, net, keys, counts, admin
<1>h. h \in {Idle} \cup Handling \cup Relaying
  BY DEF TypeOK
<1>1. ASSUME NEW from \in InHand \ {"touch"}, NEW to \in (InHand \ {"touch"}) \cup {"idle"},
             Handles(from, to), UNCHANGED <<reg, observed, deleting>>
      PROVE  Follows'
  <2>1. h.pc # "touch" /\ h'.pc \notin {"touch", "relay"}
    BY <1>1, <1>h, HandlesType DEF InHand
  <2>2. QED
    BY <1>1, <2>1, FollowsQuiet
<1>2. CASE KeySteps
  <2>1. CASE KeyCached
    BY <2>1, <1>1 DEF KeyCached, InHand
  <2>2. CASE KeyRefused
    BY <2>2, <1>1 DEF KeyRefused, InHand
  <2>3. CASE KeyQueried
    BY <2>3, <1>1 DEF KeyQueried, InHand
  <2>4. CASE KeyFound
    BY <2>4, <1>1 DEF KeyFound, InHand
  <2>5. CASE KeyMissing
    BY <2>5, <1>1 DEF KeyMissing, InHand
  <2>6. QED
    BY <1>2, <2>1, <2>2, <2>3, <2>4, <2>5 DEF KeySteps
<1>3. CASE Admit
  BY <1>3, <1>1 DEF Admit, InHand
<1>4. CASE Seen
  BY <1>4, <1>1 DEF Seen, InHand
<1>5. CASE Insert
  <2>1. /\ h.dev \in Clients /\ h.pc # "touch"
        /\ h'.pc = "touch" /\ h'.dev = h.dev /\ h'.from = h.from
    BY <1>5, <1>h, HandlesType DEF Insert, InHand, Handling
  <2>2. reg'[h.dev].at = h.from
    BY <1>5, <2>1 DEF Insert, TypeOK
  <2>3. Held'
    BY <2>1, <2>2 DEF Held
  <2>4. ASSUME NEW d \in Clients, d # h.dev PROVE Followed(d)'
    <3>1. UNCHANGED <<reg[d], deleting, observed>>
      BY <1>5, <2>4 DEF Insert, TypeOK
    <3>2. QED
      BY <2>1, <3>1 DEF Follows, Followed
  <2>5. Followed(h.dev)'
    BY <2>1 DEF Followed
  <2>6. ASSUME NEW d \in Clients, d = h.dev PROVE Followed(d)'
    BY <2>1, <2>6 DEF Followed
  <2>7. QED
    BY <2>3, <2>4, <2>6 DEF Follows
<1>6. ASSUME h.dev \in Clients, h' = Idle, h.pc \in {"touch", "relay"},
             UNCHANGED <<reg, deleting>>,
             \/ observed' = [observed EXCEPT ![h.dev] = h.from]
             \/ h.pc = "relay" /\ observed' = observed
      PROVE  Follows'
  <2>1. Held' /\ h'.pc = "idle"
    BY <1>6 DEF Held, Idle
  <2>2. ASSUME NEW d \in Clients PROVE Followed(d)'
    <3>1. CASE d = h.dev /\ observed' = [observed EXCEPT ![h.dev] = h.from]
      BY <1>6, <3>1 DEF Follows, Held, Followed, TypeOK
    <3>2. CASE d # h.dev \/ (h.pc = "relay" /\ observed' = observed)
      <4>1. observed'[d] = observed[d] /\ ~(h.pc = "touch" /\ h.dev = d)
        BY <1>6, <3>2 DEF TypeOK
      <4>2. QED
        BY <1>6, <4>1 DEF Follows, Followed
    <3>3. QED
      BY <1>6, <3>1, <3>2
  <2>3. QED
    BY <2>1, <2>2 DEF Follows
<1>7. CASE TouchAndAck
  <2>1. h.dev \in Clients
    BY <1>7, <1>h, HandlesType DEF TouchAndAck, InHand, Handling
  <2>2. QED
    BY <1>6, <1>7, <2>1 DEF TouchAndAck, Handles
<1>8. CASE RelayForward
  <2>1. h.dev \in Clients
    BY <1>8, <1>h, HandType DEF RelayForward, Handles, Relaying
  <2>2. QED
    BY <1>6, <1>8, <2>1 DEF RelayForward, Handles
<1>9. QED
  BY <1>2, <1>3, <1>4, <1>5, <1>7, <1>8 DEF Handle

LEMMA FollowsNext == TypeOK /\ Follows /\ [Next]_vars => Follows'
<1> SUFFICES ASSUME TypeOK, Follows, [Next]_vars PROVE Follows'
  OBVIOUS
<1> USE DEF nodes, net, keys, counts, admin
<1>1. CASE Handle
  BY <1>1, FollowsHandle
<1>2. CASE ServerRestart
  BY <1>2, NoRegType DEF ServerRestart, Blank, Follows, Held, Followed, Idle
<1>3. ASSUME NEW d \in Clients, NEW n \in Nonces, Arrive(d, n) PROVE Follows'
  <2>1. h.pc # "touch" /\ h'.pc \notin {"touch", "relay"}
    BY <1>3 DEF Arrive
  <2>2. QED
    BY <1>3, <2>1, FollowsQuiet DEF Arrive
<1>4. ASSUME NEW d \in Clients, NEW c \in Clients, NEW e \in Endpoints,
             RelaySource(d, c, e)
      PROVE  Follows'
  <2>1. Held'
    BY <1>4 DEF RelaySource, Held
  <2>2. QED
    BY <1>4, <2>1 DEF RelaySource, Follows, Followed
<1>5. ASSUME NEW d \in Clients, \/ RegExpires(d) \/ RelayUnregister(d)
      PROVE  Follows'
  <2>1. /\ \A c \in Clients : reg'[c].at \in {reg[c].at, Nowhere}
        /\ UNCHANGED <<h, observed>>
    <3>1. CASE RegExpires(d)
      <4>1. reg'[d].at \in {reg[d].at, Nowhere} /\ UNCHANGED <<h, observed>>
        BY <3>1, NoRegType DEF RegExpires, TypeOK
      <4>2. \A c \in Clients : c # d => reg'[c] = reg[c]
        BY <3>1 DEF RegExpires, TypeOK
      <4>3. QED
        BY <4>1, <4>2
    <3>2. CASE RelayUnregister(d)
      <4>1. reg'[d].at = Nowhere /\ UNCHANGED <<h, observed>>
        BY <3>2, NoRegType DEF RelayUnregister, TypeOK
      <4>2. \A c \in Clients : c # d => reg'[c] = reg[c]
        BY <3>2 DEF RelayUnregister, TypeOK
      <4>3. QED
        BY <4>1, <4>2
    <3>3. QED
      BY <1>5, <3>1, <3>2
  <2>2. \A c \in Clients : deleting'[c] = "no" => deleting[c] = "no"
    BY <1>5 DEF RegExpires, RelayUnregister, TypeOK
  <2>3. h.pc \in {"touch", "relay"} => h.dev \in Clients
    BY HandType DEF TypeOK, InHand, Handling, Relaying
  <2>4. QED
    BY <2>1, <2>2, <2>3 DEF Follows, Held, Followed
<1>6. ASSUME NEW d \in Clients, \/ DeleteRow(d) \/ RemovePresence(d)
      PROVE  Follows'
  <2>1. UNCHANGED <<reg, h>>
    BY <1>6 DEF DeleteRow, RemovePresence
  <2>2. \A c \in Clients :
          deleting'[c] = "no" => deleting[c] = "no" /\ observed'[c] = observed[c]
    BY <1>6 DEF DeleteRow, RemovePresence, TypeOK
  <2>3. QED
    BY <2>1, <2>2 DEF Follows, Held, Followed
<1>7. ASSUME NEW d \in Clients,
             \/ AckArrives(d) \/ HeartbeatAnswered(d) \/ KeyExpires(d) \/ RefusalExpires(d)
             \/ \E n \in Nonces : SendRegister(d, n) \/ Lose(d, n) \/ NonceExpires(d, n)
             \/ \E e \in Endpoints : Rebind(d, e)
      PROVE  Follows'
  BY <1>7, FollowsQuiet DEF AckArrives, HeartbeatAnswered, KeyExpires, RefusalExpires,
     SendRegister, Lose, NonceExpires, Rebind
<1>8. CASE UNCHANGED vars
  BY <1>8, FollowsQuiet DEF vars
<1>9. QED
  BY <1>1, <1>2, <1>3, <1>4, <1>5, <1>6, <1>7, <1>8 DEF Next

\* What peers are told of a device is the address the relay sends its frames to.
THEOREM ObservedFollows == Spec => []ObservedIsRegistered
<1>1. Follows => ObservedIsRegistered
  BY DEF Follows, Followed, ObservedIsRegistered
<1>2. QED
  BY <1>1, TypeInit, TypeNext, FollowsInit, FollowsNext, PTL DEF Spec

-------------------------------------------------------------------------------
(***************************************************************************)
(* A device that is deleted.  The row goes first, so a datagram that comes   *)
(* when it is gone finds no key once the relay has let go of it; the others  *)
(* are the ones the deletion overlapped with.                               *)
(***************************************************************************)

Leaving(d) ==
  deleting[d] # "no" =>
    /\ d \notin rows
    /\ d \notin overlap =>
         /\ deleting[d] \in {"row", "relay"} => ~Hands(d)
         /\ deleting[d] = "done" => ~Hands(d) \/ h.pc \in {"key", "missing"}
         /\ deleting[d] \in {"relay", "done"} => reg[d] = NoReg /\ d \notin cached
         /\ deleting[d] = "done" => observed[d] = Nowhere

AllLeaving == \A d \in Clients : Leaving(d)

LEMMA LeaveInit == Init => AllLeaving
BY DEF Init, AllLeaving, Leaving

\* A step that gives a device nothing and takes up nothing of it keeps Leaving.
LEMMA LeaveQuiet ==
  ASSUME NEW d \in Clients, Leaving(d), d \in rows' => d \in rows,
         deleting'[d] = deleting[d], d \in overlap => d \in overlap',
         Hands(d)' => Hands(d) /\ (h'.pc = h.pc \/ h'.pc = "missing"),
         reg[d] = NoReg => reg'[d] = NoReg, d \in cached' => d \in cached,
         observed[d] = Nowhere => observed'[d] = Nowhere
  PROVE  Leaving(d)'
BY DEF Leaving, Hands

LEMMA LeaveHandle ==
  ASSUME TypeOK, AllLeaving, Handle, NEW d \in Clients
  PROVE  Leaving(d)'
<1> USE DEF nodes, net, keys, counts, admin
<1>h. h \in {Idle} \cup Handling \cup Relaying
  BY DEF TypeOK
<1>l. Leaving(d)
  BY DEF AllLeaving
<1>1. /\ UNCHANGED <<rows, deleting, overlap>>
      /\ Hands(d)' => Hands(d)
  <2>1. UNCHANGED <<rows, deleting, overlap>>
    BY DEF Handle, KeySteps, KeyCached, KeyRefused, KeyQueried, KeyFound, KeyMissing, Admit,
       Seen, Insert, TouchAndAck, RelayForward
  <2>2. ASSUME NEW from \in InHand, NEW to \in InHand \cup {"idle"}, Handles(from, to)
        PROVE  Hands(d)' => Hands(d)
    BY <2>2, <1>h, HandlesSame
  <2>3. CASE RelayForward
    BY <2>1, <2>3, ForwardFrees
  <2>4. CASE KeySteps \/ Admit \/ Seen \/ Insert \/ TouchAndAck
    BY <2>1, <2>2, <2>4 DEF KeySteps, KeyCached, KeyRefused, KeyQueried, KeyFound, KeyMissing,
       Admit, Seen, Insert, TouchAndAck, InHand
  <2>5. QED
    BY <2>1, <2>3, <2>4 DEF Handle
<1>2. CASE ~Hands(d)
  <2>1. h.pc # "idle"
    BY DEF Handle, KeySteps, KeyCached, KeyRefused, KeyQueried, KeyFound, KeyMissing, Admit,
       Seen, Insert, TouchAndAck, RelayForward, Handles
  <2>2. h.dev # d /\ ~Hands(d)'
    BY <1>1, <1>2, <2>1 DEF Hands
  <2>3. /\ reg'[d] = reg[d] /\ observed'[d] = observed[d]
        /\ d \in cached' => d \in cached
    BY <2>2 DEF Handle, KeySteps, KeyCached, KeyRefused, KeyQueried, KeyFound, KeyMissing,
       Admit, Seen, Insert, TouchAndAck, RelayForward, TypeOK
  <2>4. QED
    BY <1>l, <1>1, <2>2, <2>3, LeaveQuiet
<1>3. CASE Hands(d) /\ d \notin overlap /\ deleting[d] # "no"
  <2>1. /\ d \notin rows /\ deleting[d] = "done" /\ h.pc \in {"key", "missing"}
        /\ reg[d] = NoReg /\ d \notin cached /\ observed[d] = Nowhere /\ h.dev = d
    BY <1>l, <1>3 DEF Leaving, Hands, TypeOK
  <2>2. UNCHANGED <<reg, observed, cached>> /\ h'.pc \in {"idle", "missing"}
    <3>1. CASE KeyRefused
      BY <3>1, <1>h, HandlesType DEF KeyRefused, InHand
    <3>2. CASE KeyQueried
      BY <3>2, <2>1, <1>h, HandlesType DEF KeyQueried, InHand
    <3>3. CASE KeyMissing
      BY <3>3, <1>h, HandlesType DEF KeyMissing, InHand
    <3>4. QED
      BY <2>1, <3>1, <3>2, <3>3 DEF Handle, KeySteps, KeyCached, KeyFound, Admit, Seen,
         Insert, TouchAndAck, RelayForward, Handles
  <2>3. QED
    BY <1>1, <2>1, <2>2 DEF Leaving, Hands
<1>4. CASE d \in overlap \/ deleting[d] = "no"
  BY <1>l, <1>1, <1>4 DEF Leaving
<1>5. QED
  BY <1>2, <1>3, <1>4

LEMMA LeaveNext == TypeOK /\ AllLeaving /\ [Next]_vars => AllLeaving'
<1> SUFFICES ASSUME TypeOK, AllLeaving, [Next]_vars, NEW d \in Clients PROVE Leaving(d)'
  BY DEF AllLeaving
<1> USE DEF nodes, net, keys, counts, admin
<1>l. Leaving(d)
  BY DEF AllLeaving
<1>1. CASE Handle
  BY <1>1, LeaveHandle
<1>2. CASE ServerRestart
  BY <1>2, NoRegType DEF ServerRestart, Blank, Leaving, Hands, Idle
<1>3. ASSUME NEW c \in Clients, NEW n \in Nonces, Arrive(c, n) PROVE Leaving(d)'
  <2>1. h'.dev = c /\ h'.pc = "key" /\ h.pc = "idle"
    BY <1>3 DEF Arrive
  <2>2. CASE c = d
    BY <1>3, <1>l, <2>1, <2>2 DEF Arrive, Leaving, Hands
  <2>3. CASE c # d
    <3>1. ~Hands(d)' /\ (d \in overlap => d \in overlap')
      BY <1>3, <2>1, <2>3 DEF Hands, Arrive
    <3>2. QED
      BY <1>3, <1>l, <3>1, LeaveQuiet DEF Arrive
  <2>4. QED
    BY <2>2, <2>3
<1>4. ASSUME NEW s \in Clients, NEW c \in Clients, NEW e \in Endpoints,
             RelaySource(s, c, e)
      PROVE  Leaving(d)'
  <2>1. h'.dev = s /\ h.pc = "idle" /\ reg[s].live
    BY <1>4 DEF RelaySource
  <2>2. CASE s = d
    <3>1. reg[d] # NoReg
      BY <2>1, <2>2, NoRegType
    <3>2. QED
      BY <1>4, <1>l, <2>1, <2>2, <3>1 DEF RelaySource, Leaving, Hands
  <2>3. CASE s # d
    <3>1. ~Hands(d)' /\ (d \in overlap => d \in overlap')
      BY <1>4, <2>1, <2>3 DEF Hands, RelaySource
    <3>2. QED
      BY <1>4, <1>l, <3>1, LeaveQuiet DEF RelaySource
  <2>4. QED
    BY <2>2, <2>3
<1>5. ASSUME NEW c \in Clients, RegExpires(c) PROVE Leaving(d)'
  <2>1. reg[d] = NoReg => reg'[d] = NoReg
    BY <1>5, NoRegType DEF RegExpires, TypeOK
  <2>2. QED
    BY <1>5, <1>l, <2>1, LeaveQuiet DEF RegExpires, Hands
<1>6. ASSUME NEW c \in Clients, \/ DeleteRow(c) \/ RelayUnregister(c) \/ RemovePresence(c)
      PROVE  Leaving(d)'
  <2>1. CASE c # d
    <3>1. /\ deleting'[d] = deleting[d] /\ (d \in overlap => d \in overlap')
          /\ reg'[d] = reg[d] /\ observed'[d] = observed[d] /\ h' = h
          /\ (d \in cached' => d \in cached) /\ (d \in rows' => d \in rows)
      BY <1>6, <2>1 DEF DeleteRow, RelayUnregister, RemovePresence, Overlaps, TypeOK
    <3>2. QED
      BY <1>l, <3>1, LeaveQuiet DEF Hands
  <2>2. CASE c = d /\ DeleteRow(d)
    BY <2>2 DEF DeleteRow, Overlaps, Leaving, Hands, TypeOK
  <2>3. CASE c = d /\ RelayUnregister(d)
    BY <2>3, <1>l DEF RelayUnregister, Overlaps, Leaving, Hands, TypeOK
  <2>4. CASE c = d /\ RemovePresence(d)
    BY <2>4, <1>l DEF RemovePresence, Overlaps, Leaving, Hands, TypeOK
  <2>5. QED
    BY <1>6, <2>1, <2>2, <2>3, <2>4
<1>7. ASSUME NEW c \in Clients,
             \/ AckArrives(c) \/ HeartbeatAnswered(c) \/ KeyExpires(c) \/ RefusalExpires(c)
             \/ \E n \in Nonces : SendRegister(c, n) \/ Lose(c, n) \/ NonceExpires(c, n)
             \/ \E e \in Endpoints : Rebind(c, e)
      PROVE  Leaving(d)'
  <2>1. UNCHANGED <<rows, deleting, overlap, h, reg, observed>> /\ cached' \subseteq cached
    BY <1>7 DEF AckArrives, HeartbeatAnswered, KeyExpires, RefusalExpires, SendRegister, Lose,
       NonceExpires, Rebind
  <2>2. QED
    BY <1>l, <2>1, LeaveQuiet DEF Hands
<1>8. CASE UNCHANGED vars
  BY <1>8, <1>l DEF vars, Leaving, Hands
<1>9. QED
  BY <1>1, <1>2, <1>3, <1>4, <1>5, <1>6, <1>7, <1>8 DEF Next

\* Of a device that is deleted the relay keeps nothing, but if one of its datagrams was
\* in the relay's hands meanwhile.
THEOREM DeletedLeavesNothing == Spec => []DeletedIsOut
<1>1. AllLeaving => DeletedIsOut
  BY DEF AllLeaving, Leaving, DeletedIsOut
<1>2. QED
  BY <1>1, TypeInit, TypeNext, LeaveInit, LeaveNext, PTL DEF Spec

-------------------------------------------------------------------------------
(***************************************************************************)
(* Event sockets: types and the hub's table.                               *)
(***************************************************************************)

SocketPlaces == {"none", "refused", "admitted", "connected", "live", "leaving",
                 "current", "unlisted", "uncounted", "gone"}
Served == {"live", "leaving", "current"}

\* Types, but for the range of the number of connections, which is a matter of counting.
HubTyped ==
  /\ PresenceTypeOK
  /\ exists \subseteq Devices /\ member \subseteq Keys
  /\ pc \in [Sockets -> SocketPlaces]
  /\ key \in [Sockets -> Keys]
  /\ entry \in [Keys -> Sockets \cup {NoSocket}]
  /\ \A k \in Keys : entry[k] # NoSocket => key[entry[k]] = k
  /\ kicked \subseteq Sockets /\ kicks \subseteq Keys
  /\ removing \in [Devices -> {"no", "presence", "collect", "done"}]
  /\ replaced \subseteq Sockets /\ lost \subseteq Sockets

LEMMA SocketMoves ==
  ASSUME HubTyped, NEW s \in Sockets, NEW from, NEW to \in SocketPlaces, Goes(s, from, to)
  PROVE  /\ pc[s] = from /\ pc'[s] = to /\ pc' \in [Sockets -> SocketPlaces]
         /\ \A q \in Sockets : q # s => pc'[q] = pc[q]
BY DEF HubTyped, Goes

\* The device of a socket, and the calls that its task makes on the presence record.
LEMMA SocketOfDevice ==
  ASSUME HubTyped, NEW s \in Sockets
  PROVE  key[s] \in Keys /\ key[s][1] \in Devices
BY DEF HubTyped, Keys

LEMMA AppliedType ==
  ASSUME PresenceTypeOK, NEW d \in Devices, NEW r \in Records, Apply(d, r)
  PROVE  PresenceTypeOK' /\ record'[d] = r /\ \A c \in Devices : c # d => record'[c] = record[c]
BY DEF PresenceTypeOK, Apply

LEMMA PresenceCalls ==
  ASSUME PresenceTypeOK, NEW d \in Devices
  PROVE  /\ record[d].ws \in Nat /\ record[d].seen \in BOOLEAN
         /\ [record[d] EXCEPT !.seen = TRUE].ws = record[d].ws
         /\ [record[d] EXCEPT !.seen = TRUE] \in Records
         /\ [ws |-> record[d].ws + 1, seen |-> TRUE] \in Records
         /\ [record[d] EXCEPT !.ws = IF @ = 0 THEN 0 ELSE @ - 1] \in Records
<1>1. record[d] = [ws |-> record[d].ws, seen |-> record[d].seen]
      /\ record[d].ws \in Nat /\ record[d].seen \in BOOLEAN
  BY DEF PresenceTypeOK, Records
<1>2. [ws |-> record[d].ws + 1, seen |-> TRUE] \in Records
  BY <1>1 DEF Records
<1>3. /\ [record[d] EXCEPT !.seen = TRUE].ws = record[d].ws
      /\ [record[d] EXCEPT !.seen = TRUE] \in Records
  BY DEF PresenceTypeOK, Records
<1>4. [record[d] EXCEPT !.ws = IF @ = 0 THEN 0 ELSE @ - 1] \in Records
  <2>1. (IF record[d].ws = 0 THEN 0 ELSE record[d].ws - 1) \in Nat
    BY <1>1
  <2>2. [record[d] EXCEPT !.ws = IF @ = 0 THEN 0 ELSE @ - 1]
        = [ws |-> IF record[d].ws = 0 THEN 0 ELSE record[d].ws - 1, seen |-> record[d].seen]
    BY <1>1
  <2>3. QED
    BY <1>1, <2>1, <2>2 DEF Records
<1>5. QED
  BY <1>1, <1>2, <1>3, <1>4

LEMMA HubTypedInit == HubInit => HubTyped
BY DEF HubInit, HubTyped, InitPresence, PresenceTypeOK, NoRecord, Records, SocketPlaces

LEMMA HubTypedSocket ==
  ASSUME HubTyped, NEW s \in Sockets, SocketSteps(s)
  PROVE  HubTyped' /\ UNCHANGED <<key, exists, member, kicks, removing>>
<1> USE DEF presenceVars
<1>1. UNCHANGED <<key, exists, member, kicks, removing>>
  BY DEF SocketSteps, Upgrade, UpgradeFails, Connect, Register, Ends, TestCurrent,
     RemoveCurrent, Disconnect, Release
<1>2. key[s] \in Keys /\ key[s][1] \in Devices
  BY SocketOfDevice
<1>3. pc' \in [Sockets -> SocketPlaces]
  BY SocketMoves DEF SocketSteps, Upgrade, UpgradeFails, Connect, Register, Ends, TestCurrent,
     RemoveCurrent, Disconnect, Release, SocketPlaces
<1>4. CASE Upgrade(s) \/ UpgradeFails(s) \/ Ends(s) \/ TestCurrent(s)
  BY <1>1, <1>3, <1>4 DEF Upgrade, UpgradeFails, Ends, TestCurrent, HubTyped, PresenceTypeOK
<1>5. CASE Connect(s) \/ Disconnect(s)
  <2>1. PresenceTypeOK'
    BY <1>2, <1>5, PresenceCalls, AppliedType DEF Connect, Disconnect, WsConnected,
       WsDisconnected, HubTyped
  <2>2. QED
    BY <1>1, <1>3, <1>5, <2>1 DEF Connect, Disconnect, HubTyped
<1>6. CASE Register(s)
  BY <1>1, <1>2, <1>3, <1>6 DEF Register, HubTyped, PresenceTypeOK
<1>7. CASE RemoveCurrent(s)
  BY <1>1, <1>2, <1>3, <1>7 DEF RemoveCurrent, HubTyped, PresenceTypeOK
<1>8. CASE Release(s)
  BY <1>1, <1>3, <1>8 DEF Release, HubTyped, PresenceTypeOK
<1>9. QED
  BY <1>1, <1>4, <1>5, <1>6, <1>7, <1>8 DEF SocketSteps

LEMMA HubTypedAdmin ==
  ASSUME HubTyped, AdminSteps
  PROVE  HubTyped' /\ UNCHANGED <<key, pc, conns>>
<1> USE DEF presenceVars
<1>1. ASSUME NEW k \in Keys, Leave(k) \/ Join(k) PROVE HubTyped' /\ UNCHANGED <<key, pc, conns>>
  BY <1>1 DEF Leave, Join, HubTyped, PresenceTypeOK
<1>2. ASSUME NEW k \in Keys, Kick(k) PROVE HubTyped' /\ UNCHANGED <<key, pc, conns>>
  BY <1>2 DEF Kick, Unregister, HubTyped, PresenceTypeOK
<1>3. ASSUME NEW d \in Devices, DeleteDevice(d) \/ CollectSockets(d)
      PROVE  HubTyped' /\ UNCHANGED <<key, pc, conns>>
  <2>1. removing' \in [Devices -> {"no", "presence", "collect", "done"}]
    BY <1>3 DEF DeleteDevice, CollectSockets, Removes, HubTyped
  <2>2. QED
    BY <1>3, <2>1 DEF DeleteDevice, CollectSockets, KeysOf, HubTyped, PresenceTypeOK
<1>4. ASSUME NEW d \in Devices, ForgetDevice(d) PROVE HubTyped' /\ UNCHANGED <<key, pc, conns>>
  <2>1. PresenceTypeOK'
    BY <1>4 DEF ForgetDevice, Forget, HubTyped, PresenceTypeOK, NoRecord, Records
  <2>2. QED
    BY <1>4, <2>1 DEF ForgetDevice, Removes, HubTyped
<1>5. QED
  BY <1>1, <1>2, <1>3, <1>4 DEF AdminSteps

LEMMA HubTypedPresence ==
  ASSUME HubTyped, PresenceSteps
  PROVE  HubTyped' /\ UNCHANGED socketVars /\ \A d \in Devices : record'[d].ws = record[d].ws
<1>1. ASSUME PresenceTypeOK', UNCHANGED socketVars PROVE HubTyped'
  BY <1>1 DEF HubTyped, socketVars
<1>2. ASSUME NEW d \in Devices, SeenAgain(d)
      PROVE  /\ PresenceTypeOK' /\ UNCHANGED socketVars
             /\ \A c \in Devices : record'[c].ws = record[c].ws
  <2>1. /\ Apply(d, [record[d] EXCEPT !.seen = TRUE]) /\ UNCHANGED socketVars
        /\ PresenceTypeOK
    BY <1>2 DEF SeenAgain, Touch, HubTyped
  <2>2. /\ [record[d] EXCEPT !.seen = TRUE] \in Records
        /\ [record[d] EXCEPT !.seen = TRUE].ws = record[d].ws
    BY <2>1, PresenceCalls
  <2>3. /\ PresenceTypeOK' /\ record'[d] = [record[d] EXCEPT !.seen = TRUE]
        /\ \A c \in Devices : c # d => record'[c] = record[c]
    BY <2>1, <2>2, AppliedType
  <2>4. QED
    BY <2>1, <2>2, <2>3
<1>3. ASSUME NEW d \in Devices, Lapses(d)
      PROVE  /\ PresenceTypeOK' /\ UNCHANGED socketVars
             /\ \A c \in Devices : record'[c].ws = record[c].ws
  <2>1. record[d] \in Records /\ [record[d] EXCEPT !.seen = FALSE] \in Records
        /\ [record[d] EXCEPT !.seen = FALSE].ws = record[d].ws
    BY DEF HubTyped, PresenceTypeOK, Records
  <2>2. QED
    BY <1>3, <2>1 DEF Lapses, Lapse, HubTyped, PresenceTypeOK
<1>4. ASSUME NEW d \in Devices, Announce(d)
      PROVE  /\ PresenceTypeOK' /\ UNCHANGED socketVars
             /\ \A c \in Devices : record'[c].ws = record[c].ws
  <2>1. unsent' \in [Devices -> Nat] /\ view' \in [Devices -> BOOLEAN]
    BY <1>4 DEF Announce, SendDifference, Online, HubTyped, PresenceTypeOK
  <2>2. QED
    BY <1>4, <2>1 DEF Announce, SendDifference, HubTyped, PresenceTypeOK
<1>5. QED
  BY <1>1, <1>2, <1>3, <1>4 DEF PresenceSteps

LEMMA HubTypedNext == HubTyped /\ [HubNext]_hubVars => HubTyped'
<1> SUFFICES ASSUME HubTyped, [HubNext]_hubVars PROVE HubTyped'
  OBVIOUS
<1>1. CASE UNCHANGED hubVars
  BY <1>1 DEF hubVars, presenceVars, socketVars, HubTyped, PresenceTypeOK
<1>2. QED
  BY <1>1, HubTypedSocket, HubTypedAdmin, HubTypedPresence DEF HubNext

LEMMA HubTypedAlways == HubSpec => []HubTyped
BY HubTypedInit, HubTypedNext, PTL DEF HubSpec

-------------------------------------------------------------------------------
LEMMA RegistrySocket ==
  ASSUME HubTyped, RegistryExplained, NEW s \in Sockets, SocketSteps(s)
  PROVE  RegistryExplained'
<1> USE DEF presenceVars, RegistryExplained, RegisteredIsServed, SilentExplained
<1>1. key[s] \in Keys /\ UNCHANGED key
  BY SocketOfDevice, HubTypedSocket
\* A socket that is in the table under no key moves, and does not go live.
<1>2. ASSUME NEW from, NEW to \in SocketPlaces \ {"live"}, Goes(s, from, to),
             UNCHANGED <<entry, kicked, replaced, lost>>,
             to \in Served \/ \A k \in Keys : entry[k] # s
      PROVE  RegistryExplained'
  <2>1. /\ pc'[s] = to /\ \A q \in Sockets : q # s => pc'[q] = pc[q]
    BY <1>2, SocketMoves
  <2>2. QED
    BY <1>1, <1>2, <2>1 DEF HubTyped, Served
<1>3. ASSUME pc[s] \notin Served PROVE \A k \in Keys : entry[k] # s
  BY <1>3, NoSocketAssumption DEF Served
<1>4. CASE Upgrade(s) \/ UpgradeFails(s) \/ Connect(s) \/ Disconnect(s)
  <2>1. pc[s] \notin Served
    BY <1>4 DEF Upgrade, UpgradeFails, Connect, Disconnect, Goes, Served
  <2>2. PICK from, to \in SocketPlaces \ {"live"} : Goes(s, from, to)
    BY <1>4 DEF Upgrade, UpgradeFails, Connect, Disconnect, SocketPlaces
  <2>3. UNCHANGED <<entry, kicked, replaced, lost>>
    BY <1>4 DEF Upgrade, UpgradeFails, Connect, Disconnect
  <2>4. QED
    BY <1>2, <1>3, <2>1, <2>2, <2>3
<1>5. CASE Ends(s)
  BY <1>2, <1>5 DEF Ends, Served, SocketPlaces
<1>6. CASE TestCurrent(s)
  <2>1. \A k \in Keys : entry[k] = s => k = key[s]
    BY NoSocketAssumption DEF HubTyped
  <2>2. CASE entry[key[s]] = s
    BY <1>2, <1>6, <2>2 DEF TestCurrent, Served, SocketPlaces
  <2>3. CASE entry[key[s]] # s
    BY <1>2, <1>6, <2>1, <2>3 DEF TestCurrent, SocketPlaces
  <2>4. QED
    BY <2>2, <2>3
<1>7. CASE Register(s)
  <2>1. /\ pc'[s] = "live" /\ \A q \in Sockets : q # s => pc'[q] = pc[q]
    BY <1>7, SocketMoves DEF Register, SocketPlaces
  <2>2. /\ entry' = [entry EXCEPT ![key[s]] = s]
        /\ replaced' = replaced \cup ({entry[key[s]]} \ {NoSocket})
        /\ UNCHANGED <<kicked, lost>>
    BY <1>7 DEF Register
  <2>3. RegisteredIsServed'
    BY <1>1, <2>1, <2>2 DEF HubTyped
  <2>4. SilentExplained'
    BY <1>1, <2>1, <2>2, NoSocketAssumption DEF HubTyped
  <2>5. QED
    BY <2>3, <2>4
<1>8. CASE RemoveCurrent(s)
  <2>1. /\ pc'[s] = "unlisted" /\ \A q \in Sockets : q # s => pc'[q] = pc[q]
    BY <1>8, SocketMoves DEF RemoveCurrent, SocketPlaces
  <2>2. /\ entry' = [entry EXCEPT ![key[s]] = NoSocket]
        /\ lost' = lost \cup ({entry[key[s]]} \ {s, NoSocket})
        /\ UNCHANGED <<kicked, replaced>>
    BY <1>8 DEF RemoveCurrent
  <2>3. RegisteredIsServed'
    BY <1>1, <2>1, <2>2, NoSocketAssumption DEF HubTyped
  <2>4. SilentExplained'
    BY <1>1, <2>1, <2>2, NoSocketAssumption DEF HubTyped
  <2>5. QED
    BY <2>3, <2>4
<1>9. CASE Release(s)
  <2>1. /\ pc[s] = "uncounted" /\ pc'[s] = "gone"
        /\ \A q \in Sockets : q # s => pc'[q] = pc[q]
    BY <1>9, SocketMoves DEF Release, SocketPlaces
  <2>2. QED
    BY <1>1, <1>9, <2>1 DEF Release, HubTyped
<1>10. QED
  BY <1>4, <1>5, <1>6, <1>7, <1>8, <1>9 DEF SocketSteps

LEMMA RegistryNext ==
  HubTyped /\ RegistryExplained /\ [HubNext]_hubVars => RegistryExplained'
<1> SUFFICES ASSUME HubTyped, RegistryExplained, [HubNext]_hubVars PROVE RegistryExplained'
  OBVIOUS
<1>1. ASSUME UNCHANGED <<pc, key, entry, kicked, replaced, lost>> PROVE RegistryExplained'
  BY <1>1 DEF RegistryExplained, RegisteredIsServed, SilentExplained
<1>2. CASE AdminSteps
  <2>1. ASSUME NEW k \in Keys, Kick(k) PROVE RegistryExplained'
    <3>1. /\ entry' = [entry EXCEPT ![k] = NoSocket]
          /\ kicked' = kicked \cup ({entry[k]} \ {NoSocket})
          /\ UNCHANGED <<pc, key, replaced, lost>>
      BY <2>1 DEF Kick, Unregister
    <3>2. QED
      BY <3>1, NoSocketAssumption
         DEF RegistryExplained, RegisteredIsServed, SilentExplained, HubTyped
  <2>2. ASSUME NEW k \in Keys, Leave(k) \/ Join(k) PROVE RegistryExplained'
    BY <1>1, <2>2 DEF Leave, Join
  <2>3. ASSUME NEW d \in Devices, DeleteDevice(d) \/ ForgetDevice(d) \/ CollectSockets(d)
        PROVE  RegistryExplained'
    BY <1>1, <2>3 DEF DeleteDevice, ForgetDevice, CollectSockets
  <2>4. QED
    BY <1>2, <2>1, <2>2, <2>3 DEF AdminSteps
<1>3. CASE PresenceSteps
  BY <1>1, <1>3, HubTypedPresence DEF socketVars
<1>4. CASE UNCHANGED hubVars
  BY <1>1, <1>4 DEF hubVars, socketVars
<1>5. QED
  BY <1>2, <1>3, <1>4, RegistrySocket DEF HubNext

\* A socket in the hub's table is served by its task, and one that is served without being
\* in the table was replaced, kicked, or deprived of its entry by another's clean-up.
THEOREM RegistryAlwaysExplained == HubSpec => []RegistryExplained
<1>1. HubInit => RegistryExplained
  BY DEF HubInit, RegistryExplained, RegisteredIsServed, SilentExplained
<1>2. QED
  BY <1>1, HubTypedAlways, RegistryNext, PTL DEF HubSpec

-------------------------------------------------------------------------------
(***************************************************************************)
(* Counting the sockets.                                                   *)
(***************************************************************************)

\* A set that changes by one element at most.
LEMMA OneApart ==
  ASSUME NEW X \in SUBSET Sockets, NEW Y \in SUBSET Sockets, NEW s \in Sockets,
         \A q \in Sockets : q # s => (q \in X <=> q \in Y)
  PROVE  /\ Cardinality(X) \in Nat /\ Cardinality(Y) \in Nat
         /\ (s \in X <=> s \in Y) => Cardinality(Y) = Cardinality(X)
         /\ s \in Y /\ s \notin X => Cardinality(Y) = Cardinality(X) + 1
         /\ s \in X /\ s \notin Y => Cardinality(X) = Cardinality(Y) + 1
<1>1. IsFiniteSet(X) /\ IsFiniteSet(Y)
  BY FiniteAssumption, FS_Subset
<1>2. Cardinality(X) \in Nat /\ Cardinality(Y) \in Nat
  BY <1>1, FS_CardinalityType
<1>3. ASSUME s \in X <=> s \in Y PROVE Cardinality(Y) = Cardinality(X)
  <2>1. X = Y
    BY <1>3
  <2>2. QED
    BY <2>1
<1>4. ASSUME s \in Y, s \notin X PROVE Cardinality(Y) = Cardinality(X) + 1
  <2>1. Y = X \cup {s}
    BY <1>4
  <2>2. QED
    BY <1>1, <1>4, <2>1, FS_AddElement
<1>5. ASSUME s \in X, s \notin Y PROVE Cardinality(X) = Cardinality(Y) + 1
  <2>1. X = Y \cup {s}
    BY <1>5
  <2>2. QED
    BY <1>1, <1>5, <2>1, FS_AddElement
<1>6. QED
  BY <1>2, <1>3, <1>4, <1>5

WsPlaces == {"connected", "live", "leaving", "current", "unlisted"}
Outside == {"none", "gone"}
Admitted == {s \in InConns : pc[s] # "refused"}

\* What a step of a task makes of the three sets that are counted.
LEMMA SocketSetsMove ==
  ASSUME HubTyped, NEW s \in Sockets, NEW from, NEW to \in SocketPlaces, Goes(s, from, to),
         UNCHANGED key
  PROVE  /\ \A q \in Sockets : q # s => (q \in InConns <=> q \in InConns')
         /\ \A q \in Sockets : q # s => (q \in Admitted <=> q \in Admitted')
         /\ \A d \in Devices : \A q \in Sockets : q # s => (q \in InWs(d) <=> q \in InWs(d)')
         /\ s \in InConns <=> from \notin Outside
         /\ s \in InConns' <=> to \notin Outside
         /\ s \in Admitted <=> from \notin Outside \cup {"refused"}
         /\ s \in Admitted' <=> to \notin Outside \cup {"refused"}
         /\ \A d \in Devices : s \in InWs(d) <=> key[s][1] = d /\ from \in WsPlaces
         /\ \A d \in Devices : s \in InWs(d)' <=> key[s][1] = d /\ to \in WsPlaces
<1>1. /\ pc[s] = from /\ pc'[s] = to
      /\ \A q \in Sockets : q # s => pc'[q] = pc[q]
  BY SocketMoves
<1>2. QED
  BY <1>1 DEF InConns, Admitted, InWs, WsPlaces, Outside

LEMMA SetsOfSockets ==
  /\ InConns \in SUBSET Sockets /\ Admitted \in SUBSET Sockets
  /\ InConns' \in SUBSET Sockets /\ Admitted' \in SUBSET Sockets
  /\ \A d \in Devices : InWs(d) \in SUBSET Sockets /\ InWs(d)' \in SUBSET Sockets
BY DEF InConns, Admitted, InWs

\* The limit: what is counted, and what of it was admitted.
LEMMA BoundedSocket ==
  ASSUME HubTyped, WsBounded, NEW s \in Sockets, SocketSteps(s)
  PROVE  WsBounded'
<1>1. UNCHANGED key
  BY HubTypedSocket
<1>2. /\ Cardinality(InConns) \in Nat /\ Cardinality(InConns') \in Nat
      /\ Cardinality(Admitted) \in Nat /\ Cardinality(Admitted') \in Nat
  BY OneApart, SetsOfSockets, FiniteAssumption, FS_Subset, FS_CardinalityType
<1>3. Cardinality(Admitted) <= Cardinality(InConns)
  <2>1. Admitted \subseteq InConns /\ IsFiniteSet(InConns)
    BY SetsOfSockets, FiniteAssumption, FS_Subset DEF Admitted
  <2>2. QED
    BY <2>1, FS_Subset
<1>4. conns = Cardinality(InConns) /\ Cardinality(Admitted) <= MaxWs
  BY DEF WsBounded, Admitted
<1>5. SUFFICES conns' = Cardinality(InConns') /\ Cardinality(Admitted') <= MaxWs
  BY DEF WsBounded, Admitted
<1> USE DEF SocketPlaces, Outside
\* A step from one place to another that counts in, counts out, or neither.
<1>6. ASSUME NEW from, NEW to \in SocketPlaces, Goes(s, from, to)
      PROVE  /\ (from \in Outside <=> to \in Outside) => Cardinality(InConns') = Cardinality(InConns)
             /\ from \in Outside /\ to \notin Outside
                => Cardinality(InConns') = Cardinality(InConns) + 1
             /\ from \notin Outside /\ to \in Outside
                => Cardinality(InConns) = Cardinality(InConns') + 1
             /\ (to \in Outside \cup {"refused"} \/ from \notin Outside \cup {"refused"})
                => Cardinality(Admitted') <= Cardinality(Admitted)
             /\ Cardinality(Admitted') <= Cardinality(Admitted) + 1
  <2>1. /\ \A q \in Sockets : q # s => (q \in InConns <=> q \in InConns')
        /\ \A q \in Sockets : q # s => (q \in Admitted <=> q \in Admitted')
        /\ s \in InConns <=> from \notin Outside
        /\ s \in InConns' <=> to \notin Outside
        /\ s \in Admitted <=> from \notin Outside \cup {"refused"}
        /\ s \in Admitted' <=> to \notin Outside \cup {"refused"}
    BY <1>1, <1>6, SocketSetsMove
  <2>2. /\ (s \in InConns <=> s \in InConns') => Cardinality(InConns') = Cardinality(InConns)
        /\ s \in InConns' /\ s \notin InConns
           => Cardinality(InConns') = Cardinality(InConns) + 1
        /\ s \in InConns /\ s \notin InConns'
           => Cardinality(InConns) = Cardinality(InConns') + 1
    BY <2>1, OneApart, SetsOfSockets
  <2>3. /\ (s \in Admitted <=> s \in Admitted') => Cardinality(Admitted') = Cardinality(Admitted)
        /\ s \in Admitted' /\ s \notin Admitted
           => Cardinality(Admitted') = Cardinality(Admitted) + 1
        /\ s \in Admitted /\ s \notin Admitted'
           => Cardinality(Admitted) = Cardinality(Admitted') + 1
    BY <2>1, OneApart, SetsOfSockets
  <2>4. QED
    BY <1>2, <2>1, <2>2, <2>3
<1>7. CASE Upgrade(s)
  <2>1. CASE conns >= MaxWs
    <3>1. Goes(s, "none", "refused") /\ conns' = conns + 1
      BY <1>7, <2>1 DEF Upgrade
    <3>2. QED
      BY <1>2, <1>4, <1>6, <3>1, MaxWsAssumption
  <2>2. CASE ~(conns >= MaxWs)
    <3>1. Goes(s, "none", "admitted") /\ conns' = conns + 1 /\ conns < MaxWs
      BY <1>2, <1>4, <1>7, <2>2, MaxWsAssumption DEF Upgrade
    <3>2. QED
      BY <1>2, <1>3, <1>4, <1>6, <3>1, MaxWsAssumption
  <2>3. QED
    BY <2>1, <2>2
<1>8. CASE UpgradeFails(s) \/ Release(s)
  <2>1. PICK from \in {"admitted", "refused", "uncounted"} :
             Goes(s, from, "gone") /\ conns' = conns - 1
    BY <1>8 DEF UpgradeFails, Release
  <2>2. QED
    BY <1>2, <1>4, <1>6, <2>1, MaxWsAssumption
<1>9. CASE Connect(s) \/ Register(s) \/ Ends(s) \/ TestCurrent(s) \/ RemoveCurrent(s)
           \/ Disconnect(s)
  <2>1. PICK from \in SocketPlaces \ {"none", "gone", "refused"},
             to \in SocketPlaces \ {"none", "gone"} : Goes(s, from, to) /\ conns' = conns
    BY <1>9 DEF Connect, Register, Ends, TestCurrent, RemoveCurrent, Disconnect
  <2>2. QED
    BY <1>2, <1>4, <1>6, <2>1, MaxWsAssumption
<1>10. QED
  BY <1>7, <1>8, <1>9 DEF SocketSteps

\* The presence record of a device and the sockets it has.
LEMMA CountedSocket ==
  ASSUME HubTyped, WsCounted, NEW s \in Sockets, SocketSteps(s)
  PROVE  WsCounted'
<1> USE DEF SocketPlaces, WsPlaces
<1>1. UNCHANGED <<key, removing>> /\ HubTyped'
  BY HubTypedSocket
<1>2. key[s] \in Keys /\ key[s][1] \in Devices
  BY SocketOfDevice
<1>3. ASSUME NEW d \in Devices
      PROVE  Cardinality(InWs(d)) \in Nat /\ Cardinality(InWs(d)') \in Nat
             /\ record[d].ws \in Nat /\ record'[d].ws \in Nat
  <2>1. Cardinality(InWs(d)) \in Nat /\ Cardinality(InWs(d)') \in Nat
    BY SetsOfSockets, FiniteAssumption, FS_Subset, FS_CardinalityType
  <2>2. record[d] \in Records /\ record'[d] \in Records
    BY <1>1 DEF HubTyped, PresenceTypeOK
  <2>3. QED
    BY <2>1, <2>2 DEF Records
<1>4. ASSUME NEW from, NEW to \in SocketPlaces, Goes(s, from, to), NEW d \in Devices
      PROVE  /\ d # key[s][1] \/ (from \in WsPlaces <=> to \in WsPlaces)
                => Cardinality(InWs(d)') = Cardinality(InWs(d))
             /\ d = key[s][1] /\ from \notin WsPlaces /\ to \in WsPlaces
                => Cardinality(InWs(d)') = Cardinality(InWs(d)) + 1
             /\ d = key[s][1] /\ from \in WsPlaces /\ to \notin WsPlaces
                => Cardinality(InWs(d)) = Cardinality(InWs(d)') + 1
  <2>1. /\ \A q \in Sockets : q # s => (q \in InWs(d) <=> q \in InWs(d)')
        /\ s \in InWs(d) <=> key[s][1] = d /\ from \in WsPlaces
        /\ s \in InWs(d)' <=> key[s][1] = d /\ to \in WsPlaces
    BY <1>1, <1>4, SocketSetsMove
  <2>2. /\ (s \in InWs(d) <=> s \in InWs(d)') => Cardinality(InWs(d)') = Cardinality(InWs(d))
        /\ s \in InWs(d)' /\ s \notin InWs(d)
           => Cardinality(InWs(d)') = Cardinality(InWs(d)) + 1
        /\ s \in InWs(d) /\ s \notin InWs(d)'
           => Cardinality(InWs(d)) = Cardinality(InWs(d)') + 1
    BY <2>1, OneApart, SetsOfSockets
  <2>3. QED
    BY <2>1, <2>2
<1>5. SUFFICES ASSUME NEW d \in Devices
               PROVE  /\ record'[d].ws <= Cardinality(InWs(d)')
                      /\ removing[d] \in {"no", "presence"}
                         => record'[d].ws = Cardinality(InWs(d)')
  BY <1>1 DEF WsCounted
<1>6. /\ record[d].ws <= Cardinality(InWs(d))
      /\ removing[d] \in {"no", "presence"} => record[d].ws = Cardinality(InWs(d))
  BY DEF WsCounted
<1>7. CASE Connect(s)
  <2>1. Goes(s, "admitted", "connected")
        /\ Apply(key[s][1], [ws |-> record[key[s][1]].ws + 1, seen |-> TRUE])
    BY <1>7 DEF Connect, WsConnected
  <2>2. /\ record'[key[s][1]].ws = record[key[s][1]].ws + 1
        /\ d # key[s][1] => record'[d] = record[d]
    BY <1>2, <2>1 DEF Apply, HubTyped, PresenceTypeOK
  <2>3. CASE d = key[s][1]
    <3>1. Cardinality(InWs(d)') = Cardinality(InWs(d)) + 1
      BY <1>4, <2>1, <2>3
    <3>2. QED
      BY <1>3, <1>6, <2>2, <2>3, <3>1
  <2>4. CASE d # key[s][1]
    <3>1. Cardinality(InWs(d)') = Cardinality(InWs(d))
      BY <1>4, <2>1, <2>4
    <3>2. QED
      BY <1>6, <2>2, <2>4, <3>1
  <2>5. QED
    BY <2>3, <2>4
<1>8. CASE Disconnect(s)
  <2>1. /\ Goes(s, "unlisted", "uncounted")
        /\ Apply(key[s][1], [record[key[s][1]] EXCEPT !.ws = IF @ = 0 THEN 0 ELSE @ - 1])
    BY <1>8 DEF Disconnect, WsDisconnected
  <2>2. CASE d = key[s][1]
    <3>1. Cardinality(InWs(d)) = Cardinality(InWs(d)') + 1
      BY <1>4, <2>1, <2>2
    <3>2. record'[d] = [record[d] EXCEPT !.ws = IF @ = 0 THEN 0 ELSE @ - 1]
          /\ record[d] \in Records
      BY <1>2, <2>1, <2>2 DEF Apply, HubTyped, PresenceTypeOK
    <3>3. record'[d].ws = IF record[d].ws = 0 THEN 0 ELSE record[d].ws - 1
      BY <3>2 DEF Records
    <3>4. QED
      BY <1>3, <1>6, <3>1, <3>3
  <2>3. CASE d # key[s][1]
    <3>1. Cardinality(InWs(d)') = Cardinality(InWs(d))
      BY <1>4, <2>1, <2>3
    <3>2. record'[d] = record[d]
      BY <1>2, <2>1, <2>3 DEF Apply, HubTyped, PresenceTypeOK
    <3>3. QED
      BY <1>6, <3>1, <3>2
  <2>4. QED
    BY <2>2, <2>3
<1>9. CASE ~(Connect(s) \/ Disconnect(s))
  <2>1. PICK from, to \in SocketPlaces :
          Goes(s, from, to) /\ (from \in WsPlaces <=> to \in WsPlaces) /\ UNCHANGED record
    BY <1>9 DEF SocketSteps, Upgrade, UpgradeFails, Register, Ends, TestCurrent,
       RemoveCurrent, Release, presenceVars
  <2>2. Cardinality(InWs(d)') = Cardinality(InWs(d))
    BY <1>4, <2>1
  <2>3. QED
    BY <1>6, <2>1, <2>2
<1>10. QED
  BY <1>7, <1>8, <1>9

LEMMA CountedNext ==
  HubTyped /\ SocketsCounted /\ [HubNext]_hubVars => SocketsCounted'
<1> SUFFICES ASSUME HubTyped, SocketsCounted, [HubNext]_hubVars PROVE SocketsCounted'
  OBVIOUS
<1>1. ASSUME UNCHANGED <<pc, key, conns>> PROVE WsBounded'
  BY <1>1 DEF SocketsCounted, WsBounded, InConns
<1>2. ASSUME UNCHANGED <<pc, key>>,
             \A d \in Devices : /\ removing'[d] \in {"no", "presence"}
                                   => removing[d] \in {"no", "presence"}
                                      /\ record'[d].ws = record[d].ws
                                /\ record'[d].ws = record[d].ws \/ record'[d].ws = 0
      PROVE  WsCounted'
  <2>1. SUFFICES ASSUME NEW d \in Devices
                 PROVE  /\ record'[d].ws <= Cardinality(InWs(d)')
                        /\ removing'[d] \in {"no", "presence"}
                           => record'[d].ws = Cardinality(InWs(d)')
    BY DEF WsCounted
  <2>2. InWs(d)' = InWs(d)
    BY <1>2 DEF InWs
  <2>3. Cardinality(InWs(d)) \in Nat
    BY SetsOfSockets, FiniteAssumption, FS_Subset, FS_CardinalityType
  <2>4. QED
    BY <1>2, <2>2, <2>3 DEF SocketsCounted, WsCounted
<1>3. CASE AdminSteps
  <2>1. UNCHANGED <<pc, key, conns>>
    BY <1>3, HubTypedAdmin
  <2>2. ASSUME NEW d \in Devices, ForgetDevice(d) PROVE WsCounted'
    <3>1. /\ record' = [record EXCEPT ![d] = NoRecord] /\ NoRecord.ws = 0
          /\ removing' = [removing EXCEPT ![d] = "collect"]
      BY <2>2 DEF ForgetDevice, Forget, Removes, NoRecord
    <3>2. QED
      BY <1>2, <2>1, <3>1 DEF HubTyped, PresenceTypeOK
  <2>3. ASSUME NEW d \in Devices, DeleteDevice(d) \/ CollectSockets(d) PROVE WsCounted'
    <3>1. \A c \in Devices : removing'[c] \in {"no", "presence"}
                             => removing[c] \in {"no", "presence"}
      BY <2>3 DEF DeleteDevice, CollectSockets, Removes, HubTyped
    <3>2. UNCHANGED record
      BY <2>3 DEF DeleteDevice, CollectSockets, presenceVars
    <3>3. QED
      BY <1>2, <2>1, <3>1, <3>2
  <2>4. ASSUME NEW k \in Keys, Leave(k) \/ Join(k) \/ Kick(k) PROVE WsCounted'
    <3>1. UNCHANGED <<record, removing>>
      BY <2>4 DEF Leave, Join, Kick, presenceVars
    <3>2. QED
      BY <1>2, <2>1, <3>1
  <2>5. QED
    BY <1>1, <1>3, <2>1, <2>2, <2>3, <2>4 DEF AdminSteps, SocketsCounted
<1>4. CASE PresenceSteps
  BY <1>1, <1>2, <1>4, HubTypedPresence DEF socketVars, SocketsCounted
<1>5. CASE UNCHANGED hubVars
  BY <1>1, <1>2, <1>5 DEF hubVars, presenceVars, socketVars, SocketsCounted
<1>6. QED
  BY <1>3, <1>4, <1>5, BoundedSocket, CountedSocket DEF HubNext, SocketsCounted

LEMMA CountedInit == HubInit => SocketsCounted
<1> SUFFICES ASSUME HubInit PROVE SocketsCounted
  OBVIOUS
<1>1. InConns = {} /\ {s \in InConns : pc[s] # "refused"} = {}
  BY DEF HubInit, InConns
<1>2. WsBounded
  BY <1>1, FS_EmptySet, MaxWsAssumption DEF HubInit, WsBounded
<1>3. \A d \in Devices : InWs(d) = {} /\ record[d].ws = 0
  BY DEF HubInit, InitPresence, NoRecord, InWs
<1>4. WsCounted
  <2>1. ASSUME NEW d \in Devices
        PROVE  record[d].ws <= Cardinality(InWs(d)) /\ record[d].ws = Cardinality(InWs(d))
    <3>1. record[d].ws = 0 /\ Cardinality(InWs(d)) = 0
      BY <1>3, FS_EmptySet
    <3>2. QED
      BY <3>1
  <2>2. QED
    BY <2>1 DEF WsCounted
<1>5. QED
  BY <1>2, <1>4 DEF SocketsCounted

\* The presence record of a device counts its sockets exactly until the device is removed,
\* and never too many after that; the number of connections is exact, and the admitted
\* ones stay under the limit, through every way in and out of a request.
THEOREM SocketsAlwaysCounted == HubSpec => []SocketsCounted
BY CountedInit, CountedNext, HubTypedAlways, PTL DEF HubSpec

\* Types.  The number of connections is a number because it is that of a finite set: that
\* it never goes below zero is a matter of the order of a task's steps.
THEOREM HubTypeCorrect == HubSpec => []HubTypeOK
<1>1. HubTyped /\ SocketsCounted => HubTypeOK
  <2> SUFFICES ASSUME HubTyped, SocketsCounted PROVE HubTypeOK
    OBVIOUS
  <2>1. conns \in Nat
    BY SetsOfSockets, FiniteAssumption, FS_Subset, FS_CardinalityType
       DEF SocketsCounted, WsBounded
  <2>2. QED
    BY <2>1 DEF HubTyped, HubTypeOK, SocketPlaces
<1>2. QED
  BY <1>1, HubTypedAlways, SocketsAlwaysCounted, PTL

-------------------------------------------------------------------------------
(***************************************************************************)
(* Presence: what the other nodes see.                                     *)
(***************************************************************************)

LEMMA OnlineApplied ==
  ASSUME PresenceTypeOK, OnlineIsSeen, NEW d \in Devices, NEW r, Apply(d, r)
  PROVE  OnlineIsSeen'
<1>1. /\ record'[d] = r /\ \A c \in Devices : c # d => record'[c] = record[c]
      /\ \A c \in Devices : c # d => unsent'[c] = unsent[c]
      /\ Online(record[d]) # Online(r) => unsent'[d] = unsent[d] + 1
      /\ Online(record[d]) = Online(r) => unsent'[d] = unsent[d]
      /\ view' = view
  BY DEF Apply, PresenceTypeOK
<1>2. unsent[d] \in Nat
  BY DEF PresenceTypeOK
<1>3. Online(r) = TRUE \/ Online(r) = FALSE
  BY DEF Online
<1>4. QED
  BY <1>1, <1>2, <1>3 DEF OnlineIsSeen, Online

LEMMA OnlineNext ==
  HubTyped /\ OnlineIsSeen /\ [HubNext]_hubVars => OnlineIsSeen'
<1> SUFFICES ASSUME HubTyped, OnlineIsSeen, [HubNext]_hubVars PROVE OnlineIsSeen'
  OBVIOUS
<1>1. PresenceTypeOK
  BY DEF HubTyped
<1>2. ASSUME UNCHANGED presenceVars PROVE OnlineIsSeen'
  BY <1>2 DEF presenceVars, OnlineIsSeen, Online
<1>3. ASSUME NEW s \in Sockets, SocketSteps(s) PROVE OnlineIsSeen'
  <2>1. key[s][1] \in Devices
    BY SocketOfDevice
  <2>2. CASE Connect(s) \/ Disconnect(s)
    BY <1>1, <2>1, <2>2, OnlineApplied DEF Connect, Disconnect, WsConnected, WsDisconnected
  <2>3. CASE ~(Connect(s) \/ Disconnect(s))
    BY <1>2, <1>3, <2>3 DEF SocketSteps, Upgrade, UpgradeFails, Register, Ends, TestCurrent,
       RemoveCurrent, Release
  <2>4. QED
    BY <2>2, <2>3
<1>4. CASE AdminSteps
  <2>1. ASSUME NEW d \in Devices, ForgetDevice(d) PROVE OnlineIsSeen'
    <3>1. /\ record'[d] = NoRecord /\ ~Online(NoRecord)
          /\ \A c \in Devices : c # d => record'[c] = record[c]
          /\ UNCHANGED <<unsent, view>>
      BY <1>1, <2>1 DEF ForgetDevice, Forget, PresenceTypeOK, NoRecord, Online
    <3>2. QED
      BY <3>1 DEF OnlineIsSeen, Online
  <2>2. ASSUME NEW d \in Devices, DeleteDevice(d) \/ CollectSockets(d) PROVE OnlineIsSeen'
    BY <1>2, <2>2 DEF DeleteDevice, CollectSockets
  <2>3. ASSUME NEW k \in Keys, Leave(k) \/ Join(k) \/ Kick(k) PROVE OnlineIsSeen'
    BY <1>2, <2>3 DEF Leave, Join, Kick
  <2>4. QED
    BY <1>4, <2>1, <2>2, <2>3 DEF AdminSteps
<1>5. ASSUME NEW d \in Devices, SeenAgain(d) PROVE OnlineIsSeen'
  BY <1>1, <1>5, OnlineApplied DEF SeenAgain, Touch
<1>6. ASSUME NEW d \in Devices, Lapses(d) PROVE OnlineIsSeen'
  <2>1. record[d] \in Records /\ [record[d] EXCEPT !.seen = FALSE].ws = record[d].ws
        /\ [record[d] EXCEPT !.seen = FALSE].seen = FALSE
    BY <1>1 DEF PresenceTypeOK, Records
  <2>2. /\ record'[d] = [record[d] EXCEPT !.seen = FALSE]
        /\ \A c \in Devices : c # d => record'[c] = record[c]
        /\ UNCHANGED <<unsent, view>>
    BY <1>1, <1>6 DEF Lapses, Lapse, PresenceTypeOK
  <2>3. Online(record[d])' => Online(record[d])
    BY <2>1, <2>2 DEF Online
  <2>4. QED
    BY <2>2, <2>3 DEF OnlineIsSeen, Online
<1>7. ASSUME NEW d \in Devices, Announce(d) PROVE OnlineIsSeen'
  <2>1. /\ view'[d] = Online(record[d]) /\ UNCHANGED record
        /\ \A c \in Devices : c # d => unsent'[c] = unsent[c] /\ view'[c] = view[c]
    BY <1>1, <1>7 DEF Announce, SendDifference, PresenceTypeOK
  <2>2. QED
    BY <2>1 DEF OnlineIsSeen, Online
<1>8. QED
  BY <1>2, <1>3, <1>4, <1>5, <1>6, <1>7 DEF HubNext, PresenceSteps, hubVars

\* A device that is online is seen online by the other nodes as soon as no announcement
\* about it is under way, whatever the order in which announcements are sent.
THEOREM OnlineAlwaysSeen == HubSpec => []OnlineIsSeen
<1>1. HubInit => OnlineIsSeen
  BY DEF HubInit, InitPresence, NoRecord, OnlineIsSeen, Online
<1>2. QED
  BY <1>1, HubTypedAlways, OnlineNext, PTL DEF HubSpec
===============================================================================
