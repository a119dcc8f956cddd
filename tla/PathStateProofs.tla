--------------------------- MODULE PathStateProofs ---------------------------
(***************************************************************************)
(* Proofs about PathState: for any set of policies, endpoints and           *)
(* connections, a direct UDP path that no pin wrote rests on a PONG, and a  *)
(* pin to a relay lets no frame start an upgrade.                           *)
(***************************************************************************)
EXTENDS PathState, TLAPS

\* What the invariant needs besides the path itself: an upgrade to direct UDP is
\* decided by a PONG, and only a pin makes the policy other than Auto.
UpgradeMeansPong ==
  /\ "DirectUdp" \in upgrading => pongAge # Never
  /\ ~everPinned => policy = "Auto"

IInv == TypeOK /\ UpgradeMeansPong /\ UdpMeansPong

-------------------------------------------------------------------------------
\* The kinds of paths and policies.
LEMMA PathKinds ==
  /\ Directs \subseteq Paths /\ Relays \subseteq Paths
  /\ "RelayUdp" \in Paths /\ "DirectTcp" \in Directs /\ "DirectUdp" \in Directs
  /\ Policies \subseteq AllPolicies /\ "Auto" \in Policies /\ "Auto" \in AllPolicies
BY PoliciesAssumption DEF Paths, Directs, Relays, AllPolicies

\* The ages a tick moves between.
LEMMA AgeTypes ==
  /\ 0 \in Ages /\ Never \in Ages /\ 0 # Never
  /\ \A a \in Ages : a <= DeadAfter => a + 1 \in Ages /\ a + 1 # Never
BY BoundsAssumption DEF Ages, Never

\* A frame leaves to a target or is dropped.
LEMMA RouteType ==
  ASSUME TypeOK, NEW p \in AllPolicies, NEW k \in Paths
  PROVE  Route(p, k) \in Targets \cup {Drop}
<1>1. Relay \in Targets
  BY DEF Targets
<1>2. HasConn => Tcp(slot) \in Targets
  BY DEF HasConn, Tcp, Targets, TypeOK
<1>3. UdpTarget \in Targets \cup {Drop}
  BY DEF UdpTarget, Udp, Targets, TypeOK
<1>4. QED
  BY <1>1, <1>2, <1>3 DEF Route

\* Attaching a connection keeps the types.
LEMMA AttachType ==
  ASSUME TypeOK, NEW c \in Conns, Attach(c)
  PROVE  slot' \in Conns \cup {NoConn} /\ upgrading' \in SUBSET Directs
BY PathKinds DEF Attach, TypeOK

\* Handling a PONG keeps the types.
LEMMA OnPongType ==
  ASSUME TypeOK, NEW t \in pings, OnPong(t)
  PROVE  /\ pongAge' = 0 /\ slot' \in Conns \cup {NoConn}
         /\ endpoint' \in Endpoints \cup {NoEndpoint}
         /\ upgrading' \in SUBSET Directs
<1>1. t \in Targets
  BY DEF TypeOK
<1>2. CASE t.via = "tcp"
  <2>1. t.to \in Conns
    BY <1>1, <1>2 DEF Targets, Relay
  <2>2. Attach(t.to) /\ UNCHANGED endpoint /\ pongAge' = 0
    BY <1>2 DEF OnPong
  <2>3. QED
    BY <2>1, <2>2, AttachType DEF TypeOK
<1>3. CASE t.via # "tcp"
  <2>1. t.via = "udp" => t.to \in Endpoints
    BY <1>1 DEF Targets, Relay
  <2>2. QED
    BY <1>3, <2>1, PathKinds DEF OnPong, TypeOK
<1>4. QED
  BY <1>2, <1>3

\* The initial state is typed.
LEMMA TypeInit == Init => TypeOK
<1> SUFFICES ASSUME Init
             PROVE  TypeOK
  OBVIOUS
<1>1. probe \in [pc : {"idle", "judge", "down"}, policy : AllPolicies, path : Paths]
  BY PathKinds DEF Init, IdleProbe
<1>2. conn \in [Conns -> {"open", "silent", "closed"}]
  BY DEF Init
<1>3. changes \in 0 .. MaxChanges /\ pongAge \in Ages
  BY AgeTypes, BoundsAssumption DEF Init
<1>4. QED
  BY <1>1, <1>2, <1>3, PathKinds DEF Init, TypeOK

\* Every behaviour keeps every variable in its type.
THEOREM TypeCorrect == Spec => []TypeOK
<1>1. Init => TypeOK
  BY TypeInit
<1>2. TypeOK /\ [Next]_vars => TypeOK'
  <2> SUFFICES ASSUME TypeOK, [Next]_vars
               PROVE  TypeOK'
    OBVIOUS
  <2> USE DEF TypeOK, env, tasks, fields, listed, Tick
  <2>1. ASSUME NEW k \in upgrading, WriteUpgrade(k)
        PROVE  TypeOK'
    BY <2>1, PathKinds DEF WriteUpgrade
  <2>2. ASSUME NEW c \in Conns, TcpFrame(c)
        PROVE  TypeOK'
    BY <2>2, AttachType DEF TcpFrame
  <2>3. ASSUME NEW t \in pings, Pong(t)
        PROVE  TypeOK'
    BY <2>3, OnPongType, AgeTypes DEF Pong
  <2>4. ASSUME NEW p \in Policies, SetPolicy(p)
        PROVE  TypeOK'
    BY <2>4, BoundsAssumption DEF SetPolicy
  <2>5. CASE SyncPath
    <3>1. path' \in Paths
      BY <2>5, PathKinds DEF SyncPath, Paths, Relays, Directs, AllPolicies
    <3>2. QED
      BY <2>5, <3>1 DEF SyncPath
  <2>6. CASE ProbeSend
    <3>1. pings' \subseteq Targets
      <4>1. Route(policy, path) \in Targets \cup {Drop}
        BY RouteType, PathKinds
      <4>2. announced # NoEndpoint => Udp(announced) \in Targets
        BY DEF Udp, Targets
      <4>3. QED
        BY <2>6, <4>1, <4>2 DEF ProbeSend
    <3>2. pongAge' \in Ages
      BY <2>6, AgeTypes, BoundsAssumption DEF ProbeSend, Ages
    <3>3. probe' \in [pc : {"idle", "judge", "down"}, policy : AllPolicies, path : Paths]
      BY <2>6, PathKinds DEF ProbeSend
    <3>4. dialing' \in BOOLEAN /\ cooling' \in BOOLEAN
      BY <2>6 DEF ProbeSend
    <3>5. QED
      BY <2>6, <3>1, <3>2, <3>3, <3>4 DEF ProbeSend
  <2>7. CASE ProbeJudge
    BY <2>7, PathKinds DEF ProbeJudge, IdleProbe
  <2>8. CASE ProbeDown
    BY <2>8, PathKinds DEF ProbeDown, IdleProbe
  <2>9. ASSUME NEW c \in Conns, DialOk(c)
        PROVE  TypeOK'
    <3>1. Tcp(c) \in Targets
      BY DEF Tcp, Targets
    <3>2. QED
      BY <2>9, <3>1, AttachType DEF DialOk
  <2>10. CASE DialFails \/ CooldownEnds \/ Refresh
    BY <2>10 DEF DialFails, CooldownEnds, Refresh
  <2>11. ASSUME NEW c \in Conns, PeerDials(c) \/ ConnGoesSilent(c) \/ ConnCloses(c)
         PROVE  TypeOK'
    <3>1. changes' \in 0 .. MaxChanges
      BY <2>11, BoundsAssumption DEF PeerDials, ConnGoesSilent, ConnCloses, Change
    <3>2. QED
      BY <2>11, <3>1 DEF PeerDials, ConnGoesSilent, ConnCloses
  <2>12. ASSUME NEW e \in Endpoints \cup {NoEndpoint}, Rebind(e)
         PROVE  TypeOK'
    BY <2>12, BoundsAssumption DEF Rebind, Change
  <2>13. CASE RelayFlips
    BY <2>13, BoundsAssumption DEF RelayFlips, Change
  <2>14. CASE ProbeSkip
    BY <2>14, AgeTypes, BoundsAssumption DEF ProbeSkip, Ages
  <2>15. CASE ShownOtherwise
    BY <2>15, BoundsAssumption DEF ShownOtherwise, Change
  <2>16. CASE UNCHANGED vars
    BY <2>16 DEF vars
  <2>17. QED
    BY <2>1, <2>2, <2>3, <2>4, <2>5, <2>6, <2>7, <2>8, <2>9, <2>10, <2>11, <2>12,
       <2>13, <2>14, <2>15, <2>16
    DEF Next, Handlers, ProbeLoop, Environment
<1>3. QED
  BY <1>1, <1>2, PTL DEF Spec

-------------------------------------------------------------------------------
\* A PONG never makes the age unknown again.
LEMMA OncePonged ==
  ASSUME TypeOK, [Next]_vars, pongAge # Never
  PROVE  pongAge' # Never
<1>1. CASE ProbeSend \/ ProbeSkip
  <2>1. CASE pongAge > DeadAfter
    BY <1>1, <2>1 DEF ProbeSend, ProbeSkip, Tick
  <2>2. CASE ~(pongAge > DeadAfter)
    <3>1. pongAge' = pongAge + 1 /\ pongAge \in Nat /\ DeadAfter \in Nat
      BY <1>1, <2>2, BoundsAssumption DEF ProbeSend, ProbeSkip, Tick, TypeOK, Ages
    <3>2. QED
      BY <2>2, <3>1 DEF Never
  <2>3. QED
    BY <2>1, <2>2
<1>2. ASSUME NEW t \in pings, Pong(t)
      PROVE  pongAge' # Never
  BY <1>2, AgeTypes DEF Pong, OnPong
<1>3. QED
  BY <1>1, <1>2
  DEF Next, Handlers, ProbeLoop, Environment, WriteUpgrade, TcpFrame, SetPolicy,
      SyncPath, ProbeJudge, ProbeDown, DialOk, DialFails, CooldownEnds, Refresh,
      PeerDials, ConnGoesSilent, ConnCloses, Rebind, RelayFlips,
      ShownOtherwise, fields, tasks, env, vars

\* Only a PONG decides on direct UDP.
LEMMA UdpDecided ==
  ASSUME TypeOK, [Next]_vars, "DirectUdp" \in upgrading'
  PROVE  "DirectUdp" \in upgrading \/ pongAge' = 0
<1>1. ASSUME NEW t \in pings, Pong(t)
      PROVE  pongAge' = 0
  BY <1>1 DEF Pong, OnPong
<1>2. QED
  BY <1>1
  DEF Next, Handlers, ProbeLoop, Environment, WriteUpgrade, TcpFrame, Attach, SetPolicy,
      SyncPath, ProbeSend, ProbeSkip, ProbeJudge, ProbeDown, DialOk, DialFails, CooldownEnds,
      Refresh, PeerDials, ConnGoesSilent, ConnCloses, Rebind, RelayFlips,
       ShownOtherwise, fields, tasks,
      env, vars

\* The policy and its history change together.
LEMMA PolicyKept ==
  ASSUME TypeOK, [Next]_vars
  PROVE  \/ UNCHANGED <<policy, everPinned>>
         \/ everPinned' = (everPinned \/ policy' # "Auto")
BY DEF Next, Handlers, ProbeLoop, Environment, WriteUpgrade, TcpFrame, Pong, SetPolicy,
       SyncPath, ProbeSend, ProbeSkip, ProbeJudge, ProbeDown, DialOk, DialFails, CooldownEnds,
       Refresh, PeerDials, ConnGoesSilent, ConnCloses, Rebind, RelayFlips,
       ShownOtherwise, fields, tasks,
       env, vars

\* A path of direct UDP was one, was decided on by a handler or is a pin's.
LEMMA UdpWritten ==
  ASSUME TypeOK, [Next]_vars, path' = "DirectUdp"
  PROVE  path = "DirectUdp" \/ "DirectUdp" \in upgrading
         \/ policy \notin {"Auto", "DirectAny"}
<1>1. CASE SyncPath
  BY <1>1 DEF SyncPath
<1>2. QED
  BY <1>1
  DEF Next, Handlers, ProbeLoop, Environment, WriteUpgrade, TcpFrame, Pong, SetPolicy,
      ProbeSend, ProbeSkip, ProbeJudge, ProbeDown, DialOk, DialFails, CooldownEnds, Refresh,
      PeerDials, ConnGoesSilent, ConnCloses, Rebind, RelayFlips,
      ShownOtherwise, fields, tasks, env, vars

\* The invariant: an upgrade to direct UDP, decided or written, rests on a PONG.
LEMMA Inductive == Spec => []IInv
<1>1. Init => IInv
  <2>1. Init => TypeOK
    BY TypeInit
  <2>2. QED
    BY <2>1 DEF Init, IInv, UpgradeMeansPong, UdpMeansPong
<1>2. IInv /\ TypeOK' /\ [Next]_vars => IInv'
  <2> SUFFICES ASSUME IInv, TypeOK', [Next]_vars
               PROVE  IInv'
    OBVIOUS
  <2>1. ("DirectUdp" \in upgrading => pongAge # Never)'
    BY OncePonged, UdpDecided, AgeTypes DEF IInv, UpgradeMeansPong
  <2>2. (~everPinned => policy = "Auto")'
    BY PolicyKept DEF IInv, UpgradeMeansPong, TypeOK
  <2>3. UdpMeansPong'
    <3> SUFFICES ASSUME path' = "DirectUdp", ~everPinned'
                 PROVE  pongAge' # Never
      BY DEF UdpMeansPong
    <3>1. ~everPinned
      BY PolicyKept DEF IInv, TypeOK
    <3>2. policy = "Auto"
      BY <3>1 DEF IInv, UpgradeMeansPong
    <3>3. path = "DirectUdp" \/ "DirectUdp" \in upgrading
      BY <3>2, UdpWritten DEF IInv
    <3>4. pongAge # Never
      BY <3>1, <3>3 DEF IInv, UpgradeMeansPong, UdpMeansPong
    <3>5. QED
      BY <3>4, OncePonged DEF IInv
  <2>4. QED
    BY <2>1, <2>2, <2>3 DEF IInv, UpgradeMeansPong
<1>3. QED
  BY <1>1, <1>2, TypeCorrect, PTL DEF Spec

\* Before any pin, a path of direct UDP rests on a PONG.
THEOREM UdpAlwaysPonged == Spec => []UdpMeansPong
<1>1. IInv => UdpMeansPong
  BY DEF IInv
<1>2. QED
  BY <1>1, Inductive, PTL

\* A pin to a relay lets no frame start an upgrade.
THEOREM RelayPinHolds == Spec => NoPullUnderRelayPin
<1>1. [Next]_vars /\ policy \in Relays => upgrading' \subseteq upgrading
  <2> SUFFICES ASSUME [Next]_vars, policy \in Relays
               PROVE  upgrading' \subseteq upgrading
    OBVIOUS
  <2>1. ~PolicyAllows(policy, "DirectTcp") /\ ~PolicyAllows(policy, "DirectUdp")
    BY DEF PolicyAllows, Relays, Directs
  <2>2. ASSUME NEW c \in Conns, TcpFrame(c) \/ DialOk(c)
        PROVE  upgrading' \subseteq upgrading
    BY <2>1, <2>2 DEF TcpFrame, DialOk, Attach
  <2>3. ASSUME NEW t \in pings, Pong(t)
        PROVE  upgrading' \subseteq upgrading
    BY <2>1, <2>3 DEF Pong, OnPong, Attach
  <2>4. QED
    BY <2>2, <2>3
    DEF Next, Handlers, ProbeLoop, Environment, WriteUpgrade, SetPolicy, SyncPath,
        ProbeSend, ProbeSkip, ProbeJudge, ProbeDown, DialFails, CooldownEnds, Refresh, PeerDials,
        ConnGoesSilent, ConnCloses, Rebind, RelayFlips,
      ShownOtherwise, fields, tasks, env, vars
<1>2. QED
  BY <1>1, PTL DEF Spec, NoPullUnderRelayPin
===============================================================================
