------------------------------ MODULE PathState ------------------------------
(***************************************************************************)
(* The path of one peer, as one node sees it (skiff-node/src/engine.rs,     *)
(* session.rs): which of relayed UDP, direct UDP, relayed TCP and direct    *)
(* TCP carries the frames it sends, under the path policy in force.         *)
(*                                                                         *)
(* Three kinds of tasks share the peer's fields, each behind a lock of its  *)
(* own: the tasks that handle frames (a PONG or a frame on a direct TCP     *)
(* connection may upgrade the path), the probe loop (pings, dials,          *)
(* downgrades a path that went silent) and the settings task (changes the   *)
(* policy, then brings the path in line).                                   *)
(*                                                                         *)
(* Time is the probe loop's: the age of the last PONG is counted in probe   *)
(* ticks.  The peer's clock, its own policy and its replies are the         *)
(* environment's: a ping is answered, if ever, on the path it took.         *)
(***************************************************************************)
EXTENDS Naturals

CONSTANTS
  Policies,   \* the policies the administrator uses, a set of policy names
  Endpoints,  \* UDP endpoints the peer may be reached at
  NoEndpoint,
  Conns,      \* direct TCP connections that may exist at once
  NoConn,
  DeadAfter,  \* probe ticks without a PONG after which a direct path is dead
  MaxChanges  \* bound: changes of the policy and of the network, together

AllPolicies == {"Auto", "RelayUdp", "RelayTcp", "DirectAny", "DirectUdp", "DirectTcp"}
Relays == {"RelayUdp", "RelayTcp"}
Directs == {"DirectUdp", "DirectTcp"}
Paths == Relays \cup Directs

ASSUME PoliciesAssumption == "Auto" \in Policies /\ Policies \subseteq AllPolicies
ASSUME NoneAssumption == NoEndpoint \notin Endpoints /\ NoConn \notin Conns
ASSUME BoundsAssumption == DeadAfter \in Nat /\ MaxChanges \in Nat

\* The age of the last PONG, once there was one; ages above DeadAfter are alike.
Never == DeadAfter + 2
Ages == 0 .. DeadAfter + 2

\* Where a frame leaves to: the relay, a UDP endpoint, a TCP connection, or
\* nowhere.
Relay == [via |-> "relay", to |-> NoEndpoint]
Udp(e) == [via |-> "udp", to |-> e]
Tcp(c) == [via |-> "tcp", to |-> c]
Drop == [via |-> "drop", to |-> NoEndpoint]
Targets ==
  {Relay} \cup [via : {"udp"}, to : Endpoints] \cup [via : {"tcp"}, to : Conns]

VARIABLES
  \* The peer's fields.
  policy,     \* the policy in force for the peer (policy_for)
  path,       \* current_path
  endpoint,   \* direct_endpoint, learned from a PONG
  announced,  \* endpoints[0], from the server's peer list
  online,     \* whether that list shows the peer online
  slot,       \* tcp_conn
  pongAge,    \* ticks since last_pong_ms
  cooling,    \* tcp_cooldown_until_ms is in the future
  \* Tasks.
  syncing,    \* the settings task has written the policy, not yet the path
  upgrading,  \* paths that frame handlers have decided to write
  probe,      \* the probe loop: program counter and the values it has read
  dialing,    \* a TCP dial is in progress
  \* Environment.
  conn,       \* each connection: "open", "silent" (half-open) or "closed"
  udpAt,      \* the endpoint the peer answers direct UDP at
  relayUp,    \* the relay reaches the peer
  pings,      \* targets of pings that may still be answered
  changes     \* changes so far (bound only)

\* History, read by no guard: a policy other than Auto has been in force.
VARIABLE everPinned

listed == <<announced, online>>
fields == <<policy, path, endpoint, listed, slot, pongAge, cooling>>
tasks == <<syncing, upgrading, probe, dialing>>
env == <<conn, udpAt, relayUp, changes>>
vars == <<fields, tasks, env, pings, everPinned>>

IdleProbe == [pc |-> "idle", policy |-> "Auto", path |-> "RelayUdp"]

Init ==
  /\ policy = "Auto" /\ path = "RelayUdp"
  /\ endpoint = NoEndpoint /\ announced = NoEndpoint /\ online \in BOOLEAN
  /\ slot = NoConn /\ pongAge = Never /\ cooling = FALSE
  /\ syncing = FALSE /\ upgrading = {} /\ probe = IdleProbe /\ dialing = FALSE
  /\ conn = [c \in Conns |-> "closed"]
  /\ udpAt \in Endpoints \cup {NoEndpoint}
  /\ relayUp \in BOOLEAN
  /\ pings = {} /\ changes = 0 /\ everPinned = FALSE

-------------------------------------------------------------------------------
\* Mutant: no policy gates an upgrade.
PolicyAllowsAll(p, k) == p \in AllPolicies /\ k \in Directs

\* policy_allows: may the state machine upgrade to path k?
PolicyAllows(p, k) ==
  \/ p = "Auto"
  \/ p = "DirectAny" /\ k \in Directs
  \/ p = k /\ k \in Directs

\* The slot holds a connection that its read loop has not found closed.
HasConn == slot # NoConn /\ conn[slot] # "closed"

\* Direct UDP: the learned endpoint, else the first announced one.
UdpTarget ==
  IF endpoint # NoEndpoint THEN Udp(endpoint)
  ELSE IF announced # NoEndpoint THEN Udp(announced) ELSE Drop

\* The kind of path a policy resolves to, given the path in force.
PathUnder(p, k) ==
  CASE p = "Auto" -> k
    [] p = "DirectAny" -> IF k \in Directs THEN k
                          ELSE IF HasConn THEN "DirectTcp"
                          ELSE IF endpoint # NoEndpoint THEN "DirectUdp" ELSE "none"
    [] OTHER -> p

\* route_sealed: where a frame leaves to.  Only Auto falls back to the relay
\* when the direct resource is missing.
Route(p, k) ==
  LET direct == CASE PathUnder(p, k) \in Relays -> Relay
                  [] PathUnder(p, k) = "DirectUdp" -> UdpTarget
                  [] PathUnder(p, k) = "DirectTcp" /\ HasConn -> Tcp(slot)
                  [] OTHER -> Drop
  IN  IF direct = Drop /\ p = "Auto" THEN Relay ELSE direct

\* The peer is reached at a target.
Works(t) ==
  \/ t.via = "relay" /\ relayUp
  \/ t.via = "udp" /\ t.to = udpAt
  \/ t.via = "tcp" /\ conn[t.to] = "open"

-------------------------------------------------------------------------------
(***************************************************************************)
(* Handling of frames.                                                     *)
(***************************************************************************)

\* attach_peer_tcp: the connection takes the slot, and a relayed path is to be
\* upgraded when the policy allows direct TCP.
Attach(c) ==
  /\ slot' = c
  /\ upgrading' = IF PolicyAllows(policy, "DirectTcp") /\ path \in Relays
                  THEN upgrading \cup {"DirectTcp"} ELSE upgrading

\* The handler that decided on an upgrade writes the path.
WriteUpgrade(k) ==
  /\ k \in upgrading
  /\ upgrading' = upgrading \ {k}
  /\ path' = k
  /\ UNCHANGED <<policy, endpoint, listed, slot, pongAge, cooling, syncing,
                 probe, dialing, env, pings, everPinned>>

\* A frame other than a PONG arrives on a direct TCP connection.
TcpFrame(c) ==
  /\ conn[c] = "open"
  /\ Attach(c)
  /\ UNCHANGED <<policy, path, endpoint, listed, pongAge, cooling, syncing,
                 probe, dialing, env, pings, everPinned>>

\* Mutant: the PONG upgrades the path without stamping last_pong_ms.
OnPongUnstamped(t) ==
  /\ UNCHANGED pongAge
  /\ IF t.via = "tcp"
     THEN Attach(t.to) /\ UNCHANGED endpoint
     ELSE /\ UNCHANGED slot
          /\ IF t.via = "udp" /\ PolicyAllows(policy, "DirectUdp")
             THEN /\ endpoint' = t.to
                  /\ upgrading' = upgrading \cup ({"DirectUdp"} \ {path})
             ELSE UNCHANGED <<endpoint, upgrading>>

\* What a PONG does, by the path it arrives on: direct TCP attaches its
\* connection first; direct UDP records the endpoint and upgrades the path when
\* the policy allows direct UDP; every PONG counts as a sign of life.
OnPong(t) ==
  /\ pongAge' = 0
  /\ IF t.via = "tcp"
     THEN Attach(t.to) /\ UNCHANGED endpoint
     ELSE /\ UNCHANGED slot
          /\ IF t.via = "udp" /\ PolicyAllows(policy, "DirectUdp")
             THEN /\ endpoint' = t.to
                  /\ upgrading' = upgrading \cup ({"DirectUdp"} \ {path})
             ELSE UNCHANGED <<endpoint, upgrading>>

\* A PONG arrives for a ping sent to t.
Pong(t) ==
  /\ t \in pings /\ Works(t)
  /\ pings' = pings \ {t}
  /\ OnPong(t)
  /\ UNCHANGED <<policy, path, listed, cooling, syncing, probe, dialing, env,
                 everPinned>>

-------------------------------------------------------------------------------
(***************************************************************************)
(* The settings task: apply_runtime_settings.                              *)
(***************************************************************************)

\* The policy is written ...
SetPolicy(p) ==
  /\ ~syncing /\ p # policy /\ changes < MaxChanges
  /\ policy' = p /\ syncing' = TRUE
  /\ changes' = changes + 1
  /\ everPinned' = (everPinned \/ p # "Auto")
  /\ UNCHANGED <<path, endpoint, listed, slot, pongAge, cooling, upgrading,
                 probe, dialing, conn, udpAt, relayUp, pings>>

\* ... then the path brought in line: Auto leaves the pinned relayed TCP,
\* DirectAny changes nothing and a pin writes its own kind.
SyncPath ==
  /\ syncing
  /\ syncing' = FALSE
  /\ path' = CASE policy = "Auto" -> IF path = "RelayTcp" THEN "RelayUdp" ELSE path
               [] policy = "DirectAny" -> path
               [] OTHER -> policy
  /\ UNCHANGED <<policy, endpoint, listed, slot, pongAge, cooling, upgrading,
                 probe, dialing, env, pings, everPinned>>

-------------------------------------------------------------------------------
(***************************************************************************)
(* The probe loop: probe_peer.                                             *)
(***************************************************************************)

\* Mutant: Auto probes direct UDP from a relayed path only.
WantUdpFromRelay ==
  \/ policy \in {"Auto", "DirectAny"} /\ path \in Relays
  \/ policy = "DirectUdp" /\ endpoint = NoEndpoint

WantUdp ==
  \/ policy \in {"Auto", "DirectAny"} /\ path # "DirectUdp"
  \/ policy = "DirectUdp" /\ endpoint = NoEndpoint

WantTcp ==
  \/ policy \in {"Auto", "DirectAny"} /\ path # "DirectUdp"
  \/ policy = "DirectTcp" /\ ~HasConn

\* try_direct_tcp_probe dials only for an empty slot, once per cooldown.
Dials == WantTcp /\ slot = NoConn /\ ~cooling /\ announced # NoEndpoint

Tick == pongAge' = IF pongAge > DeadAfter THEN pongAge ELSE pongAge + 1

\* One tick for the peer, when it is shown online: a ping on the current path, pings
\* to what is to be probed, a dial; then the path and policy read are judged.
ProbeSend ==
  /\ probe.pc = "idle" /\ online
  /\ probe' = [pc |-> "judge", policy |-> policy, path |-> path]
  /\ pings' = pings \cup ({Route(policy, path)} \ {Drop})
                    \cup (IF WantUdp /\ announced # NoEndpoint
                          THEN {Udp(announced)} ELSE {})
  /\ dialing' = (dialing \/ Dials)
  /\ cooling' = (cooling \/ Dials)
  /\ Tick
  /\ UNCHANGED <<policy, path, endpoint, listed, slot, syncing, upgrading, env,
                 everPinned>>

\* The tick passes by a peer that is shown offline.
ProbeSkip ==
  /\ probe.pc = "idle" /\ ~online
  /\ Tick
  /\ UNCHANGED <<policy, path, endpoint, listed, slot, cooling, tasks, env, pings,
                 everPinned>>

\* direct_path_dead: a PONG was received once, and none for too long.
DirectPathDead == pongAge # Never /\ pongAge > DeadAfter

\* Mutant: a silent direct TCP path is kept.
JudgedDeadUdpOnly ==
  /\ probe.path = "DirectUdp" /\ probe.policy = "Auto"
  /\ DirectPathDead

JudgedDead ==
  /\ probe.path \in Directs /\ probe.policy = "Auto"
  /\ DirectPathDead

ProbeJudge ==
  /\ probe.pc = "judge"
  /\ probe' = IF JudgedDead THEN [probe EXCEPT !.pc = "down"] ELSE IdleProbe
  /\ UNCHANGED <<fields, syncing, upgrading, dialing, env, pings, everPinned>>

\* The downgrade of the path that was read: its resource is dropped and the path
\* written, whatever has become of either since.
ProbeDown ==
  /\ probe.pc = "down"
  /\ probe' = IdleProbe
  /\ IF probe.path = "DirectUdp"
     THEN endpoint' = NoEndpoint /\ UNCHANGED slot
     ELSE slot' = NoConn /\ UNCHANGED endpoint
  /\ path' = "RelayUdp"
  /\ UNCHANGED <<policy, listed, pongAge, cooling, syncing, upgrading, dialing,
                 env, pings, everPinned>>

\* The dial connects: the connection is attached and a first ping sent on it.
DialOk(c) ==
  /\ dialing /\ conn[c] = "closed" /\ slot # c
  /\ dialing' = FALSE
  /\ conn' = [conn EXCEPT ![c] = "open"]
  /\ Attach(c)
  /\ pings' = pings \cup {Tcp(c)}
  /\ UNCHANGED <<policy, path, endpoint, listed, pongAge, cooling, syncing,
                 probe, udpAt, relayUp, changes, everPinned>>

DialFails ==
  /\ dialing
  /\ dialing' = FALSE
  /\ UNCHANGED <<fields, syncing, upgrading, probe, env, pings, everPinned>>

CooldownEnds ==
  /\ cooling /\ ~dialing
  /\ cooling' = FALSE
  /\ UNCHANGED <<policy, path, endpoint, listed, slot, pongAge, tasks, env,
                 pings, everPinned>>

-------------------------------------------------------------------------------
(***************************************************************************)
(* The environment.                                                        *)
(***************************************************************************)

Change == changes < MaxChanges /\ changes' = changes + 1

\* The peer dials this node; the connection is attached by its first frame.
PeerDials(c) ==
  /\ Change
  /\ conn[c] = "closed" /\ slot # c
  /\ conn' = [conn EXCEPT ![c] = "open"]
  /\ UNCHANGED <<fields, tasks, udpAt, relayUp, pings, everPinned>>

\* A connection goes silent, its frames being dropped without an error, ...
ConnGoesSilent(c) ==
  /\ Change
  /\ conn[c] = "open"
  /\ conn' = [conn EXCEPT ![c] = "silent"]
  /\ UNCHANGED <<fields, tasks, udpAt, relayUp, pings, everPinned>>

\* ... or ends, which its read loop sees.  Nothing empties the slot.
ConnCloses(c) ==
  /\ conn[c] # "closed"
  /\ \/ conn[c] = "open" /\ Change
     \/ conn[c] = "silent" /\ UNCHANGED changes
  /\ conn' = [conn EXCEPT ![c] = "closed"]
  /\ pings' = pings \ {Tcp(c)}
  /\ UNCHANGED <<fields, tasks, udpAt, relayUp, everPinned>>

\* The peer's direct UDP endpoint changes, appears or is lost.
Rebind(e) ==
  /\ Change
  /\ e # udpAt /\ udpAt' = e
  /\ UNCHANGED <<fields, tasks, conn, relayUp, pings, everPinned>>

\* The relay starts or stops to reach the peer.
RelayFlips ==
  /\ Change
  /\ relayUp' = ~relayUp
  /\ UNCHANGED <<fields, tasks, conn, udpAt, pings, everPinned>>

\* refresh_peers: the server announces where the peer is now ...
Refresh ==
  /\ announced # udpAt
  /\ announced' = udpAt
  /\ UNCHANGED <<policy, path, endpoint, online, slot, pongAge, cooling, tasks, env,
                 pings, everPinned>>

\* ... and that it came online or went offline, which need not be true.
ShownOtherwise ==
  /\ Change
  /\ online' = ~online /\ announced' = udpAt
  /\ UNCHANGED <<policy, path, endpoint, slot, pongAge, cooling, tasks, conn, udpAt,
                 relayUp, pings, everPinned>>

-------------------------------------------------------------------------------
Handlers ==
  \/ \E k \in upgrading : WriteUpgrade(k)
  \/ \E c \in Conns : TcpFrame(c)
  \/ \E t \in pings : Pong(t)

ProbeLoop ==
  \/ ProbeSend \/ ProbeSkip \/ ProbeJudge \/ ProbeDown
  \/ (\E c \in Conns : DialOk(c)) \/ DialFails \/ CooldownEnds

Environment ==
  \/ \E c \in Conns : PeerDials(c) \/ ConnGoesSilent(c) \/ ConnCloses(c)
  \/ \E e \in Endpoints \cup {NoEndpoint} : Rebind(e)
  \/ RelayFlips \/ Refresh \/ ShownOtherwise

Next ==
  Handlers \/ (\E p \in Policies : SetPolicy(p)) \/ SyncPath \/ ProbeLoop \/ Environment

Spec == Init /\ [][Next]_vars

\* Every task runs on, the cooldown elapses, the peer list is polled, and of the
\* pings sent again and again to a target that works one is answered.
Fairness ==
  /\ \A k \in Directs : WF_vars(WriteUpgrade(k))
  /\ WF_vars(Pong(Relay)) /\ \A e \in Endpoints : WF_vars(Pong(Udp(e)))
  /\ WF_vars(SyncPath)
  /\ WF_vars(ProbeSend \/ ProbeSkip \/ ProbeJudge \/ ProbeDown)
  /\ WF_vars((\E c \in Conns : DialOk(c)) \/ DialFails)
  /\ WF_vars(CooldownEnds) /\ WF_vars(Refresh)

FairSpec == Spec /\ Fairness

-------------------------------------------------------------------------------
(***************************************************************************)
(* Properties.                                                             *)
(***************************************************************************)

\* Every variable keeps its type.
TypeOK ==
  /\ policy \in Policies /\ path \in Paths
  /\ endpoint \in Endpoints \cup {NoEndpoint}
  /\ announced \in Endpoints \cup {NoEndpoint} /\ online \in BOOLEAN
  /\ slot \in Conns \cup {NoConn} /\ pongAge \in Ages
  /\ cooling \in BOOLEAN /\ syncing \in BOOLEAN /\ dialing \in BOOLEAN
  /\ upgrading \subseteq Directs
  /\ probe \in [pc : {"idle", "judge", "down"}, policy : AllPolicies, path : Paths]
  /\ conn \in [Conns -> {"open", "silent", "closed"}]
  /\ udpAt \in Endpoints \cup {NoEndpoint} /\ relayUp \in BOOLEAN
  /\ pings \subseteq Targets
  /\ changes \in 0 .. MaxChanges /\ everPinned \in BOOLEAN

\* A direct UDP path that no pin wrote rests on a PONG: the node never leaves
\* the relay for UDP on a mere guess (handle_frame).
UdpMeansPong == path = "DirectUdp" /\ ~everPinned => pongAge # Never

\* A pin to a relay lets no frame of the peer start an upgrade, whatever it
\* arrives on (policy_allows, in both frame handlers).
NoPullUnderRelayPin ==
  [][(policy \in Relays) => upgrading' \subseteq upgrading]_vars

Sends == Works(Route(policy, path))

\* Under Auto, a peer that has answered once is reached again however its direct
\* paths died, half-open connections included, as long as the relay reaches it and
\* the server shows it online (direct_path_dead, the relay fallback of route_sealed).
Recovers ==
  <>[](/\ policy = "Auto" /\ pongAge # Never /\ relayUp /\ online
       /\ udpAt = NoEndpoint /\ \A c \in Conns : conn[c] # "open")
    => []<>Sends

\* Under Auto, a peer that is shown online and stays reachable over direct UDP is
\* reached that way, whatever path and whatever stale resources the node had, and
\* whatever the list showed before (probe_tick, probe_peer).
FindsDirect ==
  <>[](policy = "Auto" /\ udpAt # NoEndpoint /\ online) => []<>(path = "DirectUdp" /\ Sends)

-------------------------------------------------------------------------------
(***************************************************************************)
(* Claims of the repository that the code does not keep.                   *)
(***************************************************************************)

\* engine.rs:1746-1747: a path is upgraded to direct only by a PONG, so that
\* last_pong_ms > 0 on every direct path.  Here: under Auto, before any pin.
DirectMeansPong ==
  policy = "Auto" /\ ~everPinned /\ path \in Directs => pongAge # Never

\* engine.rs:1748: a pinned path heals by probing.  Here: while a pin to direct
\* UDP stays, a peer that stays online and reachable over direct UDP is reached.
PinHeals ==
  <>[](policy = "DirectUdp" /\ udpAt # NoEndpoint /\ online) => []<>Sends
===============================================================================
