-------------------------------- MODULE Hub --------------------------------
(***************************************************************************)
(* The event sockets of the devices (skiff-server/src/events_hub.rs and     *)
(* ws_events in app.rs), with the presence records they keep alive.         *)
(*                                                                         *)
(* A socket is for a device and a network.  It is admitted under a limit,   *)
(* counted in the presence record, registered in the hub (the one before it *)
(* is replaced, and not told), served until its client ends or the server   *)
(* kicks it, and cleaned up step by step.  The hub's map is concurrent:     *)
(* each call on it is atomic, and anything may happen between two.          *)
(***************************************************************************)
EXTENDS Presence, FiniteSets

CONSTANTS
  Networks,
  Sockets,   \* upgrade requests in a behaviour
  NoSocket,
  MaxWs      \* MAX_WS_CONNS

ASSUME NoSocketAssumption == NoSocket \notin Sockets
ASSUME FiniteAssumption == IsFiniteSet(Sockets)
ASSUME MaxWsAssumption == MaxWs \in Nat

VARIABLES
  exists,   \* devices in the database
  member,   \* memberships in the database: device and network
  pc,       \* where the task of a socket is
  key,      \* the device and network of a socket
  entry,    \* the hub's map: the socket registered for a key, or NoSocket
  kicked,   \* sockets with a Close in their channel
  conns,    \* ws_conns
  kicks,    \* keys to be unregistered after a change in the database
  removing, \* removal of a device: no, presence, collect, kick, done
  replaced, \* history: sockets whose entry a newer one took
  lost      \* history: sockets whose entry another socket's clean-up removed

socketVars == <<exists, member, pc, key, entry, kicked, conns, kicks, removing, replaced, lost>>
hubVars == <<presenceVars, socketVars>>

Keys == Devices \X Networks
KeysOf(d) == {k \in Keys : k[1] = d}

HubInit ==
  /\ InitPresence
  /\ exists = Devices /\ member = Keys
  /\ pc = [s \in Sockets |-> "none"] /\ key \in [Sockets -> Keys]
  /\ entry = [k \in Keys |-> NoSocket] /\ kicked = {}
  /\ conns = 0 /\ kicks = {}
  /\ removing = [d \in Devices |-> "no"]
  /\ replaced = {} /\ lost = {}

Goes(s, from, to) == pc[s] = from /\ pc' = [pc EXCEPT ![s] = to]

-----------------------------------------------------------------------------
(* The task of a socket. *)

\* Token and membership hold; then the limit.  A request over the limit counts
\* itself out again in a step of its own.
Upgrade(s) ==
  /\ key[s][1] \in exists /\ key[s] \in member
  /\ Goes(s, "none", IF conns >= MaxWs THEN "refused" ELSE "admitted")
  /\ conns' = conns + 1
  /\ UNCHANGED <<presenceVars, exists, member, key, entry, kicked, kicks, removing, replaced, lost>>

\* Mutant: a handshake that fails is not counted out.
UpgradeFailsCounted(s) ==
  /\ Goes(s, "admitted", "gone")
  /\ UNCHANGED <<presenceVars, exists, member, key, entry, kicked, conns, kicks, removing, replaced, lost>>

\* The handshake fails (on_failed_upgrade); the limit was reached.
UpgradeFails(s) ==
  /\ Goes(s, "admitted", "gone") \/ Goes(s, "refused", "gone")
  /\ conns' = conns - 1
  /\ UNCHANGED <<presenceVars, exists, member, key, entry, kicked, kicks, removing, replaced, lost>>

Connect(s) ==
  /\ Goes(s, "admitted", "connected")
  /\ WsConnected(key[s][1])
  /\ UNCHANGED <<exists, member, key, entry, kicked, conns, kicks, removing, replaced, lost>>

Register(s) ==
  /\ Goes(s, "connected", "live")
  /\ entry' = [entry EXCEPT ![key[s]] = s]
  /\ replaced' = replaced \cup ({entry[key[s]]} \ {NoSocket})
  /\ UNCHANGED <<presenceVars, exists, member, key, kicked, conns, kicks, removing, lost>>

\* The client ends, goes silent for a minute, or the Close is delivered.
Ends(s) ==
  /\ Goes(s, "live", "leaving")
  /\ UNCHANGED <<presenceVars, exists, member, key, entry, kicked, conns, kicks, removing, replaced, lost>>

\* unregister_if_current: the entry is looked at and released ...
TestCurrent(s) ==
  /\ Goes(s, "leaving", IF entry[key[s]] = s THEN "current" ELSE "unlisted")
  /\ UNCHANGED <<presenceVars, exists, member, key, entry, kicked, conns, kicks, removing, replaced, lost>>

\* ... then removed by key.
RemoveCurrent(s) ==
  /\ Goes(s, "current", "unlisted")
  /\ entry' = [entry EXCEPT ![key[s]] = NoSocket]
  /\ lost' = lost \cup ({entry[key[s]]} \ {s, NoSocket})
  /\ UNCHANGED <<presenceVars, exists, member, key, kicked, conns, kicks, removing, replaced>>

\* Mutant: only a device that still exists is counted out.
DisconnectKnown(s) ==
  /\ key[s][1] \in exists
  /\ Goes(s, "unlisted", "uncounted")
  /\ WsDisconnected(key[s][1])
  /\ UNCHANGED <<exists, member, key, entry, kicked, conns, kicks, removing, replaced, lost>>

Disconnect(s) ==
  /\ Goes(s, "unlisted", "uncounted")
  /\ WsDisconnected(key[s][1])
  /\ UNCHANGED <<exists, member, key, entry, kicked, conns, kicks, removing, replaced, lost>>

\* The task ends, and its channel and its history with it.
Release(s) ==
  /\ Goes(s, "uncounted", "gone")
  /\ conns' = conns - 1
  /\ kicked' = kicked \ {s} /\ replaced' = replaced \ {s} /\ lost' = lost \ {s}
  /\ UNCHANGED <<presenceVars, exists, member, key, entry, kicks, removing>>

-----------------------------------------------------------------------------
(***************************************************************************)
(* Leaving a network, by the device's request or the administrator's, and   *)
(* removal of the network: the membership goes, then the socket is kicked.  *)
(***************************************************************************)
Leave(k) ==
  /\ k \in member /\ k \notin kicks
  /\ member' = member \ {k} /\ kicks' = kicks \cup {k}
  /\ UNCHANGED <<presenceVars, exists, pc, key, entry, kicked, conns, removing, replaced, lost>>

\* The device, or the administrator, puts it into the network again.
Join(k) ==
  /\ k[1] \in exists /\ k \notin member
  /\ member' = member \cup {k}
  /\ UNCHANGED <<presenceVars, exists, pc, key, entry, kicked, conns, kicks, removing, replaced, lost>>

\* Mutant: the entry is removed and the socket not told.
UnregisterSilently(k) ==
  /\ entry' = [entry EXCEPT ![k] = NoSocket]
  /\ kicked' = kicked

\* unregister: the entry is removed and its socket told to close.
Unregister(k) ==
  /\ entry' = [entry EXCEPT ![k] = NoSocket]
  /\ kicked' = kicked \cup ({entry[k]} \ {NoSocket})

Kick(k) ==
  /\ k \in kicks /\ kicks' = kicks \ {k}
  /\ Unregister(k)
  /\ UNCHANGED <<presenceVars, exists, member, pc, key, conns, removing, replaced, lost>>

(***************************************************************************)
(* Removal of a device (admin_delete_device): the database, the presence    *)
(* record, then its sockets, whose keys are collected before they are       *)
(* removed one by one.                                                      *)
(***************************************************************************)
Removes(d, from, to) == removing[d] = from /\ removing' = [removing EXCEPT ![d] = to]

DeleteDevice(d) ==
  /\ d \in exists /\ Removes(d, "no", "presence")
  /\ exists' = exists \ {d} /\ member' = member \ KeysOf(d)
  /\ UNCHANGED <<presenceVars, pc, key, entry, kicked, conns, kicks, replaced, lost>>

ForgetDevice(d) ==
  /\ Removes(d, "presence", "collect")
  /\ Forget(d)
  /\ UNCHANGED <<exists, member, pc, key, entry, kicked, conns, kicks, replaced, lost>>

CollectSockets(d) ==
  /\ Removes(d, "collect", "done")
  /\ kicks' = kicks \cup {k \in KeysOf(d) : entry[k] # NoSocket}
  /\ UNCHANGED <<presenceVars, exists, member, pc, key, entry, kicked, conns, replaced, lost>>

-----------------------------------------------------------------------------
\* A heartbeat or a relay's traffic; the heartbeat of a removed device is
\* refused, a relay link it still has goes on.
SeenAgain(d) == Touch(d) /\ UNCHANGED socketVars
Lapses(d) == Lapse(d) /\ UNCHANGED socketVars
Announce(d) == SendDifference(d) /\ UNCHANGED socketVars

SocketSteps(s) ==
  \/ Upgrade(s) \/ UpgradeFails(s) \/ Connect(s) \/ Register(s) \/ Ends(s)
  \/ TestCurrent(s) \/ RemoveCurrent(s) \/ Disconnect(s) \/ Release(s)

AdminSteps ==
  \/ \E k \in Keys : Leave(k) \/ Join(k) \/ Kick(k)
  \/ \E d \in Devices : DeleteDevice(d) \/ ForgetDevice(d) \/ CollectSockets(d)

PresenceSteps ==
  \E d \in Devices : SeenAgain(d) \/ Lapses(d) \/ Announce(d)

HubNext == (\E s \in Sockets : SocketSteps(s)) \/ AdminSteps \/ PresenceSteps

HubSpec == HubInit /\ [][HubNext]_hubVars

\* Tasks go on and a Close is delivered; sockets otherwise stay as long as they like.
HubFairness ==
  /\ \A s \in Sockets :
       /\ WF_hubVars(UpgradeFails(s) \/ Connect(s)) /\ WF_hubVars(Register(s))
       /\ WF_hubVars(s \in kicked /\ Ends(s))
       /\ WF_hubVars(TestCurrent(s)) /\ WF_hubVars(RemoveCurrent(s))
       /\ WF_hubVars(Disconnect(s)) /\ WF_hubVars(Release(s))
  /\ \A k \in Keys : WF_hubVars(Kick(k))
  /\ \A d \in Devices :
       /\ WF_hubVars(ForgetDevice(d)) /\ WF_hubVars(CollectSockets(d))
       /\ WF_hubVars(Announce(d))

HubFairSpec == HubSpec /\ HubFairness

-----------------------------------------------------------------------------
(* Properties. *)

\* Types, among them that an entry is of its own key and that the number of connections
\* never goes below zero.
HubTypeOK ==
  /\ PresenceTypeOK
  /\ exists \subseteq Devices /\ member \subseteq Keys
  /\ pc \in [Sockets -> {"none", "refused", "admitted", "connected", "live", "leaving",
                         "current", "unlisted", "uncounted", "gone"}]
  /\ key \in [Sockets -> Keys]
  /\ entry \in [Keys -> Sockets \cup {NoSocket}]
  /\ \A k \in Keys : entry[k] # NoSocket => key[entry[k]] = k
  /\ kicked \subseteq Sockets /\ kicks \subseteq Keys
  /\ conns \in Nat
  /\ removing \in [Devices -> {"no", "presence", "collect", "done"}]
  /\ replaced \subseteq Sockets /\ lost \subseteq Sockets

InWs(d) == {s \in Sockets : key[s][1] = d
              /\ pc[s] \in {"connected", "live", "leaving", "current", "unlisted"}}
InConns == {s \in Sockets : pc[s] \notin {"none", "gone"}}

\* The presence record of a device counts its sockets exactly, so that a device
\* with one is online and one without falls back on when it was seen; after its
\* removal, which forgets the count under the sockets' feet, never too many.
WsCounted ==
  \A d \in Devices :
    /\ record[d].ws <= Cardinality(InWs(d))
    /\ removing[d] \in {"no", "presence"} => record[d].ws = Cardinality(InWs(d))

\* The limit holds although the counter passes it, and every way out of a request
\* counts it out (on_failed_upgrade and the end of the task exclude each other).
WsBounded ==
  /\ conns = Cardinality(InConns)
  /\ Cardinality({s \in InConns : pc[s] # "refused"}) <= MaxWs

\* Both counters of sockets stay true through every way in and out of a request.
SocketsCounted == WsCounted /\ WsBounded

\* The hub never sends to a socket whose task is past its clean-up.
RegisteredIsServed ==
  \A k \in Keys : entry[k] # NoSocket => pc[entry[k]] \in {"live", "leaving", "current"}

\* A socket that is served and gets no events is one that was replaced, that has a
\* Close waiting, or whose entry another's clean-up removed after testing its own.
SilentExplained ==
  \A s \in Sockets :
    pc[s] = "live" => entry[key[s]] = s \/ s \in replaced \cup kicked \cup lost

\* The table of the hub and the sockets that are served differ in explained ways only.
RegistryExplained == RegisteredIsServed /\ SilentExplained

\* A kick works: the socket closes and its task ends.
KickedEnds == \A s \in Sockets : s \in kicked ~> pc[s] = "gone"

-------------------------------------------------------------------------------
(***************************************************************************)
(* A claim of the repository that the code does not keep.                   *)
(***************************************************************************)

\* A clean-up removes its own registration only ("an unconditional removal would
\* kill the new connection by mistake", register in events_hub.rs).
CleanUpSparesOthers == lost = {}
=============================================================================
