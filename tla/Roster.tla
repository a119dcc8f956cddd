------------------------------- MODULE Roster -------------------------------
(***************************************************************************)
(* What networks a node takes part in, and with whom (skiff-node/src/       *)
(* engine.rs, control.rs), kept in step with what the server says           *)
(* (skiff-server/src/app.rs).                                               *)
(*                                                                         *)
(* A worker boots with the list of its memberships and runs a context and   *)
(* an event socket for each network of it, no others.  Pushes on the        *)
(* sockets, and a socket that connects or is refused, make it fetch the     *)
(* list again (reconcile_roster); every few seconds, and whenever something *)
(* happened, it fetches the peers of its networks and drops the networks    *)
(* that are off the list (refresh_peers, one sweep at a time).              *)
(*                                                                         *)
(* Every request reads the server at one moment and is used at a later one, *)
(* and may fail.  A behaviour is the life of one worker.                    *)
(***************************************************************************)
EXTENDS Naturals

CONSTANTS
  Networks,
  Peers,       \* the other devices
  Refreshers,  \* tasks of the poll and of events, in refresh_peers, at a time
  Calls,       \* tasks in reconcile_roster, which end in refresh_peers, at a time
  NoTask,
  MaxChanges,  \* bound: changes of memberships in a behaviour
  MaxFailures  \* bound: requests that fail in a behaviour

Tasks == Refreshers \cup Calls

ASSUME TasksAssumption == Refreshers \cap Calls = {} /\ NoTask \notin Tasks
ASSUME RosterBoundsAssumption == MaxChanges \in Nat /\ MaxFailures \in Nat

VARIABLES
  \* The server.
  member,     \* networks of the node's device
  others,     \* members of networks among the other devices
  changes,    \* changes so far
  kicks,      \* networks the device left, whose sockets are to be closed
  entry,      \* event socket of a network, seen by the server: none,
              \* admitted (token and membership were looked up), registered
  \* The worker.
  phase,      \* list, configs, running
  listed,     \* the list it boots with
  configured, \* networks of it whose configuration came
  networks, roster, peers,
  refreshPending, refreshLock,
  task,       \* where a task is, the networks it goes by, an answer it got
  ws,         \* event socket of a network, seen by the node: down, up
  inbox,      \* networks whose socket has NETWORKS_CHANGED on its way
  \* History.
  departed,   \* networks the device left since the worker fetched its list
  blank,      \* the server could not read memberships and answered with none
  applied,    \* of which change the peers of a network are
  failures    \* requests that failed

server == <<member, others, changes, kicks, entry>>
boot == <<phase, listed, configured>>
state == <<networks, roster, peers>>
flags == <<refreshPending, refreshLock>>
sockets == <<ws, inbox>>
history == <<departed, blank, applied, failures>>
rosterVars == <<server, boot, state, flags, task, sockets, history>>

NoAnswer == [net |-> {}, list |-> {}, version |-> 0]
At(pc, todo) == [pc |-> pc, todo |-> todo, answer |-> NoAnswer]
Idle == At("idle", {})

RosterInit ==
  /\ member \in (SUBSET Networks) \ {{}} /\ others = Networks \X Peers
  /\ changes = 0 /\ kicks = {} /\ entry = [n \in Networks |-> "none"]
  /\ phase = "list" /\ listed = {} /\ configured = {}
  /\ networks = {} /\ roster = {} /\ peers = {}
  /\ refreshPending = FALSE /\ refreshLock = NoTask /\ task = [t \in Tasks |-> Idle]
  /\ ws = [n \in Networks |-> "down"] /\ inbox = {}
  /\ departed = {} /\ blank = FALSE /\ applied = [n \in Networks |-> 0] /\ failures = 0

\* A task that stands at one place goes to another.
Goes(t, from, to, todo) == task[t].pc = from /\ task' = [task EXCEPT ![t] = At(to, todo)]

RequestFails == failures < MaxFailures /\ failures' = failures + 1

-----------------------------------------------------------------------------
(***************************************************************************)
(* The server.  Pushes of PEERS_CHANGED and the like start a refresh, as    *)
(* the poll does at any time (Poll).                                        *)
(***************************************************************************)
Registered == {n \in Networks : entry[n] = "registered"}

Change == changes < MaxChanges /\ changes' = changes + 1

\* The device leaves, is taken out, or the network is deleted: the database.
Leave(n) ==
  /\ n \in member /\ Change
  /\ member' = member \ {n} /\ kicks' = kicks \cup {n}
  /\ departed' = departed \cup {n}
  /\ UNCHANGED <<others, entry, boot, state, flags, task, sockets, blank, applied, failures>>

\* ... then the hub: the socket of the network is closed, and unless the device
\* left by itself its other sockets are told.
Kick(n) ==
  /\ n \in kicks /\ kicks' = kicks \ {n}
  /\ entry' = [entry EXCEPT ![n] = IF @ = "registered" THEN "none" ELSE @]
  /\ inbox' \in {inbox, inbox \cup Registered}
  /\ UNCHANGED <<member, others, changes, boot, state, flags, task, ws, history>>

\* By the device's own request, which is not pushed, or by the administrator's.
Join(n) ==
  /\ n \notin member /\ Change
  /\ member' = member \cup {n}
  /\ inbox' \in {inbox, inbox \cup Registered}
  /\ UNCHANGED <<others, kicks, entry, boot, state, flags, task, ws, history>>

PeerChanges(n, p) ==
  /\ Change
  /\ others' = IF <<n, p>> \in others THEN others \ {<<n, p>>} ELSE others \cup {<<n, p>>}
  /\ UNCHANGED <<member, kicks, entry, boot, state, flags, task, sockets, history>>

-----------------------------------------------------------------------------
(***************************************************************************)
(* Boot: the list, then the configuration of each network on it, all of     *)
(* them again when one fails (fetch_configs_for_roster).                    *)
(***************************************************************************)
BootList ==
  /\ phase = "list" /\ member # {}
  /\ phase' = "configs" /\ listed' = member /\ departed' = {}
  /\ UNCHANGED <<server, configured, state, flags, task, sockets, blank, applied, failures>>

BootConfig(n) ==
  /\ phase = "configs" /\ n \in listed \ configured /\ n \in member
  /\ configured' = configured \cup {n} /\ networks' = networks \cup {n}
  /\ UNCHANGED <<server, phase, listed, roster, peers, flags, task, sockets, history>>

\* No answer, or 404 because the device is not a member any more.
BootConfigFails(n) ==
  /\ phase = "configs" /\ n \in listed \ configured /\ configured' = {}
  /\ \/ n \notin member /\ UNCHANGED failures
     \/ RequestFails
  /\ UNCHANGED <<server, phase, listed, state, flags, task, sockets, departed, blank, applied>>

BootDone(t) ==
  /\ phase = "configs" /\ configured = listed
  /\ phase' = "running" /\ roster' = listed
  /\ Goes(t, "idle", "start", {})
  /\ UNCHANGED <<server, listed, configured, networks, peers, flags, sockets, history>>

-----------------------------------------------------------------------------
(* The event sockets, one for each network of the boot list. *)

Loops == IF phase = "running" THEN listed ELSE {}

\* A task for reconcile_roster.
Reconciles(c) == Goes(c, "idle", "listing", {})

\* The server looks the membership up and answers the handshake ...
WsAdmitted(n) ==
  /\ n \in Loops \cap member /\ ws[n] = "down" /\ entry[n] = "none"
  /\ entry' = [entry EXCEPT ![n] = "admitted"]
  /\ UNCHANGED <<member, others, changes, kicks, boot, state, flags, task, sockets, history>>

\* ... and registers the socket; the node sees the answer before or after that.
WsRegisters(n) ==
  /\ entry[n] = "admitted" /\ entry' = [entry EXCEPT ![n] = "registered"]
  /\ UNCHANGED <<member, others, changes, kicks, boot, state, flags, task, sockets, history>>

WsConnected(n, c) ==
  /\ ws[n] = "down" /\ entry[n] # "none"
  /\ ws' = [ws EXCEPT ![n] = "up"] /\ Reconciles(c)
  /\ UNCHANGED <<server, boot, state, flags, inbox, history>>

\* Mutant: a refusal is an error like any other.
WsRefusedSilently(n, c) == FALSE

\* The handshake is answered 404: taken for NETWORKS_CHANGED, each time.
WsRefused(n, c) ==
  /\ n \in Loops \ member /\ ws[n] = "down" /\ entry[n] = "none"
  /\ Reconciles(c)
  /\ UNCHANGED <<server, boot, state, flags, sockets, history>>

\* Broken, silent for a minute, or closed by the server; what was on its way is lost.
WsEnds(n) ==
  /\ ws[n] = "up" \/ entry[n] # "none"
  /\ ws' = [ws EXCEPT ![n] = "down"] /\ entry' = [entry EXCEPT ![n] = "none"]
  /\ inbox' = inbox \ {n}
  /\ UNCHANGED <<member, others, changes, kicks, boot, state, flags, task, history>>

NetworksChanged(n, c) ==
  /\ n \in inbox /\ ws[n] = "up" /\ inbox' = inbox \ {n} /\ Reconciles(c)
  /\ UNCHANGED <<server, boot, state, flags, ws, history>>

-----------------------------------------------------------------------------
(* reconcile_roster. *)

GetList(c) ==
  /\ Goes(c, "listing", "listed", member)
  /\ UNCHANGED <<server, boot, state, flags, sockets, history>>

\* The server cannot read the table: unwrap_or_default makes that an empty list.
GetBlank(c) ==
  /\ Goes(c, "listing", "listed", {}) /\ RequestFails /\ blank' = TRUE
  /\ UNCHANGED <<server, boot, state, flags, sockets, departed, applied>>

\* Mutant: a request that failed is taken for an empty list.
GetFailsEmpty(c) ==
  /\ Goes(c, "listing", "listed", {}) /\ RequestFails
  /\ UNCHANGED <<server, boot, state, flags, sockets, departed, blank, applied>>

GetFails(c) ==
  /\ Goes(c, "listing", "idle", {}) /\ RequestFails
  /\ UNCHANGED <<server, boot, state, flags, sockets, departed, blank, applied>>

\* The roster is what was got, however old; the task goes on in refresh_peers.
WriteRoster(c) ==
  /\ Goes(c, "listed", "start", {}) /\ roster' = task[c].todo
  /\ UNCHANGED <<server, boot, networks, peers, flags, sockets, history>>

-----------------------------------------------------------------------------
(* refresh_peers. *)

\* Mutant: refreshes happen at events only.
PollNot(t) == FALSE

\* The five-second poll, and every event that asks for a refresh.
Poll(t) ==
  /\ phase = "running" /\ Goes(t, "idle", "start", {})
  /\ UNCHANGED <<server, boot, state, flags, sockets, history>>

RaiseFlag(t) ==
  /\ Goes(t, "start", "flagged", {}) /\ refreshPending' = TRUE
  /\ UNCHANGED <<server, boot, state, refreshLock, sockets, history>>

\* Mutant: the sweep runs whether another one does or not.
TryLockNot(t) ==
  /\ Goes(t, "flagged", "loop", {}) /\ refreshLock' = t
  /\ UNCHANGED <<server, boot, state, refreshPending, sockets, history>>

TryLock(t) ==
  /\ Goes(t, "flagged", IF refreshLock = NoTask THEN "loop" ELSE "idle", {})
  /\ refreshLock' = IF refreshLock = NoTask THEN t ELSE refreshLock
  /\ UNCHANGED <<server, boot, state, refreshPending, sockets, history>>

\* refresh_pending.swap(false): another sweep, or none.
Swap(t) ==
  /\ IF refreshPending THEN Goes(t, "loop", "asking", networks) ELSE Goes(t, "loop", "exit", {})
  /\ refreshPending' = FALSE
  /\ UNCHANGED <<server, boot, state, refreshLock, sockets, history>>

\* Mutant: a task that finds nothing to do keeps the lock.
UnlockNot(t) ==
  /\ Goes(t, "exit", "idle", {})
  /\ UNCHANGED <<server, boot, state, flags, sockets, history>>

Unlock(t) ==
  /\ Goes(t, "exit", "idle", {}) /\ refreshLock' = NoTask
  /\ UNCHANGED <<server, boot, state, refreshPending, sockets, history>>

\* Networks are asked for one by one; the answer holds at the moment it is given.
AskPeers(t, n) ==
  /\ task[t].pc = "asking" /\ n \in task[t].todo /\ n \in member
  /\ task' = [task EXCEPT ![t] =
       [pc |-> "answered", todo |-> @.todo \ {n},
        answer |-> [net |-> {n}, list |-> {q \in others : q[1] = n}, version |-> changes]]]
  /\ UNCHANGED <<server, boot, state, flags, sockets, history>>

\* No answer, or 404: the network is skipped as it is.
AskFails(t, n) ==
  /\ n \in task[t].todo /\ Goes(t, "asking", "asking", task[t].todo \ {n})
  /\ \/ n \notin member /\ UNCHANGED failures
     \/ RequestFails
  /\ UNCHANGED <<server, boot, state, flags, sockets, departed, blank, applied>>

\* refresh_one_network: sessions of the list are created or updated, others removed.
ApplyPeers(t) ==
  LET a == task[t].answer IN
  /\ Goes(t, "answered", "asking", task[t].todo)
  /\ peers' = {q \in peers : q[1] \notin a.net} \cup a.list
  /\ applied' = [n \in Networks |-> IF n \in a.net THEN a.version ELSE applied[n]]
  /\ UNCHANGED <<server, boot, networks, roster, flags, sockets, departed, blank, failures>>

\* Networks off the roster go, with their sessions.
Prune(t) ==
  /\ task[t].todo = {} /\ Goes(t, "asking", "loop", {})
  /\ networks' = networks \cap roster
  /\ peers' = {q \in peers : q[1] \in roster}
  /\ UNCHANGED <<server, boot, roster, flags, sockets, history>>

-----------------------------------------------------------------------------
ServerSteps ==
  \E n \in Networks :
    \/ Leave(n) \/ Kick(n) \/ Join(n) \/ WsRegisters(n) \/ WsEnds(n)
    \/ \E p \in Peers : PeerChanges(n, p)

BootSteps ==
  \/ BootList
  \/ \E n \in Networks : BootConfig(n) \/ BootConfigFails(n)
  \/ \E t \in Refreshers : BootDone(t)

SocketSteps ==
  \E n \in Networks :
    \/ WsAdmitted(n)
    \/ \E c \in Calls : WsConnected(n, c) \/ WsRefused(n, c) \/ NetworksChanged(n, c)

CallSteps(c) == GetList(c) \/ GetBlank(c) \/ GetFails(c) \/ WriteRoster(c)

RefreshSteps(t) ==
  \/ RaiseFlag(t) \/ TryLock(t) \/ Swap(t) \/ Unlock(t) \/ ApplyPeers(t) \/ Prune(t)
  \/ \E n \in Networks : AskPeers(t, n) \/ AskFails(t, n)

RosterNext ==
  \/ ServerSteps \/ BootSteps \/ SocketSteps
  \/ \E c \in Calls : CallSteps(c)
  \/ \E t \in Refreshers : Poll(t)
  \/ \E t \in Tasks : RefreshSteps(t)

RosterSpec == RosterInit /\ [][RosterNext]_rosterVars

\* Tasks go on, timers fire, a handshake is answered and a closed socket noticed.
\* No socket is obliged to break.
RosterFairness ==
  /\ WF_rosterVars(BootSteps)
  /\ \A n \in Networks :
       /\ WF_rosterVars(Kick(n)) /\ WF_rosterVars(WsRegisters(n))
       /\ WF_rosterVars(WsAdmitted(n)) /\ WF_rosterVars(ws[n] = "up" /\ entry[n] = "none" /\ WsEnds(n))
       /\ WF_rosterVars(\E c \in Calls : WsConnected(n, c) \/ WsRefused(n, c))
  /\ \A c \in Calls : WF_rosterVars(CallSteps(c))
  /\ \A t \in Refreshers : WF_rosterVars(Poll(t))
  /\ \A t \in Tasks : WF_rosterVars(RefreshSteps(t))

RosterFairSpec == RosterSpec /\ RosterFairness

-----------------------------------------------------------------------------
(* Properties. *)

Sweeping == {"loop", "exit", "asking", "answered"}

\* No session is left of a network the node does not run: an answer that was
\* under way while its network was dropped brings none back.
SessionsInNetworks == \A q \in peers : q[1] \in networks

\* Types; the lock is held exactly by the task that sweeps, and sessions are of
\* networks the node runs.
RosterTypeOK ==
  /\ member \subseteq Networks /\ others \subseteq Networks \X Peers
  /\ changes \in 0 .. MaxChanges /\ kicks \subseteq Networks
  /\ entry \in [Networks -> {"none", "admitted", "registered"}]
  /\ phase \in {"list", "configs", "running"}
  /\ listed \subseteq Networks /\ configured \subseteq listed
  /\ networks \subseteq listed /\ roster \subseteq Networks
  /\ peers \subseteq Networks \X Peers
  /\ refreshPending \in BOOLEAN /\ refreshLock \in Tasks \cup {NoTask}
  /\ task \in [Tasks ->
       [pc : {"idle", "listing", "listed", "start", "flagged"} \cup Sweeping,
        todo : SUBSET Networks,
        answer : [net : SUBSET Networks, list : SUBSET (Networks \X Peers), version : 0 .. MaxChanges]]]
  /\ \A t \in Tasks : refreshLock = t <=> task[t].pc \in Sweeping
  /\ ws \in [Networks -> {"down", "up"}] /\ inbox \subseteq Networks
  /\ departed \subseteq Networks /\ blank \in BOOLEAN
  /\ applied \in [Networks -> 0 .. MaxChanges] /\ failures \in 0 .. MaxFailures
  /\ SessionsInNetworks

\* The peers of a network never go back to an older list ("an old snapshot could
\* overwrite new data", on why every refresh is single-flight).
NeverOlderPeers == [][\A n \in Networks : applied'[n] >= applied[n]]_rosterVars

\* A network is dropped only if the device left it while the worker ran, or the
\* server once failed to read its own table: failed requests, reconciliations that
\* overlap and come in the wrong order drop nothing.
DroppedWasLeft ==
  phase = "running" => listed \ networks \subseteq departed \/ blank

\* In the end the sessions of a network are with its members.
PeersConverge ==
  \A n \in Networks :
    <>[](n \in member /\ n \in networks)
    => <>[]({q \in peers : q[1] = n} = {q \in others : q[1] = n})

\* A network the device left is dropped, provided its socket is down again and again.
LeftIsDroppedOnReconnect ==
  \A n \in Networks :
    <>[](n \notin member) /\ []<>(phase = "running" /\ ws[n] = "down")
    => <>[](n \notin networks)

-------------------------------------------------------------------------------
(***************************************************************************)
(* Claims of the repository that the code does not keep.                    *)
(***************************************************************************)

\* app.rs:1425-1428, docs/protocol.md:146: losses are made up for by the pull at
\* the next connect, and a deleted network is not kept alive.  Here: a network the
\* device left is dropped.
LeftIsDropped ==
  \A n \in Networks : <>[](n \notin member /\ phase = "running") => <>[](n \notin networks)

\* engine.rs:1137-1160: a worker whose device is in a network starts.
BootEnds == <>[](member # {}) => <>(phase = "running")
=============================================================================
