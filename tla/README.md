# Starskiff: formal models

Starskiff is a mesh VPN: nodes (`crates/skiff-node`) exchange encrypted frames
directly or through a relay, and a server (`crates/skiff-server`) keeps the roster,
relays frames and manages the configuration of the nodes. This directory models the
parts whose correctness depends on the order of events, checks the models with TLC
and proves their safety properties with TLAPS.

    tlc -workers 2 -config MCFlow.cfg MCFlow      # a run
    tlapm FlowProofs.tla                          # the proofs of a module

`PROJECT.json` lists components, runs, hazards, findings and theorems, and maps every
definition to the lines of source it stands for.

## 1. Inventory

| component | state | operations | interacts with | what is hard | what makes it correct |
|---|---|---|---|---|---|
| **settings loop** (server `repo.rs`, `app.rs`; node `engine.rs`, `main.rs`) | `device_settings` row: revision, content, `last_good`, `failed_revision`; node: running values, `applied_settings_revision` | PUT, GET, heartbeat acknowledgement, failure report and rollback; fetch, hot apply, restart | events hub (push), heartbeats, supervisor | overlapping fetches, a PUT racing an acknowledgement or a report, crashes, lost pushes | the anchor is content that ran; "converged" means running; failures end in a worker that runs |
| **flow engine** (`flow.rs`, `proxy/`) | table of flows, dials in flight, sequence counters | open, write, close, OPEN/OPENED/DATA/CLOSE handlers, dial, read loop | path state (carries frames), roster (`close_peer`) | loss, reordering, repeated OPEN, dial racing CLOSE | chunks in order or no flow; one dial at a time |
| **peer path** (`engine.rs`, `session.rs`, `peer_tcp.rs`) | policy, current path, endpoint, TCP slot, last PONG, cooldown | routing, frame handlers, probe tick, policy change | settings (policy), roster (endpoints), transports | three kinds of task on separately locked fields; half-open connections | reached when reachable; pins hold |
| **wire codec** (`wire.rs`, `replay.rs`) | send counter, generations of peer nonces, each with a replay window; statistics | seal, try_open | every transport | duplication, reordering, restarts, eviction | each frame accepted at most once; fresh ones not refused |
| **relay links** (`transport/relay_tcp.rs`, `relay/tcp_relay.rs`) | node: writer slot, connecting flag, a read and a write loop per connection; server: table of connections, admission counters, write queues | lazy connect, send, read loop; admit, register (kicks the old one), forward, clean up | path state, presence | old loops acting on new connections, half-open links, counters released while others are taken | a lost link is noticed, nothing is left behind, the newest connection gets the frames |
| **UDP relay, registration guard** (`relay/udp_relay.rs`, `register_guard.rs`, `udp_mesh.rs`) | registrations, key caches, nonce memory, the endpoint observed | REGISTER, relay, expiry, unregister | presence, repository, heartbeats | repeated and late datagrams, cached refusals, deletion while a datagram is handled, restart | a REGISTER counts once; peers are told the address in use; a node is reachable again |
| **roster and refresh** (`engine.rs`, `control.rs`) | networks, configurations, peers, `refresh_pending` and its lock | boot, `refresh_peers`, `reconcile_roster`, pruning, the event sockets | server API, hub, flows, codec | single flight losing a trigger, answers used late, reconciliations that overlap | peers converge and never go back; only what was left is dropped |
| **presence, events hub, event WebSocket** (`presence.rs`, `events_hub.rs`, `ws_events` in `app.rs`) | presence records, registered sockets, count of connections, memberships | admit, connect, register, replace, kick, clean up; announce a transition | settings, roster, membership | check-then-remove on reconnect, transitions announced out of order, a limit with several ways out | the registered socket is served, counts are true, kicks work |
| **membership, enrolment, addresses** (`repo.rs`, `app.rs`, `ipam.rs`) | networks, devices, memberships, tokens | create, join, leave, enrol, change of address, remove | settings (mode), presence (mode), roster, hub | requests that act on earlier reads, a full block, deletions in between | unique host addresses, exact token uses, a last membership, one network for TUN |
| **supervisor** (`supervisor.rs`, `lib.rs`, `main.rs`, `service_install.rs`) | worker process, backoff, stop channel, `stop.flag`, firewall rules and the file that remembers them | spawn, wait, graceful stop, kill, back off, clean up; the worker's watcher and its firewall thread | settings loop, operating system | a stop during start or backoff, flags left behind, a process that ends between two firewall steps | stops are obeyed and only when asked; nothing outlives the master |
| others | sockets, files, TUN device, TLS, CLI, web page | I/O | | | not modelled (section 8) |

## 2. Plan

The order follows what an operator would notice first.

1. **Settings** (done): a wrong rollback anchor makes a node unreachable for good. 2.
**Flow** (done): user data. 3. **PathState** (done): connectivity. 4. **Codec** with the
abstract **OnceChannel** (done): Flow takes from it that the network does not duplicate.
5. **Membership** with **Ipam** (done): identity and addresses, on which the roster rests.
6. **RelayClient** and **TcpRelay** (done): the two ends of a relay link; **UdpRelay**
(done): the registration by which a node is found. 7. **Hub** on **Presence** (done): the
sockets by which everything is announced. 8. **Roster** (done): what a node makes of the
announcements. 9. **Supervisor** (done): what survives the node.

Left: UDP flows; the choice and the binding of UDP sockets; and compositions, each of which
replaces an environment by a module: RelayClient with TcpRelay, Roster with the departures
of Flow (`PeerLeftA`, `PeerLeftB`) and of Codec (`Renew`), Settings with Supervisor and Hub.

Abstract specifications: OnceChannel, for Codec (done); Pipe, a stream that delivers a
prefix, for Flow (done). A single-socket registry for Hub would have its known exception
(section 7) as an action, and say no more than `RegistryExplained`.

## 3. Modules

Every component has a module with its specification and properties, an `MC` module that
names the constants of its instances, and configurations. Proofs are in modules of their
own. Two components that meet in the code share one, each proved for itself:
`RelayLinkProofs` (TcpRelay, RelayClient), `OnlineProofs` (UdpRelay, Hub) and `NodeProofs`
(Supervisor, Roster); so that one module can extend both, the second of each pair has its
name in front of `Init`, `Next`, `Spec`, `TypeOK` and so on (`HubSpec`, `ClientTypeOK`).
Variables
whose comment says *history* are read by no guard; a counter named as a *bound* limits
the instance. Operators introduced by "Mutant:" are variants with a plausible bug, used to
see that a property can fail; no specification uses them.

**Settings** is one node and its row on the server. The server's transactions (`AdminPut`,
`DeliverBeat`, `DeliverReport`) are atomic because the code runs each in one SQLite
statement or transaction; the push that follows a write is part of the same action, and a
push is lost if the WebSocket breaks before it arrives. The node's life is `BootFetch`,
`BootOk` or `BootFail`, then any number of `apply_settings` tasks, each in four steps
(`Get`, `Check`, `Apply`, `Store`) because tasks run on different threads and share
`applied_settings_revision` and the running values; finally `WorkerExit` or
`CrashOrRestart`. A configuration has one hot field and one boot field; the boot field may
be absent ("unmanaged"), which several rules treat specially. Heartbeats and reports are
sets of messages in flight that may be delayed, reordered or lost.

**Flow** is one TCP flow. The initiator has the application's calls (`open_tcp`,
`FlowStream::write` and `close`) and the frame handlers; the responder has its single
consumer task, and per dialed connection a task that dials, registers, answers and reads.
`handle_open` is two steps, `RecvOpen` and `StartDial`/`SkipDial`, because it reads one
table and marks another; `DialOk` and `Announce` are separate because the entry becomes
visible before the mark is cleared. Frames in flight are sets, `opens` a counter: frames
are lost (never delivered) and reordered, not duplicated. A chunk is its position in what
its writer wrote, so order and completeness can be read off it.

**PathState** is one peer seen from one node. Routing (`Route`) is a function of policy,
path and resources. A frame handler decides on an upgrade and writes it in two steps
(`OnPong`/`Attach`, then `WriteUpgrade`), the settings task writes the policy and then the
path (`SetPolicy`, `SyncPath`), and a probe tick reads, sends and dials, judges, and
downgrades (`ProbeSend`, `ProbeJudge`, `ProbeDown`), which is where stale reads can do
harm. A peer that the server shows offline is passed by (`ProbeSkip`): it is neither probed
nor judged. Time is counted in probe ticks since the last PONG. The environment moves the
peer's endpoint, shows the peer online or offline (`ShownOtherwise`), flips the relay,
opens, silences and closes connections.

**Codec** is one receiver and one peer. The peer seals frames under its current boot
nonce and restarts with a new one; every frame ever sealed can arrive at any time and any
number of times. The 128-bit bitmap is the set of its one-bits. The receiver keeps its
generations in arrival order and accepts only in the last; `Renew` is the loss of all of
it when the peer's session is rebuilt.

**OnceChannel** says what Flow relies on: what is accepted was sent and is not accepted
again while its generation is remembered, and a generation is forgotten only for lack of
room. The mapping is `held <- accepted`; `sent` and `taken` map to themselves.

**Pipe** says what a flow promises to its ends: each reads once, in order and from the
beginning what the other wrote. The application's direction is `cut` when its entry is gone
(`ctx = "gone"`), which lets a connection that has read nothing begin in the middle; the
service's is torn when its entry was removed or replaced (`Torn`), after which only "once"
is promised. `delivered`, `replied` and `handed` are `svcGot`, `svcWrote` and `got` of Flow.

**Membership** is the server's tables of networks, devices, memberships and tokens, the
mode in a device's settings and in its last heartbeat, and the handlers that use them. A
transaction is one action, because `db.rs` keeps one connection behind a mutex and rolls
back what fails. What a handler reads before its transaction is a request in flight
(`JoinRead`, `AdminJoinRead`, `SetIpRead`, `PutTunRead`, `CreateTokenRead`), and anything
may happen before the transaction (`Join`, `AdminJoin`, ...) or instead of it (`Abandon`).
The UNIQUE constraints of the table are left out, so that unique addresses are a result
of the handlers' checks. Requests whose reads and writes are one transaction are a single
action (`Enroll`, `Leave`, `DeleteDevice`). A join that was authenticated before its device
was deleted goes through, as in the code, and leaves a row of a device that is gone.

**Ipam** has the pure functions of `ipam.rs` as operators on numbers: a block is its
masked network address and its size, 2^(32 - prefix). Choice and validation return the
set of accepted addresses, empty when refused.

**RelayClient** is the node's end of the TCP relay. Two tasks may dial, the consumer of
the outgoing queue and the warming-up after a change of policy; looking at the slot,
claiming the flag, dialing, clearing the flag and storing the sending end are steps of
their own (`LookAtSlot`, `TakeFlag`, `DialOk`, `ClearFlag`, `Store`). The slot does not
know which connection put what is in it, so a read loop that ends clears whatever is
there, and one that ends before the dialer stored leaves a dead sender behind. Each
connection has a read loop and a write loop; the relay is the environment, which
acknowledges, sends, answers keepalives, refuses, closes, falls silent, or gives a session
up: its handler then reads no more and waits for its writer, which goes on forwarding until
the table drops the entry (`"muted"`), so that the link stays open for any time.

**TcpRelay** is the relay's end: a handler per connection with the steps of admission (the
counter of the address, then the total), authentication, registration (take the old entry
out and kick it, then put the new one in), service and clean-up, where the test of
ownership and the removal are separate. A release of the counter of an address is a
decrement and, when that came to zero, a removal that does not look again (`ReleaseIp`,
`RemoveIp`). The counter is 32 bits wide in the code; here it is taken modulo `Modulus`,
so that it can pass below zero as it does there. Queues are bounded and lose what does not
fit.

**Presence** gives the calls on a presence record as operators for other modules to use: the
change under the lock, and the transition that is sent after the lock is released.

**Hub** extends Presence with the event sockets: a socket task is admitted under a limit,
counted, registered (which replaces the one before it), served, and cleaned up in steps
that others come between. Memberships change in the database first and are made known to
the hub later (`Leave`, then `Kick`); the removal of a device goes through the database,
presence and sockets in the order of its handler (`DeleteDevice`, `ForgetDevice`,
`CollectSockets`, `Kick`).

**Roster** is one worker's view: the list and the configurations at boot, an event socket
per network, `reconcile_roster` by any number of tasks at a time, `refresh_peers` by one
at a time with its flag and its lock, and the pruning of networks. The server's side is a
membership relation that changes, and each request reads it at one moment and is used at a
later one, or fails.

**UdpRelay** joins the node's registration (`SendRegister`, the ACK, the observed endpoint
in the heartbeat's answer), the relay's single task in its steps (key from the cache or
the database, nonce, registration, presence), and the deletion of a device, which may come
between any of them. Datagrams are lost, repeated and reordered; entries expire at any
moment; a restart of the server forgets everything but the database. So does the guard's
memory: a nonce is forgotten after ten minutes or with the process, copies of its datagram
or not. The history follows a REGISTER while copies of it are about (`About`): how often
it was admitted, and how often the guard lost its nonce meanwhile (`forgot`).

**Supervisor** is the master, its worker, the file `stop.flag` and the host's firewall. The
worker has its engine, the watcher of the flag, the signal handler and a firewall thread
that removes old rules, opens new ones and then writes down what it opened; the process may
end between any of these. The row of quick restarts is counted twice, as in the code: for
the wait (`Rounds`) and for the next time (`Restarts`). The node may be launched again on
the same host.

The modules meet in their assumptions and are not composed into one specification, except
that Membership uses Ipam, Codec implements OnceChannel, Flow implements Pipe and Hub
extends Presence. Flow's
network does not duplicate because of Codec, and it loses and reorders because PathState
changes paths under a flow; the WebSocket of Settings and of Roster is a socket of Hub,
where it can be replaced, kicked or lose its entry; the relay that PathState flips up and
down is the pair RelayClient and TcpRelay; the worker that Settings starts again is the
one Supervisor waits for.

## 4. Runs

| run | shows |
|---|---|
| `settings` | `AnchorVerified`: the anchor is content of a revision that the node acknowledged, whatever PUTs race the heartbeat, and a boot value the anchor manages has run. `ConvergedBoot`: reporting the current revision means running its managed boot value. `Converges`: when administrators and faults are done, and WebSockets keep being recycled, the node runs the current revision and it is anchored, through rollbacks to the anchor or to the empty configuration. |
| `flow` | `DataInOrder`: gaps and reordering end the flow and never put a hole in the data of either direction, also across a second dial. `OneDialAtATime`: repeated OPENs share a dial, and the in-flight mark tells whether one runs. `DialEnds`: the mark is cleared. `PipeSpec`: the flow implements Pipe, so that no chunk is read twice, on whichever connection, and a second connection continues no stream. |
| `path` | `UdpMeansPong`: direct UDP rests on a PONG. `NoPullUnderRelayPin`: frames start no upgrade under a relay pin. `Recovers`: under Auto a peer that answered once and is shown online is reached through the relay again after its direct paths died. `FindsDirect`: a peer that stays online and reachable over UDP is reached directly. |
| `codec` | `ChannelSpec`: the codec implements OnceChannel, so that nothing is accepted twice. `FreshAccepted`: and nothing fresh is refused. `LossNotOverstated`: late frames are taken off the loss again. |
| `membership` | `MembershipsValid`: whatever joins, changes of address and deletions overlap, rows are of live networks and have different host addresses of their block. `UsesAreAdmissions`: uses of a token count admissions. `LastMembershipKept`: departures from two networks leave one. |
| `relay_client` | `ClientTypeOK` includes that dials exclude each other and the flag tells of them. `DeadSlotExplained`: a slot with nobody reading behind it has one of two causes. `LossDetected`: a connection that was lost leaves the slot. `NothingLingers`: dials end, and so do the loops of a connection whose sending end was dropped, unless the relay gave its session up and left the link open. |
| `tcp_relay` | `AdmissionsGivenBack`: the total is exact, and the counter of an address is gone with its connections although it can fall short and wrap meanwhile. `OverIsUnlisted`: frames go to no connection that was kicked or ended in order. |
| `hub` | `SocketsCounted`: presence counts sockets exactly and the limit holds on every way out of a request. `RegistryExplained`: the hub sends to no finished socket, and a served socket without an entry was replaced, kicked or robbed. `OnlineIsSeen`: others see a device that is online once announcements are out, in whatever order they were sent. `KickedEnds`: a kick ends the task. |
| `roster` | `RosterTypeOK` includes that sessions are of networks the node runs. `NeverOlderPeers`: a list of peers never replaces a newer one. `DroppedWasLeft`: failures and overlapping reconciliations drop no network. `PeersConverge`, `LeftIsDroppedOnReconnect`: the last change is seen in the end. |
| `udp_relay` | `AdmittedOnce`: copies of a REGISTER count once, and once more for each time the guard loses its nonce while they are about. `ObservedIsRegistered`: peers are told the address that frames go to. `DeletedIsOut`: of a deleted device nothing stays, unless its datagram was in the relay's hands. `AddressConverges`: after faults the node is registered at its address, over and over, and learns it. |
| `supervisor` | `StoppedWasAsked`: a flag from before stops no worker. `NothingOutlivesMaster`: no worker and no rule, but those a failure made it forget. `StopsObeyed`: a signal ends the master and a flag ends the worker that can see it. `QuickEndsSlowDown`: quick ends wait longer each time. |
| `relay_deaf` | violated: `SlotIsHeard`, what a comment and the README say of keepalives (section 7) |

With the bounds used up the systems may stop, so deadlock is not checked, except for
Membership, whose server can always restart, and Supervisor, whose end is a step of its
own. Type invariants are proved (section 5); those of RelayClient and Roster say more than
types and are also checked by their runs. Some
properties are conjunctions of named parts, which can be checked one at a time by naming
them in the configuration.

### Bounds, and why they are enough

* `settings`: one hot value, boot values `b0` (good, and the default) and `bad`, unmanaged
  too; 2 PUTs, 1 fault, 2 tasks (1.6 million states). Two PUTs give a good configuration
  followed by a bad one, a PUT between fetch and report, and two concurrent fetches of
  different revisions. A rollback adds revisions of its own, so up to four occur. One
  fault is a crash, a lost message, a failed GET, or a start that fails without cause, at
  any point.
* `flow`: 2 OPENs, 2 connections, 2 chunks each way (1.7 million states). A second dial
  needs two of each; a gap, a reordering and a tail need two chunks.
* `path`: policies Auto, RelayTcp and DirectUdp (no pin, a relay pin, a direct pin), 2
  endpoints, 1 connection, 2 changes, dead after 1 tick (1.1 million states). One change
  makes a resource stale, the second interferes with what the first set off.
* `codec`: window 2, 2 generations held, 3 incarnations of the peer, 4 frames each, 5
  accepted, 1 renewal (240 000 states). Counters pass the window by more than its width
  and one more incarnation appears than fits, so clearing and eviction both happen.
* `membership`: two networks of two hosts, three devices, so that a block is exhausted and
  devices are in two networks; one token with 1 or 3 uses; callers ask for a host of the
  first network, which is no address of the second, or for its broadcast address (390 000
  states). One request at a time is between its reads and its transaction while all others
  run whole; the theorems hold for any number.
* `relay_client`: the consumer and one warmer, 2 connections, one message unread (172 000
  states). An old loop harms a new connection with two connections, and two dialers are
  all the code has at a time.
* `tcp_relay`: 3 connections of one device, queues of 1, limits of 2, counters modulo 4
  (5.3 million states). The counter goes wrong when one release sees zero while a second
  connection is counted; the third is refused, or finds the counter gone.
* `hub`: one device in one network, 3 sockets of which 2 are admitted at once, one
  transition unsent (653 000 states). A socket that loses its entry to another's clean-up
  needs the old one, the new one, and one step between test and removal.
* `roster`: one network and one peer, the poll and two overlapping calls, 2 changes, 1
  failure (1.1 million states). Two calls answer in either order, the second change undoes
  the first.
* `udp_relay`: one device, which sends frames to itself through the relay, 2 addresses, 2
  nonces, 2 faults (1.2 million states). A late copy of an old address needs two of each;
  two faults make a move and a restart, a nonce forgotten twice, or a restart after a failed
  query. The actions of devices touch no other device's state.
* `supervisor`: 2 ports, tools that may fail, 2 launches (1.3 million states). Rules left
  behind by one worker meet a next one on another port, and a flag a next launch.

### Fairness

On what the code runs by itself, and none on administrators, users, faults or losses. It is
weak, but for the two cases named.

* Settings: the master restarts a worker that ended, a worker that boots gets somewhere,
  spawned tasks run, the heartbeat and reconnect loops never stop, and a request that is
  not lost arrives. `Converges` also assumes, in its own premise, that the WebSocket
  breaks again and again: a fetch lost after a connect is made up for only by the next
  connect, as the comments in `engine.rs` and `app.rs` say.
* Flow: a dial ends within its timeout of 5 s, its task runs on, and the consumer never
  waits inside `handle_open`.
* PathState: tasks run, the cooldown of 60 s elapses, the peer list is polled, and a ping
  that is sent again and again to a target that works is answered. The probe loop turns,
  but only peers shown online are probed and judged, and nothing obliges the server to show
  one: that is in the premises of `Recovers` and `FindsDirect`. Nothing is assumed of direct
  TCP connections.
* RelayClient: dials end by their timeout, loops go on, the timer of a read loop fires, and
  the relay reads the end of a connection whose session it serves, and closes. Nothing
  obliges it to answer, nor to close a session it gave up (`DeadLinkReleased`, section 7).
* Hub: socket tasks go on, and a Close in a channel is delivered.
* Roster: tasks go on, the poll and the reconnect timers fire, handshakes end. No socket is
  obliged to break; `LeftIsDroppedOnReconnect` has that in its premise.
* UdpRelay: the relay's task, heartbeats and expiry go on. Strong fairness for the arrival
  of a REGISTER whose nonce is unused: a datagram that is sent again and again arrives.
  Copies of a datagram die out in the end, however late; a nonce that is forgotten before
  they do is a fault, bounded like the others.
* Supervisor: the master's steps, the forwarding of a signal, the watcher of the flag and
  the end of a stopped engine go on, but nothing says that a worker finishes booting.
  Strong fairness for the end of a wait by a stop: the stop stays in its channel, so that
  the `select!` that finds it ready takes it.
* Membership and TcpRelay have no liveness property: every change in the first is somebody's
  request, and the one to state of the second does not hold (section 7).

## 5. Proofs

For every value of the constants that satisfies the named assumptions (`ValuesAssumption`,
`AnchorAssumption`, `BoundsAssumption`; `NoFlowAssumption`; `PoliciesAssumption`,
`NoneAssumption`; `SizeAssumption`, `NothingAssumption`; in Membership
`RequestedAssumption`, `WantedAssumption`; in Supervisor `LaunchesAssumption`,
`FailuresAssumption`; in UdpRelay `EndpointAssumption`, `BoundsAssumption`; in TcpRelay
`NoneAssumption`, `BoundsAssumption`, `FiniteAssumption`; in RelayClient
`ClientBoundsAssumption`, `WarmersAssumption`; in Presence and Hub `UnsentAssumption`,
`NoSocketAssumption`, `FiniteAssumption`, `MaxWsAssumption`; in Roster `TasksAssumption`,
`RosterBoundsAssumption`: markers such as "no anchor" are no values and names of tasks do
not clash, bounds are naturals, window and number of generations are positive, networks are
created with at least four addresses as `admin_create_network` demands, a counter is wider
than its limit, and finitely many connections are ever accepted and sockets ever asked
for):

* **SettingsProofs**: `TypeCorrect`, `AnchorAlwaysVerified` (from `AnchorAlwaysAcked` and
  `AnchorAlwaysStarted`), `ConvergedAlwaysRuns`. The anchor is set by a heartbeat from the
  row as it is then, so the invariant has to follow a revision from the row to the anchor:
  every copy in a task or a booting worker is what its revision held (`CopiesFetched`,
  with `RowIsLast` for the row), only issued revisions are acknowledged, an
  acknowledgement in flight vouches for a run with that content (`VouchedByRun`,
  `AckedRan`), and tasks exist only in a running worker (`TasksOfWorker`). A revision
  between the anchored one and the acknowledged one cannot exist, because the row's own
  revision bounds both: that is what the guard `revision <= applied` buys.
* **FlowProofs**: `TypeCorrect`, `DataAlwaysInOrder` (from `WritesAlwaysInOrder` and
  `ReadsAlwaysInOrder`), `OpenedAlwaysServed` (an answer means a connection),
  `AlwaysOneDial`, `ImplementsPipe`. The invariant says that numbers count writes
  (`NumbersCountWrites`), which number a frame in flight carries (`AppDataNumbered`: chunk
  n has number n-1, or 0 when the entry was gone; `RepliesNumbered` for the other way), and
  that an entry's receive counter is the length of what its connection received
  (`FlowOfConnection`). A chunk with the late number 0 can then only be a first chunk.
  `ImplementsPipe` maps every step to a step of Pipe or a stutter; it needs besides that a
  chunk is in one frame, or was read on one connection, or neither (`WritesOnce`,
  `RepliesOnce`), and that a torn end stays torn, because no second dial is the first.
* **PathStateProofs**: `TypeCorrect`, `UdpAlwaysPonged`, `RelayPinHolds`. The invariant
  adds the handlers that have decided and not yet written (`UpgradeMeansPong`).
* **CodecProofs**: `TypeCorrect`, `AlwaysAcceptedOnce`, `AlwaysFreshAccepted`,
  `AlwaysLossNotOverstated`, `ImplementsChannel`. The invariant `GensExact` ties each
  window to the set of counters accepted: bit o is set exactly when counter high-o was,
  and nothing above high was. Lemmas say that a shift, a late counter and a new window
  keep this. `ImplementsChannel` maps every step to a step of OnceChannel or a stutter; an
  eviction must exhibit more generations than fit, as an injection. `LossBounded` bounds
  what a window has lost by what is missing of its counters, for which the counters
  accepted are injected into 1..high.
* **MembershipProofs**: `TypeCorrect`, `MembershipsAlwaysValid` (from
  `AddressesUniqueAlways`, `AddressesAreHostsAlways` and `RowsOfLiveNetworksAlways`),
  `UsesAreAdmissionsAlways`, `LastMembershipAlwaysKept`. The invariant adds that a token
  identifier names one row (`TokenKeys`) and that only drawn device identifiers have rows
  (`DrawnDevices`), so an enrolment inserts a new device. Lemmas about Ipam say that
  allocation returns a free host and that what passes validation is one, for every block
  size and alignment.
* **RelayLinkProofs**, of TcpRelay: `TypeCorrect`, `AdmissionsAlwaysGivenBack` (from `TotalIsCounted`
  and `CounterDrains`), `OverAlwaysUnlisted` (from `KickedStaysOut` and
  `OrderlyEndsUnlist`). What the counter of an address shows is no count of its
  connections; the invariant `Drains` is that it is absent, or some handler has seen it at
  zero and is about to remove it, or it is between 1 and the number of connections that
  will give back. `Registered` says who may be in the table, who has a kick waiting, and
  who is past the clean-up. Of RelayClient: `ClientTypeCorrect`, whose type invariant has
  the exclusion of dials in it, and `DeadSlotsExplained`, which is inductive with it.
* **OnlineProofs**, of UdpRelay: `TypeCorrect`, `AdmitsOnce`, `ObservedFollows`,
  `DeletedLeavesNothing`. While copies of a datagram are about, an admission more than losses
  of its nonce means that the guard has it now (`Remembered`); presence lags behind the
  registration by the datagram in the relay's hands at most (`Held`, `Followed`); a deletion that no datagram overlapped takes
  registration, key and endpoint in turn (`Leaving`). Of Hub: `HubTypeCorrect`,
  `SocketsAlwaysCounted`, `RegistryAlwaysExplained`, `OnlineAlwaysSeen`. Each is inductive
  over the types alone (`HubTyped`); the counts need for each place of a task whether it
  counts (`SocketSetsMove`) and how a finite set changes by one element (`OneApart`). That
  the number of connections is a natural number follows from the counts and not before
  them.
* **NodeProofs**, of Supervisor: `TypeCorrect`, `StopsAreAsked`, `MasterLeavesNothing`,
  `QuickEndsAlwaysSlowDown`. A worker runs only while the master waits for it
  (`WorkerWaited`), a flag that a running engine can see was written since it started
  (`Asked`), every open rule is remembered, about to be remembered by the firewall thread,
  or lost (`Remembered`), and the last wait is the one the restarts in a row call for
  (`Paced`). Of Roster: `RosterTypeCorrect`, `DropsWereLeft`, `PeersNeverOlder`. A sweep
  asks about networks the node runs, and its answer is about one (`AnswersOfNetworks`), and
  nothing is in hand before the worker runs (`BeforeRunning`); for `DropsWereLeft`, every network that a list in hand
  leaves out was left since the worker has it (`ListsKept`); for `PeersNeverOlder`, an
  answer in a sweep is not older than what was applied, because one task at a time sweeps
  (`AnswersNewer`).

Only model-checked: every liveness property (`Converges`, `DialEnds`, `Recovers`,
`FindsDirect`, `LossDetected`, `NothingLingers`, `KickedEnds`, `PeersConverge`,
`LeftIsDroppedOnReconnect`, `AddressConverges`, `StopsObeyed`), fairness and ENABLED being
out of the prover's reach. Every invariant, action property and refinement of a run is
proved. No module uses a RECURSIVE operator.

## 6. Hazards

`PROJECT.json` lists them with their lines and the properties that watch them. Those
without a property carry a note: six are what section 7 calls divergences, or lie next to
one; a dial that outlives the CLOSE of its flow is reached by Flow and forbidden by
nothing; the loss of a peer's windows is a step that OnceChannel permits; one is about UDP
flows. A note beside properties says which part of the harm they do not catch, where an
exception of the property is just that part.

## 7. Where code and documents differ

A run shows one as a finding:

* *A deaf link* (`relay_deaf`). The relay answers every keepalive with `KeepaliveResp`
  (`tcp_relay.rs:282-287`); the node's read loop has no arm for it, and its catch-all arm
  (`relay_tcp.rs:188`) returns without clearing the slot. The node goes on sending over a
  connection on which it hears nothing, which `README.md:312` says is noticed within 90 s.

The others are stated as definitions at the end of their modules, under "claims of the
repository that the code does not keep". Naming one as INVARIANT or PROPERTY in the
module's configuration gives TLC's counterexample.

| definition | where it is said | what the code does |
|---|---|---|
| `AnchorTookEffect` (Settings, all boot values good) | `docs/protocol.md:152`: a configuration that has not taken effect never becomes the anchor | A configuration that stops managing a boot field asks for no restart, so the old worker, still running the old value, acknowledges it. |
| `BlamedRevisionFailed` (Settings, all boot values good) | `repo.rs:237-238`, `main.rs:201-203`: outdated reports roll nothing back | A worker that cannot start reports the revision of a second fetch; if a PUT came in between, the new configuration is rolled back untried. |
| `ConvergedHot` (Settings, `HotVals <- TwoHot`, `BootVals <- OneBoot`, nothing broken) | `engine.rs:1372`: an older version that arrives late is skipped; `docs/protocol.md:152`: hot fields take effect at once | `apply_settings` compares the revision, applies and stores it, and nothing excludes another task between. A task that compared first can apply its older configuration after a newer one and store before it: the newest revision is reported, and anchored, with the older path policy and exposes in force. A boot field cannot end so (`ConvergedBoot`), because its change ends the worker. |
| `CleanEndIsComplete` (Flow) | `README.md:314`, `docs/protocol.md:104`: a broken connection instead of wrong data | CLOSE carries no number, so a lost tail is an ordinary end of stream. Order itself holds and is proved. |
| `PinHeals` (PathState) | `engine.rs:1748`: a pinned path heals by probing | Under a pin to direct UDP nothing is probed once an endpoint is known. |
| `DirectMeansPong` (PathState) | `engine.rs:1746-1747`: every direct path had a PONG | A frame on a TCP connection the peer opened upgrades first. `Recovers` therefore has the premise that the peer answered once. |
| `OnlyNewestAccepted` (Codec) | `docs/protocol.md:69`: only the newest generation is accepted | The codec takes for newest the one it met last, so a late frame of an unseen older one takes over. |
| `TunInOneNetwork` (Membership, one device, tokens of 3 uses) | `docs/protocol.md:142`, `app.rs:1051-1053`: a TUN node is in one network | The forced join believes the last heartbeat, which says proxy until the worker has restarted; a join by the device asks for no mode. The next start fails at `engine.rs:660`. |
| `DeadLinkReleased` (TcpRelay, under `FairSpec`) | `tcp_relay.rs:30-32`: idle connections are closed after 120 s | The time limit ends a session in error, and an error leaves the entry in the table. The sender in it keeps the write loop running, and the handler waits for that loop, its admission in hand, until the device connects again or a write fails. |
| `CleanUpSparesOthers` (Hub) | `events_hub.rs:33-35`: an unconditional removal would kill the new connection | The clean-up tests the entry, releases it, and removes by key: a socket that registers in between loses its entry. |
| `LeftIsDropped` (Roster, under `RosterFairSpec`) | `app.rs:1425-1428`, `docs/protocol.md:146`: losses are made up for by the pull at the next connect | A socket admitted before the departure and registered after the kick stays open; if the pull at its connect failed, or was answered before the departure, nothing makes the node ask again. |
| `BootEnds` (Roster, two networks) | `engine.rs:1169-1203`: a worker whose device is in a network starts | A network that is on the list and left before its configuration is fetched is asked for again and again, and the others wait. |
| `AlignedAfterSync` (Supervisor, `Failures = FALSE`) | `service_install.rs:222-224`: a start after a hard end brings the rules in line | A worker that ends between opening a port and writing it down leaves a rule that no next worker knows of. |

Noticed on the way, and not contradicted by a document or too small for a property: a
trigger of `refresh_peers` that comes between the last test of the flag and the release of
the lock waits for the next poll (`engine.rs:1391-1397`); `restart_pending` is loaded and
stored without exclusion (`engine.rs:1318`, `1352`, `1128`); a failed read of the
memberships counts as an empty list and makes the node drop every network
(`DroppedWasLeft` names this as its exception); a deleted device, whose requests are
refused with 401, drops nothing; a network's members are collected before it is deleted
(`admin_delete_network`), so one that joins in between is not told; what the guard has seen
is lost with the process, within the ten minutes of `docs/protocol.md:84`; a peer that is
shown offline is not judged either, so that a dead direct path to it stays until it is shown
online (`engine.rs:1674-1684`); `down` is lost on a
worker that restarts or boots, which `engine.rs:1004-1007` accepts.

## 8. Not modelled

Parsing, encryption, key derivation, sockets, TUN, TLS, operating system services, the
command line and the web page have no ordering for a model to explore. UDP flows, the
binding of UDP sockets and the choice among them, the renaming of devices and the rotation
of the administrator's token are left. In what is modelled: frames of other networks fail
decryption before any state changes; in Settings a WebSocket stands for all sockets of the
device; the guessing of UDP ports around an announced endpoint is one target; wrap-around
of sequence numbers (u32) and of frame counters (u64) does not occur, these being natural
numbers, while the counters of addresses in TcpRelay do wrap. UdpRelay leaves out the
statistics and the cap of 100 000 cached refusals. Supervisor leaves out a `dataDir` that
is edited while the node runs (the flag is then written elsewhere) and the hard kill of
the master, which leaves an orphan worker; its count of quick restarts stops at the last
step of the backoff, from which on the wait stays the same. In UdpRelay datagrams are lost
while the relay is idle, which loses no behaviour, because what is lost while it works
could have been lost before.
