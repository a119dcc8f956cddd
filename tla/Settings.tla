------------------------------- MODULE Settings -------------------------------
(***************************************************************************)
(* Server-managed node settings: the closed loop that publishes a          *)
(* configuration to one node and rolls it back when the node cannot start  *)
(* with it.                                                                 *)
(*                                                                         *)
(* Server (skiff-server/src/repo.rs, app.rs): one device_settings row with *)
(* an authoritative revision, the current content, the last content the    *)
(* node acknowledged (last_good, the rollback anchor) and the last failed  *)
(* revision.  An admin PUT and a rollback each write a new revision and    *)
(* push settings_changed, at most once, over the node's WebSocket.         *)
(*                                                                         *)
(* Node (skiff-node/src/engine.rs, main.rs): each push and each WebSocket  *)
(* connect spawns a task that GETs the settings and applies them.  "Hot"   *)
(* fields take effect at once; a change of a "boot" field stops the worker *)
(* process, which the master starts again.  The worker reports the         *)
(* revision it runs in its heartbeats, and a worker that fails to start    *)
(* reports that failure.                                                   *)
(*                                                                         *)
(* A configuration is abstracted to one hot field (path policy, exposes)   *)
(* and one boot field (mode, listen, mtu, socksListen, forwards), which    *)
(* may be left unmanaged.                                                  *)
(***************************************************************************)
EXTENDS Naturals, Sequences

CONSTANTS
  HotVals,      \* values of the hot-applied fields
  DefaultHot,   \* what an unmanaged hot field means (policy Auto)
  BootVals,     \* values of the fields that take a worker restart
  DefaultBoot,  \* the compile-time default a worker uses when unmanaged
  Broken,       \* boot values no worker can start with
  Unmanaged,    \* the boot field is absent from the configuration
  NoAnchor,     \* last_good_json IS NULL
  Tasks,        \* apply_settings tasks that may run at once
  MaxPuts,      \* bound: admin PUTs
  MaxFaults     \* bound: crashes, remote restarts, lost requests, and starts
                \* that fail for a reason outside the settings, together

ASSUME ValuesAssumption ==
  /\ DefaultHot \in HotVals
  /\ DefaultBoot \in BootVals
  /\ Broken \subseteq BootVals
  /\ Unmanaged \notin BootVals

ASSUME BoundsAssumption ==
  /\ MaxPuts \in Nat
  /\ MaxFaults \in Nat

Config == [hot : HotVals, boot : BootVals \cup {Unmanaged}]

ASSUME AnchorAssumption == NoAnchor \notin Config

\* DeviceSettings::default(): nothing managed.
EmptyConfig == [hot |-> DefaultHot, boot |-> Unmanaged]

\* The value a worker started with configuration c actually runs with.
Effective(c) == IF c.boot = Unmanaged THEN DefaultBoot ELSE c.boot

VARIABLES
  rev,        \* device_settings.revision (0: no row)
  cur,        \* device_settings.json
  lastGood,   \* device_settings.last_good_json
  failedRev,  \* device_settings.failed_revision (0: NULL)
  ws,         \* the node's event WebSocket is registered with the hub
  pushes,     \* settings_changed events in flight on that WebSocket
  worker,     \* "down", "booting", "failed", "up" or "stopping"
  boot,       \* the revision and content the worker fetched before starting
  run,        \* the hot and boot values the engine runs with
  applied,    \* applied_settings_revision
  pending,    \* restart_pending
  task,       \* each apply_settings task: program counter and fetched copy
  beats,      \* settingsRevision of heartbeats in flight to the server
  reports,    \* revisions of start-failure reports in flight
  puts,       \* admin PUTs so far (bound only)
  faults      \* faults so far (bound only)

\* History, read by no guard: what each revision held, which revisions the
\* node reported as applied, which revisions a failed start had fetched, and
\* which boot values some worker has started with.
VARIABLES written, acked, failedStarts, started

server == <<rev, cur, lastGood, failedRev>>
node == <<worker, boot, run, applied, pending>>
net == <<ws, pushes, beats, reports>>
env == <<puts, faults>>
history == <<written, acked, failedStarts, started>>
vars == <<server, node, net, task, env, history>>

IdleTask == [pc |-> "idle", rev |-> 0, set |-> EmptyConfig]

Init ==
  /\ rev = 0 /\ cur = EmptyConfig /\ lastGood = NoAnchor /\ failedRev = 0
  /\ ws = FALSE /\ pushes = 0
  /\ worker = "down"
  /\ boot = [rev |-> 0, set |-> EmptyConfig]
  /\ run = [hot |-> DefaultHot, boot |-> DefaultBoot]
  /\ applied = 0 /\ pending = FALSE
  /\ task = [t \in Tasks |-> IdleTask]
  /\ beats = {} /\ reports = {}
  /\ puts = 0 /\ faults = 0
  /\ written = << >> /\ acked = {} /\ failedStarts = {} /\ started = {}

-------------------------------------------------------------------------------
\* One more fault of the environment, which the bound allows.
Fault ==
  /\ faults < MaxFaults
  /\ faults' = faults + 1
  /\ UNCHANGED puts

(***************************************************************************)
(* The server.                                                             *)
(***************************************************************************)

\* One transaction writes content c under the next revision.
Write(c) ==
  /\ rev' = rev + 1
  /\ cur' = c
  /\ written' = Append(written, c)

\* hub.send_to_device: reaches the node only while its WebSocket is registered.
Push == pushes' = IF ws THEN pushes + 1 ELSE pushes

\* PUT /admin/devices/{id}/settings.
AdminPut(c) ==
  /\ puts < MaxPuts
  /\ puts' = puts + 1
  /\ Write(c)
  /\ Push
  /\ UNCHANGED <<lastGood, failedRev, ws, beats, reports, node, task, faults,
                 acked, failedStarts, started>>

\* Mutant: the UPDATE without its revision guard anchors whatever the row holds.
MarkAppliedUnguarded(a) ==
  IF rev > 0 /\ a > 0
  THEN lastGood' = cur /\ failedRev' = 0
  ELSE UNCHANGED <<lastGood, failedRev>>

\* The conditional UPDATE of mark_settings_applied: content is anchored only
\* while the row still holds a revision the node has acknowledged.
MarkApplied(a) ==
  IF rev > 0 /\ rev <= a
  THEN lastGood' = cur /\ failedRev' = 0
  ELSE UNCHANGED <<lastGood, failedRev>>

\* POST /api/heartbeat reaches the server.
DeliverBeat(a) ==
  /\ a \in beats
  /\ beats' = beats \ {a}
  /\ MarkApplied(a)
  /\ UNCHANGED <<rev, cur, ws, pushes, reports, node, task, env, history>>

\* POST /api/settings/fail reaches the server: a report of the current revision
\* rolls back to the anchor, or to the empty configuration, as a new revision;
\* any other report is out of date and ignored.
DeliverReport(r) ==
  /\ r \in reports
  /\ reports' = reports \ {r}
  /\ IF rev > 0 /\ r = rev
     THEN /\ Write(IF lastGood = NoAnchor THEN EmptyConfig ELSE lastGood)
          /\ failedRev' = r
          /\ Push
     ELSE UNCHANGED <<rev, cur, failedRev, pushes, written>>
  /\ UNCHANGED <<lastGood, ws, beats, node, task, env,
                 acked, failedStarts, started>>

-------------------------------------------------------------------------------
(***************************************************************************)
(* The node's worker process and its master.                               *)
(***************************************************************************)

Running == worker \in {"up", "stopping"}

\* The state of the node when no worker process exists: its event WebSocket and
\* its tasks end with the process.
NoProcess ==
  /\ worker' = "down"
  /\ run' = [hot |-> DefaultHot, boot |-> DefaultBoot]
  /\ applied' = 0 /\ pending' = FALSE
  /\ boot' = [rev |-> 0, set |-> EmptyConfig]
  /\ task' = [t \in Tasks |-> IdleTask]
  /\ ws' = FALSE /\ pushes' = 0

\* bootstrap_settings: the new worker fetches the configuration it will start
\* with, retrying until the server answers.
BootFetch ==
  /\ worker = "down"
  /\ worker' = "booting"
  /\ boot' = [rev |-> rev, set |-> cur]
  /\ UNCHANGED <<server, run, applied, pending, net, task, env, history>>

\* A heartbeat that reports revision a; revision 0 anchors nothing.
BeatOf(a) == {a} \ {0}

\* start_with_settings succeeds: the worker runs with what it fetched, stores
\* its revision as applied and sends a heartbeat at once.
BootOk ==
  /\ worker = "booting"
  /\ Effective(boot.set) \notin Broken
  /\ worker' = "up"
  /\ run' = [hot |-> boot.set.hot, boot |-> Effective(boot.set)]
  /\ applied' = boot.rev /\ pending' = FALSE
  /\ boot' = [rev |-> 0, set |-> EmptyConfig]
  /\ beats' = beats \cup BeatOf(boot.rev)
  /\ acked' = acked \cup {boot.rev}
  /\ started' = started \cup {Effective(boot.set)}
  /\ UNCHANGED <<server, ws, pushes, reports, task, env, written, failedStarts>>

\* start_with_settings fails: because of the configuration, or for a reason of
\* the machine's (no name resolution, an empty roster, a busy port).
BootFail ==
  /\ worker = "booting"
  /\ \/ Effective(boot.set) \in Broken /\ UNCHANGED env
     \/ Fault
  /\ worker' = "failed"
  /\ failedStarts' = failedStarts \cup {boot.rev}
  /\ UNCHANGED <<server, boot, run, applied, pending, net, task,
                 written, acked, started>>

\* The failed worker fetches the settings again and reports the revision that
\* this second fetch returns, then exits with code 1; the master restarts it.
ReportFailure ==
  /\ worker = "failed"
  /\ reports' = reports \cup {rev}
  /\ NoProcess
  /\ UNCHANGED <<server, beats, env, history>>

\* The failed worker cannot reach the server: it exits without a report.
SkipReport ==
  /\ worker = "failed"
  /\ Fault
  /\ NoProcess
  /\ UNCHANGED <<server, beats, reports, history>>

\* The stopping worker has left its engine and exits with code 3.
WorkerExit ==
  /\ worker = "stopping"
  /\ NoProcess
  /\ UNCHANGED <<server, beats, reports, env, history>>

\* The worker dies, or an administrator's restart_requested stops it.
CrashOrRestart ==
  /\ worker \in {"booting", "up", "stopping"}
  /\ Fault
  /\ NoProcess
  /\ UNCHANGED <<server, beats, reports, history>>

\* heartbeat_tick, on its timer.
Heartbeat ==
  /\ Running
  /\ beats' = beats \cup BeatOf(applied)
  /\ UNCHANGED <<server, node, ws, pushes, reports, task, env, history>>

-------------------------------------------------------------------------------
(***************************************************************************)
(* apply_settings.  Each trigger spawns a task of its own; the tasks run on *)
(* several threads, so every shared access of two tasks can interleave.     *)
(***************************************************************************)

Spawn(t) ==
  /\ task[t].pc = "idle"
  /\ task' = [task EXCEPT ![t] = [IdleTask EXCEPT !.pc = "get"]]

\* Mutant: a (re)connect does not fetch.
WsConnectSilent(t) ==
  /\ worker = "up" /\ ~ws
  /\ ws' = TRUE
  /\ UNCHANGED <<server, node, pushes, beats, reports, task, env, history>>

\* The event WebSocket connects: CONNECTED triggers a fetch.
WsConnect(t) ==
  /\ worker = "up" /\ ~ws
  /\ ws' = TRUE
  /\ Spawn(t)
  /\ UNCHANGED <<server, node, pushes, beats, reports, env, history>>

\* The connection breaks, with whatever was in flight on it.
WsDrop ==
  /\ ws
  /\ ws' = FALSE /\ pushes' = 0
  /\ UNCHANGED <<server, node, beats, reports, task, env, history>>

\* settings_changed arrives.
RecvPush(t) ==
  /\ Running /\ pushes > 0
  /\ pushes' = pushes - 1
  /\ Spawn(t)
  /\ UNCHANGED <<server, node, ws, beats, reports, env, history>>

\* GET /api/settings returns the row as it is now.
Get(t) ==
  /\ Running /\ task[t].pc = "get"
  /\ task' = [task EXCEPT ![t] = [pc |-> "check", rev |-> rev, set |-> cur]]
  /\ UNCHANGED <<server, node, net, env, history>>

\* The GET fails: the task ends and nothing retries it.
GetFail(t) ==
  /\ Running /\ task[t].pc = "get"
  /\ Fault
  /\ task' = [task EXCEPT ![t] = IdleTask]
  /\ UNCHANGED <<server, node, net, history>>

\* The revision guard: an already applied or older revision is skipped.
Check(t) ==
  /\ Running /\ task[t].pc = "check"
  /\ task' = [task EXCEPT ![t] = IF applied >= task[t].rev
                                 THEN IdleTask
                                 ELSE [@ EXCEPT !.pc = "apply"]]
  /\ UNCHANGED <<server, node, net, env, history>>

\* Mutant: a boot field is taken for a hot one.
NoRestartNeeded(c) == FALSE

\* Only a managed boot field that differs from what the worker runs with needs
\* a restart.
RestartNeeded(c) == c.boot # Unmanaged /\ c.boot # run.boot

\* apply_runtime_settings, and request_stop when a restart is needed: the old
\* worker does not acknowledge such a revision.
Apply(t) ==
  /\ Running /\ task[t].pc = "apply"
  /\ run' = [run EXCEPT !.hot = task[t].set.hot]
  /\ IF RestartNeeded(task[t].set)
     THEN /\ pending' = TRUE
          /\ worker' = "stopping"
          /\ task' = [task EXCEPT ![t] = IdleTask]
     ELSE /\ task' = [task EXCEPT ![t].pc = "store"]
          /\ UNCHANGED <<pending, worker>>
  /\ UNCHANGED <<server, boot, applied, net, env, history>>

\* applied_settings_revision is stored, whatever it holds by now.  The
\* heartbeat_tick that follows reads it anew: it is a Heartbeat step.
Store(t) ==
  /\ Running /\ task[t].pc = "store"
  /\ applied' = task[t].rev
  /\ acked' = acked \cup {task[t].rev}
  /\ task' = [task EXCEPT ![t] = IdleTask]
  /\ UNCHANGED <<server, worker, boot, run, pending, net, env,
                 written, failedStarts, started>>

-------------------------------------------------------------------------------
\* The network loses a heartbeat or a report.
Lose ==
  /\ Fault
  /\ \/ /\ \E a \in beats : beats' = beats \ {a}
        /\ UNCHANGED reports
     \/ /\ \E r \in reports : reports' = reports \ {r}
        /\ UNCHANGED beats
  /\ UNCHANGED <<server, node, ws, pushes, task, history>>

TaskStep(t) == Get(t) \/ Check(t) \/ Apply(t) \/ Store(t)

Next ==
  \/ \E c \in Config : AdminPut(c)
  \/ \E a \in beats : DeliverBeat(a)
  \/ \E r \in reports : DeliverReport(r)
  \/ BootFetch \/ BootOk \/ BootFail \/ ReportFailure \/ SkipReport
  \/ WorkerExit \/ CrashOrRestart \/ Heartbeat
  \/ WsDrop
  \/ \E t \in Tasks : WsConnect(t) \/ RecvPush(t) \/ GetFail(t) \/ TaskStep(t)
  \/ Lose

Spec == Init /\ [][Next]_vars

(***************************************************************************)
(* Fairness: the master restarts a worker that ended, a worker that boots   *)
(* gets somewhere, tokio runs every spawned task, the heartbeat and the     *)
(* WebSocket reconnect are endless loops, and a request that is not lost    *)
(* arrives.  Nothing is assumed of administrators, crashes, glitches or     *)
(* lost requests, nor that a WebSocket ever breaks.                         *)
(***************************************************************************)
Fairness ==
  /\ WF_vars(BootFetch) /\ WF_vars(BootOk) /\ WF_vars(BootFail)
  /\ WF_vars(ReportFailure) /\ WF_vars(WorkerExit) /\ WF_vars(Heartbeat)
  /\ WF_vars(\E t \in Tasks : WsConnect(t))
  /\ WF_vars(\E t \in Tasks : RecvPush(t))
  /\ \A t \in Tasks : WF_vars(TaskStep(t))
  /\ WF_vars(\E a \in beats : DeliverBeat(a))
  /\ WF_vars(\E r \in reports : DeliverReport(r))

FairSpec == Spec /\ Fairness

-------------------------------------------------------------------------------
(***************************************************************************)
(* Properties.                                                             *)
(***************************************************************************)

Copy == [rev : Nat, set : Config]
TaskState == [pc : {"idle", "get", "check", "apply", "store"}, rev : Nat, set : Config]

\* Every variable has its type, and `written' records exactly the revisions
\* the server has issued.
TypeOK ==
  /\ rev \in Nat /\ cur \in Config
  /\ lastGood \in Config \cup {NoAnchor} /\ failedRev \in Nat
  /\ ws \in BOOLEAN /\ pushes \in Nat
  /\ worker \in {"down", "booting", "failed", "up", "stopping"}
  /\ boot \in Copy
  /\ run \in [hot : HotVals, boot : BootVals]
  /\ applied \in Nat /\ pending \in BOOLEAN
  /\ task \in [Tasks -> TaskState]
  /\ beats \in SUBSET Nat /\ reports \in SUBSET Nat
  /\ puts \in Nat /\ faults \in Nat
  /\ written \in Seq(Config) /\ Len(written) = rev
  /\ acked \in SUBSET Nat
  /\ failedStarts \in SUBSET Nat
  /\ started \in SUBSET BootVals

\* The rollback anchor only ever holds the content of a revision the node
\* acknowledged, however heartbeats and PUTs interleave (repo.rs
\* mark_settings_applied: a version that was not verified is never anchored).
AnchorWasAcked ==
  lastGood # NoAnchor => \E r \in acked \cap (1 .. rev) : written[r] = lastGood

\* A boot field the anchor manages is one some worker has started with, so a
\* rollback does not return to a managed value that never ran (docs/protocol.md:
\* the old worker does not acknowledge in place of the new one).
AnchorBootStarted ==
  lastGood # NoAnchor => lastGood.boot = Unmanaged \/ lastGood.boot \in started

\* A rollback returns to what the node has acknowledged and, where the anchor
\* manages it, has started with (rollback_settings).
AnchorVerified == AnchorWasAcked /\ AnchorBootStarted

\* A node that reports the server's current revision runs with the boot value
\* this revision manages: the management page's "converged" is not shown early.
ConvergedBoot ==
  Running /\ applied > 0 /\ applied = rev => cur.boot \in {Unmanaged, run.boot}

\* When administrators leave the node alone it ends up running, with the
\* current revision acknowledged and anchored, after any failed starts and the
\* rollbacks they cause; provided its WebSocket is recycled again and again,
\* the documented backstop for lost pushes and fetches.
Converges ==
  []<>(~ws) => <>[](worker = "up" /\ applied = rev
                    /\ (rev > 0 => lastGood = cur))

-------------------------------------------------------------------------------
(***************************************************************************)
(* Claims of the repository that the code does not keep.                   *)
(***************************************************************************)

\* docs/protocol.md:152: a configuration that has not taken effect is never
\* anchored; whatever boot value the anchor stands for, a worker started with it.
AnchorTookEffect == lastGood # NoAnchor => Effective(lastGood) \in started

\* repo.rs:237-238, main.rs:201-203: a failure report rolls back the revision
\* that failed to start, and no newer one published meanwhile.
BlamedRevisionFailed == failedRev # 0 => failedRev \in failedStarts

\* engine.rs:1372: an older version that arrives late is skipped.  Here: a node that
\* reports the current revision, and fetches nothing at the moment, runs with the hot
\* values of that revision.
ConvergedHot ==
  Running /\ applied > 0 /\ applied = rev /\ (\A t \in Tasks : task[t].pc = "idle")
  => run.hot = cur.hot
===============================================================================
