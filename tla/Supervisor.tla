------------------------------ MODULE Supervisor ------------------------------
(***************************************************************************)
(* The master process, the worker it supervises, and what each leaves on   *)
(* the host.                                                                *)
(*                                                                         *)
(* The master (skiff-node/src/supervisor.rs, hosted by lib.rs) spawns a    *)
(* worker, waits for it and, unless it ended cleanly, spawns another after *)
(* a backoff.  A stop reaches it over a watch channel; it then writes      *)
(* stop.flag, waits for the worker, kills it after 15 seconds, and removes *)
(* the firewall rules before it ends.                                       *)
(*                                                                         *)
(* The worker (main.rs, engine.rs) boots, removes a stop.flag left behind, *)
(* looks for one every second, and ends with a code that tells why.  On    *)
(* Linux a thread of it brings the firewall rules in line with its ports   *)
(* (service_install.rs), remembering in a file what it opened; the process *)
(* may end between any two steps of that thread.                            *)
(*                                                                         *)
(* The hard kill of a master, which leaves an orphan worker, and hosts on  *)
(* which the node may not touch the firewall are left out.                  *)
(***************************************************************************)
EXTENDS Naturals, Sequences

CONSTANTS
  Ports,        \* the ports a worker may listen on
  Failures,     \* TRUE: firewall tools and file writes may fail
  MaxLaunches   \* bound: how often the node is started on this host

ASSUME LaunchesAssumption == MaxLaunches \in Nat
ASSUME FailuresAssumption == Failures \in BOOLEAN

\* BACKOFF_STEPS, in seconds.
BackoffSteps == <<1, 2, 5, 10, 30>>
LastStep == Len(BackoffSteps)

VARIABLES
  master,       \* "spawn", "wait", "graceful", "backoff", "cleanup", "done"
  consecutive,  \* restarts in a row, counted up to the last backoff step
  wait,         \* the last backoff, in seconds
  asked,        \* a signal or the service manager asked the master to stop
  told,         \* stop_rx holds true
  flag,         \* stop.flag exists in the data directory
  worker,       \* the child process
  sync,         \* its firewall thread: step and the ports in use
  rules,        \* ports the host's firewall lets in for the node
  memory,       \* runtime-firewall.json: ports remembered as let in
  launches      \* bound only

\* History, read by no guard: this engine was asked to stop since it started;
\* ports let in that the memory lost through a failed tool or write, or by the
\* end of the process between opening a port and remembering it.
VARIABLES fresh, leaked

mvars == <<master, consecutive, wait, told>>
hvars == <<asked, launches>>
fwvars == <<sync, rules, memory, leaked>>
vars == <<mvars, hvars, flag, worker, fwvars, fresh>>

NoWorker == [pc |-> "none", reason |-> "None", handler |-> FALSE,
             watching |-> FALSE, stable |-> FALSE]
NoSync == [pc |-> "idle", ports |-> {}]

Init ==
  /\ master = "spawn" /\ consecutive = 0 /\ wait = 0
  /\ asked = FALSE /\ told = FALSE
  /\ flag \in BOOLEAN
  /\ worker = NoWorker
  /\ sync = NoSync /\ rules = {} /\ memory = {}
  /\ launches = 1
  /\ fresh = FALSE /\ leaked = {}

Smaller(a, b) == IF a < b THEN a ELSE b
MayFail == IF Failures THEN BOOLEAN ELSE {FALSE}

\* The process ends with its firewall thread wherever it is.
EndSync ==
  /\ sync' = NoSync
  /\ leaked' = leaked \cup IF sync.pc = "write" THEN rules \ memory ELSE {}
  /\ UNCHANGED <<rules, memory>>

-------------------------------------------------------------------------------
(***************************************************************************)
(* The worker.                                                             *)
(***************************************************************************)

\* request_stop: the first reason stays.
RequestStop(reason) ==
  IF worker.pc = "up"
  THEN worker' = [worker EXCEPT !.pc = "stopping", !.reason = reason]
  ELSE UNCHANGED worker

\* Mutant: a flag that was there before the engine is left for its watcher.
EngineStartsKeepingFlag(ports) ==
  /\ worker.pc = "boot"
  /\ worker' = [worker EXCEPT !.pc = "up", !.watching = TRUE]
  /\ sync' = [pc |-> "remove", ports |-> ports]
  /\ fresh' = FALSE
  /\ UNCHANGED <<mvars, hvars, flag, rules, memory, leaked>>

\* The engine is up: a stop.flag left behind is removed, the watcher and the
\* firewall thread start.
EngineStarts(ports) ==
  /\ worker.pc = "boot"
  /\ worker' = [worker EXCEPT !.pc = "up", !.watching = TRUE]
  /\ flag' = FALSE
  /\ sync' = [pc |-> "remove", ports |-> ports]
  /\ fresh' = FALSE
  /\ UNCHANGED <<mvars, hvars, rules, memory, leaked>>

\* The task that turns an interrupt into a stop has been polled.
InstallHandler ==
  /\ worker.pc \in {"up", "stopping"} /\ ~worker.handler
  /\ worker' = [worker EXCEPT !.handler = TRUE]
  /\ UNCHANGED <<mvars, hvars, flag, fwvars, fresh>>

\* A configuration that does not load, an engine that does not start, a crash:
\* exit code 1, or none, which counts as 1.
Fails ==
  /\ worker.pc \in {"boot", "up", "stopping"}
  /\ worker' = [worker EXCEPT !.pc = "exited", !.reason = "Failed"]
  /\ EndSync
  /\ UNCHANGED <<mvars, hvars, flag, fresh>>

\* Mutant: the watcher removes the flag and nothing stops.
WatcherRemoves ==
  /\ worker.pc \in {"up", "stopping"} /\ worker.watching /\ flag
  /\ flag' = FALSE
  /\ worker' = [worker EXCEPT !.watching = FALSE]
  /\ UNCHANGED <<mvars, hvars, fwvars, fresh>>

\* The watcher finds the flag, removes it, asks for a stop and ends.  It still
\* runs while the engine stops for another reason.
WatcherSees ==
  /\ worker.pc \in {"up", "stopping"} /\ worker.watching /\ flag
  /\ flag' = FALSE
  /\ worker' = [worker EXCEPT
       !.watching = FALSE,
       !.pc = "stopping",
       !.reason = IF worker.pc = "up" THEN "Stopped" ELSE @]
  /\ UNCHANGED <<mvars, hvars, fwvars, fresh>>

\* restart_requested, or managed settings that take a restart.
RestartRequested ==
  /\ worker.pc = "up"
  /\ RequestStop("Restart")
  /\ UNCHANGED <<mvars, hvars, flag, fwvars, fresh>>

\* The main task has seen the stop: the process exits with 3 or with 0.
Exits ==
  /\ worker.pc = "stopping"
  /\ worker' = [worker EXCEPT !.pc = "exited"]
  /\ EndSync
  /\ UNCHANGED <<mvars, hvars, flag, fresh>>

\* A minute has passed since the spawn, whatever the worker did with it.
Ages ==
  /\ worker.pc \in {"boot", "up", "stopping"} /\ ~worker.stable
  /\ worker' = [worker EXCEPT !.stable = TRUE]
  /\ UNCHANGED <<mvars, hvars, flag, fwvars, fresh>>

-------------------------------------------------------------------------------
(***************************************************************************)
(* ensure_runtime_firewall, in the worker, on Linux.                       *)
(***************************************************************************)

\* linux_firewall goes through the ports and stops at the first that fails:
\* some subset has been dealt with.
Dealt(ports, fails) == IF fails THEN SUBSET ports ELSE {ports}

\* Mutant: ports that are no longer listened on stay open.
SyncRemoveNothing ==
  /\ sync.pc = "remove"
  /\ sync' = [sync EXCEPT !.pc = "add"]
  /\ UNCHANGED <<mvars, hvars, flag, worker, rules, memory, leaked, fresh>>

\* Ports remembered and no longer listened on are closed.
SyncRemove ==
  /\ sync.pc = "remove"
  /\ sync' = [sync EXCEPT !.pc = "add"]
  /\ \E fails \in MayFail : \E closed \in Dealt(memory \ sync.ports, fails) :
       /\ rules' = rules \ closed
       /\ leaked' = leaked \cup (rules \cap ((memory \ sync.ports) \ closed))
  /\ UNCHANGED <<mvars, hvars, flag, worker, memory, fresh>>

\* The ports listened on are opened; a failure is logged.
SyncAdd ==
  /\ sync.pc = "add"
  /\ sync' = [sync EXCEPT !.pc = "write"]
  /\ \E fails \in MayFail : \E opened \in Dealt(sync.ports, fails) :
       rules' = rules \cup opened
  /\ UNCHANGED <<mvars, hvars, flag, worker, memory, leaked, fresh>>

\* The ports wanted, opened or not, are remembered; that may fail too.
SyncWrite ==
  /\ sync.pc = "write"
  /\ sync' = [sync EXCEPT !.pc = "synced"]
  /\ \E fails \in MayFail :
       /\ memory' = IF fails THEN memory ELSE sync.ports
       /\ leaked' = leaked \cup IF fails THEN rules \ memory ELSE {}
  /\ UNCHANGED <<mvars, hvars, flag, worker, rules, fresh>>

-------------------------------------------------------------------------------
(***************************************************************************)
(* The operator and the service manager.                                   *)
(***************************************************************************)

Reached == worker.pc \in {"up", "stopping"}

\* `starskiff down` writes stop.flag, whatever runs.
Down ==
  /\ flag' = TRUE
  /\ fresh' = (fresh \/ Reached)
  /\ UNCHANGED <<mvars, hvars, worker, fwvars>>

\* The master alone is asked to stop: the service manager of Windows, a signal
\* sent to one process.
Signal ==
  /\ ~asked /\ master # "done"
  /\ asked' = TRUE
  /\ UNCHANGED <<mvars, launches, flag, worker, fwvars, fresh>>

\* Master and worker both get the signal: Ctrl-C in a console, systemd.  A
\* worker with a handler for it stops, one without dies.
SignalGroup ==
  /\ ~asked /\ master # "done"
  /\ asked' = TRUE
  /\ \/ /\ worker.pc \in {"up", "stopping"} /\ worker.handler
        /\ RequestStop("Stopped")
        /\ fresh' = TRUE
        /\ UNCHANGED fwvars
     \/ /\ worker.pc \in {"boot", "up", "stopping"}
        /\ worker' = [worker EXCEPT !.pc = "exited", !.reason = "Failed"]
        /\ EndSync
        /\ UNCHANGED fresh
  /\ UNCHANGED <<mvars, launches, flag>>

\* The host of the supervisor hands the request on.
Forward ==
  /\ asked /\ ~told
  /\ told' = TRUE
  /\ UNCHANGED <<master, consecutive, wait, hvars, flag, worker, fwvars, fresh>>

\* The node is started again, by hand or by the service manager.
Launch ==
  /\ master = "done" /\ launches < MaxLaunches
  /\ launches' = launches + 1
  /\ master' = "spawn" /\ consecutive' = 0 /\ wait' = 0
  /\ asked' = FALSE /\ told' = FALSE
  /\ UNCHANGED <<flag, worker, fwvars, fresh>>

-------------------------------------------------------------------------------
(***************************************************************************)
(* The master.                                                             *)
(***************************************************************************)

Spawn ==
  /\ master = "spawn"
  /\ master' = "wait"
  /\ worker' = [NoWorker EXCEPT !.pc = "boot"]
  /\ UNCHANGED <<consecutive, wait, told, hvars, flag, fwvars, fresh>>

SpawnFails ==
  /\ master = "spawn"
  /\ master' = "cleanup"
  /\ UNCHANGED <<consecutive, wait, told, hvars, flag, worker, fwvars, fresh>>

\* Mutant: the count is read and not raised.
RestartsStuck == IF worker.stable \/ consecutive = 0 THEN 1 ELSE consecutive

\* action_for_exit: restarts in a row, this one included, for the wait; a stable run
\* starts a new row ...
Rounds == IF worker.stable THEN 1 ELSE consecutive + 1

\* ... and run_supervisor: the same again, for the count that is kept.
Restarts == IF worker.stable THEN 1 ELSE consecutive + 1

\* Exit code 0 ends the master too.
WorkerStopped ==
  /\ master = "wait" /\ worker.pc = "exited" /\ worker.reason = "Stopped"
  /\ master' = "cleanup"
  /\ worker' = NoWorker
  /\ UNCHANGED <<consecutive, wait, told, hvars, flag, fwvars, fresh>>

\* Every other exit is followed by a restart after action_for_exit's backoff.
WorkerEnded ==
  /\ master = "wait" /\ worker.pc = "exited" /\ worker.reason # "Stopped"
  /\ master' = "backoff"
  /\ consecutive' = Smaller(Restarts, LastStep)
  /\ wait' = BackoffSteps[Smaller(Rounds, LastStep)]
  /\ worker' = NoWorker
  /\ UNCHANGED <<told, hvars, flag, fwvars, fresh>>

BackoffEnds ==
  /\ master = "backoff"
  /\ master' = "spawn"
  /\ UNCHANGED <<consecutive, wait, told, hvars, flag, worker, fwvars, fresh>>

\* A stop during the backoff ends the master at once.
BackoffStopped ==
  /\ master = "backoff" /\ told
  /\ master' = "cleanup"
  /\ UNCHANGED <<consecutive, wait, told, hvars, flag, worker, fwvars, fresh>>

\* graceful_stop writes the flag, or fails to, and waits.
GracefulStop ==
  /\ master = "wait" /\ told
  /\ master' = "graceful"
  /\ \E fails \in MayFail :
       /\ flag' = (flag \/ ~fails)
       /\ fresh' = (fresh \/ (Reached /\ ~fails))
  /\ UNCHANGED <<consecutive, wait, told, hvars, worker, fwvars>>

\* The worker ended in time; the master removes the flag.
GracefulEnds ==
  /\ master = "graceful" /\ worker.pc = "exited"
  /\ master' = "cleanup"
  /\ worker' = NoWorker
  /\ flag' = FALSE
  /\ UNCHANGED <<consecutive, wait, told, hvars, fwvars, fresh>>

\* Mutant: after the deadline the worker is left to itself.
GracefulTimesOutOnly ==
  /\ master = "graceful" /\ worker.pc # "exited"
  /\ master' = "cleanup"
  /\ flag' = FALSE
  /\ UNCHANGED <<consecutive, wait, told, hvars, worker, fwvars, fresh>>

\* 15 seconds have passed: the worker is killed.
GracefulTimesOut ==
  /\ master = "graceful" /\ worker.pc # "exited"
  /\ master' = "cleanup"
  /\ worker' = NoWorker
  /\ EndSync
  /\ flag' = FALSE
  /\ UNCHANGED <<consecutive, wait, told, hvars, fresh>>

\* Mutant: the memory of open ports is dropped before it is used.
CleanUpForgetting ==
  /\ master = "cleanup"
  /\ master' = "done"
  /\ memory' = {}
  /\ UNCHANGED <<consecutive, wait, told, hvars, flag, worker, sync, rules,
                 leaked, fresh>>

\* cleanup_runtime_firewall: the ports remembered are closed, as far as that
\* succeeds, and the memory is deleted.
CleanUp ==
  /\ master = "cleanup"
  /\ master' = "done"
  /\ \E fails \in MayFail : \E closed \in Dealt(memory, fails) :
       /\ rules' = rules \ closed
       /\ leaked' = leaked \cup (rules \cap (memory \ closed))
  /\ memory' = {}
  /\ UNCHANGED <<consecutive, wait, told, hvars, flag, worker, sync, fresh>>

-------------------------------------------------------------------------------
WorkerStep ==
  \/ \E ports \in SUBSET Ports : EngineStarts(ports)
  \/ InstallHandler \/ Fails \/ WatcherSees \/ RestartRequested \/ Exits \/ Ages
  \/ SyncRemove \/ SyncAdd \/ SyncWrite

MasterStep ==
  \/ Spawn \/ SpawnFails \/ WorkerStopped \/ WorkerEnded
  \/ BackoffEnds \/ BackoffStopped
  \/ GracefulStop \/ GracefulEnds \/ GracefulTimesOut \/ CleanUp

Operator == Down \/ Signal \/ SignalGroup \/ Forward \/ Launch

Next == WorkerStep \/ MasterStep \/ Operator

\* The master, its host and the deadline it sets run on timers and wake-ups of
\* their own; the watcher polls, and a main task that was woken ends.  Nothing
\* says that a worker ever finishes booting.
Fairness ==
  /\ WF_vars(MasterStep)
  /\ SF_vars(GracefulStop \/ BackoffStopped)
  /\ WF_vars(Forward)
  /\ WF_vars(WatcherSees) /\ WF_vars(Exits)

Spec == Init /\ [][Next]_vars /\ Fairness

-------------------------------------------------------------------------------
(***************************************************************************)
(* Properties.                                                             *)
(***************************************************************************)

TypeOK ==
  /\ master \in {"spawn", "wait", "graceful", "backoff", "cleanup", "done"}
  /\ consecutive \in 0 .. LastStep
  /\ wait \in {0} \cup {BackoffSteps[i] : i \in 1 .. LastStep}
  /\ asked \in BOOLEAN /\ told \in BOOLEAN /\ flag \in BOOLEAN
  /\ worker \in [pc : {"none", "boot", "up", "stopping", "exited"},
                 reason : {"None", "Stopped", "Restart", "Failed"},
                 handler : BOOLEAN, watching : BOOLEAN, stable : BOOLEAN]
  /\ sync \in [pc : {"idle", "remove", "add", "write", "synced"},
               ports : SUBSET Ports]
  /\ sync.pc # "idle" => worker.pc \in {"up", "stopping"}
  /\ rules \subseteq Ports /\ memory \subseteq Ports
  /\ launches \in Nat
  /\ fresh \in BOOLEAN /\ leaked \subseteq Ports

\* An engine stops as asked only if it was asked since it started: a flag from
\* before, left by a master that ended or by a `down` that found nothing
\* running, does not stop it (engine.rs:1004-1007).
StoppedWasAsked == worker.reason = "Stopped" => fresh

\* When the master has ended no worker runs, and no port is open but those lost
\* from the memory by a failure or an untimely end (supervisor.rs:108-109).
NothingOutlivesMaster ==
  master = "done" => worker.pc = "none" /\ rules \subseteq leaked

\* A master asked to stop ends, whatever state it and its worker are in.
SignalEndsMaster == asked ~> master = "done"

\* A flag that a running engine can see ends the node, unless that worker ends
\* for another reason first.
DownObeyed ==
  flag /\ worker.pc = "up"
    ~> \/ master = "done"
       \/ worker.pc = "exited" /\ worker.reason # "Stopped"

\* A stop is obeyed, by signal and by flag.
StopsObeyed == SignalEndsMaster /\ DownObeyed

\* Each worker that ends before it was stable makes the master wait longer than
\* it did after the one before, up to the longest wait.
QuickEndsSlowDown ==
  [][master = "wait" /\ master' = "backoff" /\ ~worker.stable
       => wait' > wait \/ wait' = BackoffSteps[LastStep]]_vars

-------------------------------------------------------------------------------
(***************************************************************************)
(* A claim of the repository that the code does not keep.                   *)
(***************************************************************************)

\* service_install.rs:222-224: a start after a hard end brings the rules in line
\* with the ports in use.  With no tool failing, a port that was opened and not
\* yet remembered when the worker ended stays open.
AlignedAfterSync == sync.pc = "synced" => rules = sync.ports
===============================================================================
