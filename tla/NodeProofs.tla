----------------------------- MODULE NodeProofs -------------------------------
(***************************************************************************)
(* Proofs about the processes of a node, each for itself: Supervisor, for   *)
(* any set of ports and any number of starts, and the Roster of a worker,   *)
(* for any networks, peers, tasks and changes.                              *)
(***************************************************************************)
EXTENDS Supervisor, Roster, TLAPS

LEMMA Steps ==
  /\ LastStep = 5
  /\ BackoffSteps[1] = 1 /\ BackoffSteps[2] = 2 /\ BackoffSteps[3] = 5
  /\ BackoffSteps[4] = 10 /\ BackoffSteps[5] = 30
BY DEF LastStep, BackoffSteps

LEMMA MayFailIsBoolean == MayFail \subseteq BOOLEAN
BY DEF MayFail

LEMMA DealtIsPart ==
  ASSUME NEW ports, NEW fails, NEW part \in Dealt(ports, fails)
  PROVE  part \subseteq ports
BY DEF Dealt

-------------------------------------------------------------------------------
(***************************************************************************)
(* Types.                                                                  *)
(***************************************************************************)

Waits == {0} \cup {BackoffSteps[i] : i \in 1 .. LastStep}

WorkerType ==
  [pc : {"none", "boot", "up", "stopping", "exited"},
   reason : {"None", "Stopped", "Restart", "Failed"},
   handler : BOOLEAN, watching : BOOLEAN, stable : BOOLEAN]

SyncType == [pc : {"idle", "remove", "add", "write", "synced"}, ports : SUBSET Ports]

LEMMA NoWorkerType == NoWorker \in WorkerType /\ NoWorker.pc = "none"
BY DEF NoWorker, WorkerType

LEMMA NoSyncType == NoSync \in SyncType /\ NoSync.pc = "idle"
BY DEF NoSync, SyncType

LEMMA RestartsType ==
  ASSUME consecutive \in 0 .. LastStep, worker \in WorkerType
  PROVE  /\ Rounds = Restarts
         /\ Smaller(Restarts, LastStep) \in 1 .. LastStep
         /\ BackoffSteps[Smaller(Rounds, LastStep)] \in Waits
<1>1. Smaller(Restarts, LastStep) \in 1 .. LastStep /\ Rounds = Restarts
  BY Steps DEF Restarts, Rounds, Smaller
<1>2. QED
  BY <1>1 DEF Waits

\* A worker runs only while the master waits for it.
WorkerWaited ==
  master \in {"spawn", "backoff", "cleanup", "done"} => worker.pc = "none"

Typed == TypeOK /\ WorkerWaited

LEMMA TypeInit == Init => Typed
<1> SUFFICES ASSUME Init PROVE Typed
  OBVIOUS
<1>1. worker \in WorkerType /\ sync \in SyncType /\ worker.pc = "none" /\ sync.pc = "idle"
  BY NoWorkerType, NoSyncType DEF Init
<1>2. consecutive \in 0 .. LastStep /\ wait \in Waits /\ launches \in Nat
  BY Steps DEF Init, Waits
<1>3. QED
  BY <1>1, <1>2 DEF Init, TypeOK, Typed, WorkerWaited, WorkerType, SyncType, Waits

LEMMA TypeNext == Typed /\ [Next]_vars => Typed'
<1> SUFFICES ASSUME TypeOK, WorkerWaited, [Next]_vars PROVE TypeOK' /\ WorkerWaited'
  BY DEF Typed
<1> USE DEF WorkerType, SyncType, mvars, hvars, fwvars
<1>1. ASSUME NEW ports \in SUBSET Ports, EngineStarts(ports)
       PROVE TypeOK' /\ WorkerWaited'
  BY <1>1 DEF TypeOK, WorkerWaited, EngineStarts
<1>2. CASE InstallHandler
  BY <1>2 DEF TypeOK, WorkerWaited, InstallHandler
<1>3. CASE Fails
  BY <1>3, NoSyncType DEF TypeOK, WorkerWaited, Fails, EndSync
<1>4. CASE WatcherSees
  <2>1. worker' \in WorkerType
    BY <1>4 DEF TypeOK, WorkerWaited, WatcherSees
  <2>2. QED
    BY <1>4, <2>1 DEF TypeOK, WorkerWaited, WatcherSees
<1>5. CASE RestartRequested
  <2>1. worker' \in WorkerType /\ worker'.pc = "stopping"
    BY <1>5 DEF TypeOK, WorkerWaited, RestartRequested, RequestStop
  <2>2. QED
    BY <1>5, <2>1 DEF TypeOK, WorkerWaited, RestartRequested
<1>6. CASE Exits
  BY <1>6, NoSyncType DEF TypeOK, WorkerWaited, Exits, EndSync
<1>7. CASE Ages
  BY <1>7 DEF TypeOK, WorkerWaited, Ages
<1>8. CASE SyncRemove
  BY <1>8 DEF TypeOK, WorkerWaited, SyncRemove
<1>9. CASE SyncAdd
  BY <1>9, DealtIsPart DEF TypeOK, WorkerWaited, SyncAdd
<1>10. CASE SyncWrite
  BY <1>10 DEF TypeOK, WorkerWaited, SyncWrite
<1>11. CASE Down
  BY <1>11 DEF TypeOK, WorkerWaited, Down, Reached
<1>12. CASE Signal
  BY <1>12 DEF TypeOK, WorkerWaited, Signal
<1>13. CASE SignalGroup
  <2>1. CASE worker.pc \in {"up", "stopping"} /\ RequestStop("Stopped")
             /\ fresh' = TRUE /\ UNCHANGED fwvars
    BY <1>13, <2>1 DEF TypeOK, WorkerWaited, SignalGroup, RequestStop
  <2>2. CASE worker' = [worker EXCEPT !.pc = "exited", !.reason = "Failed"]
             /\ EndSync /\ UNCHANGED fresh
    BY <1>13, <2>2, NoSyncType DEF TypeOK, WorkerWaited, SignalGroup, EndSync
  <2>3. QED
    BY <1>13, <2>1, <2>2 DEF SignalGroup
<1>14. CASE Forward
  BY <1>14 DEF TypeOK, WorkerWaited, Forward
<1>15. CASE Launch
  <2>1. wait' = 0 /\ consecutive' \in 0 .. LastStep /\ launches' \in Nat
    BY <1>15, Steps DEF TypeOK, WorkerWaited, Launch
  <2>2. QED
    BY <1>15, <2>1 DEF TypeOK, WorkerWaited, Launch
<1>16. CASE Spawn
  <2>1. worker' \in WorkerType /\ worker'.pc = "boot" /\ sync.pc = "idle"
    BY <1>16 DEF TypeOK, WorkerWaited, Spawn, NoWorker
  <2>2. QED
    BY <1>16, <2>1 DEF TypeOK, WorkerWaited, Spawn
<1>17. CASE SpawnFails
  BY <1>17 DEF TypeOK, WorkerWaited, SpawnFails
<1>18. CASE WorkerStopped
  BY <1>18, NoWorkerType DEF TypeOK, WorkerWaited, WorkerStopped
<1>19. CASE WorkerEnded
  <2>1. consecutive' \in 0 .. LastStep /\ wait' \in Waits
    BY <1>19, RestartsType, Steps DEF TypeOK, WorkerWaited, WorkerEnded
  <2>2. QED
    BY <1>19, <2>1, NoWorkerType DEF TypeOK, WorkerWaited, WorkerEnded, Waits
<1>20. CASE BackoffEnds
  BY <1>20 DEF TypeOK, WorkerWaited, BackoffEnds
<1>21. CASE BackoffStopped
  BY <1>21 DEF TypeOK, WorkerWaited, BackoffStopped
<1>22. CASE GracefulStop
  BY <1>22, MayFailIsBoolean DEF TypeOK, WorkerWaited, GracefulStop, Reached
<1>23. CASE GracefulEnds
  BY <1>23, NoWorkerType DEF TypeOK, WorkerWaited, GracefulEnds
<1>24. CASE GracefulTimesOut
  BY <1>24, NoWorkerType, NoSyncType DEF TypeOK, WorkerWaited, GracefulTimesOut, EndSync
<1>25. CASE CleanUp
  BY <1>25 DEF TypeOK, WorkerWaited, CleanUp
<1>26. CASE UNCHANGED vars
  BY <1>26 DEF TypeOK, WorkerWaited, vars
<1>27. QED
  BY <1>1, <1>2, <1>3, <1>4, <1>5, <1>6, <1>7, <1>8, <1>9, <1>10, <1>11, <1>12,
     <1>13, <1>14, <1>15, <1>16, <1>17, <1>18, <1>19, <1>20, <1>21, <1>22, <1>23,
     <1>24, <1>25, <1>26
     DEF Next, WorkerStep, MasterStep, Operator

\* Every variable keeps its type, and a firewall thread has its process.
THEOREM TypeCorrect == Spec => []TypeOK
<1>1. QED
  BY TypeInit, TypeNext, PTL DEF Spec, Typed
-------------------------------------------------------------------------------
(***************************************************************************)
(* Flags from before an engine.                                            *)
(***************************************************************************)

\* A flag an engine can see was written, or its stop asked for, since it started.
Asked ==
  /\ worker.pc \in {"none", "boot", "up"} => worker.reason = "None"
  /\ worker.pc = "up" /\ flag => fresh
  /\ StoppedWasAsked

LEMMA AskedNext == TypeOK /\ Asked /\ [Next]_vars => Asked'
<1> SUFFICES ASSUME TypeOK, Asked, [Next]_vars PROVE Asked'
  OBVIOUS
<1> USE DEF TypeOK, Asked, StoppedWasAsked, mvars, hvars, fwvars
<1>1. ASSUME NEW ports \in SUBSET Ports, EngineStarts(ports) PROVE Asked'
  BY <1>1 DEF EngineStarts
<1>2. CASE InstallHandler
  BY <1>2 DEF InstallHandler
<1>3. CASE Fails
  BY <1>3 DEF Fails, EndSync
<1>4. CASE WatcherSees
  BY <1>4 DEF WatcherSees
<1>5. CASE RestartRequested
  BY <1>5 DEF RestartRequested, RequestStop
<1>6. CASE Exits
  BY <1>6 DEF Exits, EndSync
<1>7. CASE Ages
  BY <1>7 DEF Ages
<1>8. CASE SyncRemove
  BY <1>8 DEF SyncRemove
<1>9. CASE SyncAdd
  BY <1>9 DEF SyncAdd
<1>10. CASE SyncWrite
  BY <1>10 DEF SyncWrite
<1>11. CASE Down
  BY <1>11 DEF Down, Reached
<1>12. CASE Signal
  BY <1>12 DEF Signal
<1>13. CASE SignalGroup
  <2>1. CASE worker.pc \in {"up", "stopping"} /\ RequestStop("Stopped") /\ fresh' = TRUE
    <3>1. worker'.pc = "stopping"
      BY <2>1 DEF RequestStop
    <3>2. QED
      BY <2>1, <3>1
  <2>2. CASE worker' = [worker EXCEPT !.pc = "exited", !.reason = "Failed"]
    BY <2>2
  <2>3. QED
    BY <1>13, <2>1, <2>2 DEF SignalGroup
<1>14. CASE Forward
  BY <1>14 DEF Forward
<1>15. CASE Launch
  BY <1>15 DEF Launch
<1>16. CASE Spawn
  BY <1>16 DEF Spawn, NoWorker
<1>17. CASE SpawnFails
  BY <1>17 DEF SpawnFails
<1>18. CASE WorkerStopped
  BY <1>18 DEF WorkerStopped, NoWorker
<1>19. CASE WorkerEnded
  BY <1>19 DEF WorkerEnded, NoWorker
<1>20. CASE BackoffEnds
  BY <1>20 DEF BackoffEnds
<1>21. CASE BackoffStopped
  BY <1>21 DEF BackoffStopped
<1>22. CASE GracefulStop
  BY <1>22 DEF GracefulStop, Reached
<1>23. CASE GracefulEnds
  BY <1>23 DEF GracefulEnds, NoWorker
<1>24. CASE GracefulTimesOut
  BY <1>24 DEF GracefulTimesOut, NoWorker, EndSync
<1>25. CASE CleanUp
  BY <1>25 DEF CleanUp
<1>26. CASE UNCHANGED vars
  BY <1>26 DEF vars
<1>27. QED
  BY <1>1, <1>2, <1>3, <1>4, <1>5, <1>6, <1>7, <1>8, <1>9, <1>10, <1>11, <1>12, <1>13,
     <1>14, <1>15, <1>16, <1>17, <1>18, <1>19, <1>20, <1>21, <1>22, <1>23, <1>24, <1>25, <1>26
     DEF Next, WorkerStep, MasterStep, Operator

\* A flag left from before an engine never stops it.
THEOREM StopsAreAsked == Spec => []StoppedWasAsked
<1>1. Init => Asked
  BY DEF Init, Asked, StoppedWasAsked, NoWorker
<1>2. QED
  BY <1>1, AskedNext, TypeCorrect, PTL DEF Spec, Asked

-------------------------------------------------------------------------------
(***************************************************************************)
(* What is left when the master has ended.                                 *)
(***************************************************************************)

\* Every open port is remembered, about to be, or known to be lost; while the
\* thread is past its removals, ports no longer in use are closed or lost.
Remembered ==
  /\ rules \subseteq memory \cup leaked \cup (IF sync.pc = "write" THEN sync.ports ELSE {})
  /\ sync.pc \in {"add", "write"} => rules \cap (memory \ sync.ports) \subseteq leaked
  /\ master = "done" => memory = {}

LEMMA RememberedNext == Typed /\ Remembered /\ [Next]_vars => Remembered'
<1> SUFFICES ASSUME TypeOK, WorkerWaited, Remembered, [Next]_vars PROVE Remembered'
  BY DEF Typed
<1> USE DEF TypeOK, WorkerWaited, Remembered, NoSync, mvars, hvars, fwvars
<1>1. ASSUME NEW ports \in SUBSET Ports, EngineStarts(ports) PROVE Remembered'
  BY <1>1 DEF EngineStarts
<1>2. CASE InstallHandler
  BY <1>2 DEF InstallHandler
<1>3. CASE Fails
  BY <1>3 DEF Fails, EndSync
<1>4. CASE WatcherSees
  BY <1>4 DEF WatcherSees
<1>5. CASE RestartRequested
  BY <1>5 DEF RestartRequested, RequestStop
<1>6. CASE Exits
  BY <1>6 DEF Exits, EndSync
<1>7. CASE Ages
  BY <1>7 DEF Ages
<1>8. CASE SyncRemove
  BY <1>8, DealtIsPart DEF SyncRemove
<1>9. CASE SyncAdd
  BY <1>9, DealtIsPart DEF SyncAdd
<1>10. CASE SyncWrite
  BY <1>10 DEF SyncWrite
<1>11. CASE Down
  BY <1>11 DEF Down, Reached
<1>12. CASE Signal
  BY <1>12 DEF Signal
<1>13. CASE SignalGroup
  BY <1>13 DEF SignalGroup, RequestStop, EndSync
<1>14. CASE Forward
  BY <1>14 DEF Forward
<1>15. CASE Launch
  BY <1>15 DEF Launch
<1>16. CASE Spawn
  BY <1>16 DEF Spawn, NoWorker
<1>17. CASE SpawnFails
  BY <1>17 DEF SpawnFails
<1>18. CASE WorkerStopped
  BY <1>18 DEF WorkerStopped, NoWorker
<1>19. CASE WorkerEnded
  BY <1>19 DEF WorkerEnded, NoWorker
<1>20. CASE BackoffEnds
  BY <1>20 DEF BackoffEnds
<1>21. CASE BackoffStopped
  BY <1>21 DEF BackoffStopped
<1>22. CASE GracefulStop
  BY <1>22 DEF GracefulStop, Reached
<1>23. CASE GracefulEnds
  BY <1>23 DEF GracefulEnds, NoWorker
<1>24. CASE GracefulTimesOut
  BY <1>24 DEF GracefulTimesOut, NoWorker, EndSync
<1>25. CASE CleanUp
  BY <1>25, DealtIsPart DEF CleanUp
<1>26. CASE UNCHANGED vars
  BY <1>26 DEF vars
<1>27. QED
  BY <1>1, <1>2, <1>3, <1>4, <1>5, <1>6, <1>7, <1>8, <1>9, <1>10, <1>11, <1>12, <1>13,
     <1>14, <1>15, <1>16, <1>17, <1>18, <1>19, <1>20, <1>21, <1>22, <1>23, <1>24, <1>25, <1>26
     DEF Next, WorkerStep, MasterStep, Operator

\* No worker and no open port outlives the master, but ports lost to a failure or
\* to the end of a worker at the wrong moment.
THEOREM MasterLeavesNothing == Spec => []NothingOutlivesMaster
<1>1. Init => Remembered
  BY DEF Init, Remembered, NoSync
<1>2. Typed /\ Remembered => NothingOutlivesMaster
  BY DEF Typed, TypeOK, WorkerWaited, Remembered, NothingOutlivesMaster
<1>3. QED
  BY <1>1, <1>2, TypeInit, TypeNext, RememberedNext, PTL DEF Spec

-------------------------------------------------------------------------------
(***************************************************************************)
(* The backoff.                                                            *)
(***************************************************************************)

\* The last wait is the one the restarts in a row call for.
Paced == wait = IF consecutive = 0 THEN 0 ELSE BackoffSteps[consecutive]

LEMMA PacedNext == TypeOK /\ Paced /\ [Next]_vars => Paced'
<1> SUFFICES ASSUME TypeOK, Paced, [Next]_vars PROVE Paced'
  OBVIOUS
<1> USE DEF Paced, mvars, hvars, fwvars
<1>1. ASSUME NEW ports \in SUBSET Ports, EngineStarts(ports) PROVE Paced'
  BY <1>1 DEF EngineStarts
<1>2. CASE InstallHandler
  BY <1>2 DEF InstallHandler
<1>3. CASE Fails
  BY <1>3 DEF Fails, EndSync
<1>4. CASE WatcherSees
  BY <1>4 DEF WatcherSees
<1>5. CASE RestartRequested
  BY <1>5 DEF RestartRequested, RequestStop
<1>6. CASE Exits
  BY <1>6 DEF Exits, EndSync
<1>7. CASE Ages
  BY <1>7 DEF Ages
<1>8. CASE SyncRemove
  BY <1>8 DEF SyncRemove
<1>9. CASE SyncAdd
  BY <1>9 DEF SyncAdd
<1>10. CASE SyncWrite
  BY <1>10 DEF SyncWrite
<1>11. CASE Down
  BY <1>11 DEF Down, Reached
<1>12. CASE Signal
  BY <1>12 DEF Signal
<1>13. CASE SignalGroup
  BY <1>13 DEF SignalGroup, RequestStop, EndSync
<1>14. CASE Forward
  BY <1>14 DEF Forward
<1>15. CASE Launch
  BY <1>15 DEF Launch
<1>16. CASE Spawn
  BY <1>16 DEF Spawn, NoWorker
<1>17. CASE SpawnFails
  BY <1>17 DEF SpawnFails
<1>18. CASE WorkerStopped
  BY <1>18 DEF WorkerStopped, NoWorker
<1>19. CASE WorkerEnded
  <2>1. Smaller(Restarts, LastStep) \in 1 .. LastStep /\ Rounds = Restarts
    BY RestartsType DEF TypeOK, WorkerType
  <2>2. QED
    BY <1>19, <2>1, Steps DEF WorkerEnded
<1>20. CASE BackoffEnds
  BY <1>20 DEF BackoffEnds
<1>21. CASE BackoffStopped
  BY <1>21 DEF BackoffStopped
<1>22. CASE GracefulStop
  BY <1>22 DEF GracefulStop, Reached
<1>23. CASE GracefulEnds
  BY <1>23 DEF GracefulEnds, NoWorker
<1>24. CASE GracefulTimesOut
  BY <1>24 DEF GracefulTimesOut, NoWorker, EndSync
<1>25. CASE CleanUp
  BY <1>25 DEF CleanUp
<1>26. CASE UNCHANGED vars
  BY <1>26 DEF vars
<1>27. QED
  BY <1>1, <1>2, <1>3, <1>4, <1>5, <1>6, <1>7, <1>8, <1>9, <1>10, <1>11, <1>12, <1>13,
     <1>14, <1>15, <1>16, <1>17, <1>18, <1>19, <1>20, <1>21, <1>22, <1>23, <1>24, <1>25, <1>26
     DEF Next, WorkerStep, MasterStep, Operator

\* Each worker that ends too soon makes the master wait longer, up to the longest.
THEOREM QuickEndsAlwaysSlowDown == Spec => QuickEndsSlowDown
<1> DEFINE Slower ==
      master = "wait" /\ master' = "backoff" /\ ~worker.stable
        => wait' > wait \/ wait' = BackoffSteps[LastStep]
<1>1. Init => Paced
  BY DEF Init, Paced
<1>2. TypeOK /\ Paced /\ [Next]_vars => [Slower]_vars
  <2>1. SUFFICES ASSUME TypeOK, Paced, Next,
                        master = "wait", master' = "backoff", ~worker.stable
                 PROVE  wait' > wait \/ wait' = BackoffSteps[LastStep]
    OBVIOUS
  <2>2. WorkerEnded
    BY <2>1 DEF Next, WorkerStep, MasterStep, Operator, EngineStarts, InstallHandler,
       Fails, WatcherSees, RestartRequested, Exits, Ages, SyncRemove, SyncAdd, SyncWrite,
       Down, Signal, SignalGroup, Forward, Launch, Spawn, SpawnFails, WorkerStopped,
       BackoffEnds, BackoffStopped, GracefulStop, GracefulEnds, GracefulTimesOut,
       CleanUp, mvars
  <2>3. consecutive \in 0 .. 5 /\ Rounds = consecutive + 1
    BY <2>1, Steps DEF TypeOK, Rounds
  <2>4. wait' = BackoffSteps[Smaller(consecutive + 1, 5)]
    BY <2>2, <2>3, Steps DEF WorkerEnded
  <2>5. QED
    BY <2>1, <2>3, <2>4, Steps DEF Paced, Smaller
<1>3. QED
  BY <1>1, <1>2, PacedNext, TypeCorrect, PTL DEF Spec, QuickEndsSlowDown

-------------------------------------------------------------------------------
(***************************************************************************)
(* The networks of a worker: types and what the sweep has in hand.         *)
(***************************************************************************)

Stands == {"idle", "listing", "listed", "start", "flagged"} \cup Sweeping
Answers == [net : SUBSET Networks, list : SUBSET (Networks \X Peers), version : 0 .. MaxChanges]
TaskStates == [pc : Stands, todo : SUBSET Networks, answer : Answers]

Locked == \A t \in Tasks : refreshLock = t <=> task[t].pc \in Sweeping

\* The networks a sweep has still to ask for, and the one it has an answer about, are
\* networks the node runs: only a sweep drops any.
AnswersOfNetworks ==
  \A t \in Tasks :
    /\ task[t].pc \in {"asking", "answered"} => task[t].todo \subseteq networks
    /\ task[t].pc = "answered" =>
         /\ task[t].answer.net \subseteq networks
         /\ \A q \in task[t].answer.list : q[1] \in task[t].answer.net

\* A task that goes from one place to another, but for the one that gets an answer.
LEMMA TaskGoes ==
  ASSUME RosterTypeOK, NEW t \in Tasks, NEW from, NEW to \in Stands,
         NEW todo \in SUBSET Networks, Goes(t, from, to, todo)
  PROVE  /\ task[t].pc = from /\ task'[t] = At(to, todo)
         /\ task'[t].pc = to /\ task'[t].todo = todo
         /\ \A s \in Tasks : s # t => task'[s] = task[s]
         /\ task' \in [Tasks -> TaskStates]
<1>1. task \in [Tasks -> TaskStates]
  BY DEF RosterTypeOK, TaskStates, Stands, Answers
<1>2. At(to, todo) \in TaskStates /\ At(to, todo).pc = to /\ At(to, todo).todo = todo
  BY RosterBoundsAssumption DEF At, NoAnswer, TaskStates, Answers
<1>3. QED
  BY <1>1, <1>2 DEF Goes

LEMMA LockKept ==
  ASSUME RosterTypeOK, NEW t \in Tasks, NEW from, NEW to \in Stands,
         NEW todo \in SUBSET Networks, Goes(t, from, to, todo),
         from \in Sweeping <=> to \in Sweeping, UNCHANGED refreshLock
  PROVE  Locked'
BY TaskGoes DEF RosterTypeOK, Locked

LEMMA AnswersKept ==
  ASSUME RosterTypeOK, AnswersOfNetworks, NEW t \in Tasks, NEW from, NEW to \in Stands,
         NEW todo \in SUBSET Networks, Goes(t, from, to, todo),
         to # "answered", to = "asking" => todo \subseteq networks, UNCHANGED networks
  PROVE  AnswersOfNetworks'
BY TaskGoes DEF AnswersOfNetworks

LEMMA AnswersStay ==
  ASSUME AnswersOfNetworks, UNCHANGED task, networks \subseteq networks'
  PROVE  AnswersOfNetworks'
BY DEF AnswersOfNetworks

\* Two tasks never sweep at the same time.
LEMMA OneSweep ==
  ASSUME RosterTypeOK, NEW s \in Tasks, NEW t \in Tasks,
         task[s].pc \in Sweeping, task[t].pc \in Sweeping
  PROVE  s = t
BY DEF RosterTypeOK

\* The parts of the type invariant that a step of a task may disturb.
LEMMA RosterTypeByParts ==
  ASSUME task \in [Tasks -> TaskStates], Locked,
         member \subseteq Networks /\ others \subseteq Networks \X Peers,
         changes \in 0 .. MaxChanges /\ kicks \subseteq Networks,
         entry \in [Networks -> {"none", "admitted", "registered"}],
         phase \in {"list", "configs", "running"},
         listed \subseteq Networks /\ configured \subseteq listed,
         networks \subseteq listed /\ roster \subseteq Networks,
         peers \subseteq Networks \X Peers,
         refreshPending \in BOOLEAN /\ refreshLock \in Tasks \cup {NoTask},
         ws \in [Networks -> {"down", "up"}] /\ inbox \subseteq Networks,
         departed \subseteq Networks /\ blank \in BOOLEAN,
         applied \in [Networks -> 0 .. MaxChanges] /\ failures \in 0 .. MaxFailures,
         SessionsInNetworks
  PROVE  RosterTypeOK
BY DEF RosterTypeOK, TaskStates, Stands, Answers, Locked

LEMMA RosterTypeInit == RosterInit => RosterTypeOK /\ AnswersOfNetworks
<1> SUFFICES ASSUME RosterInit PROVE RosterTypeOK /\ AnswersOfNetworks
  OBVIOUS
<1>1. Idle \in TaskStates /\ Idle.pc = "idle"
  BY RosterBoundsAssumption DEF Idle, At, NoAnswer, TaskStates, Stands, Answers
<1>2. task \in [Tasks -> TaskStates] /\ \A t \in Tasks : task[t].pc = "idle"
  BY <1>1 DEF RosterInit
<1>3. Locked /\ AnswersOfNetworks
  BY <1>2, TasksAssumption DEF Locked, AnswersOfNetworks, RosterInit, Sweeping
<1>4. 0 \in 0 .. MaxChanges /\ 0 \in 0 .. MaxFailures
  BY RosterBoundsAssumption
<1>5. QED
  BY <1>2, <1>3, <1>4, RosterTypeByParts DEF RosterInit, SessionsInNetworks

\* The server's steps.
LEMMA ServerType ==
  ASSUME RosterTypeOK, AnswersOfNetworks, ServerSteps
  PROVE  RosterTypeOK' /\ AnswersOfNetworks'
<1> USE DEF server, boot, state, flags, sockets, history
<1>1. UNCHANGED <<boot, state, flags, task, blank, applied, failures>>
  BY DEF ServerSteps, Leave, Kick, Join, WsRegisters, WsEnds, PeerChanges
<1>2. AnswersOfNetworks'
  BY <1>1, AnswersStay
<1>3. ASSUME Change PROVE changes' \in 0 .. MaxChanges
  BY <1>3, RosterBoundsAssumption DEF Change, RosterTypeOK
<1>4. ASSUME /\ member' \subseteq Networks /\ others' \subseteq Networks \X Peers
             /\ changes' \in 0 .. MaxChanges
             /\ kicks' \subseteq Networks /\ inbox' \subseteq Networks /\ departed' \subseteq Networks
             /\ entry' \in [Networks -> {"none", "admitted", "registered"}]
             /\ ws' \in [Networks -> {"down", "up"}]
      PROVE  RosterTypeOK' /\ AnswersOfNetworks'
  BY <1>1, <1>2, <1>4 DEF RosterTypeOK, SessionsInNetworks
<1>5. Registered \subseteq Networks
  BY DEF Registered
<1>6. ASSUME NEW n \in Networks, Leave(n) PROVE RosterTypeOK' /\ AnswersOfNetworks'
  BY <1>3, <1>4, <1>6 DEF Leave, RosterTypeOK
<1>7. ASSUME NEW n \in Networks, Kick(n) PROVE RosterTypeOK' /\ AnswersOfNetworks'
  BY <1>4, <1>5, <1>7 DEF Kick, RosterTypeOK
<1>8. ASSUME NEW n \in Networks, Join(n) PROVE RosterTypeOK' /\ AnswersOfNetworks'
  BY <1>3, <1>4, <1>5, <1>8 DEF Join, RosterTypeOK
<1>9. ASSUME NEW n \in Networks, WsRegisters(n) PROVE RosterTypeOK' /\ AnswersOfNetworks'
  BY <1>4, <1>9 DEF WsRegisters, RosterTypeOK
<1>10. ASSUME NEW n \in Networks, WsEnds(n) PROVE RosterTypeOK' /\ AnswersOfNetworks'
  BY <1>4, <1>10 DEF WsEnds, RosterTypeOK
<1>11. ASSUME NEW n \in Networks, NEW p \in Peers, PeerChanges(n, p)
       PROVE  RosterTypeOK' /\ AnswersOfNetworks'
  <2>1. others' \subseteq Networks \X Peers
    BY <1>11 DEF PeerChanges, RosterTypeOK
  <2>2. QED
    BY <1>3, <1>4, <1>11, <2>1 DEF PeerChanges, RosterTypeOK
<1>12. QED
  BY <1>6, <1>7, <1>8, <1>9, <1>10, <1>11 DEF ServerSteps

\* One more request has failed.
LEMMA FailureCounted ==
  ASSUME RosterTypeOK, RequestFails
  PROVE  failures' \in 0 .. MaxFailures
BY RosterBoundsAssumption DEF RosterTypeOK, RequestFails

LEMMA BootType ==
  ASSUME RosterTypeOK, AnswersOfNetworks, phase = "list" => listed = {}, BootSteps
  PROVE  RosterTypeOK' /\ AnswersOfNetworks'
<1> USE DEF server, boot, state, flags, sockets, history
<1>1. CASE BootList
  <2>1. AnswersOfNetworks'
    BY <1>1, AnswersStay DEF BootList
  <2>2. QED
    BY <1>1, <2>1 DEF BootList, RosterTypeOK, SessionsInNetworks
<1>2. ASSUME NEW n \in Networks, BootConfig(n) PROVE RosterTypeOK' /\ AnswersOfNetworks'
  <2>1. AnswersOfNetworks'
    BY <1>2, AnswersStay DEF BootConfig
  <2>2. QED
    BY <1>2, <2>1 DEF BootConfig, RosterTypeOK, SessionsInNetworks
<1>3. ASSUME NEW n \in Networks, BootConfigFails(n) PROVE RosterTypeOK' /\ AnswersOfNetworks'
  <2>1. AnswersOfNetworks'
    BY <1>3, AnswersStay DEF BootConfigFails
  <2>2. failures' \in 0 .. MaxFailures
    BY <1>3, FailureCounted DEF BootConfigFails, RosterTypeOK
  <2>3. QED
    BY <1>3, <2>1, <2>2 DEF BootConfigFails, RosterTypeOK, SessionsInNetworks
<1>4. ASSUME NEW t \in Refreshers, BootDone(t) PROVE RosterTypeOK' /\ AnswersOfNetworks'
  <2>1. t \in Tasks /\ "start" \in Stands /\ "start" \notin Sweeping /\ "idle" \notin Sweeping
    BY DEF Tasks, Stands, Sweeping
  <2>2. task' \in [Tasks -> TaskStates] /\ Locked' /\ AnswersOfNetworks'
    BY <1>4, <2>1, TaskGoes, LockKept, AnswersKept DEF BootDone
  <2>3. QED
    BY <1>4, <2>2 DEF BootDone, RosterTypeOK, SessionsInNetworks, TaskStates, Stands, Answers,
       Locked
<1>5. QED
  BY <1>1, <1>2, <1>3, <1>4 DEF BootSteps

LEMMA SocketType ==
  ASSUME RosterTypeOK, AnswersOfNetworks, SocketSteps
  PROVE  RosterTypeOK' /\ AnswersOfNetworks'
<1> USE DEF server, boot, state, flags, sockets, history
<1>1. ASSUME NEW n \in Networks, WsAdmitted(n) PROVE RosterTypeOK' /\ AnswersOfNetworks'
  <2>1. AnswersOfNetworks'
    BY <1>1, AnswersStay DEF WsAdmitted
  <2>2. QED
    BY <1>1, <2>1 DEF WsAdmitted, RosterTypeOK, SessionsInNetworks
<1>2. ASSUME NEW n \in Networks, NEW c \in Calls,
             WsConnected(n, c) \/ WsRefused(n, c) \/ NetworksChanged(n, c)
      PROVE  RosterTypeOK' /\ AnswersOfNetworks'
  <2>1. /\ c \in Tasks /\ "listing" \in Stands /\ {} \in SUBSET Networks
        /\ "listing" \notin Sweeping /\ "idle" \notin Sweeping
    BY DEF Tasks, Stands, Sweeping
  <2>2. Goes(c, "idle", "listing", {}) /\ UNCHANGED <<boot, state, flags, history>>
        /\ UNCHANGED <<member, others, changes, kicks, entry>>
    BY <1>2 DEF WsConnected, WsRefused, NetworksChanged, Reconciles
  <2>3. task' \in [Tasks -> TaskStates] /\ Locked' /\ AnswersOfNetworks'
    <3>1. UNCHANGED refreshLock /\ UNCHANGED networks
      BY <2>2
    <3>2. QED
      BY <2>1, <2>2, <3>1, TaskGoes, LockKept, AnswersKept
  <2>4. ws' \in [Networks -> {"down", "up"}] /\ inbox' \subseteq Networks
    <3>1. CASE WsConnected(n, c)
      BY <3>1 DEF WsConnected, RosterTypeOK
    <3>2. CASE WsRefused(n, c)
      BY <3>2 DEF WsRefused, RosterTypeOK
    <3>3. CASE NetworksChanged(n, c)
      BY <3>3 DEF NetworksChanged, RosterTypeOK
    <3>4. QED
      BY <1>2, <3>1, <3>2, <3>3
  <2>5. QED
    BY <2>2, <2>3, <2>4 DEF RosterTypeOK, SessionsInNetworks, TaskStates, Stands, Answers, Locked
<1>3. QED
  BY <1>1, <1>2 DEF SocketSteps

LEMMA CallType ==
  ASSUME RosterTypeOK, AnswersOfNetworks, NEW c \in Tasks, CallSteps(c)
  PROVE  RosterTypeOK' /\ AnswersOfNetworks'
<1> USE DEF server, boot, state, flags, sockets, history
<1>1. /\ {"listing", "listed", "start", "idle"} \subseteq Stands
      /\ {"listing", "listed", "start", "idle"} \cap Sweeping = {}
  BY DEF Stands, Sweeping
<1>2. PICK from \in {"listing", "listed"}, to \in {"listed", "idle", "start"},
           todo \in SUBSET Networks : Goes(c, from, to, todo)
  BY DEF CallSteps, GetList, GetBlank, GetFails, WriteRoster, RosterTypeOK
<1>3. UNCHANGED <<server, boot, networks, peers, flags, sockets, departed, applied>>
  BY DEF CallSteps, GetList, GetBlank, GetFails, WriteRoster
<1>4. task' \in [Tasks -> TaskStates] /\ Locked' /\ AnswersOfNetworks'
  BY <1>1, <1>2, <1>3, TaskGoes, LockKept, AnswersKept
<1>5. failures' \in 0 .. MaxFailures /\ blank' \in BOOLEAN /\ roster' \subseteq Networks
  BY FailureCounted DEF CallSteps, GetList, GetBlank, GetFails, WriteRoster, RosterTypeOK
<1>6. QED
  BY <1>3, <1>4, <1>5 DEF RosterTypeOK, SessionsInNetworks, TaskStates, Stands, Answers, Locked

\* A step that takes or gives the lock: the task is the only one that sweeps.
LEMMA LockMoves ==
  ASSUME RosterTypeOK, NEW t \in Tasks, NEW from, NEW to \in Stands, Goes(t, from, to, {}),
         \/ refreshLock = NoTask /\ refreshLock' = t /\ to \in Sweeping
         \/ from \in Sweeping /\ refreshLock' = NoTask /\ to \notin Sweeping
  PROVE  Locked'
<1>1. {} \in SUBSET Networks
  OBVIOUS
<1>2. /\ task[t].pc = from /\ task'[t].pc = to
      /\ \A s \in Tasks : s # t => task'[s] = task[s]
  BY <1>1, TaskGoes
<1>3. QED
  BY <1>2, TasksAssumption DEF RosterTypeOK, Locked

LEMMA RefreshType ==
  ASSUME RosterTypeOK, AnswersOfNetworks, NEW t \in Tasks, RefreshSteps(t)
  PROVE  RosterTypeOK' /\ AnswersOfNetworks'
<1> USE DEF server, boot, state, flags, sockets, history
<1>1. /\ {"idle", "start", "flagged", "loop", "exit", "asking", "answered"} \subseteq Stands
      /\ {"loop", "exit", "asking", "answered"} \subseteq Sweeping
      /\ {"idle", "start", "flagged"} \cap Sweeping = {}
  BY DEF Stands, Sweeping
<1>2. task \in [Tasks -> TaskStates] /\ {} \in SUBSET Networks /\ networks \subseteq Networks
  BY DEF RosterTypeOK, TaskStates, Stands, Answers
\* Most steps touch the flag, the lock and the task only.
<1>3. ASSUME UNCHANGED <<server, boot, state, sockets, departed, blank, applied>>,
             failures' \in 0 .. MaxFailures,
             refreshPending' \in BOOLEAN, refreshLock' \in Tasks \cup {NoTask},
             task' \in [Tasks -> TaskStates], Locked', AnswersOfNetworks'
      PROVE  RosterTypeOK' /\ AnswersOfNetworks'
  BY <1>3 DEF RosterTypeOK, SessionsInNetworks, TaskStates, Stands, Answers, Locked
<1>4. CASE RaiseFlag(t)
  <2>1. Locked' /\ AnswersOfNetworks' /\ task' \in [Tasks -> TaskStates]
    BY <1>1, <1>2, <1>4, TaskGoes, LockKept, AnswersKept DEF RaiseFlag
  <2>2. QED
    BY <1>3, <1>4, <2>1 DEF RaiseFlag, RosterTypeOK
<1>5. CASE TryLock(t)
  <2>1. CASE refreshLock = NoTask
    <3>1. Goes(t, "flagged", "loop", {}) /\ refreshLock' = t
          /\ UNCHANGED <<server, boot, state, refreshPending, sockets, history>>
      BY <1>5, <2>1 DEF TryLock
    <3>2. Locked' /\ AnswersOfNetworks' /\ task' \in [Tasks -> TaskStates]
      BY <1>1, <1>2, <2>1, <3>1, TaskGoes, LockMoves, AnswersKept
    <3>3. QED
      BY <1>3, <3>1, <3>2 DEF RosterTypeOK
  <2>2. CASE refreshLock # NoTask
    <3>1. Goes(t, "flagged", "idle", {}) /\ UNCHANGED refreshLock
          /\ UNCHANGED <<server, boot, state, refreshPending, sockets, history>>
      BY <1>5, <2>2 DEF TryLock
    <3>2. Locked' /\ AnswersOfNetworks' /\ task' \in [Tasks -> TaskStates]
      BY <1>1, <1>2, <3>1, TaskGoes, LockKept, AnswersKept
    <3>3. QED
      BY <1>3, <3>1, <3>2 DEF RosterTypeOK
  <2>3. QED
    BY <2>1, <2>2
<1>6. CASE Swap(t)
  <2>1. PICK to \in {"asking", "exit"}, todo \in SUBSET Networks :
          Goes(t, "loop", to, todo) /\ todo \subseteq networks
    BY <1>2, <1>6 DEF Swap
  <2>2. Locked' /\ AnswersOfNetworks' /\ task' \in [Tasks -> TaskStates]
    BY <1>1, <1>6, <2>1, TaskGoes, LockKept, AnswersKept DEF Swap
  <2>3. QED
    BY <1>3, <1>6, <2>2 DEF Swap, RosterTypeOK
<1>7. CASE Unlock(t)
  <2>1. Locked' /\ AnswersOfNetworks' /\ task' \in [Tasks -> TaskStates]
    BY <1>1, <1>2, <1>7, TaskGoes, LockMoves, AnswersKept DEF Unlock
  <2>2. QED
    BY <1>3, <1>7, <2>1 DEF Unlock, RosterTypeOK
<1>8. ASSUME NEW n \in Networks, AskPeers(t, n) PROVE RosterTypeOK' /\ AnswersOfNetworks'
  <2> DEFINE a == [net |-> {n}, list |-> {q \in others : q[1] = n}, version |-> changes]
             st == [pc |-> "answered", todo |-> task[t].todo \ {n}, answer |-> a]
  <2>1. task' = [task EXCEPT ![t] = st] /\ task[t].pc = "asking" /\ n \in task[t].todo
        /\ UNCHANGED <<server, boot, state, flags, sockets, history>>
    BY <1>8 DEF AskPeers
  <2>2. task[t].todo \in SUBSET Networks /\ a \in Answers
    BY <1>2 DEF TaskStates, Answers, RosterTypeOK
  <2>3. st \in TaskStates
    BY <1>1, <2>2 DEF TaskStates
  <2>4. task' \in [Tasks -> TaskStates] /\ task'[t] = st
        /\ \A s \in Tasks : s # t => task'[s] = task[s]
    BY <1>2, <2>1, <2>3
  <2>5. st.pc = "answered" /\ st.todo = task[t].todo \ {n} /\ st.answer = a
        /\ a.net = {n} /\ \A q \in a.list : q[1] = n
    OBVIOUS
  <2> HIDE DEF a, st
  <2>6. Locked'
    BY <1>1, <2>1, <2>4, <2>5 DEF Locked, RosterTypeOK
  <2>7. AnswersOfNetworks'
    BY <2>1, <2>4, <2>5 DEF AnswersOfNetworks
  <2>8. QED
    BY <1>3, <2>1, <2>4, <2>6, <2>7 DEF RosterTypeOK
<1>9. ASSUME NEW n \in Networks, AskFails(t, n) PROVE RosterTypeOK' /\ AnswersOfNetworks'
  <2>1. task[t].todo \in SUBSET Networks /\ task[t].pc = "asking"
    BY <1>2, <1>9 DEF AskFails, Goes, TaskStates
  <2>2. task[t].todo \ {n} \subseteq networks /\ task[t].todo \ {n} \in SUBSET Networks
    BY <2>1 DEF AnswersOfNetworks
  <2>3. Locked' /\ AnswersOfNetworks' /\ task' \in [Tasks -> TaskStates]
    BY <1>1, <1>9, <2>2, TaskGoes, LockKept, AnswersKept DEF AskFails
  <2>4. failures' \in 0 .. MaxFailures
    BY <1>9, FailureCounted DEF AskFails, RosterTypeOK
  <2>5. QED
    BY <1>3, <1>9, <2>3, <2>4 DEF AskFails, RosterTypeOK
<1>10. CASE ApplyPeers(t)
  <2> DEFINE a == task[t].answer
  <2>1. /\ task[t].pc = "answered" /\ Goes(t, "answered", "asking", task[t].todo)
        /\ peers' = {q \in peers : q[1] \notin a.net} \cup a.list
        /\ applied' = [n \in Networks |-> IF n \in a.net THEN a.version ELSE applied[n]]
        /\ UNCHANGED <<server, boot, networks, roster, flags, sockets, departed, blank, failures>>
    BY <1>10 DEF ApplyPeers, Goes
  <2>2. task[t].todo \in SUBSET Networks /\ a \in Answers
    BY <1>2 DEF TaskStates
  <2>3. /\ task[t].todo \subseteq networks /\ a.net \subseteq networks
        /\ \A q \in a.list : q[1] \in a.net
    BY <2>1 DEF AnswersOfNetworks
  <2>4. Locked' /\ AnswersOfNetworks' /\ task' \in [Tasks -> TaskStates]
    BY <1>1, <2>1, <2>2, <2>3, TaskGoes, LockKept, AnswersKept
  <2>5. peers' \subseteq Networks \X Peers /\ SessionsInNetworks'
    BY <2>1, <2>2, <2>3 DEF Answers, RosterTypeOK, SessionsInNetworks
  <2>6. applied' \in [Networks -> 0 .. MaxChanges]
    BY <2>1, <2>2 DEF Answers, RosterTypeOK
  <2>7. QED
    BY <2>1, <2>4, <2>5, <2>6 DEF RosterTypeOK, TaskStates, Stands, Answers, Locked
<1>11. CASE Prune(t)
  <2>1. /\ task[t].pc = "asking" /\ Goes(t, "asking", "loop", {})
        /\ networks' = networks \cap roster /\ peers' = {q \in peers : q[1] \in roster}
        /\ UNCHANGED <<server, boot, roster, flags, sockets, history>>
    BY <1>11 DEF Prune, Goes
  <2>2. /\ Locked' /\ task' \in [Tasks -> TaskStates]
        /\ task'[t].pc = "loop" /\ \A s \in Tasks : s # t => task'[s] = task[s]
    BY <1>1, <1>2, <2>1, TaskGoes, LockKept
  <2>3. \A s \in Tasks : s # t => task[s].pc \notin {"asking", "answered"}
    BY <1>1, <2>1, OneSweep
  <2>4. AnswersOfNetworks'
    BY <2>2, <2>3 DEF AnswersOfNetworks
  <2>5. QED
    BY <2>1, <2>2, <2>4 DEF RosterTypeOK, SessionsInNetworks, TaskStates, Stands, Answers, Locked
<1>12. QED
  BY <1>4, <1>5, <1>6, <1>7, <1>8, <1>9, <1>10, <1>11 DEF RefreshSteps

-------------------------------------------------------------------------------
(***************************************************************************)
(* Before the worker runs there is no list, no socket and no task.          *)
(***************************************************************************)

BeforeRunning ==
  /\ phase = "list" => listed = {}
  /\ phase # "running" =>
       /\ \A n \in Networks : entry[n] = "none" /\ ws[n] = "down"
       /\ \A t \in Tasks : task[t].pc = "idle"

RosterInv == RosterTypeOK /\ AnswersOfNetworks /\ BeforeRunning

LEMMA BeforeRunningInit == RosterInit => BeforeRunning
BY DEF RosterInit, BeforeRunning, Idle, At

\* Until the worker runs, only the server and the boot take steps.
LEMMA NothingRuns ==
  ASSUME RosterTypeOK, BeforeRunning, phase # "running"
  PROVE  /\ ~SocketSteps
         /\ \A t \in Tasks : ~CallSteps(t) /\ ~RefreshSteps(t)
         /\ \A t \in Refreshers : ~Poll(t)
<1>1. Loops = {} /\ \A n \in Networks : entry[n] = "none" /\ ws[n] = "down"
  BY DEF Loops, BeforeRunning
<1>2. ~SocketSteps
  BY <1>1 DEF SocketSteps, WsAdmitted, WsConnected, WsRefused, NetworksChanged
<1>3. \A t \in Tasks : task[t].pc = "idle"
  BY DEF BeforeRunning
<1>4. \A t \in Tasks : ~CallSteps(t) /\ ~RefreshSteps(t)
  BY <1>3 DEF CallSteps, GetList, GetBlank, GetFails, WriteRoster, RefreshSteps, RaiseFlag,
     TryLock, Swap, Unlock, ApplyPeers, Prune, AskPeers, AskFails, Goes
<1>5. QED
  BY <1>2, <1>4 DEF Poll

LEMMA BeforeRunningNext ==
  RosterTypeOK /\ BeforeRunning /\ [RosterNext]_rosterVars => BeforeRunning'
<1> SUFFICES ASSUME RosterTypeOK, BeforeRunning, [RosterNext]_rosterVars PROVE BeforeRunning'
  OBVIOUS
<1> USE DEF server, boot, state, flags, sockets, history
<1>1. CASE phase = "running"
  <2>1. UNCHANGED phase
    BY <1>1 DEF RosterNext, ServerSteps, Leave, Kick, Join, WsRegisters, WsEnds, PeerChanges,
       BootSteps, BootList, BootConfig, BootConfigFails, BootDone, SocketSteps, WsAdmitted,
       WsConnected, WsRefused, NetworksChanged, CallSteps, GetList, GetBlank, GetFails,
       WriteRoster, Poll, RefreshSteps, RaiseFlag, TryLock, Swap, Unlock, ApplyPeers, Prune,
       AskPeers, AskFails, rosterVars
  <2>2. QED
    BY <1>1, <2>1 DEF BeforeRunning
<1>2. CASE phase # "running"
  <2>1. CASE ServerSteps
    <3>1. UNCHANGED <<phase, listed, task>>
      BY <2>1 DEF ServerSteps, Leave, Kick, Join, WsRegisters, WsEnds, PeerChanges
    <3>2. \A n \in Networks : entry[n] = "none" /\ ws[n] = "down"
      BY <1>2 DEF BeforeRunning
    <3>3. \A n \in Networks : entry'[n] = "none" /\ ws'[n] = "down"
      <4>1. ASSUME NEW m \in Networks, NEW p \in Peers, PeerChanges(m, p)
            PROVE  UNCHANGED <<entry, ws>>
        BY <4>1 DEF PeerChanges
      <4>2. ASSUME NEW m \in Networks, Leave(m) \/ Join(m) \/ WsRegisters(m)
            PROVE  UNCHANGED <<entry, ws>>
        BY <3>2, <4>2 DEF Leave, Join, WsRegisters
      <4>3. ASSUME NEW m \in Networks, Kick(m) \/ WsEnds(m)
            PROVE  \A n \in Networks : entry'[n] = "none" /\ ws'[n] = "down"
        BY <3>2, <4>3 DEF Kick, WsEnds, RosterTypeOK
      <4>4. QED
        BY <2>1, <3>2, <4>1, <4>2, <4>3 DEF ServerSteps
    <3>4. QED
      BY <1>2, <3>1, <3>3 DEF BeforeRunning
  <2>2. CASE BootSteps
    <3>1. ASSUME NEW t \in Refreshers, BootDone(t) PROVE BeforeRunning'
      BY <3>1 DEF BootDone, BeforeRunning
    <3>2. CASE BootList \/ \E n \in Networks : BootConfig(n) \/ BootConfigFails(n)
      BY <1>2, <3>2 DEF BootList, BootConfig, BootConfigFails, BeforeRunning
    <3>3. QED
      BY <2>2, <3>1, <3>2 DEF BootSteps
  <2>3. CASE UNCHANGED rosterVars
    BY <2>3 DEF rosterVars, BeforeRunning
  <2>4. QED
    BY <1>2, <2>1, <2>2, <2>3, NothingRuns DEF RosterNext, Tasks
<1>3. QED
  BY <1>1, <1>2

LEMMA RosterInvNext == RosterInv /\ [RosterNext]_rosterVars => RosterInv'
<1> SUFFICES ASSUME RosterInv, [RosterNext]_rosterVars
             PROVE  RosterTypeOK' /\ AnswersOfNetworks'
  BY BeforeRunningNext DEF RosterInv
<1> USE DEF RosterInv
<1>1. CASE ServerSteps
  BY <1>1, ServerType
<1>2. CASE BootSteps
  BY <1>2, BootType DEF BeforeRunning
<1>3. CASE SocketSteps
  BY <1>3, SocketType
<1>4. ASSUME NEW c \in Calls, CallSteps(c) PROVE RosterTypeOK' /\ AnswersOfNetworks'
  BY <1>4, CallType DEF Tasks
<1>5. ASSUME NEW t \in Refreshers, Poll(t) PROVE RosterTypeOK' /\ AnswersOfNetworks'
  <2>1. t \in Tasks /\ "start" \in Stands /\ "start" \notin Sweeping /\ "idle" \notin Sweeping
        /\ {} \in SUBSET Networks
    BY DEF Tasks, Stands, Sweeping
  <2>2. Goes(t, "idle", "start", {}) /\ UNCHANGED <<networks, refreshLock>>
    BY <1>5 DEF Poll, flags, state
  <2>3. task' \in [Tasks -> TaskStates] /\ Locked' /\ AnswersOfNetworks'
    BY <2>1, <2>2, TaskGoes, LockKept, AnswersKept
  <2>4. QED
    BY <1>5, <2>3 DEF Poll, server, boot, state, flags, sockets, history, RosterTypeOK,
       SessionsInNetworks, TaskStates, Stands, Answers, Locked
<1>6. ASSUME NEW t \in Tasks, RefreshSteps(t) PROVE RosterTypeOK' /\ AnswersOfNetworks'
  BY <1>6, RefreshType
<1>7. CASE UNCHANGED rosterVars
  BY <1>7 DEF rosterVars, server, boot, state, flags, sockets, history, RosterTypeOK,
     SessionsInNetworks, AnswersOfNetworks
<1>8. QED
  BY <1>1, <1>2, <1>3, <1>4, <1>5, <1>6, <1>7 DEF RosterNext

LEMMA RosterInvAlways == RosterSpec => []RosterInv
<1>1. RosterInit => RosterInv
  BY RosterTypeInit, BeforeRunningInit DEF RosterInv
<1>2. QED
  BY <1>1, RosterInvNext, PTL DEF RosterSpec

\* Types; in them, that the refresh lock is held exactly by the task that sweeps, and
\* that no session is left of a network the node does not run (refresh_peers).
THEOREM RosterTypeCorrect == RosterSpec => []RosterTypeOK
BY RosterInvAlways, PTL DEF RosterInv

-------------------------------------------------------------------------------
(***************************************************************************)
(* What is dropped was left.                                               *)
(***************************************************************************)

\* While the server never failed to read its own table, every list that the worker may
\* go by lacks only networks that the device left since it booted: the server's table,
\* the configurations and the roster, and the answers on their way to it.
ListsKept ==
  blank \/
    /\ phase # "list" => listed \ member \subseteq departed
    /\ phase = "configs" => configured \subseteq networks
    /\ phase = "running" => listed \ roster \subseteq departed
    /\ \A t \in Tasks : task[t].pc = "listed" => listed \ task[t].todo \subseteq departed

DroppedInv == ListsKept /\ DroppedWasLeft

LEMMA DroppedServer ==
  ASSUME RosterInv, DroppedInv, ServerSteps
  PROVE  DroppedInv'
<1> USE DEF server, boot, state, flags, sockets, history, DroppedInv, ListsKept, DroppedWasLeft
<1>1. UNCHANGED <<boot, state, task, blank>>
  BY DEF ServerSteps, Leave, Kick, Join, WsRegisters, WsEnds, PeerChanges
<1>2. departed \subseteq departed' /\ member \ member' \subseteq departed'
  BY DEF ServerSteps, Leave, Kick, Join, WsRegisters, WsEnds, PeerChanges
<1>3. QED
  BY <1>1, <1>2

LEMMA DroppedBoot ==
  ASSUME RosterInv, DroppedInv, BootSteps
  PROVE  DroppedInv'
<1> USE DEF server, boot, state, flags, sockets, history, DroppedInv, ListsKept, DroppedWasLeft
<1>1. CASE BootList
  BY <1>1 DEF BootList, RosterInv, BeforeRunning, RosterTypeOK
<1>2. ASSUME NEW n \in Networks, BootConfig(n) \/ BootConfigFails(n) PROVE DroppedInv'
  BY <1>2 DEF BootConfig, BootConfigFails
<1>3. ASSUME NEW t \in Refreshers, BootDone(t) PROVE DroppedInv'
  <2>1. t \in Tasks /\ "start" \in Stands /\ {} \in SUBSET Networks
    BY DEF Tasks, Stands
  <2>2. \A s \in Tasks : task'[s].pc = "listed" => task[s].pc = "listed" /\ task'[s] = task[s]
    BY <1>3, <2>1, TaskGoes DEF BootDone, RosterInv
  <2>3. QED
    BY <1>3, <2>2 DEF BootDone
<1>4. QED
  BY <1>1, <1>2, <1>3 DEF BootSteps

\* A step of a task that leaves the lists alone.
LEMMA DroppedKept ==
  ASSUME DroppedInv, UNCHANGED <<member, boot, networks, roster, departed>>, blank => blank',
         \A t \in Tasks : task'[t].pc = "listed" =>
           blank' \/ (task[t].pc = "listed" /\ task'[t] = task[t]) \/ task'[t].todo = member,
         phase # "list" \/ \A t \in Tasks : task'[t].pc # "listed"
  PROVE  DroppedInv'
BY DEF boot, DroppedInv, ListsKept, DroppedWasLeft

LEMMA DroppedNext == RosterInv /\ DroppedInv /\ [RosterNext]_rosterVars => DroppedInv'
<1> SUFFICES ASSUME RosterInv, DroppedInv, [RosterNext]_rosterVars PROVE DroppedInv'
  OBVIOUS
<1> USE DEF server, boot, state, flags, sockets, history
<1>1. /\ RosterTypeOK /\ {} \in SUBSET Networks /\ member \in SUBSET Networks
      /\ networks \in SUBSET Networks
      /\ {"idle", "listing", "listed", "start", "flagged", "loop", "exit", "asking"} \subseteq Stands
  BY DEF RosterInv, RosterTypeOK, Stands, Sweeping
<1>2. CASE ServerSteps
  BY <1>2, DroppedServer
<1>3. CASE BootSteps
  BY <1>3, DroppedBoot
\* The step of a task that goes elsewhere than to a list.
<1>4. ASSUME phase = "running", NEW t \in Tasks, NEW from,
             NEW to \in Stands \ {"listed"}, NEW todo \in SUBSET Networks, Goes(t, from, to, todo),
             UNCHANGED <<member, boot, networks, roster, departed, blank>>
      PROVE  DroppedInv'
  <2>1. \A s \in Tasks : task'[s].pc = "listed" => task[s].pc = "listed" /\ task'[s] = task[s]
    BY <1>1, <1>4, TaskGoes
  <2>2. QED
    BY <1>4, <2>1, DroppedKept
<1>5. CASE phase = "running" /\ SocketSteps
  <2>1. ASSUME NEW n \in Networks, WsAdmitted(n) PROVE DroppedInv'
    BY <2>1 DEF WsAdmitted, DroppedInv, ListsKept, DroppedWasLeft
  <2>2. ASSUME NEW n \in Networks, NEW c \in Calls,
               WsConnected(n, c) \/ WsRefused(n, c) \/ NetworksChanged(n, c)
        PROVE  DroppedInv'
    <3>1. c \in Tasks /\ "listing" \in Stands \ {"listed"}
      BY <1>1 DEF Tasks
    <3>2. /\ Goes(c, "idle", "listing", {})
          /\ UNCHANGED <<member, boot, networks, roster, departed, blank>>
      BY <2>2 DEF WsConnected, WsRefused, NetworksChanged, Reconciles
    <3>3. QED
      BY <1>1, <1>4, <1>5, <3>1, <3>2
  <2>3. QED
    BY <1>5, <2>1, <2>2 DEF SocketSteps
<1>6. ASSUME phase = "running", NEW c \in Calls, CallSteps(c) PROVE DroppedInv'
  <2>1. c \in Tasks
    BY DEF Tasks
  <2>2. CASE GetList(c) \/ GetBlank(c)
    <3>1. PICK todo \in SUBSET Networks :
            Goes(c, "listing", "listed", todo) /\ (blank' \/ todo = member)
      BY <1>1, <2>2 DEF GetList, GetBlank
    <3>2. /\ task'[c].todo = todo
          /\ \A s \in Tasks : s # c => task'[s] = task[s]
      BY <1>1, <2>1, <3>1, TaskGoes
    <3>3. UNCHANGED <<member, boot, networks, roster, departed>> /\ (blank => blank')
      BY <2>2 DEF GetList, GetBlank
    <3>4. QED
      BY <1>6, <3>1, <3>2, <3>3, DroppedKept
  <2>3. CASE GetFails(c)
    <3>1. Goes(c, "listing", "idle", {})
          /\ UNCHANGED <<member, boot, networks, roster, departed, blank>>
      BY <2>3 DEF GetFails
    <3>2. QED
      BY <1>1, <1>4, <1>6, <2>1, <3>1
  <2>4. CASE WriteRoster(c)
    <3>1. /\ Goes(c, "listed", "start", {}) /\ roster' = task[c].todo
          /\ UNCHANGED <<member, boot, networks, departed, blank>>
      BY <2>4 DEF WriteRoster
    <3>2. /\ task[c].pc = "listed"
          /\ \A s \in Tasks : task'[s].pc = "listed" => task[s].pc = "listed" /\ task'[s] = task[s]
      BY <1>1, <2>1, <3>1, TaskGoes
    <3>3. QED
      BY <1>6, <2>1, <3>1, <3>2 DEF DroppedInv, ListsKept, DroppedWasLeft
  <2>5. QED
    BY <1>6, <2>2, <2>3, <2>4 DEF CallSteps
<1>7. ASSUME phase = "running", NEW t \in Refreshers, Poll(t) PROVE DroppedInv'
  <2>1. /\ t \in Tasks /\ Goes(t, "idle", "start", {})
        /\ UNCHANGED <<member, boot, networks, roster, departed, blank>>
    BY <1>7 DEF Poll, Tasks
  <2>2. QED
    BY <1>1, <1>4, <1>7, <2>1
<1>8. ASSUME phase = "running", NEW t \in Tasks, RefreshSteps(t) PROVE DroppedInv'
  <2>1. task \in [Tasks -> TaskStates]
    BY <1>1 DEF RosterTypeOK, TaskStates, Stands, Answers
  <2>2. task[t].todo \in SUBSET Networks
    BY <2>1 DEF TaskStates
  <2>3. CASE RaiseFlag(t) \/ TryLock(t) \/ Swap(t) \/ Unlock(t) \/ ApplyPeers(t)
             \/ \E n \in Networks : AskFails(t, n)
    <3>1. PICK from, to \in Stands \ {"listed"}, todo \in SUBSET Networks : Goes(t, from, to, todo)
      <4>1. CASE ApplyPeers(t) \/ \E n \in Networks : AskFails(t, n)
        <5>1. \E todo \in SUBSET Networks :
                Goes(t, "answered", "asking", todo) \/ Goes(t, "asking", "asking", todo)
          BY <2>2, <4>1 DEF ApplyPeers, AskFails
        <5>2. {"answered", "asking"} \subseteq Stands \ {"listed"}
          BY DEF Stands, Sweeping
        <5>3. QED
          BY <5>1, <5>2
      <4>2. CASE RaiseFlag(t) \/ TryLock(t) \/ Swap(t) \/ Unlock(t)
        BY <1>1, <4>2 DEF RaiseFlag, TryLock, Swap, Unlock
      <4>3. QED
        BY <2>3, <4>1, <4>2
    <3>2. UNCHANGED <<member, boot, networks, roster, departed, blank>>
      BY <2>3 DEF RaiseFlag, TryLock, Swap, Unlock, ApplyPeers, AskFails
    <3>3. QED
      BY <1>4, <1>8, <3>1, <3>2
  <2>4. ASSUME NEW n \in Networks, AskPeers(t, n) PROVE DroppedInv'
    <3>1. /\ task'[t].pc = "answered" /\ \A s \in Tasks : s # t => task'[s] = task[s]
          /\ UNCHANGED <<member, boot, networks, roster, departed, blank>>
      BY <2>1, <2>4 DEF AskPeers
    <3>2. QED
      BY <1>8, <3>1, DroppedKept
  <2>5. CASE Prune(t)
    <3>1. /\ Goes(t, "asking", "loop", {}) /\ networks' = networks \cap roster
          /\ UNCHANGED <<member, boot, roster, departed, blank>> /\ "loop" \in Stands
      BY <1>1, <2>5 DEF Prune
    <3>2. task'[t].pc = "loop" /\ \A s \in Tasks : s # t => task'[s] = task[s]
      BY <1>1, <3>1, TaskGoes
    <3>3. QED
      BY <1>8, <3>1, <3>2 DEF DroppedInv, ListsKept, DroppedWasLeft
  <2>6. QED
    BY <1>8, <2>3, <2>4, <2>5 DEF RefreshSteps
<1>9. CASE UNCHANGED rosterVars
  BY <1>9 DEF rosterVars, DroppedInv, ListsKept, DroppedWasLeft
<1>10. QED
  BY <1>2, <1>3, <1>5, <1>6, <1>7, <1>8, <1>9, NothingRuns DEF RosterNext, RosterInv, Tasks

\* The node drops only networks that the device left while the worker ran, unless the
\* server once failed to read its own table (reconcile_roster, refresh_peers).
THEOREM DropsWereLeft == RosterSpec => []DroppedWasLeft
<1>1. RosterInit => DroppedInv
  BY DEF RosterInit, DroppedInv, ListsKept, DroppedWasLeft, Idle, At
<1>2. QED
  BY <1>1, RosterInvAlways, DroppedNext, PTL DEF RosterSpec, DroppedInv

-------------------------------------------------------------------------------
(***************************************************************************)
(* Peers never go back.                                                    *)
(***************************************************************************)

\* An answer in hand is not older than what the peers of any network are of: one task
\* asks at a time, and the changes of the server only go up.
AnswersNewer ==
  /\ \A n \in Networks : applied[n] <= changes
  /\ \A t \in Tasks : task[t].pc = "answered" =>
       /\ task[t].answer.version <= changes
       /\ \A n \in Networks : applied[n] <= task[t].answer.version

NewerPeers == \A n \in Networks : applied'[n] >= applied[n]

\* A step in which no task gets an answer and none is applied.
LEMMA NewerKept ==
  ASSUME RosterTypeOK, AnswersNewer, UNCHANGED applied, changes' \in Nat, changes <= changes',
         \A t \in Tasks : task'[t].pc = "answered" => task'[t] = task[t]
  PROVE  AnswersNewer' /\ NewerPeers
<1>1. /\ applied \in [Networks -> Nat] /\ changes \in Nat
      /\ \A t \in Tasks : task[t].answer.version \in Nat
  <2>1. task \in [Tasks -> TaskStates]
    BY DEF RosterTypeOK, TaskStates, Stands, Answers
  <2>2. QED
    BY <2>1, RosterBoundsAssumption DEF RosterTypeOK, TaskStates, Answers
<1>2. QED
  BY <1>1 DEF AnswersNewer, NewerPeers

LEMMA NewerNext ==
  RosterTypeOK /\ AnswersNewer /\ [RosterNext]_rosterVars
    => AnswersNewer' /\ [NewerPeers]_rosterVars
<1> SUFFICES ASSUME RosterTypeOK, AnswersNewer, [RosterNext]_rosterVars
             PROVE  AnswersNewer' /\ NewerPeers
  OBVIOUS
<1> USE DEF server, boot, state, flags, sockets, history
<1>1. /\ applied \in [Networks -> Nat] /\ changes \in Nat
      /\ \A t \in Tasks : task[t].answer.version \in Nat
      /\ task \in [Tasks -> TaskStates]
  <2>1. task \in [Tasks -> TaskStates]
    BY DEF RosterTypeOK, TaskStates, Stands, Answers
  <2>2. \A t \in Tasks : task[t].answer.version \in 0 .. MaxChanges
    BY <2>1 DEF TaskStates, Answers
  <2>3. QED
    BY <2>1, <2>2, RosterBoundsAssumption DEF RosterTypeOK
<1>2. CASE ServerSteps
  <2>1. Change \/ UNCHANGED changes
    BY <1>2 DEF ServerSteps, Leave, Kick, Join, WsRegisters, WsEnds, PeerChanges
  <2>2. changes' \in Nat /\ changes <= changes'
    BY <1>1, <2>1 DEF Change
  <2>3. UNCHANGED <<task, applied>>
    BY <1>2 DEF ServerSteps, Leave, Kick, Join, WsRegisters, WsEnds, PeerChanges
  <2>4. QED
    BY <2>2, <2>3, NewerKept
\* A task goes elsewhere and nothing is applied.
<1>3. ASSUME NEW t \in Tasks, NEW from, NEW to \in Stands \ {"answered"},
             NEW todo \in SUBSET Networks, Goes(t, from, to, todo), UNCHANGED <<changes, applied>>
      PROVE  AnswersNewer' /\ NewerPeers
  <2>1. \A s \in Tasks : task'[s].pc = "answered" => task'[s] = task[s]
    BY <1>3, TaskGoes
  <2>2. QED
    BY <1>1, <1>3, <2>1, NewerKept
<1>4. ASSUME UNCHANGED <<task, changes, applied>> PROVE AnswersNewer' /\ NewerPeers
  BY <1>1, <1>4, NewerKept
<1>5. /\ {} \in SUBSET Networks /\ member \in SUBSET Networks /\ networks \in SUBSET Networks
      /\ \A t \in Tasks : task[t].todo \in SUBSET Networks
      /\ {"idle", "listing", "listed", "start", "flagged", "loop", "exit", "asking"}
           \subseteq Stands \ {"answered"}
  BY <1>1 DEF RosterTypeOK, TaskStates, Stands, Sweeping
<1>6. CASE BootSteps
  <2>1. ASSUME NEW t \in Refreshers, BootDone(t) PROVE AnswersNewer' /\ NewerPeers
    <3>1. t \in Tasks /\ Goes(t, "idle", "start", {}) /\ UNCHANGED <<changes, applied>>
      BY <2>1 DEF BootDone, Tasks
    <3>2. QED
      BY <1>3, <1>5, <3>1
  <2>2. CASE BootList \/ \E n \in Networks : BootConfig(n) \/ BootConfigFails(n)
    BY <1>4, <2>2 DEF BootList, BootConfig, BootConfigFails
  <2>3. QED
    BY <1>6, <2>1, <2>2 DEF BootSteps
<1>7. CASE SocketSteps
  <2>1. ASSUME NEW n \in Networks, WsAdmitted(n) PROVE AnswersNewer' /\ NewerPeers
    BY <1>4, <2>1 DEF WsAdmitted
  <2>2. ASSUME NEW n \in Networks, NEW c \in Calls,
               WsConnected(n, c) \/ WsRefused(n, c) \/ NetworksChanged(n, c)
        PROVE  AnswersNewer' /\ NewerPeers
    <3>1. c \in Tasks /\ Goes(c, "idle", "listing", {}) /\ UNCHANGED <<changes, applied>>
      BY <2>2 DEF WsConnected, WsRefused, NetworksChanged, Reconciles, Tasks
    <3>2. QED
      BY <1>3, <1>5, <3>1
  <2>3. QED
    BY <1>7, <2>1, <2>2 DEF SocketSteps
<1>8. ASSUME NEW c \in Calls, CallSteps(c) PROVE AnswersNewer' /\ NewerPeers
  <2>1. c \in Tasks /\ UNCHANGED <<changes, applied>>
    BY <1>8 DEF CallSteps, GetList, GetBlank, GetFails, WriteRoster, Tasks
  <2>2. PICK from \in Stands, to \in Stands \ {"answered"}, todo \in SUBSET Networks :
          Goes(c, from, to, todo)
    BY <1>5, <1>8 DEF CallSteps, GetList, GetBlank, GetFails, WriteRoster
  <2>3. QED
    BY <1>3, <2>1, <2>2
<1>9. ASSUME NEW t \in Refreshers, Poll(t) PROVE AnswersNewer' /\ NewerPeers
  <2>1. t \in Tasks /\ Goes(t, "idle", "start", {}) /\ UNCHANGED <<changes, applied>>
    BY <1>9 DEF Poll, Tasks
  <2>2. QED
    BY <1>3, <1>5, <2>1
<1>10. ASSUME NEW t \in Tasks, RefreshSteps(t) PROVE AnswersNewer' /\ NewerPeers
  <2>1. CASE RaiseFlag(t) \/ TryLock(t) \/ Swap(t) \/ Unlock(t) \/ Prune(t)
    <3>1. PICK from \in Stands, to \in Stands \ {"answered"}, todo \in SUBSET Networks :
            Goes(t, from, to, todo)
      BY <1>5, <2>1 DEF RaiseFlag, TryLock, Swap, Unlock, Prune
    <3>2. UNCHANGED <<changes, applied>>
      BY <2>1 DEF RaiseFlag, TryLock, Swap, Unlock, Prune
    <3>3. QED
      BY <1>3, <3>1, <3>2
  <2>2. ASSUME NEW n \in Networks, AskFails(t, n) PROVE AnswersNewer' /\ NewerPeers
    <3>1. task[t].todo \ {n} \in SUBSET Networks /\ UNCHANGED <<changes, applied>>
          /\ Goes(t, "asking", "asking", task[t].todo \ {n})
      BY <1>5, <2>2 DEF AskFails
    <3>2. QED
      BY <1>3, <1>5, <3>1
  <2>3. ASSUME NEW n \in Networks, AskPeers(t, n) PROVE AnswersNewer' /\ NewerPeers
    <3>1. /\ task'[t].answer.version = changes /\ \A s \in Tasks : s # t => task'[s] = task[s]
          /\ UNCHANGED <<changes, applied>>
      BY <1>1, <2>3 DEF AskPeers
    <3>2. QED
      BY <1>1, <3>1 DEF AnswersNewer, NewerPeers
  <2>4. CASE ApplyPeers(t)
    <3> DEFINE a == task[t].answer
    <3>1. /\ Goes(t, "answered", "asking", task[t].todo) /\ task[t].pc = "answered"
          /\ applied' = [n \in Networks |-> IF n \in a.net THEN a.version ELSE applied[n]]
          /\ UNCHANGED changes
      BY <2>4 DEF ApplyPeers, Goes
    <3>2. task'[t].pc = "asking" /\ \A s \in Tasks : s # t => task'[s] = task[s]
      BY <1>5, <3>1, TaskGoes
    <3>3. \A s \in Tasks : task'[s].pc # "answered"
      BY <3>1, <3>2, OneSweep DEF Sweeping
    <3>4. a.version <= changes
      BY <1>1, <3>1, RosterBoundsAssumption DEF AnswersNewer
    <3>5. \A n \in Networks : applied'[n] <= changes /\ applied'[n] >= applied[n]
      BY <1>1, <3>1, <3>4 DEF AnswersNewer
    <3>6. QED
      BY <3>1, <3>3, <3>5 DEF AnswersNewer, NewerPeers
  <2>5. QED
    BY <1>10, <2>1, <2>2, <2>3, <2>4 DEF RefreshSteps
<1>11. CASE UNCHANGED rosterVars
  BY <1>4, <1>11 DEF rosterVars
<1>12. QED
  BY <1>2, <1>6, <1>7, <1>8, <1>9, <1>10, <1>11 DEF RosterNext

\* The peers of a network never go back to an older list, whatever requests overlap,
\* fail or answer late (refresh_peers is single-flight).
THEOREM PeersNeverOlder == RosterSpec => NeverOlderPeers
<1>1. RosterInit => AnswersNewer
  <2>1. Idle.pc = "idle"
    BY DEF Idle, At
  <2>2. QED
    BY <2>1 DEF RosterInit, AnswersNewer
<1>2. QED
  BY <1>1, RosterTypeCorrect, NewerNext, PTL DEF RosterSpec, NeverOlderPeers, NewerPeers
===============================================================================
