---------------------------- MODULE SettingsProofs ----------------------------
(***************************************************************************)
(* Proofs about Settings: for any values, any number of tasks and any       *)
(* number of PUTs, faults and revisions, the rollback anchor only holds     *)
(* content the node acknowledged, with managed boot fields that ran.        *)
(***************************************************************************)
EXTENDS Settings, TLAPS

\* The content revision r was written with; revision 0 is the missing row.
ContentOf(r) == IF r = 0 THEN EmptyConfig ELSE written[r]

\* A copy fetched from the server is the content of a revision it has issued.
Fetched(c) == c.rev \in 0 .. rev /\ c.set = ContentOf(c.rev)

RowIsLast == cur = ContentOf(rev)

CopiesFetched ==
  /\ worker = "booting" => Fetched(boot)
  /\ \A t \in Tasks : task[t].pc \in {"check", "apply", "store"} => Fetched(task[t])

AckedIssued ==
  /\ acked \subseteq 0 .. rev
  /\ beats \subseteq acked
  /\ applied # 0 => applied \in acked

\* A worker vouches for a revision only when it runs with its boot field.
RunsWith(c) == c.boot \in {Unmanaged, run.boot}

VouchedByRun ==
  Running => /\ run.boot \in started
             /\ applied # 0 => RunsWith(ContentOf(applied))
             /\ \A t \in Tasks : task[t].pc = "store" => RunsWith(task[t].set)

\* Only a running worker has apply_settings tasks.
TasksOfWorker == ~Running => \A t \in Tasks : task[t].pc = "idle"

AckedRan ==
  \A r \in acked : ContentOf(r).boot = Unmanaged \/ ContentOf(r).boot \in started

AnchorAcked ==
  lastGood # NoAnchor => \E r \in acked : r # 0 /\ lastGood = ContentOf(r)

IInv ==
  /\ TypeOK
  /\ RowIsLast
  /\ CopiesFetched
  /\ AckedIssued
  /\ TasksOfWorker
  /\ VouchedByRun
  /\ AckedRan
  /\ AnchorAcked

-------------------------------------------------------------------------------
(***************************************************************************)
(* Facts about the operators the actions are built from.                   *)
(***************************************************************************)

\* The empty configuration is one.
LEMMA EmptyConfigIsConfig == EmptyConfig \in Config
BY ValuesAssumption DEF EmptyConfig, Config

\* A worker runs with a boot value, managed or default.
LEMMA EffectiveIsBootVal ==
  ASSUME NEW c \in Config
  PROVE  Effective(c) \in BootVals
BY ValuesAssumption DEF Effective, Config

\* An idle task is typed.
LEMMA IdleTaskIsState == IdleTask \in TaskState /\ IdleTask.pc = "idle"
BY EmptyConfigIsConfig DEF IdleTask, TaskState

\* A freshly spawned task is typed.
LEMMA FetchingTaskIsState == [IdleTask EXCEPT !.pc = "get"] \in TaskState
BY EmptyConfigIsConfig DEF IdleTask, TaskState

\* The node's state without a process is typed.
LEMMA NoProcessType ==
  ASSUME NoProcess
  PROVE  /\ worker' = "down" /\ applied' = 0 /\ pending' \in BOOLEAN
         /\ ws' \in BOOLEAN /\ pushes' \in Nat
         /\ run' \in [hot : HotVals, boot : BootVals]
         /\ boot' \in Copy
         /\ task' \in [Tasks -> TaskState]
         /\ \A t \in Tasks : task'[t].pc = "idle"
BY EmptyConfigIsConfig, IdleTaskIsState, ValuesAssumption DEF NoProcess, Copy

-------------------------------------------------------------------------------
(***************************************************************************)
(* Type correctness.                                                       *)
(***************************************************************************)

\* The initial state is typed.
LEMMA TypeCorrectInit == Init => TypeOK
<1> SUFFICES ASSUME Init
             PROVE  TypeOK
  OBVIOUS
<1>1. written \in Seq(Config) /\ Len(written) = rev
  BY DEF Init
<1>2. boot \in Copy /\ run \in [hot : HotVals, boot : BootVals]
  BY EmptyConfigIsConfig, ValuesAssumption DEF Init, Copy
<1>3. task \in [Tasks -> TaskState]
  BY IdleTaskIsState DEF Init
<1>4. cur \in Config /\ lastGood \in Config \cup {NoAnchor}
  BY EmptyConfigIsConfig DEF Init
<1>5. /\ beats \in SUBSET Nat /\ reports \in SUBSET Nat
      /\ acked \in SUBSET Nat /\ failedStarts \in SUBSET Nat
      /\ started \in SUBSET BootVals
  BY DEF Init
<1>6. rev \in Nat /\ failedRev \in Nat /\ pushes \in Nat /\ applied \in Nat
      /\ puts \in Nat /\ faults \in Nat
  BY DEF Init
<1>7. /\ ws \in BOOLEAN /\ pending \in BOOLEAN
      /\ worker \in {"down", "booting", "failed", "up", "stopping"}
  BY DEF Init
<1>8. QED
  BY <1>1, <1>2, <1>3, <1>4, <1>5, <1>6, <1>7 DEF TypeOK

\* Every behaviour keeps every variable in its type, and the history in step
\* with the revision column.
THEOREM TypeCorrect == Spec => []TypeOK
<1>1. Init => TypeOK
  BY TypeCorrectInit
<1>2. TypeOK /\ [Next]_vars => TypeOK'
  <2> SUFFICES ASSUME TypeOK, [Next]_vars
               PROVE  TypeOK'
    OBVIOUS
  <2> USE DEF TypeOK
  <2>1. ASSUME NEW c \in Config, AdminPut(c)
        PROVE  TypeOK'
    BY <2>1 DEF AdminPut, Write, Push, node, history
  <2>2. ASSUME NEW a \in beats, DeliverBeat(a)
        PROVE  TypeOK'
    BY <2>2 DEF DeliverBeat, MarkApplied, node, env, history
  <2>3. ASSUME NEW r \in reports, DeliverReport(r)
        PROVE  TypeOK'
    <3>1. CASE rev > 0 /\ r = rev
      <4> DEFINE target == IF lastGood = NoAnchor THEN EmptyConfig ELSE lastGood
      <4>1. target \in Config
        BY EmptyConfigIsConfig
      <4>2. written' \in Seq(Config) /\ Len(written') = rev' /\ cur' \in Config
        BY <2>3, <3>1, <4>1 DEF DeliverReport, Write
      <4>3. QED
        BY <2>3, <3>1, <4>2 DEF DeliverReport, Write, Push, node, env
    <3>2. CASE ~(rev > 0 /\ r = rev)
      BY <2>3, <3>2 DEF DeliverReport, node, env
    <3>3. QED
      BY <3>1, <3>2
  <2>4. CASE BootFetch
    BY <2>4 DEF BootFetch, server, net, env, history, Copy
  <2>5. CASE BootOk
    <3>1. Effective(boot.set) \in BootVals /\ boot.set.hot \in HotVals /\ boot.rev \in Nat
      BY EffectiveIsBootVal DEF Copy, Config
    <3>2. run' \in [hot : HotVals, boot : BootVals]
      BY <2>5, <3>1 DEF BootOk
    <3>3. boot' \in Copy
      BY <2>5, EmptyConfigIsConfig DEF BootOk, Copy
    <3>4. QED
      BY <2>5, <3>1, <3>2, <3>3 DEF BootOk, BeatOf, server, env
  <2>6. CASE BootFail
    <3>1. boot.rev \in Nat
      BY DEF Copy
    <3>2. puts' \in Nat /\ faults' \in Nat
      BY <2>6 DEF BootFail, Fault, env
    <3>3. QED
      BY <2>6, <3>1, <3>2 DEF BootFail, server, net
  <2>7. CASE ReportFailure
    BY <2>7, NoProcessType DEF ReportFailure, server, env, history
  <2>8. CASE SkipReport
    BY <2>8, NoProcessType DEF SkipReport, Fault, server, history
  <2>9. CASE WorkerExit
    BY <2>9, NoProcessType DEF WorkerExit, server, env, history
  <2>10. CASE CrashOrRestart
    BY <2>10, NoProcessType DEF CrashOrRestart, Fault, server, history
  <2>11. CASE Heartbeat
    BY <2>11 DEF Heartbeat, BeatOf, server, node, env, history
  <2>12. CASE WsDrop
    BY <2>12 DEF WsDrop, server, node, env, history
  <2>13. ASSUME NEW t \in Tasks, WsConnect(t)
         PROVE  TypeOK'
    BY <2>13, FetchingTaskIsState
    DEF WsConnect, Spawn, server, node, env, history
  <2>14. ASSUME NEW t \in Tasks, RecvPush(t)
         PROVE  TypeOK'
    BY <2>14, FetchingTaskIsState
    DEF RecvPush, Spawn, server, node, env, history
  <2>15. ASSUME NEW t \in Tasks, GetFail(t)
         PROVE  TypeOK'
    BY <2>15, IdleTaskIsState
    DEF GetFail, Fault, server, node, net, history
  <2>16. ASSUME NEW t \in Tasks, Get(t)
         PROVE  TypeOK'
    BY <2>16 DEF Get, TaskState, server, node, net, env, history
  <2>17. ASSUME NEW t \in Tasks, Check(t)
         PROVE  TypeOK'
    BY <2>17, IdleTaskIsState DEF Check, TaskState, server, node, net, env, history
  <2>18. ASSUME NEW t \in Tasks, Apply(t)
         PROVE  TypeOK'
    <3>1. task[t].set.hot \in HotVals
      BY DEF Config, TaskState
    <3>2. run' \in [hot : HotVals, boot : BootVals]
      BY <2>18, <3>1 DEF Apply
    <3>3. task' \in [Tasks -> TaskState]
      BY <2>18, IdleTaskIsState DEF Apply, TaskState
    <3>4. QED
      BY <2>18, <3>2, <3>3 DEF Apply, server, net, env, history
  <2>19. ASSUME NEW t \in Tasks, Store(t)
         PROVE  TypeOK'
    BY <2>19, IdleTaskIsState DEF Store, TaskState, server, net, env
  <2>20. CASE Lose
    <3>1. beats' \in SUBSET Nat /\ reports' \in SUBSET Nat
      BY <2>20 DEF Lose
    <3>2. QED
      BY <2>20, <3>1 DEF Lose, Fault, server, node, history
  <2>21. CASE UNCHANGED vars
    BY <2>21 DEF vars, server, node, net, env, history
  <2>22. QED
    BY <2>1, <2>2, <2>3, <2>4, <2>5, <2>6, <2>7, <2>8, <2>9, <2>10, <2>11,
       <2>12, <2>13, <2>14, <2>15, <2>16, <2>17, <2>18, <2>19, <2>20, <2>21
    DEF Next, TaskStep
<1>3. QED
  BY <1>1, <1>2, PTL DEF Spec

-------------------------------------------------------------------------------
(***************************************************************************)
(* The inductive invariant, conjunct by conjunct.                          *)
(***************************************************************************)

\* Revisions issued before a step keep their content in it.
LEMMA ContentStable ==
  ASSUME TypeOK, TypeOK',
         \/ UNCHANGED <<rev, written>>
         \/ \E c \in Config : Write(c),
         NEW r \in 0 .. rev
  PROVE  r \in 0 .. rev' /\ ContentOf(r)' = ContentOf(r)
<1>1. CASE UNCHANGED <<rev, written>>
  BY <1>1 DEF ContentOf
<1>2. ASSUME NEW c \in Config, Write(c)
      PROVE  r \in 0 .. rev' /\ ContentOf(r)' = ContentOf(r)
  BY <1>2 DEF Write, ContentOf, TypeOK
<1>3. QED
  BY <1>1, <1>2

\* How a step may change the server's row: not at all, or by one Write.
LEMMA RowSteps ==
  ASSUME TypeOK, [Next]_vars
  PROVE  \/ UNCHANGED <<rev, cur, written>>
         \/ \E c \in Config : Write(c)
<1>1. ASSUME NEW r \in reports, DeliverReport(r)
      PROVE  \/ UNCHANGED <<rev, cur, written>>
             \/ \E c \in Config : Write(c)
  BY <1>1, EmptyConfigIsConfig DEF DeliverReport, TypeOK
<1>2. ASSUME NEW a \in beats, DeliverBeat(a)
      PROVE  UNCHANGED <<rev, cur, written>>
  BY <1>2 DEF DeliverBeat, history
<1>3. ASSUME NEW c \in Config, AdminPut(c)
      PROVE  Write(c)
  BY <1>3 DEF AdminPut
<1>4. CASE \/ BootFetch \/ BootOk \/ BootFail \/ ReportFailure \/ SkipReport
           \/ WorkerExit \/ CrashOrRestart \/ Heartbeat \/ WsDrop \/ Lose
  BY <1>4 DEF BootFetch, BootOk, BootFail, ReportFailure, SkipReport, WorkerExit,
              CrashOrRestart, Heartbeat, WsDrop, Lose, server, history
<1>5. ASSUME NEW t \in Tasks,
             WsConnect(t) \/ RecvPush(t) \/ GetFail(t) \/ TaskStep(t)
      PROVE  UNCHANGED <<rev, cur, written>>
  BY <1>5 DEF WsConnect, RecvPush, GetFail, TaskStep, Get, Check, Apply, Store,
              server, history
<1>6. CASE UNCHANGED vars
  BY <1>6 DEF vars, server, history
<1>7. QED
  BY <1>1, <1>2, <1>3, <1>4, <1>5, <1>6 DEF Next

\* The row goes on holding the last content written.
LEMMA RowIsLastStep ==
  ASSUME TypeOK, TypeOK', RowIsLast, [Next]_vars
  PROVE  RowIsLast'
<1>1. CASE UNCHANGED <<rev, cur, written>>
  BY <1>1 DEF RowIsLast, ContentOf
<1>2. ASSUME NEW c \in Config, Write(c)
      PROVE  RowIsLast'
  BY <1>2 DEF Write, RowIsLast, ContentOf, TypeOK
<1>3. QED
  BY <1>1, <1>2, RowSteps

\* A fetched copy stays one.
LEMMA FetchedStable ==
  ASSUME TypeOK, TypeOK', [Next]_vars, NEW c, c.rev \in Nat, Fetched(c)
  PROVE  c.rev \in 0 .. rev' /\ c.set = ContentOf(c.rev)'
BY RowSteps, ContentStable DEF Fetched

\* What a step may do to a task: leave its copy alone, take the current row as
\* its copy, or end it.
LEMMA TaskSteps ==
  ASSUME TypeOK, [Next]_vars, NEW t \in Tasks
  PROVE  \/ task'[t].pc \in {"idle", "get"}
         \/ /\ task'[t].rev = task[t].rev /\ task'[t].set = task[t].set
            /\ task[t].pc \in {"check", "apply", "store"} \/ task'[t] = task[t]
         \/ /\ task'[t].rev = rev /\ task'[t].set = cur
            /\ task'[t].pc = "check"
            /\ UNCHANGED <<rev, cur, written>>
<1> USE IdleTaskIsState
<1>1. CASE \/ \E c \in Config : AdminPut(c)
           \/ \E a \in beats : DeliverBeat(a)
           \/ \E r \in reports : DeliverReport(r)
           \/ BootFetch \/ BootOk \/ BootFail \/ Heartbeat \/ WsDrop \/ Lose
           \/ UNCHANGED vars
  BY <1>1 DEF AdminPut, DeliverBeat, DeliverReport, BootFetch, BootOk, BootFail,
              Heartbeat, WsDrop, Lose, vars
<1>2. CASE ReportFailure \/ SkipReport \/ WorkerExit \/ CrashOrRestart
  BY <1>2, NoProcessType DEF ReportFailure, SkipReport, WorkerExit, CrashOrRestart
<1>3. ASSUME NEW u \in Tasks, WsConnect(u) \/ RecvPush(u)
      PROVE  task'[t] = task[t] \/ task'[t].pc = "get"
  BY <1>3 DEF WsConnect, RecvPush, Spawn, TypeOK, TaskState, IdleTask
<1>4. ASSUME NEW u \in Tasks, GetFail(u) \/ Store(u)
      PROVE  task'[t] = task[t] \/ task'[t].pc = "idle"
  BY <1>4 DEF GetFail, Store, TypeOK
<1>5. ASSUME NEW u \in Tasks, Get(u)
      PROVE  \/ task'[t] = task[t]
             \/ /\ task'[t].rev = rev /\ task'[t].set = cur /\ task'[t].pc = "check"
                /\ UNCHANGED <<rev, cur, written>>
  BY <1>5 DEF Get, TypeOK, server, history
<1>6. ASSUME NEW u \in Tasks, Check(u)
      PROVE  \/ task'[t] = task[t] \/ task'[t].pc = "idle"
             \/ /\ task'[t].rev = task[t].rev /\ task'[t].set = task[t].set
                /\ task[t].pc = "check"
  BY <1>6 DEF Check, TypeOK, TaskState
<1>7. ASSUME NEW u \in Tasks, Apply(u)
      PROVE  \/ task'[t] = task[t] \/ task'[t].pc = "idle"
             \/ /\ task'[t].rev = task[t].rev /\ task'[t].set = task[t].set
                /\ task[t].pc = "apply"
  BY <1>7 DEF Apply, TypeOK, TaskState
<1>8. QED
  BY <1>1, <1>2, <1>3, <1>4, <1>5, <1>6, <1>7 DEF Next, TaskStep

\* Copies go on being content of issued revisions.
LEMMA CopiesFetchedStep ==
  ASSUME TypeOK, TypeOK', RowIsLast, RowIsLast', CopiesFetched, [Next]_vars
  PROVE  CopiesFetched'
<1>1. ASSUME NEW t \in Tasks, task'[t].pc \in {"check", "apply", "store"}
      PROVE  Fetched(task[t])'
  <2>1. CASE /\ task'[t].rev = task[t].rev /\ task'[t].set = task[t].set
             /\ task[t].pc \in {"check", "apply", "store"}
    <3>1. task[t].rev \in Nat /\ Fetched(task[t])
      BY <2>1 DEF CopiesFetched, TypeOK, TaskState
    <3>2. QED
      BY <2>1, <3>1, FetchedStable DEF Fetched
  <2>2. CASE /\ task'[t].rev = rev /\ task'[t].set = cur
             /\ UNCHANGED <<rev, cur, written>>
    BY <2>2 DEF Fetched, RowIsLast, ContentOf, TypeOK
  <2>3. QED
    BY <1>1, <2>1, <2>2, TaskSteps
<1>2. ASSUME worker' = "booting"
      PROVE  Fetched(boot)'
  <2>1. CASE BootFetch
    BY <2>1 DEF BootFetch, Fetched, RowIsLast, ContentOf, TypeOK, server, history
  <2>2. CASE worker = "booting" /\ boot' = boot
    <3>1. boot.rev \in Nat /\ Fetched(boot)
      BY <2>2 DEF CopiesFetched, TypeOK, Copy
    <3>2. QED
      BY <2>2, <3>1, FetchedStable DEF Fetched
  <2>3. BootFetch \/ (worker = "booting" /\ boot' = boot)
    BY <1>2, NoProcessType
    DEF Next, vars, node, TaskStep, AdminPut, DeliverBeat, DeliverReport, BootOk,
        BootFail, ReportFailure, SkipReport, WorkerExit, CrashOrRestart, Heartbeat,
        WsDrop, WsConnect, RecvPush, GetFail, Get, Check, Apply, Store, Lose
  <2>4. QED
    BY <2>1, <2>2, <2>3
<1>3. QED
  BY <1>1, <1>2 DEF CopiesFetched

\* How a step may change the acknowledgements: a start that succeeds adds the
\* fetched revision, Store adds the revision of its task, and heartbeats only
\* carry what is applied.
LEMMA AckSteps ==
  ASSUME TypeOK, [Next]_vars
  PROVE  \/ BootOk
         \/ \E t \in Tasks : Store(t)
         \/ /\ acked' = acked
            /\ beats' \subseteq beats \cup BeatOf(applied)
            /\ applied' \in {applied, 0}
            /\ started' = started
<1>1. CASE ReportFailure \/ SkipReport \/ WorkerExit \/ CrashOrRestart
  BY <1>1, NoProcessType DEF ReportFailure, SkipReport, WorkerExit, CrashOrRestart, history
<1>2. CASE \/ \E c \in Config : AdminPut(c)
           \/ \E a \in beats : DeliverBeat(a)
           \/ \E r \in reports : DeliverReport(r)
  BY <1>2 DEF AdminPut, DeliverBeat, DeliverReport, node, history
<1>3. CASE BootFetch \/ BootFail \/ Heartbeat \/ WsDrop \/ Lose \/ UNCHANGED vars
  BY <1>3 DEF BootFetch, BootFail, Heartbeat, WsDrop, Lose, vars, node, net, history
<1>4. CASE \E t \in Tasks : \/ WsConnect(t) \/ RecvPush(t) \/ GetFail(t)
                            \/ Get(t) \/ Check(t) \/ Apply(t)
  BY <1>4 DEF WsConnect, RecvPush, GetFail, Get, Check, Apply, node, net, history
<1>5. QED
  BY <1>1, <1>2, <1>3, <1>4 DEF Next, TaskStep

\* Acknowledged revisions go on being issued ones.
LEMMA AckedIssuedStep ==
  ASSUME TypeOK, TypeOK', CopiesFetched, AckedIssued, [Next]_vars
  PROVE  AckedIssued'
<1>1. rev' \in Nat /\ rev <= rev'
  BY RowSteps DEF Write, TypeOK
<1>2. CASE BootOk
  BY <1>1, <1>2 DEF BootOk, BeatOf, AckedIssued, CopiesFetched, Fetched, TypeOK
<1>3. ASSUME NEW t \in Tasks, Store(t)
      PROVE  AckedIssued'
  BY <1>1, <1>3 DEF Store, AckedIssued, CopiesFetched, Fetched, TypeOK, net
<1>4. CASE /\ acked' = acked
           /\ beats' \subseteq beats \cup BeatOf(applied)
           /\ applied' \in {applied, 0}
  BY <1>1, <1>4 DEF BeatOf, AckedIssued, TypeOK
<1>5. QED
  BY <1>2, <1>3, <1>4, AckSteps

\* Apart from a successful start, a running worker was running before the step,
\* with the same boot field; only Apply moves a task to "store", and only Store
\* changes the applied revision.
LEMMA RunSteps ==
  ASSUME TypeOK, [Next]_vars, Running'
  PROVE  \/ BootOk
         \/ /\ Running /\ run'.boot = run.boot /\ started' = started
            /\ \/ \E t \in Tasks : Apply(t) /\ applied' = applied
               \/ \E t \in Tasks : Store(t)
               \/ /\ applied' = applied
                  /\ \A t \in Tasks : task'[t].pc = "store" => task'[t] = task[t]
<1>1. CASE ReportFailure \/ SkipReport \/ WorkerExit \/ CrashOrRestart
  BY <1>1, NoProcessType
  DEF ReportFailure, SkipReport, WorkerExit, CrashOrRestart, Running
<1>2. CASE \/ \E c \in Config : AdminPut(c)
           \/ \E a \in beats : DeliverBeat(a)
           \/ \E r \in reports : DeliverReport(r)
  BY <1>2 DEF AdminPut, DeliverBeat, DeliverReport, node, history, Running
<1>3. CASE BootFetch \/ BootFail \/ Heartbeat \/ WsDrop \/ Lose \/ UNCHANGED vars
  BY <1>3 DEF BootFetch, BootFail, Heartbeat, WsDrop, Lose, vars, node, history, Running
<1>4. ASSUME NEW t \in Tasks, WsConnect(t) \/ RecvPush(t)
      PROVE  /\ Running /\ run' = run /\ started' = started /\ applied' = applied
             /\ \A u \in Tasks : task'[u].pc = "store" => task'[u] = task[u]
  BY <1>4, IdleTaskIsState
  DEF WsConnect, RecvPush, Spawn, node, history, Running, TypeOK, TaskState
<1>5. ASSUME NEW t \in Tasks, GetFail(t) \/ Get(t) \/ Check(t)
      PROVE  /\ Running /\ run' = run /\ started' = started /\ applied' = applied
             /\ \A u \in Tasks : task'[u].pc = "store" => task'[u] = task[u]
  BY <1>5, IdleTaskIsState
  DEF GetFail, Get, Check, node, history, Running, TypeOK, TaskState
<1>6. ASSUME NEW t \in Tasks, Apply(t) \/ Store(t)
      PROVE  /\ Running /\ run'.boot = run.boot /\ started' = started
             /\ Apply(t) => applied' = applied
  BY <1>6 DEF Apply, Store, history, Running, TypeOK
<1>7. QED
  BY <1>1, <1>2, <1>3, <1>4, <1>5, <1>6 DEF Next, TaskStep

\* Tasks go on ending with their worker.
LEMMA TasksOfWorkerStep ==
  ASSUME TypeOK, TypeOK', TasksOfWorker, [Next]_vars
  PROVE  TasksOfWorker'
<1>1. CASE ReportFailure \/ SkipReport \/ WorkerExit \/ CrashOrRestart
  BY <1>1, NoProcessType
  DEF ReportFailure, SkipReport, WorkerExit, CrashOrRestart, TasksOfWorker
<1>2. CASE \/ \E c \in Config : AdminPut(c)
           \/ \E a \in beats : DeliverBeat(a)
           \/ \E r \in reports : DeliverReport(r)
           \/ BootFetch \/ BootOk \/ BootFail \/ Heartbeat \/ WsDrop \/ Lose
           \/ UNCHANGED vars
  BY <1>2 DEF AdminPut, DeliverBeat, DeliverReport, BootFetch, BootOk, BootFail,
              Heartbeat, WsDrop, Lose, vars, node, TasksOfWorker, Running
<1>3. ASSUME NEW t \in Tasks,
             WsConnect(t) \/ RecvPush(t) \/ GetFail(t) \/ TaskStep(t)
      PROVE  Running'
  BY <1>3 DEF WsConnect, RecvPush, GetFail, TaskStep, Get, Check, Apply, Store,
              node, Running
<1>4. QED
  BY <1>1, <1>2, <1>3 DEF Next, TasksOfWorker

\* A worker goes on vouching only for what it runs with.
LEMMA VouchedByRunStep ==
  ASSUME TypeOK, TypeOK', CopiesFetched, AckedIssued, TasksOfWorker, VouchedByRun,
         [Next]_vars
  PROVE  VouchedByRun'
<1> SUFFICES ASSUME Running'
             PROVE  /\ run'.boot \in started'
                    /\ applied' # 0 => RunsWith(ContentOf(applied))'
                    /\ \A t \in Tasks : task'[t].pc = "store" => RunsWith(task[t].set)'
  BY DEF VouchedByRun
<1>1. CASE BootOk
  <2>1. Fetched(boot) /\ \A t \in Tasks : task'[t].pc = "idle"
    BY <1>1 DEF BootOk, CopiesFetched, TasksOfWorker, Running
  <2>2. run'.boot = Effective(boot.set) /\ applied' = boot.rev
        /\ UNCHANGED <<rev, written>> /\ run'.boot \in started'
    BY <1>1 DEF BootOk, server
  <2>3. QED
    BY <2>1, <2>2 DEF RunsWith, Effective, Fetched, ContentOf
<1> SUFFICES ASSUME Running, run'.boot = run.boot, started' = started
             PROVE  /\ applied' # 0 => RunsWith(ContentOf(applied))'
                    /\ \A t \in Tasks : task'[t].pc = "store" => RunsWith(task[t].set)'
  BY <1>1, RunSteps DEF VouchedByRun
<1>2. applied' = applied /\ applied' # 0 => RunsWith(ContentOf(applied))'
  <2> SUFFICES ASSUME applied' = applied, applied' # 0
               PROVE  RunsWith(ContentOf(applied))'
    OBVIOUS
  <2>1. applied \in 0 .. rev /\ RunsWith(ContentOf(applied))
    BY DEF AckedIssued, VouchedByRun
  <2>2. ContentOf(applied)' = ContentOf(applied)
    BY <2>1, RowSteps, ContentStable
  <2>3. QED
    BY <2>1, <2>2 DEF RunsWith
<1>3. ASSUME NEW t \in Tasks, Apply(t), applied' = applied
      PROVE  \A u \in Tasks : task'[u].pc = "store" => RunsWith(task[u].set)'
  <2>1. ASSUME NEW u \in Tasks, u # t, task'[u].pc = "store"
        PROVE  RunsWith(task[u].set)'
    BY <1>3, <2>1 DEF Apply, VouchedByRun, RunsWith, TypeOK
  <2>2. ASSUME task'[t].pc = "store"
        PROVE  RunsWith(task[t].set)'
    <3>1. ~RestartNeeded(task[t].set) /\ task' = [task EXCEPT ![t].pc = "store"]
      BY <1>3, <2>2, IdleTaskIsState DEF Apply, TypeOK
    <3>2. task'[t].set = task[t].set
      BY <3>1 DEF TypeOK, TaskState
    <3>3. QED
      BY <3>1, <3>2 DEF RestartNeeded, RunsWith
  <2>3. QED
    BY <2>1, <2>2
<1>4. ASSUME NEW t \in Tasks, Store(t)
      PROVE  /\ RunsWith(ContentOf(applied))'
             /\ \A u \in Tasks : task'[u].pc = "store" => RunsWith(task[u].set)'
  <2>1. RunsWith(task[t].set) /\ Fetched(task[t])
    BY <1>4 DEF Store, VouchedByRun, CopiesFetched
  <2>2. applied' = task[t].rev /\ UNCHANGED <<rev, written>>
    BY <1>4 DEF Store, server
  <2>3. \A u \in Tasks : task'[u].pc = "store" => task'[u] = task[u]
    BY <1>4, IdleTaskIsState DEF Store, TypeOK, TaskState
  <2>4. QED
    BY <2>1, <2>2, <2>3 DEF RunsWith, Fetched, ContentOf, VouchedByRun
<1>5. CASE /\ applied' = applied
           /\ \A t \in Tasks : task'[t].pc = "store" => task'[t] = task[t]
  BY <1>2, <1>5 DEF VouchedByRun, RunsWith
<1>6. QED
  BY <1>1, <1>2, <1>3, <1>4, <1>5, RunSteps

\* Acknowledged boot fields go on being ones that started.
LEMMA AckedRanStep ==
  ASSUME TypeOK, TypeOK', CopiesFetched, AckedIssued, VouchedByRun, AckedRan,
         [Next]_vars
  PROVE  AckedRan'
<1>1. ASSUME NEW r \in acked
      PROVE  ContentOf(r)' = ContentOf(r)
  BY <1>1, RowSteps, ContentStable DEF AckedIssued
<1>2. CASE BootOk
  <2>1. Fetched(boot) /\ UNCHANGED <<rev, written>>
    BY <1>2 DEF BootOk, CopiesFetched, server
  <2>2. acked' = acked \cup {boot.rev} /\ started' = started \cup {Effective(boot.set)}
    BY <1>2 DEF BootOk
  <2>3. \A r : r = boot.rev => ContentOf(r)' = boot.set
    BY <2>1 DEF Fetched, ContentOf
  <2>4. QED
    BY <1>1, <2>2, <2>3 DEF AckedRan, Effective
<1>3. ASSUME NEW t \in Tasks, Store(t)
      PROVE  AckedRan'
  <2>1. /\ Fetched(task[t]) /\ RunsWith(task[t].set) /\ run.boot \in started
        /\ UNCHANGED <<rev, written, started>>
    BY <1>3 DEF Store, CopiesFetched, VouchedByRun, server
  <2>2. acked' = acked \cup {task[t].rev}
    BY <1>3 DEF Store
  <2>3. \A r : r = task[t].rev => ContentOf(r)' = task[t].set
    BY <2>1 DEF Fetched, ContentOf
  <2>4. QED
    BY <1>1, <2>1, <2>2, <2>3 DEF AckedRan, RunsWith
<1>4. CASE acked' = acked /\ started' = started
  BY <1>1, <1>4 DEF AckedRan
<1>5. QED
  BY <1>2, <1>3, <1>4, AckSteps

\* The anchor goes on being acknowledged content.
LEMMA AnchorAckedStep ==
  ASSUME TypeOK, TypeOK', RowIsLast, AckedIssued, AnchorAcked, [Next]_vars
  PROVE  AnchorAcked'
<1>1. acked \subseteq acked'
  BY AckSteps DEF BootOk, Store
<1>2. ASSUME NEW r \in acked
      PROVE  ContentOf(r)' = ContentOf(r)
  BY <1>2, RowSteps, ContentStable DEF AckedIssued
<1>3. CASE lastGood' = lastGood
  BY <1>1, <1>2, <1>3 DEF AnchorAcked
<1>4. ASSUME NEW a \in beats, DeliverBeat(a), lastGood' # lastGood
      PROVE  AnchorAcked'
  <2>1. rev > 0 /\ rev <= a /\ lastGood' = cur
    BY <1>4 DEF DeliverBeat, MarkApplied
  <2>2. rev \in acked /\ lastGood' = ContentOf(rev)
    BY <1>4, <2>1 DEF AckedIssued, RowIsLast, TypeOK
  <2>3. QED
    BY <1>1, <1>2, <2>1, <2>2 DEF AnchorAcked, TypeOK
<1>5. lastGood' = lastGood \/ \E a \in beats : DeliverBeat(a)
  BY DEF Next, vars, server, TaskStep, AdminPut, DeliverReport, BootFetch, BootOk,
         BootFail, ReportFailure, SkipReport, WorkerExit, CrashOrRestart, Heartbeat,
         WsDrop, WsConnect, RecvPush, GetFail, Get, Check, Apply, Store, Lose
<1>6. QED
  BY <1>3, <1>4, <1>5

-------------------------------------------------------------------------------
(***************************************************************************)
(* The theorems.                                                           *)
(***************************************************************************)

\* The invariant holds initially.
LEMMA InitIInv == Init => IInv
<1> SUFFICES ASSUME Init
             PROVE  IInv
  OBVIOUS
<1>1. TypeOK
  BY TypeCorrectInit
<1>2. \A t \in Tasks : task[t].pc = "idle"
  BY IdleTaskIsState DEF Init
<1>3. QED
  BY <1>1, <1>2
  DEF Init, IInv, RowIsLast, CopiesFetched, AckedIssued, TasksOfWorker, VouchedByRun,
      AckedRan, AnchorAcked, ContentOf, Running

\* The invariant holds throughout.
LEMMA Inductive == Spec => []IInv
<1>1. IInv /\ TypeOK' /\ [Next]_vars => IInv'
  BY RowIsLastStep, CopiesFetchedStep, AckedIssuedStep, TasksOfWorkerStep,
     VouchedByRunStep, AckedRanStep, AnchorAckedStep DEF IInv
<1>2. QED
  BY <1>1, InitIInv, TypeCorrect, PTL DEF Spec

\* The anchor holds only content the node acknowledged under its revision.
THEOREM AnchorAlwaysAcked == Spec => []AnchorWasAcked
<1>1. IInv => AnchorWasAcked
  BY DEF IInv, AnchorAcked, AckedIssued, AnchorWasAcked, ContentOf, TypeOK
<1>2. QED
  BY <1>1, Inductive, PTL

\* A rollback returns to no managed boot field that has never started.
THEOREM AnchorAlwaysStarted == Spec => []AnchorBootStarted
<1>1. IInv => AnchorBootStarted
  BY DEF IInv, AnchorAcked, AckedRan, AnchorBootStarted
<1>2. QED
  BY <1>1, Inductive, PTL

\* A rollback returns to a configuration that the node has verified.
THEOREM AnchorAlwaysVerified == Spec => []AnchorVerified
<1>1. AnchorWasAcked /\ AnchorBootStarted => AnchorVerified
  BY DEF AnchorVerified
<1>2. QED
  BY <1>1, AnchorAlwaysAcked, AnchorAlwaysStarted, PTL

\* A node that reports the current revision runs with its managed boot field.
THEOREM ConvergedAlwaysRuns == Spec => []ConvergedBoot
<1>1. IInv => ConvergedBoot
  BY DEF IInv, RowIsLast, VouchedByRun, RunsWith, ConvergedBoot, ContentOf
<1>2. QED
  BY <1>1, Inductive, PTL
===============================================================================
