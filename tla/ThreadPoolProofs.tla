-------------------------- MODULE ThreadPoolProofs --------------------------
(***************************************************************************)
(* Proofs about ThreadPool, for any finite set of workers and any bound on *)
(* the number of tasks, whether or not threads fail to start.              *)
(***************************************************************************)
EXTENDS ThreadPool, FiniteSetTheorems, TLAPS

(* Only shutdown sets terminate_, after it has waited: from then on the     *)
(* client only joins the threads, and no task is queued.                    *)
TerminateLate ==
  terminate => client \in {"join", "parked", "joining", "gone"} /\ tasks = <<>>

(* Once wait() has returned to reset, combine or shutdown every worker is  *)
(* asleep in new_task_.wait, or only just out of it.                       *)
Asleep ==
  client \in {"apply", "reduce"} => tasks = <<>> /\ ActiveWorker = {}

(* init gives every worker its thread at once.                             *)
Started == \A w \in Worker : client = "new" <=> pc[w] = "new"

(* The threads are joined when none is counted as running any more.        *)
AllLeft == client = "joining" => RunningWorker = {}

IInv ==
  TypeOK /\ CountersExact /\ TerminateLate /\ Asleep /\ Started /\ AllLeft /\ NobodyInDeadPool

-----------------------------------------------------------------------------
(* Sets of workers are finite, and a set with no member counts zero.       *)
LEMMA WorkerSets ==
  ASSUME NEW S \in SUBSET Worker
  PROVE  /\ IsFiniteSet(S)
         /\ Cardinality(S) \in Nat
         /\ Cardinality(S) = 0 <=> S = {}
  BY WorkerAssumption, FS_Subset, FS_CardinalityType, FS_EmptySet

(* Moving one worker into or out of a set changes its count by one.        *)
LEMMA CountAdd ==
  ASSUME NEW S \in SUBSET Worker, NEW w \in Worker \ S
  PROVE  Cardinality(S \cup {w}) = Cardinality(S) + 1
  BY WorkerSets, FS_AddElement

LEMMA CountRemove ==
  ASSUME NEW S \in SUBSET Worker, NEW w \in S
  PROVE  Cardinality(S \ {w}) = Cardinality(S) - 1
  BY WorkerSets, FS_RemoveElement

-----------------------------------------------------------------------------
(* Every variable keeps its type: the program counters stay among the      *)
(* places, the queue and the mappers hold submitted tasks only.            *)
LEMMA TypesStep == TypeOK /\ [Next]_vars => Types'
<1> SUFFICES ASSUME TypeOK, [Next]_vars PROVE Types'
  OBVIOUS
<1> USE DEF TypeOK, Types, WorkerPlace, ClientPlace, Op
<1>1. ASSUME NEW w \in Worker, NEW act \in Int, pc[w] \in {"fetch", "woken"}, TakeTask(w, act)
      PROVE Types'
  BY <1>1 DEF TakeTask, clientVars
<1>2. ASSUME NEW w \in Worker, NEW act \in Int, GiveUp(w, act)
      PROVE Types'
  BY <1>2 DEF GiveUp, clientVars
<1>3. ASSUME NEW w \in Worker, NEW act \in Int, WaitForTask(w, act)
      PROVE Types'
  BY <1>3 DEF WaitForTask, BroadcastIdle
<1>4. ASSUME NEW w \in Worker, WorkerStep(w) PROVE Types'
  <2>1. CASE Fetch(w)
    BY <2>1, <1>1, <1>2, <1>3 DEF Fetch
  <2>2. CASE Resume(w)
    <3> active + 1 \in Int
      OBVIOUS
    <3> QED BY <2>2, <1>1, <1>2, <1>3 DEF Resume
  <2>3. CASE SpuriousTaskWakeup(w)
    BY <2>3 DEF SpuriousTaskWakeup, clientVars, countVars
  <2>4. CASE MapTask(w)
    <3>1. taskOf[w] \in Task
      BY <2>4 DEF MapTask
    <3>2. mapped' \in [Worker -> Seq(Task)]
      <4>1. Append(mapped[w], taskOf[w]) \in Seq(Task)
        BY <3>1
      <4> QED BY <2>4, <4>1 DEF MapTask
    <3> QED BY <2>4, <3>2 DEF MapTask, clientVars, countVars
  <2>5. CASE ThreadTerminated(w)
    BY <2>5 DEF ThreadTerminated, BroadcastIdle
  <2>6. CASE EndRun(w)
    BY <2>6 DEF EndRun, clientVars, countVars
  <2> QED BY <1>4, <2>1, <2>2, <2>3, <2>4, <2>5, <2>6 DEF WorkerStep
<1>5. CASE ClientStep
  <2>1. CASE InitPool
    <3>1. Cardinality(Worker) \in Nat
      BY WorkerSets
    <3> QED BY <2>1, <3>1 DEF InitPool
  <2>2. CASE Submit
    <3>1. pc' \in [Worker -> WorkerPlace]
      BY <2>2 DEF Submit, SignalNewTask
    <3>2. submitted' \in 0 .. MaxTasks /\ submitted' \in Task
      BY <2>2, MaxTasksAssumption DEF Submit, Task
    <3> QED BY <2>2, <3>1, <3>2 DEF Submit, countVars
  <2>3. CASE \E o \in Op \ {"none"} : Call(o)
    BY <2>3 DEF Call, countVars, workerVars
  <2>4. CASE WaitTest
    BY <2>4 DEF WaitTest, countVars, workerVars
  <2>5. CASE SpuriousIdleWakeup
    BY <2>5 DEF SpuriousIdleWakeup, countVars, workerVars
  <2>6. CASE ResetMappers
    BY <2>6 DEF ResetMappers, countVars
  <2>7. CASE BeginCombine
    BY <2>7 DEF BeginCombine, countVars, workerVars
  <2>8. CASE ReduceMapper
    <3>1. PICK w \in toReduce : acc' = acc \o mapped[w]
      BY <2>8 DEF ReduceMapper
    <3>2. acc' \in Seq(Task)
      BY <3>1
    <3>3. toReduce' \subseteq Worker /\ client' \in ClientPlace /\ op' \in Op /\ reduced' \in Seq(Task)
      BY <2>8, <3>2 DEF ReduceMapper
    <3> QED BY <2>8, <3>2, <3>3 DEF ReduceMapper, countVars, workerVars
  <2>9. CASE TerminateThreads
    BY <2>9 DEF TerminateThreads, countVars, BroadcastNewTask
  <2>10. CASE JoinTest \/ JoinWorkers
    BY <2>10 DEF JoinTest, JoinWorkers, countVars, workerVars
  <2> QED BY <1>5, <2>1, <2>2, <2>3, <2>4, <2>5, <2>6, <2>7, <2>8, <2>9, <2>10 DEF ClientStep
<1>6. CASE UNCHANGED vars
  BY <1>6 DEF vars, countVars, workerVars, clientVars
<1> QED BY <1>4, <1>5, <1>6 DEF Next, Terminated

(* A worker holds a task exactly while it maps one.                        *)
LEMMA TypeStep == TypeOK /\ Started /\ [Next]_vars => TypeOK'
<1> SUFFICES ASSUME TypeOK, Started, [Next]_vars
             PROVE  \A v \in Worker : (pc[v] = "map" <=> taskOf[v] # NoTask)'
  BY TypesStep DEF TypeOK
<1> SUFFICES ASSUME NEW v \in Worker
             PROVE  (pc[v] = "map" <=> taskOf[v] # NoTask)'
  OBVIOUS
<1> USE DEF TypeOK, Types
<1>1. ASSUME NEW w \in Worker, WorkerStep(w)
      PROVE  (pc[v] = "map" <=> taskOf[v] # NoTask)'
  <2>1. ASSUME NEW act \in Int, TakeTask(w, act)
        PROVE  (pc[v] = "map" <=> taskOf[v] # NoTask)'
    <3>1. Head(tasks) \in Task
      BY <2>1 DEF TakeTask
    <3> QED BY <2>1, <3>1 DEF TakeTask, Task, NoTask
  <2>2. ASSUME NEW act \in Int, pc[w] # "map", GiveUp(w, act) \/ WaitForTask(w, act)
        PROVE  (pc[v] = "map" <=> taskOf[v] # NoTask)'
    BY <2>2 DEF GiveUp, WaitForTask
  <2>3. CASE Fetch(w)
    BY <2>1, <2>2, <2>3 DEF Fetch
  <2>4. CASE Resume(w)
    <3> active + 1 \in Int
      OBVIOUS
    <3> QED BY <2>1, <2>2, <2>4 DEF Resume
  <2>5. CASE SpuriousTaskWakeup(w) \/ MapTask(w) \/ ThreadTerminated(w) \/ EndRun(w)
    BY <2>5 DEF SpuriousTaskWakeup, MapTask, ThreadTerminated, EndRun
  <2> QED BY <1>1, <2>3, <2>4, <2>5 DEF WorkerStep
<1>2. CASE UNCHANGED <<pc, taskOf>>
  BY <1>2
<1>3. CASE InitPool
  BY <1>3 DEF InitPool, Started
<1>4. CASE Submit
  BY <1>4 DEF Submit, SignalNewTask
<1>5. CASE TerminateThreads
  BY <1>5 DEF TerminateThreads, BroadcastNewTask
<1> QED
  BY <1>1, <1>2, <1>3, <1>4, <1>5
     DEF Next, Terminated, ClientStep, Call, WaitTest, SpuriousIdleWakeup, ResetMappers,
         BeginCombine, ReduceMapper, JoinTest, JoinWorkers, vars, workerVars

-----------------------------------------------------------------------------
(* Started is kept: init moves every worker out of "new" and the client    *)
(* with them, and nothing moves a thread back.                             *)
LEMMA StartedStep == TypeOK /\ Started /\ [Next]_vars => Started'
<1> SUFFICES ASSUME TypeOK, Started, [Next]_vars,
                    NEW v \in Worker
             PROVE  (client = "new" <=> pc[v] = "new")'
  BY DEF Started
<1> USE DEF TypeOK, Types, Started
<1>1. ASSUME NEW w \in Worker, WorkerStep(w)
      PROVE  (client = "new" <=> pc[v] = "new")'
  <2>1. CASE Fetch(w) \/ Resume(w)
    BY <2>1 DEF Fetch, Resume, TakeTask, GiveUp, WaitForTask, BroadcastIdle, clientVars
  <2>2. CASE SpuriousTaskWakeup(w) \/ MapTask(w)
    BY <2>2 DEF SpuriousTaskWakeup, MapTask, clientVars
  <2>3. CASE ThreadTerminated(w) \/ EndRun(w)
    BY <2>3 DEF ThreadTerminated, EndRun, BroadcastIdle, clientVars
  <2> QED BY <1>1, <2>1, <2>2, <2>3 DEF WorkerStep
<1>2. CASE InitPool
  BY <1>2 DEF InitPool
<1>3. CASE Submit
  BY <1>3 DEF Submit, SignalNewTask
<1>4. CASE TerminateThreads
  BY <1>4 DEF TerminateThreads, BroadcastNewTask
<1>5. CASE ClientStep /\ ~InitPool /\ ~Submit /\ ~TerminateThreads
  BY <1>5 DEF ClientStep, Call, WaitTest, SpuriousIdleWakeup, ResetMappers,
              BeginCombine, ReduceMapper, JoinTest, JoinWorkers, workerVars
<1>6. CASE UNCHANGED vars
  BY <1>6 DEF vars, workerVars, clientVars
<1> QED BY <1>1, <1>2, <1>3, <1>4, <1>5, <1>6 DEF Next, Terminated

(* active_threads_ counts the workers that are neither asleep in           *)
(* new_task_.wait nor on their way out of it; running_threads_ counts      *)
(* those init has counted and that have not reported their end.            *)
LEMMA CountersStep == TypeOK /\ Started /\ CountersExact /\ [Next]_vars => CountersExact'
<1> SUFFICES ASSUME TypeOK, Started, CountersExact, [Next]_vars PROVE CountersExact'
  OBVIOUS
<1> USE DEF TypeOK, Types
<1>a. ActiveWorker \in SUBSET Worker /\ RunningWorker \in SUBSET Worker
  BY DEF ActiveWorker, RunningWorker
<1>1. ASSUME NEW w \in Worker, WorkerStep(w) PROVE CountersExact'
  <2> DEFINE stays == RunningWorker' = RunningWorker /\ running' = running
  <2>1. ASSUME pc[w] = "fetch", TakeTask(w, active) \/ GiveUp(w, active) PROVE CountersExact'
    <3>1. ActiveWorker' = ActiveWorker /\ stays /\ active' = active
      BY <2>1 DEF TakeTask, GiveUp, ActiveWorker, RunningWorker
    <3> QED BY <3>1 DEF CountersExact
  <2>2. ASSUME pc[w] = "woken", TakeTask(w, active + 1) \/ GiveUp(w, active + 1)
        PROVE  CountersExact'
    <3>1. /\ ActiveWorker' = ActiveWorker \cup {w} /\ w \in Worker \ ActiveWorker
          /\ stays /\ active' = active + 1
      BY <2>2 DEF TakeTask, GiveUp, ActiveWorker, RunningWorker
    <3> QED BY <3>1, <1>a, CountAdd DEF CountersExact
  <2>3. ASSUME pc[w] = "fetch", WaitForTask(w, active) PROVE CountersExact'
    <3>1. /\ ActiveWorker' = ActiveWorker \ {w} /\ w \in ActiveWorker
          /\ stays /\ active' = active - 1
      BY <2>3 DEF WaitForTask, ActiveWorker, RunningWorker
    <3> QED BY <3>1, <1>a, CountRemove DEF CountersExact
  <2>4. ASSUME pc[w] = "woken", WaitForTask(w, active + 1) PROVE CountersExact'
    <3>1. ActiveWorker' = ActiveWorker /\ stays /\ active' = active
      BY <2>4 DEF WaitForTask, ActiveWorker, RunningWorker
    <3> QED BY <3>1 DEF CountersExact
  <2>5. CASE Fetch(w)
    BY <2>5, <2>1, <2>3 DEF Fetch
  <2>6. CASE Resume(w)
    BY <2>6, <2>2, <2>4 DEF Resume
  <2>7. CASE SpuriousTaskWakeup(w) \/ MapTask(w) \/ EndRun(w)
    <3>1. ActiveWorker' = ActiveWorker /\ stays /\ active' = active
      BY <2>7 DEF SpuriousTaskWakeup, MapTask, EndRun, countVars, ActiveWorker, RunningWorker
    <3> QED BY <3>1 DEF CountersExact
  <2>8. CASE ThreadTerminated(w)
    <3>1. /\ ActiveWorker' = ActiveWorker \ {w} /\ w \in ActiveWorker
          /\ RunningWorker' = RunningWorker \ {w} /\ w \in RunningWorker
          /\ active' = active - 1 /\ running' = running - 1
      BY <2>8 DEF ThreadTerminated, ActiveWorker, RunningWorker
    <3> QED BY <3>1, <1>a, CountRemove DEF CountersExact
  <2> QED BY <1>1, <2>5, <2>6, <2>7, <2>8 DEF WorkerStep
<1>2. CASE InitPool
  <2>1. ActiveWorker' = Worker /\ RunningWorker' = Worker
    BY <1>2 DEF InitPool, ActiveWorker, RunningWorker
  <2> QED BY <1>2, <2>1 DEF InitPool, CountersExact
<1>3. ASSUME ActiveWorker' = ActiveWorker, RunningWorker' = RunningWorker, UNCHANGED countVars
      PROVE  CountersExact'
  BY <1>3 DEF CountersExact, countVars
<1>4. CASE Submit
  <2>1. ActiveWorker' = ActiveWorker /\ RunningWorker' = RunningWorker
    BY <1>4 DEF Submit, SignalNewTask, ActiveWorker, RunningWorker
  <2> QED BY <1>3, <1>4, <2>1 DEF Submit
<1>5. CASE TerminateThreads
  <2>1. ActiveWorker' = ActiveWorker /\ RunningWorker' = RunningWorker
    BY <1>5 DEF TerminateThreads, BroadcastNewTask, ActiveWorker, RunningWorker
  <2> QED BY <1>3, <1>5, <2>1 DEF TerminateThreads
<1>6. CASE UNCHANGED <<countVars, pc>>
  BY <1>3, <1>6 DEF ActiveWorker, RunningWorker
<1> QED
  BY <1>1, <1>2, <1>4, <1>5, <1>6
     DEF Next, Terminated, ClientStep, Call, WaitTest, SpuriousIdleWakeup, ResetMappers,
         BeginCombine, ReduceMapper, JoinTest, JoinWorkers, vars, workerVars

-----------------------------------------------------------------------------
(* The other parts of the invariant.                                       *)

LEMMA TerminateLateStep == TypeOK /\ TerminateLate /\ Asleep /\ [Next]_vars => TerminateLate'
<1> SUFFICES ASSUME TypeOK, TerminateLate, Asleep, [Next]_vars PROVE TerminateLate'
  OBVIOUS
<1> USE DEF TerminateLate
<1>1. ASSUME NEW w \in Worker, WorkerStep(w) PROVE TerminateLate'
  BY <1>1 DEF WorkerStep, Fetch, Resume, TakeTask, GiveUp, WaitForTask, BroadcastIdle,
              SpuriousTaskWakeup, MapTask, ThreadTerminated, EndRun, clientVars
<1>2. CASE ClientStep
  BY <1>2 DEF ClientStep, InitPool, Submit, Call, WaitTest, SpuriousIdleWakeup, ResetMappers,
              BeginCombine, ReduceMapper, TerminateThreads, JoinTest, JoinWorkers, Asleep
<1>3. CASE UNCHANGED vars
  BY <1>3 DEF vars, clientVars
<1> QED BY <1>1, <1>2, <1>3 DEF Next, Terminated

(* A worker that is only just out of new_task_.wait goes back to sleep, as *)
(* there is neither a task nor the order to terminate.                     *)
LEMMA AsleepStep ==
  TypeOK /\ CountersExact /\ TerminateLate /\ Asleep /\ [Next]_vars => Asleep'
<1> SUFFICES ASSUME TypeOK, CountersExact, TerminateLate, Asleep, [Next]_vars,
                    (client \in {"apply", "reduce"})'
             PROVE  (tasks = <<>> /\ ActiveWorker = {})'
  BY DEF Asleep
<1> USE DEF TypeOK, Types
<1>1. ASSUME NEW w \in Worker, WorkerStep(w) PROVE (tasks = <<>> /\ ActiveWorker = {})'
  <2>1. client \in {"apply", "reduce"}
    BY <1>1 DEF WorkerStep, Fetch, Resume, TakeTask, GiveUp, WaitForTask, BroadcastIdle,
                SpuriousTaskWakeup, MapTask, ThreadTerminated, EndRun, clientVars
  <2>2. tasks = <<>> /\ ~terminate /\ \A v \in Worker : pc[v] \notin {"fetch", "map", "exit", "unstarted"}
    BY <2>1 DEF Asleep, TerminateLate, ActiveWorker
  <2> QED
    BY <1>1, <2>2 DEF WorkerStep, Fetch, Resume, TakeTask, GiveUp, WaitForTask,
                      SpuriousTaskWakeup, MapTask, ThreadTerminated, EndRun, ActiveWorker
<1>2. CASE ClientStep
  <2>1. CASE WaitTest
    <3>1. Idle
      BY <2>1 DEF WaitTest
    <3>2. ActiveWorker \in SUBSET Worker
      BY DEF ActiveWorker
    <3>3. ActiveWorker = {}
      BY <3>1, <3>2, WorkerSets DEF Idle, CountersExact
    <3> QED BY <2>1, <3>1, <3>3 DEF WaitTest, Idle, ActiveWorker, workerVars
  <2>2. CASE BeginCombine \/ ReduceMapper
    BY <2>2 DEF BeginCombine, ReduceMapper, Asleep, ActiveWorker, workerVars
  <2>3. CASE InitPool \/ Submit \/ (\E o \in Op : Call(o)) \/ SpuriousIdleWakeup
             \/ ResetMappers \/ TerminateThreads \/ JoinTest \/ JoinWorkers
    BY <2>3 DEF InitPool, Submit, Call, SpuriousIdleWakeup, ResetMappers, TerminateThreads, JoinTest, JoinWorkers
  <2> QED BY <1>2, <2>1, <2>2, <2>3 DEF ClientStep
<1>3. CASE UNCHANGED vars
  BY <1>3 DEF vars, clientVars, workerVars, Asleep, ActiveWorker
<1> QED BY <1>1, <1>2, <1>3 DEF Next, Terminated

(* terminateThreads() leaves its loop when running_threads_ is zero, and no *)
(* worker is counted again.                                                *)
LEMMA AllLeftStep == TypeOK /\ CountersExact /\ Started /\ AllLeft /\ [Next]_vars => AllLeft'
<1> SUFFICES ASSUME TypeOK, CountersExact, Started, AllLeft, [Next]_vars, (client = "joining")',
                    NEW v \in Worker
             PROVE  (pc[v] \in {"new", "leaving", "done"})'
  BY DEF AllLeft, RunningWorker
<1> USE DEF TypeOK, Types
<1>1. ASSUME NEW w \in Worker, WorkerStep(w) PROVE (pc[v] \in {"new", "leaving", "done"})'
  <2>1. client = "joining"
    BY <1>1 DEF WorkerStep, Fetch, Resume, TakeTask, GiveUp, WaitForTask, BroadcastIdle,
                SpuriousTaskWakeup, MapTask, ThreadTerminated, EndRun, clientVars
  <2>2. \A x \in Worker : pc[x] \in {"new", "leaving", "done"}
    BY <2>1 DEF AllLeft, RunningWorker
  <2> QED
    BY <1>1, <2>2 DEF WorkerStep, Fetch, Resume, SpuriousTaskWakeup, MapTask, ThreadTerminated, EndRun
<1>2. CASE TerminateThreads \/ JoinTest
  <2>1. RunningWorker \in SUBSET Worker /\ running = 0
    BY <1>2 DEF TerminateThreads, JoinTest, RunningWorker
  <2>2. RunningWorker = {}
    BY <2>1, WorkerSets DEF CountersExact
  <2>3. \A x \in Worker : pc[x] \in {"new", "leaving", "done"}
    BY <2>2 DEF RunningWorker
  <2> QED BY <1>2, <2>3 DEF TerminateThreads, JoinTest, BroadcastNewTask, workerVars
<1>3. CASE ClientStep /\ ~TerminateThreads /\ ~JoinTest
  BY <1>3 DEF ClientStep, InitPool, Submit, Call, WaitTest, SpuriousIdleWakeup, ResetMappers,
              BeginCombine, ReduceMapper, JoinWorkers
<1>4. CASE UNCHANGED vars
  BY <1>4 DEF vars, clientVars, workerVars, AllLeft, RunningWorker
<1> QED BY <1>1, <1>2, <1>3, <1>4 DEF Next, Terminated

(* The pool is gone only when the threads were joined, which all of them    *)
(* had left by then, and a thread that is over takes no step.              *)
LEMMA DeadPoolStep ==
  TypeOK /\ Started /\ AllLeft /\ NobodyInDeadPool /\ [Next]_vars => NobodyInDeadPool'
<1> SUFFICES ASSUME TypeOK, Started, AllLeft, NobodyInDeadPool, [Next]_vars,
                    (client = "gone")', NEW v \in Worker
             PROVE  (pc[v] = "done")'
  BY DEF NobodyInDeadPool
<1> USE DEF TypeOK, Types
<1>1. ASSUME NEW w \in Worker, WorkerStep(w) PROVE (pc[v] = "done")'
  <2>1. client = "gone"
    BY <1>1 DEF WorkerStep, Fetch, Resume, TakeTask, GiveUp, WaitForTask, BroadcastIdle,
                SpuriousTaskWakeup, MapTask, ThreadTerminated, EndRun, clientVars
  <2> QED
    BY <1>1, <2>1 DEF NobodyInDeadPool, WorkerStep, Fetch, Resume, SpuriousTaskWakeup, MapTask,
                      ThreadTerminated, EndRun
<1>2. CASE JoinWorkers
  <2>1. pc[v] \in {"unstarted", "done"} /\ pc[v] \in {"new", "leaving", "done"}
    BY <1>2 DEF JoinWorkers, AllLeft, RunningWorker
  <2> QED BY <1>2, <2>1 DEF JoinWorkers, workerVars
<1>3. CASE ClientStep /\ ~JoinWorkers
  BY <1>3 DEF ClientStep, InitPool, Submit, Call, WaitTest, SpuriousIdleWakeup, ResetMappers,
              BeginCombine, ReduceMapper, TerminateThreads, JoinTest
<1>4. CASE UNCHANGED vars
  BY <1>4 DEF vars, clientVars, workerVars, NobodyInDeadPool
<1> QED BY <1>1, <1>2, <1>3, <1>4 DEF Next, Terminated

-----------------------------------------------------------------------------
(* The inductive invariant.                                                *)
LEMMA Initially == Init => IInv
<1> SUFFICES ASSUME Init PROVE IInv
  OBVIOUS
<1> USE DEF Init
<1>1. TypeOK
  <2>1. Types
    <3>1. <<>> \in Seq(Task) /\ submitted \in 0 .. MaxTasks
      BY MaxTasksAssumption
    <3>2. mapped \in [Worker -> Seq(Task)] /\ taskOf \in [Worker -> Task \cup {NoTask}]
      BY <3>1
    <3>3. /\ active \in Int /\ running \in Int /\ pc \in [Worker -> WorkerPlace]
          /\ client \in ClientPlace /\ op \in Op /\ toReduce \subseteq Worker
      BY DEF WorkerPlace, ClientPlace, Op
    <3>4. terminate \in BOOLEAN /\ tasks = <<>> /\ acc = <<>> /\ reduced = <<>>
      OBVIOUS
    <3> QED BY <3>1, <3>2, <3>3, <3>4, Zenon DEF Types
  <2> QED BY <2>1 DEF TypeOK
<1>2. ActiveWorker = {} /\ RunningWorker = {}
  BY DEF ActiveWorker, RunningWorker
<1>3. CountersExact
  BY <1>2, FS_EmptySet DEF CountersExact
<1> QED BY <1>1, <1>3 DEF IInv, TerminateLate, Asleep, Started, AllLeft, NobodyInDeadPool

LEMMA Inductive == IInv /\ [Next]_vars => IInv'
  BY TypeStep, StartedStep, CountersStep, TerminateLateStep, AsleepStep, AllLeftStep, DeadPoolStep
     DEF IInv

LEMMA Invariance == Spec => []IInv
  BY Initially, Inductive, PTL DEF Spec

(* Every variable of the pool keeps its type, and a worker holds a task    *)
(* exactly while it maps one (executeTask's local task and have_task).     *)
THEOREM TypeCorrect == Spec => []TypeOK
<1>1. IInv => TypeOK
  BY DEF IInv
<1> QED BY <1>1, Invariance, PTL

(* active_threads_ and running_threads_ say at every moment how many       *)
(* workers are not asleep and how many have not ended.                     *)
THEOREM CountersCorrect == Spec => []CountersExact
<1>1. IInv => CountersExact
  BY DEF IInv
<1> QED BY <1>1, Invariance, PTL

(* reset() and combine(), which touch the mappers after wait() has left    *)
(* the monitor, never do so while a worker maps or a task is queued.       *)
THEOREM NoRaceOnMappers == Spec => []MappersQuiescent
<1>1. IInv => MappersQuiescent
  BY DEF IInv, Asleep, MappersQuiescent, ActiveWorker
<1> QED BY <1>1, Invariance, PTL

(* terminate_ is set only when the queue is empty, and stays so: the early *)
(* return of executeTask never throws a submitted task away.               *)
THEOREM ShutdownDropsNothing == Spec => []NoTaskDropped
<1>1. IInv => NoTaskDropped
  BY DEF IInv, TerminateLate, NoTaskDropped
<1> QED BY <1>1, Invariance, PTL

(* The destructor frees mappers and threads when no worker can use them.   *)
THEOREM SafeDestruction == Spec => []NobodyInDeadPool
<1>1. IInv => NobodyInDeadPool
  BY DEF IInv
<1> QED BY <1>1, Invariance, PTL

-----------------------------------------------------------------------------
(* ThreadPool implements MapReduce: a task is in one place and there once,  *)
(* so what combine() collects is the set of tasks submitted since the last *)
(* reset, each once.                                                       *)


(* Tasks are numbered as they are submitted: no task has a higher number   *)
(* than the last one, wherever it is.                                      *)
Numbered ==
  /\ \A i \in 1 .. Len(tasks) : tasks[i] <= submitted
  /\ \A w \in Mapping : taskOf[w] <= submitted
  /\ \A w \in Worker : \A i \in 1 .. Len(mapped[w]) : mapped[w][i] <= submitted

(* Before init there is neither a task nor a result.                       *)
Fresh == client = "new" => tasks = <<>> /\ \A w \in Worker : mapped[w] = <<>>

(* In the loop of combine() the reducer has seen the results of the        *)
(* mappers it has been given so far, each result once.                     *)
OnceFrom(s, W) ==
  /\ \A i, j \in 1 .. Len(s) : s[i] = s[j] => i = j
  /\ \A t : (\E i \in 1 .. Len(s) : s[i] = t)
               <=> \E w \in W : \E i \in 1 .. Len(mapped[w]) : mapped[w][i] = t
Collecting == client = "reduce" => toReduce # {} /\ OnceFrom(acc, Worker \ toReduce)

RInv == IInv /\ NoTaskTwice /\ Numbered /\ Fresh /\ Collecting

-----------------------------------------------------------------------------
(* What a step does with tasks.                                            *)
Quiet == UNCHANGED <<tasks, taskOf, mapped, submitted>> /\ Mapping' = Mapping

Taken(w) ==
  /\ tasks # <<>> /\ w \notin Mapping
  /\ taskOf' = [taskOf EXCEPT ![w] = Head(tasks)]
  /\ tasks' = Tail(tasks)
  /\ Mapping' = Mapping \cup {w}
  /\ UNCHANGED <<mapped, submitted>>

Finished(w) ==
  /\ w \in Mapping
  /\ mapped' = [mapped EXCEPT ![w] = Append(@, taskOf[w])]
  /\ taskOf' = [taskOf EXCEPT ![w] = NoTask]
  /\ Mapping' = Mapping \ {w}
  /\ UNCHANGED <<tasks, submitted>>

Emptied ==
  /\ tasks = <<>> /\ Mapping' = {}
  /\ mapped' = [w \in Worker |-> <<>>]
  /\ UNCHANGED <<tasks, taskOf, submitted>>

Queued ==
  /\ submitted' = submitted + 1 /\ submitted < MaxTasks
  /\ tasks' = Append(tasks, submitted')
  /\ Mapping' = Mapping
  /\ UNCHANGED <<taskOf, mapped>>

(* Every step of a worker takes a task, finishes one or leaves the tasks   *)
(* alone.                                                                  *)
LEMMA WorkerStepKinds ==
  ASSUME RInv, NEW w \in Worker, WorkerStep(w)
  PROVE  Quiet \/ Taken(w) \/ Finished(w)
<1> USE DEF RInv, IInv, TypeOK, Types, Mapping
<1>1. ASSUME NEW act \in Int, pc[w] \in {"fetch", "woken"}, TakeTask(w, act)
      PROVE  Taken(w)
  BY <1>1 DEF TakeTask, Taken, clientVars
<1>2. ASSUME NEW act \in Int, pc[w] \in {"fetch", "woken"}, GiveUp(w, act) \/ WaitForTask(w, act)
      PROVE  Quiet
  BY <1>2 DEF GiveUp, WaitForTask, BroadcastIdle, Quiet, clientVars
<1>3. CASE Fetch(w)
  BY <1>3, <1>1, <1>2 DEF Fetch
<1>4. CASE Resume(w)
  <2>1. active + 1 \in Int
    OBVIOUS
  <2> QED BY <1>4, <2>1, <1>1, <1>2 DEF Resume
<1>5. CASE SpuriousTaskWakeup(w) \/ ThreadTerminated(w) \/ EndRun(w)
  BY <1>5 DEF SpuriousTaskWakeup, ThreadTerminated, EndRun, BroadcastIdle, Quiet, clientVars
<1>6. CASE MapTask(w)
  BY <1>6 DEF MapTask, Finished, clientVars
<1> QED BY <1>3, <1>4, <1>5, <1>6 DEF WorkerStep

(* A step of the client queues a task, empties the mappers when there is   *)
(* nothing else left, or leaves the tasks alone.                           *)
LEMMA ClientStepKinds ==
  ASSUME RInv, ClientStep
  PROVE  Quiet \/ Queued \/ Emptied
<1> USE DEF RInv, IInv, TypeOK, Types, Mapping
<1>1. CASE InitPool
  <2>1. tasks = <<>>
    BY <1>1 DEF InitPool, Fresh
  <2>2. \A v \in Worker : pc'[v] # "map"
    BY <1>1 DEF InitPool
  <2> QED BY <1>1, <2>1, <2>2 DEF InitPool, Emptied
<1>2. CASE Submit
  <2>1. \A v \in Worker : pc'[v] = "map" <=> pc[v] = "map"
    BY <1>2 DEF Submit, SignalNewTask
  <2> QED BY <1>2, <2>1 DEF Submit, Queued
<1>3. CASE ResetMappers
  <2>1. tasks = <<>> /\ \A v \in Worker : pc[v] # "map"
    BY <1>3 DEF ResetMappers, Asleep, ActiveWorker
  <2> QED BY <1>3, <2>1 DEF ResetMappers, Emptied
<1>4. CASE TerminateThreads
  <2>1. \A v \in Worker : pc'[v] = "map" <=> pc[v] = "map"
    BY <1>4 DEF TerminateThreads, BroadcastNewTask
  <2> QED BY <1>4, <2>1 DEF TerminateThreads, Quiet
<1>5. CASE (\E o \in Op \ {"none"} : Call(o)) \/ WaitTest \/ SpuriousIdleWakeup
           \/ BeginCombine \/ ReduceMapper \/ JoinTest \/ JoinWorkers
  BY <1>5 DEF Call, WaitTest, SpuriousIdleWakeup, BeginCombine, ReduceMapper, JoinTest, JoinWorkers,
              Quiet, workerVars
<1> QED BY <1>1, <1>2, <1>3, <1>4, <1>5 DEF ClientStep

(* Every step of the pool is one of these.                                 *)
LEMMA StepKinds ==
  RInv /\ [Next]_vars =>
    Quiet \/ Queued \/ Emptied \/ \E w \in Worker : Taken(w) \/ Finished(w)
<1>1. UNCHANGED vars => Quiet
  BY DEF vars, workerVars, clientVars, Quiet, Mapping
<1> QED BY <1>1, WorkerStepKinds, ClientStepKinds DEF Next, Terminated

-----------------------------------------------------------------------------
(* The places that hold tasks hold numbers.                                *)
Placed ==
  /\ tasks \in Seq(Task) /\ taskOf \in [Worker -> Nat] /\ mapped \in [Worker -> Seq(Task)]
  /\ submitted \in Nat /\ Mapping \subseteq Worker
  /\ \A i \in 1 .. Len(tasks) : tasks[i] \in Nat
  /\ \A w \in Worker : mapped[w] \in Seq(Task) /\ taskOf[w] \in Nat
  /\ \A w \in Worker : \A i \in 1 .. Len(mapped[w]) : mapped[w][i] \in Nat

(* Where task numbers can be: in the queue, with a worker, in a mapper.    *)
LEMMA Places == RInv => Placed
<1> SUFFICES ASSUME RInv PROVE Placed
  OBVIOUS
<1>1. /\ tasks \in Seq(Task) /\ taskOf \in [Worker -> Task \cup {NoTask}]
      /\ mapped \in [Worker -> Seq(Task)] /\ submitted \in 0 .. MaxTasks
  BY DEF RInv, IInv, TypeOK, Types
<1>2. \A t \in Task \cup {NoTask} : t \in Nat
  BY MaxTasksAssumption DEF Task, NoTask
<1>3. \A i \in 1 .. Len(tasks) : tasks[i] \in Task
  BY <1>1
<1>4. \A w \in Worker : mapped[w] \in Seq(Task)
  BY <1>1
<1>5. \A w \in Worker : \A i \in 1 .. Len(mapped[w]) : mapped[w][i] \in Task
  BY <1>4
<1>6. Mapping \subseteq Worker
  BY DEF Mapping
<1>7. taskOf \in [Worker -> Nat]
  BY <1>1, <1>2
<1>8. submitted \in Nat
  BY <1>1, MaxTasksAssumption
<1> QED BY <1>1, <1>2, <1>3, <1>4, <1>5, <1>6, <1>7, <1>8 DEF Placed

(* Tasks keep their numbers in order.                                      *)
LEMMA NumberedStep == RInv /\ [Next]_vars => Numbered'
<1> SUFFICES ASSUME RInv, [Next]_vars PROVE Numbered'
  OBVIOUS
<1>a. Numbered
  BY DEF RInv
<1>0. Placed
  BY Places
<1> USE DEF Placed
<1>1. CASE Quiet
  BY <1>1, <1>a DEF Quiet, Numbered
<1>2. CASE Queued
  <2>0. submitted' = submitted + 1 /\ taskOf' = taskOf /\ mapped' = mapped /\ Mapping' = Mapping
    BY <1>2 DEF Queued
  <2>1. /\ Len(tasks') = Len(tasks) + 1 /\ tasks'[Len(tasks) + 1] = submitted'
        /\ \A i \in 1 .. Len(tasks) : tasks'[i] = tasks[i]
    BY <1>2, <1>0 DEF Queued
  <2>2. ASSUME NEW i \in 1 .. Len(tasks') PROVE tasks'[i] <= submitted'
    <3>1. CASE i = Len(tasks) + 1
      BY <3>1, <2>1, <2>0, <1>0
    <3>2. CASE i \in 1 .. Len(tasks)
      <4>1. tasks[i] \in Nat /\ tasks[i] <= submitted
        BY <3>2, <1>0, <1>a DEF Numbered
      <4> QED BY <4>1, <3>2, <2>0, <2>1, <1>0
    <3> QED BY <3>1, <3>2, <2>1, <1>0
  <2>3. ASSUME NEW w \in Mapping PROVE taskOf[w] <= submitted + 1
    <3>1. taskOf[w] \in Nat /\ taskOf[w] <= submitted
      BY <1>0, <1>a DEF Numbered
    <3> QED BY <3>1, <1>0
  <2>4. ASSUME NEW w \in Worker, NEW i \in 1 .. Len(mapped[w]) PROVE mapped[w][i] <= submitted + 1
    <3>1. mapped[w][i] \in Nat /\ mapped[w][i] <= submitted
      BY <1>0, <1>a DEF Numbered
    <3> QED BY <3>1, <1>0
  <2> QED BY <2>0, <2>2, <2>3, <2>4 DEF Numbered
<1>3. CASE Emptied
  BY <1>3 DEF Emptied, Numbered
<1>4. ASSUME NEW w \in Worker, Taken(w) PROVE Numbered'
  BY <1>4, <1>0, <1>a DEF Taken, Numbered
<1>5. ASSUME NEW w \in Worker, Finished(w) PROVE Numbered'
  BY <1>5, <1>0, <1>a DEF Finished, Numbered
<1> QED BY <1>1, <1>2, <1>3, <1>4, <1>5, StepKinds

(* What the queue holds after a task has been appended to it or taken.     *)
LEMMA QueueAfterQueued ==
  ASSUME RInv, Queued
  PROVE  /\ Len(tasks') = Len(tasks) + 1
         /\ tasks'[Len(tasks) + 1] = submitted + 1
         /\ \A i \in 1 .. Len(tasks) : tasks'[i] = tasks[i]
<1>1. tasks \in Seq(Task)
  BY Places DEF Placed
<1> QED BY <1>1 DEF Queued

(* A worker takes the first task of the queue; the others move up.         *)
LEMMA QueueAfterTaken ==
  ASSUME RInv, NEW w \in Worker, Taken(w)
  PROVE  /\ Len(tasks) >= 1 /\ Len(tasks') = Len(tasks) - 1
         /\ Head(tasks) = tasks[1]
         /\ \A i \in 1 .. Len(tasks') : i + 1 \in 1 .. Len(tasks) /\ tasks'[i] = tasks[i + 1]
<1>1. tasks \in Seq(Task)
  BY Places DEF Placed
<1> QED BY <1>1 DEF Taken

(* What the mappers hold after a task has been mapped.                     *)
LEMMA MappersAfterFinished ==
  ASSUME RInv, NEW w \in Worker, Finished(w)
  PROVE  /\ Len(mapped'[w]) = Len(mapped[w]) + 1
         /\ mapped'[w][Len(mapped[w]) + 1] = taskOf[w]
         /\ \A i \in 1 .. Len(mapped[w]) : mapped'[w][i] = mapped[w][i]
         /\ \A v \in Worker \ {w} : mapped'[v] = mapped[v]
<1>1. mapped[w] \in Seq(Task) /\ mapped \in [Worker -> Seq(Task)] /\ taskOf[w] \in Nat
  BY Places DEF Placed
<1>2. mapped'[w] = Append(mapped[w], taskOf[w]) /\ \A v \in Worker \ {w} : mapped'[v] = mapped[v]
  BY <1>1 DEF Finished
<1> QED BY <1>1, <1>2

-----------------------------------------------------------------------------
(* The parts of NoTaskTwice.                                               *)
InOrder == \A i, j \in 1 .. Len(tasks) : i < j => tasks[i] < tasks[j]
TakenFirst == \A w \in Mapping, i \in 1 .. Len(tasks) : taskOf[w] < tasks[i]
TakenOnce == \A v, w \in Mapping : taskOf[v] = taskOf[w] => v = w
MappedFirst == \A w \in Worker : \A i \in 1 .. Len(mapped[w]) :
                 \A k \in 1 .. Len(tasks) : mapped[w][i] < tasks[k]
MappedNotTaken == \A v \in Mapping, w \in Worker : \A i \in 1 .. Len(mapped[w]) :
                    mapped[w][i] # taskOf[v]
MappedOnce == \A v, w \in Worker : \A i \in 1 .. Len(mapped[w]) : \A k \in 1 .. Len(mapped[v]) :
                mapped[w][i] = mapped[v][k] => v = w /\ i = k

(* NoTaskTwice, one place of a task against another.                       *)
LEMMA NoTaskTwiceParts ==
  NoTaskTwice <=> InOrder /\ TakenFirst /\ TakenOnce /\ MappedFirst /\ MappedNotTaken /\ MappedOnce
BY WorkerAssumption
   DEF NoTaskTwice, InOrder, TakenFirst, TakenOnce, MappedFirst, MappedNotTaken, MappedOnce, Mapping

(* No step puts a task in a second place or queues it out of order.        *)
LEMMA NoTaskTwiceStep == RInv /\ [Next]_vars => NoTaskTwice'
<1>a. (NoTaskTwice
         <=> InOrder /\ TakenFirst /\ TakenOnce /\ MappedFirst /\ MappedNotTaken /\ MappedOnce)'
  BY NoTaskTwiceParts, PTL
<1> SUFFICES ASSUME RInv, [Next]_vars
             PROVE  (InOrder /\ TakenFirst /\ TakenOnce /\ MappedFirst /\ MappedNotTaken /\ MappedOnce)'
  BY <1>a
<1>0. /\ InOrder /\ TakenFirst /\ TakenOnce /\ MappedFirst /\ MappedNotTaken /\ MappedOnce
      /\ Numbered /\ Placed
  BY NoTaskTwiceParts, Places DEF RInv
<1>1. CASE Quiet
  BY <1>1, <1>0 DEF Quiet, InOrder, TakenFirst, TakenOnce, MappedFirst, MappedNotTaken, MappedOnce
<1>2. CASE Emptied
  BY <1>2, <1>0 DEF Emptied, InOrder, TakenFirst, TakenOnce, MappedFirst, MappedNotTaken, MappedOnce
<1>3. CASE Queued
  <2>1. /\ taskOf' = taskOf /\ mapped' = mapped /\ Mapping' = Mapping
        /\ Len(tasks) \in Nat /\ submitted \in Nat
    BY <1>3, <1>0 DEF Queued, Placed
  <2>2. \A i \in 1 .. Len(tasks') :
          \/ i \in 1 .. Len(tasks) /\ tasks'[i] = tasks[i]
          \/ i = Len(tasks) + 1 /\ tasks'[i] = submitted + 1
    BY <2>1, <1>3, QueueAfterQueued
  <2>3. InOrder'
    <3> SUFFICES ASSUME NEW i \in 1 .. Len(tasks'), NEW j \in 1 .. Len(tasks'), i < j
                 PROVE  tasks'[i] < tasks'[j]
      BY DEF InOrder
    <3>1. i \in 1 .. Len(tasks) /\ tasks'[i] = tasks[i]
      BY <2>1, <2>2, <1>3, QueueAfterQueued
    <3>2. tasks[i] \in Nat /\ tasks[i] <= submitted
      BY <3>1, <1>0 DEF Placed, Numbered
    <3> QED BY <2>1, <2>2, <3>1, <3>2, <1>0 DEF InOrder
  <2>4. TakenFirst'
    <3> SUFFICES ASSUME NEW v \in Mapping, NEW i \in 1 .. Len(tasks')
                 PROVE  taskOf[v] < tasks'[i]
      BY <2>1 DEF TakenFirst
    <3>1. taskOf[v] \in Nat /\ taskOf[v] <= submitted
      BY <1>0 DEF Placed, Numbered
    <3> QED BY <2>1, <2>2, <3>1, <1>0 DEF TakenFirst
  <2>5. MappedFirst'
    <3> SUFFICES ASSUME NEW v \in Worker, NEW i \in 1 .. Len(mapped[v]), NEW k \in 1 .. Len(tasks')
                 PROVE  mapped[v][i] < tasks'[k]
      BY <2>1 DEF MappedFirst
    <3>1. mapped[v][i] \in Nat /\ mapped[v][i] <= submitted
      BY <1>0 DEF Placed, Numbered
    <3> QED BY <2>1, <2>2, <3>1, <1>0 DEF MappedFirst
  <2> QED BY <2>1, <2>3, <2>4, <2>5, <1>0 DEF TakenOnce, MappedNotTaken, MappedOnce
<1>4. ASSUME NEW w \in Worker, Taken(w)
      PROVE  (InOrder /\ TakenFirst /\ TakenOnce /\ MappedFirst /\ MappedNotTaken /\ MappedOnce)'
  <2>1. /\ mapped' = mapped /\ Mapping' = Mapping \cup {w} /\ w \notin Mapping
        /\ 1 \in 1 .. Len(tasks) /\ tasks[1] \in Nat
        /\ taskOf'[w] = tasks[1] /\ \A v \in Mapping : taskOf'[v] = taskOf[v]
    BY <1>4, <1>0, QueueAfterTaken DEF Taken, Placed
  <2>2. Len(tasks) \in Nat /\ Len(tasks') = Len(tasks) - 1
        /\ \A i \in 1 .. Len(tasks') :
             i + 1 \in 1 .. Len(tasks) /\ tasks'[i] = tasks[i + 1] /\ 1 < i + 1
    BY <1>4, <1>0, QueueAfterTaken DEF Placed
  <2>3. InOrder'
    <3> SUFFICES ASSUME NEW i \in 1 .. Len(tasks'), NEW j \in 1 .. Len(tasks'), i < j
                 PROVE  tasks'[i] < tasks'[j]
      BY DEF InOrder
    <3>1. i + 1 < j + 1
      BY <2>2
    <3> QED BY <2>2, <3>1, <1>0 DEF InOrder
  <2>4. TakenFirst'
    <3> SUFFICES ASSUME NEW v \in Mapping', NEW i \in 1 .. Len(tasks')
                 PROVE  taskOf'[v] < tasks'[i]
      BY DEF TakenFirst
    <3>1. CASE v = w
      BY <2>1, <2>2, <3>1, <1>0 DEF InOrder
    <3>2. CASE v \in Mapping
      BY <2>1, <2>2, <3>2, <1>0 DEF TakenFirst
    <3> QED BY <2>1, <3>1, <3>2
  <2>5. TakenOnce'
    <3>1. \A v \in Mapping : taskOf[v] # tasks[1]
      BY <2>1, <1>0 DEF TakenFirst, Placed
    <3> QED BY <2>1, <3>1, <1>0 DEF TakenOnce
  <2>6. MappedFirst'
    BY <2>1, <2>2, <1>0 DEF MappedFirst
  <2>7. MappedNotTaken'
    <3>1. \A v \in Worker : \A i \in 1 .. Len(mapped[v]) : mapped[v][i] # tasks[1]
      BY <2>1, <1>0 DEF MappedFirst, Placed
    <3> QED BY <2>1, <3>1, <1>0 DEF MappedNotTaken
  <2> QED BY <2>1, <2>3, <2>4, <2>5, <2>6, <2>7, <1>0 DEF MappedOnce
<1>5. ASSUME NEW w \in Worker, Finished(w)
      PROVE  (InOrder /\ TakenFirst /\ TakenOnce /\ MappedFirst /\ MappedNotTaken /\ MappedOnce)'
  <2>1. /\ tasks' = tasks /\ Mapping' = Mapping \ {w} /\ w \in Mapping
        /\ \A v \in Mapping' : taskOf'[v] = taskOf[v]
        /\ \A v \in Worker : Len(mapped[v]) \in Nat
    BY <1>5, <1>0 DEF Finished, Placed
  <2>2. \A v \in Worker : \A i \in 1 .. Len(mapped'[v]) :
          \/ i \in 1 .. Len(mapped[v]) /\ mapped'[v][i] = mapped[v][i]
          \/ v = w /\ i = Len(mapped[w]) + 1 /\ mapped'[v][i] = taskOf[w]
    BY <2>1, <1>5, MappersAfterFinished
  <2>3. InOrder' /\ TakenFirst' /\ TakenOnce'
    BY <2>1, <1>0 DEF InOrder, TakenFirst, TakenOnce
  <2>4. MappedFirst'
    BY <2>1, <2>2, <1>0 DEF MappedFirst, TakenFirst
  <2>5. MappedNotTaken'
    <3> SUFFICES ASSUME NEW v \in Mapping', NEW u \in Worker, NEW i \in 1 .. Len(mapped'[u])
                 PROVE  mapped'[u][i] # taskOf'[v]
      BY DEF MappedNotTaken
    <3>1. v \in Mapping /\ v # w /\ taskOf'[v] = taskOf[v]
      BY <2>1
    <3>2. CASE i \in 1 .. Len(mapped[u]) /\ mapped'[u][i] = mapped[u][i]
      BY <3>1, <3>2, <1>0 DEF MappedNotTaken
    <3>3. CASE mapped'[u][i] = taskOf[w]
      BY <2>1, <3>1, <3>3, <1>0 DEF TakenOnce
    <3> QED BY <2>2, <3>2, <3>3
  <2>6. MappedOnce'
    <3> SUFFICES ASSUME NEW v \in Worker, NEW u \in Worker, NEW i \in 1 .. Len(mapped'[u]),
                        NEW k \in 1 .. Len(mapped'[v]), mapped'[u][i] = mapped'[v][k]
                 PROVE  v = u /\ i = k
      BY DEF MappedOnce
    <3>1. CASE i \in 1 .. Len(mapped[u]) /\ mapped'[u][i] = mapped[u][i]
      <4>1. mapped[u][i] # taskOf[w]
        BY <2>1, <3>1, <1>0 DEF MappedNotTaken
      <4>2. k \in 1 .. Len(mapped[v]) /\ mapped'[v][k] = mapped[v][k]
        BY <2>2, <3>1, <4>1
      <4>3. mapped[u][i] = mapped[v][k]
        BY <3>1, <4>2
      <4> QED BY <3>1, <4>2, <4>3, <1>0 DEF MappedOnce
    <3>2. CASE u = w /\ i = Len(mapped[w]) + 1 /\ mapped'[u][i] = taskOf[w]
      <4>1. v = w /\ k = Len(mapped[w]) + 1
        BY <2>1, <2>2, <3>2, <1>0 DEF MappedNotTaken
      <4> QED BY <3>2, <4>1
    <3> QED BY <2>2, <3>1, <3>2
  <2> QED BY <2>3, <2>4, <2>5, <2>6
<1> QED BY <1>1, <1>2, <1>3, <1>4, <1>5, StepKinds

-----------------------------------------------------------------------------
(* Before init no thread runs and the client makes no other call.          *)
LEMMA FreshStep == RInv /\ [Next]_vars => Fresh'
<1> SUFFICES ASSUME RInv, [Next]_vars, client' = "new"
             PROVE  tasks' = <<>> /\ \A w \in Worker : mapped'[w] = <<>>
  BY DEF Fresh
<1> USE DEF RInv
<1>1. ASSUME NEW w \in Worker, WorkerStep(w) PROVE FALSE
  <2>1. client = "new"
    BY <1>1 DEF WorkerStep, Fetch, Resume, TakeTask, GiveUp, WaitForTask, BroadcastIdle,
                SpuriousTaskWakeup, MapTask, ThreadTerminated, EndRun, clientVars
  <2> QED BY <1>1, <2>1 DEF IInv, Started, WorkerStep, Fetch, Resume, SpuriousTaskWakeup, MapTask,
                            ThreadTerminated, EndRun
<1>2. CASE ClientStep
  BY <1>2 DEF ClientStep, InitPool, Submit, Call, WaitTest, SpuriousIdleWakeup, ResetMappers,
              BeginCombine, ReduceMapper, TerminateThreads, JoinTest, JoinWorkers
<1>3. CASE UNCHANGED vars
  BY <1>3 DEF vars, clientVars, workerVars, Fresh
<1> QED BY <1>1, <1>2, <1>3 DEF Next, Terminated

(* A sequence without repetitions, followed by another one that shares     *)
(* nothing with it, has no repetitions either.                             *)
LEMMA ConcatOnce ==
  ASSUME NEW S, NEW a \in Seq(S), NEW b \in Seq(S),
         \A i, j \in 1 .. Len(a) : a[i] = a[j] => i = j,
         \A i, j \in 1 .. Len(b) : b[i] = b[j] => i = j,
         \A i \in 1 .. Len(a) : \A j \in 1 .. Len(b) : a[i] # b[j]
  PROVE  /\ \A i, j \in 1 .. Len(a \o b) : (a \o b)[i] = (a \o b)[j] => i = j
         /\ \A t : (\E i \in 1 .. Len(a \o b) : (a \o b)[i] = t)
                      <=> \/ \E i \in 1 .. Len(a) : a[i] = t
                          \/ \E i \in 1 .. Len(b) : b[i] = t
<1> DEFINE c == a \o b
<1>1. /\ Len(a) \in Nat /\ Len(b) \in Nat /\ Len(c) = Len(a) + Len(b)
      /\ \A i \in 1 .. Len(a) : c[i] = a[i]
      /\ \A i \in 1 .. Len(b) : c[Len(a) + i] = b[i]
  OBVIOUS
<1> HIDE DEF c
<1>2. \A i \in 1 .. Len(c) :
        \/ i \in 1 .. Len(a) /\ c[i] = a[i]
        \/ \E j \in 1 .. Len(b) : i = Len(a) + j /\ c[i] = b[j]
  <2> SUFFICES ASSUME NEW i \in 1 .. Len(c), i \notin 1 .. Len(a)
               PROVE  \E j \in 1 .. Len(b) : i = Len(a) + j /\ c[i] = b[j]
    BY <1>1
  <2>1. i - Len(a) \in 1 .. Len(b) /\ i = Len(a) + (i - Len(a))
    BY <1>1
  <2> QED BY <2>1, <1>1
<1>3. \A i \in 1 .. Len(a) : i \in 1 .. Len(c)
  BY <1>1
<1>4. \A i \in 1 .. Len(b) : Len(a) + i \in 1 .. Len(c)
  BY <1>1
<1>5. ASSUME NEW i \in 1 .. Len(c), NEW j \in 1 .. Len(c), c[i] = c[j] PROVE i = j
  <2>1. CASE i \in 1 .. Len(a) /\ c[i] = a[i]
    <3>1. j \in 1 .. Len(a) /\ c[j] = a[j]
      <4>1. \A k \in 1 .. Len(b) : a[i] # b[k]
        BY <2>1
      <4> QED BY <1>2, <1>5, <2>1, <4>1
    <3>2. a[i] = a[j]
      BY <1>5, <2>1, <3>1
    <3> QED BY <2>1, <3>1, <3>2
  <2>2. ASSUME NEW k \in 1 .. Len(b), i = Len(a) + k, c[i] = b[k] PROVE i = j
    <3>1. PICK m \in 1 .. Len(b) : j = Len(a) + m /\ c[j] = b[m]
      <4>1. \A m \in 1 .. Len(a) : a[m] # b[k]
        OBVIOUS
      <4> QED BY <1>2, <1>5, <2>2, <4>1
    <3>2. b[k] = b[m]
      BY <1>5, <2>2, <3>1
    <3>3. k = m
      BY <3>2
    <3> QED BY <2>2, <3>1, <3>3
  <2> QED BY <1>2, <2>1, <2>2
<1>6. ASSUME NEW t PROVE (\E i \in 1 .. Len(c) : c[i] = t)
                            <=> \/ \E i \in 1 .. Len(a) : a[i] = t
                                \/ \E i \in 1 .. Len(b) : b[i] = t
  <2>1. ASSUME NEW i \in 1 .. Len(c), c[i] = t
        PROVE  (\E j \in 1 .. Len(a) : a[j] = t) \/ \E j \in 1 .. Len(b) : b[j] = t
    BY <1>2, <2>1
  <2>2. ASSUME NEW i \in 1 .. Len(a), a[i] = t PROVE \E j \in 1 .. Len(c) : c[j] = t
    BY <1>1, <1>3, <2>2
  <2>3. ASSUME NEW i \in 1 .. Len(b), b[i] = t PROVE \E j \in 1 .. Len(c) : c[j] = t
    BY <1>1, <1>4, <2>3
  <2> QED BY <2>1, <2>2, <2>3
<1> QED BY <1>5, <1>6 DEF c

(* One more mapper is reduced, and the reducer has still seen each result  *)
(* of the mappers so far once.                                             *)
LEMMA ReduceOne ==
  ASSUME RInv, client = "reduce", NEW w \in toReduce
  PROVE  OnceFrom(acc \o mapped[w], Worker \ (toReduce \ {w}))
<1>0. /\ w \in Worker /\ acc \in Seq(Task) /\ mapped[w] \in Seq(Task)
      /\ OnceFrom(acc, Worker \ toReduce) /\ MappedOnce
  BY NoTaskTwiceParts DEF RInv, IInv, TypeOK, Types, Collecting
<1>1. \A i, j \in 1 .. Len(mapped[w]) : mapped[w][i] = mapped[w][j] => i = j
  BY <1>0 DEF MappedOnce
<1>2. ASSUME NEW i \in 1 .. Len(acc), NEW j \in 1 .. Len(mapped[w])
      PROVE  acc[i] # mapped[w][j]
  <2>1. PICK v \in Worker \ toReduce : \E k \in 1 .. Len(mapped[v]) : mapped[v][k] = acc[i]
    BY <1>0 DEF OnceFrom
  <2>2. v # w
    OBVIOUS
  <2> QED BY <2>1, <2>2, <1>0 DEF MappedOnce
<1>3. \A i, j \in 1 .. Len(acc) : acc[i] = acc[j] => i = j
  BY <1>0 DEF OnceFrom
<1> DEFINE s == acc \o mapped[w]
<1>4. /\ \A i, j \in 1 .. Len(s) : s[i] = s[j] => i = j
      /\ \A t : (\E i \in 1 .. Len(s) : s[i] = t)
                   <=> \/ \E i \in 1 .. Len(acc) : acc[i] = t
                       \/ \E i \in 1 .. Len(mapped[w]) : mapped[w][i] = t
  BY <1>0, <1>1, <1>2, <1>3, ConcatOnce, ZenonT(60)
<1> HIDE DEF s
<1>5. ASSUME NEW t
      PROVE  (\E i \in 1 .. Len(s) : s[i] = t)
               <=> \E v \in Worker \ (toReduce \ {w}) :
                     \E i \in 1 .. Len(mapped[v]) : mapped[v][i] = t
  <2>1. (\E i \in 1 .. Len(acc) : acc[i] = t)
           <=> \E v \in Worker \ toReduce : \E i \in 1 .. Len(mapped[v]) : mapped[v][i] = t
    BY <1>0 DEF OnceFrom
  <2> QED BY <2>1, <1>4, <1>0
<1>6. OnceFrom(s, Worker \ (toReduce \ {w}))
  BY <1>4, <1>5 DEF OnceFrom
<1> QED BY <1>6 DEF s

(* The loop of combine() keeps what it has collected right.                *)
LEMMA CollectingStep == RInv /\ [Next]_vars => Collecting'
<1> SUFFICES ASSUME RInv, [Next]_vars, client' = "reduce"
             PROVE  toReduce' # {} /\ OnceFrom(acc, Worker \ toReduce)'
  BY DEF Collecting
<1>0. ASSUME client = "reduce", UNCHANGED <<toReduce, acc, mapped>>
      PROVE  toReduce' # {} /\ OnceFrom(acc, Worker \ toReduce)'
  BY <1>0 DEF RInv, Collecting, OnceFrom
<1>1. ASSUME NEW w \in Worker, WorkerStep(w)
      PROVE  toReduce' # {} /\ OnceFrom(acc, Worker \ toReduce)'
  <2>1. client = "reduce" /\ UNCHANGED <<toReduce, acc>>
    BY <1>1 DEF WorkerStep, Fetch, Resume, TakeTask, GiveUp, WaitForTask, BroadcastIdle,
                SpuriousTaskWakeup, MapTask, ThreadTerminated, EndRun, clientVars
  <2>2. pc[w] # "map"
    BY <2>1 DEF RInv, IInv, Asleep, ActiveWorker
  <2>3. mapped' = mapped
    BY <1>1, <2>2 DEF WorkerStep, Fetch, Resume, TakeTask, GiveUp, WaitForTask, SpuriousTaskWakeup,
                      MapTask, ThreadTerminated, EndRun
  <2> QED BY <1>0, <2>1, <2>3
<1>2. CASE BeginCombine
  <2>1. toReduce' = Worker /\ acc' = <<>>
    BY <1>2 DEF BeginCombine
  <2> QED BY <2>1, WorkerAssumption DEF OnceFrom
<1>3. CASE ReduceMapper
  <2>1. PICK w \in toReduce :
          /\ acc' = acc \o mapped[w] /\ toReduce' = toReduce \ {w}
          /\ toReduce = {w} => client' = "out"
    BY <1>3 DEF ReduceMapper
  <2>2. client = "reduce" /\ mapped' = mapped
    BY <1>3 DEF ReduceMapper, workerVars
  <2>3. OnceFrom(acc \o mapped[w], Worker \ (toReduce \ {w}))
    BY <2>2, ReduceOne
  <2> DEFINE seen == acc \o mapped[w]
             read == Worker \ (toReduce \ {w})
  <2>4. acc' = seen /\ (Worker \ toReduce)' = read /\ OnceFrom(seen, read)
    BY <2>1, <2>3
  <2> HIDE DEF seen, read
  <2>5. OnceFrom(acc, Worker \ toReduce)'
    BY <2>2, <2>4 DEF OnceFrom
  <2> QED BY <2>1, <2>5
<1>4. CASE ClientStep /\ ~BeginCombine /\ ~ReduceMapper
  BY <1>4 DEF ClientStep, InitPool, Submit, Call, WaitTest, SpuriousIdleWakeup, ResetMappers,
              TerminateThreads, JoinTest, JoinWorkers
<1>5. CASE UNCHANGED vars
  BY <1>5, <1>0 DEF vars, clientVars, workerVars
<1> QED BY <1>1, <1>2, <1>3, <1>4, <1>5 DEF Next, Terminated

(* Nothing is submitted at first.                                          *)
LEMMA RInitially == Init => RInv
<1> SUFFICES ASSUME Init PROVE RInv
  OBVIOUS
<1>1. IInv
  BY Initially
<1>2. Mapping = {} /\ tasks = <<>> /\ \A w \in Worker : mapped[w] = <<>>
  BY DEF Init, Mapping
<1>3. NoTaskTwice
  BY <1>2 DEF NoTaskTwice
<1>4. Numbered /\ Fresh
  BY <1>2 DEF Numbered, Fresh
<1>5. Collecting
  BY DEF Init, Collecting
<1> QED BY <1>1, <1>3, <1>4, <1>5 DEF RInv

(* The invariant of the refinement is inductive.                           *)
LEMMA RInductive == RInv /\ [Next]_vars => RInv'
  BY Inductive, NoTaskTwiceStep, NumberedStep, FreshStep, CollectingStep DEF RInv

(* The invariant of the refinement holds of the specification.             *)
LEMMA RInvariance == Spec => []RInv
  BY RInitially, RInductive, PTL DEF Spec

(* A submitted task is queued, or with one worker, or in one mapper, and   *)
(* it is there once: no interleaving of submit, the workers' pops and the  *)
(* wakeups of the two conditions maps a task twice.                        *)
THEOREM TasksOnce == Spec => []NoTaskTwice
<1>1. RInv => NoTaskTwice
  BY DEF RInv
<1> QED BY <1>1, RInvariance, PTL

-----------------------------------------------------------------------------
(* The refinement.                                                         *)

(* What is still to be reduced is queued, being mapped, or mapped.         *)
LEMMA InTodo ==
  ASSUME NEW t
  PROVE  t \in Todo <=> \/ \E i \in 1 .. Len(tasks) : tasks[i] = t
                        \/ \E w \in Mapping : taskOf[w] = t
                        \/ \E w \in Worker : \E i \in 1 .. Len(mapped[w]) : mapped[w][i] = t
BY DEF Todo, Held

(* The same after a step.                                                  *)
LEMMA InTodoNext ==
  ASSUME NEW t
  PROVE  t \in Todo' <=> \/ \E i \in 1 .. Len(tasks') : tasks'[i] = t
                         \/ \E w \in Mapping' : taskOf'[w] = t
                         \/ \E w \in Worker : \E i \in 1 .. Len(mapped'[w]) : mapped'[w][i] = t
BY DEF Todo, Held

(* Taking a task from the queue, or mapping it, changes where it is only.  *)
LEMMA TakenKeepsTodo ==
  ASSUME RInv, NEW w \in Worker, Taken(w) PROVE Todo' = Todo
<1>1. /\ mapped' = mapped /\ Mapping' = Mapping \cup {w} /\ w \notin Mapping
      /\ taskOf'[w] = tasks[1] /\ \A v \in Mapping : taskOf'[v] = taskOf[v]
  BY Places, QueueAfterTaken DEF Taken, Placed
<1>2. ASSUME NEW t
      PROVE  (\E i \in 1 .. Len(tasks) : tasks[i] = t)
               <=> (\E i \in 1 .. Len(tasks') : tasks'[i] = t) \/ tasks[1] = t
  <2>1. /\ Len(tasks) \in Nat /\ Len(tasks) >= 1 /\ Len(tasks') = Len(tasks) - 1
        /\ \A i \in 1 .. Len(tasks') : i + 1 \in 1 .. Len(tasks) /\ tasks'[i] = tasks[i + 1]
    BY Places, QueueAfterTaken DEF Placed
  <2>2. ASSUME NEW i \in 1 .. Len(tasks), i # 1, tasks[i] = t
        PROVE  \E j \in 1 .. Len(tasks') : tasks'[j] = t
    <3>1. i - 1 \in 1 .. Len(tasks') /\ (i - 1) + 1 = i
      BY <2>1, <2>2
    <3>2. tasks'[i - 1] = t
      BY <2>1, <2>2, <3>1
    <3> QED BY <3>1, <3>2
  <2>3. 1 \in 1 .. Len(tasks)
    BY <2>1
  <2> QED BY <2>1, <2>2, <2>3
<1>3. ASSUME NEW t
      PROVE  (\E v \in Mapping' : taskOf'[v] = t)
               <=> (\E v \in Mapping : taskOf[v] = t) \/ tasks[1] = t
  BY <1>1
<1>4. mapped' = mapped
  BY DEF Taken
<1>5. ASSUME NEW t PROVE t \in Todo' <=> t \in Todo
  <2> DEFINE queued  == \E i \in 1 .. Len(tasks) : tasks[i] = t
             queued1 == \E i \in 1 .. Len(tasks') : tasks'[i] = t
             taken   == \E v \in Mapping : taskOf[v] = t
             taken1  == \E v \in Mapping' : taskOf'[v] = t
             done    == \E v \in Worker : \E i \in 1 .. Len(mapped[v]) : mapped[v][i] = t
  <2>1. t \in Todo <=> queued \/ taken \/ done
    BY InTodo
  <2>2. t \in Todo' <=> queued1 \/ taken1 \/ done
    BY <1>4, InTodoNext
  <2>3. (queued <=> queued1 \/ tasks[1] = t) /\ (taken1 <=> taken \/ tasks[1] = t)
    BY <1>2, <1>3
  <2> HIDE DEF queued, queued1, taken, taken1, done
  <2> QED BY <2>1, <2>2, <2>3
<1> QED BY <1>5

(* A worker that finishes a task keeps it in its mapper.                   *)
LEMMA FinishedKeepsTodo ==
  ASSUME RInv, NEW w \in Worker, Finished(w) PROVE Todo' = Todo
<1>1. /\ tasks' = tasks /\ Mapping' = Mapping \ {w} /\ w \in Mapping /\ Mapping \subseteq Worker
      /\ \A v \in Mapping' : taskOf'[v] = taskOf[v]
  BY Places DEF Finished, Placed
<1>2. ASSUME NEW t
      PROVE  (\E v \in Worker : \E i \in 1 .. Len(mapped'[v]) : mapped'[v][i] = t)
               <=> \/ \E v \in Worker : \E i \in 1 .. Len(mapped[v]) : mapped[v][i] = t
                   \/ taskOf[w] = t
  <2>1. /\ Len(mapped[w]) \in Nat /\ Len(mapped'[w]) = Len(mapped[w]) + 1
        /\ mapped'[w][Len(mapped[w]) + 1] = taskOf[w]
        /\ \A i \in 1 .. Len(mapped[w]) : mapped'[w][i] = mapped[w][i]
        /\ \A v \in Worker \ {w} : mapped'[v] = mapped[v]
    BY Places, MappersAfterFinished DEF Placed
  <2>2. \A i \in 1 .. Len(mapped'[w]) : i \in 1 .. Len(mapped[w]) \/ i = Len(mapped[w]) + 1
    BY <2>1
  <2>3. /\ Len(mapped[w]) + 1 \in 1 .. Len(mapped'[w])
        /\ \A i \in 1 .. Len(mapped[w]) : i \in 1 .. Len(mapped'[w])
    BY <2>1
  <2>4. (\E i \in 1 .. Len(mapped'[w]) : mapped'[w][i] = t)
          <=> (\E i \in 1 .. Len(mapped[w]) : mapped[w][i] = t) \/ taskOf[w] = t
    BY <2>1, <2>2, <2>3
  <2> QED BY <2>1, <2>4
<1>3. ASSUME NEW t
      PROVE  (\E v \in Mapping : taskOf[v] = t)
               <=> (\E v \in Mapping' : taskOf'[v] = t) \/ taskOf[w] = t
  BY <1>1
<1>4. \A t : t \in Todo' <=> t \in Todo
  BY <1>1, <1>2, <1>3, InTodo, InTodoNext
<1> QED BY <1>4

(* submit() adds a task that was not there.                                *)
LEMMA QueuedAddsTodo ==
  ASSUME RInv, Queued
  PROVE  /\ submitted + 1 \in Task \ Todo
         /\ Todo' = Todo \cup {submitted + 1}
<1>0. Placed /\ Numbered
  BY Places DEF RInv
<1>1. submitted + 1 \in Task
  BY <1>0, MaxTasksAssumption DEF Queued, Placed, Task
<1>2. submitted + 1 \notin Todo
  <2>1. \A i \in 1 .. Len(tasks) : tasks[i] # submitted + 1
    BY <1>0 DEF Placed, Numbered
  <2>2. \A w \in Mapping : taskOf[w] # submitted + 1
    BY <1>0 DEF Placed, Numbered
  <2>3. \A w \in Worker : \A i \in 1 .. Len(mapped[w]) : mapped[w][i] # submitted + 1
    BY <1>0 DEF Placed, Numbered
  <2> QED BY <2>1, <2>2, <2>3, InTodo
<1>3. /\ Len(tasks) \in Nat /\ Len(tasks') = Len(tasks) + 1
      /\ tasks'[Len(tasks) + 1] = submitted + 1
      /\ \A i \in 1 .. Len(tasks) : tasks'[i] = tasks[i]
  BY <1>0, QueueAfterQueued DEF Placed
<1>4. ASSUME NEW t
      PROVE  (\E i \in 1 .. Len(tasks') : tasks'[i] = t)
               <=> (\E i \in 1 .. Len(tasks) : tasks[i] = t) \/ submitted + 1 = t
  <2>1. \A i \in 1 .. Len(tasks') : i \in 1 .. Len(tasks) \/ i = Len(tasks) + 1
    BY <1>3
  <2>2. /\ Len(tasks) + 1 \in 1 .. Len(tasks')
        /\ \A i \in 1 .. Len(tasks) : i \in 1 .. Len(tasks')
    BY <1>3
  <2> QED BY <1>3, <2>1, <2>2
<1>5. taskOf' = taskOf /\ mapped' = mapped /\ Mapping' = Mapping
  BY DEF Queued
<1>6. \A t : t \in Todo' <=> t \in Todo \/ t = submitted + 1
  BY <1>4, <1>5, InTodo, InTodoNext
<1> QED BY <1>1, <1>2, <1>6

(* A sequence without repetitions is the bag of the set of its members.    *)
LEMMA BagOfOnce ==
  ASSUME NEW s, \A i, j \in 1 .. Len(s) : s[i] = s[j] => i = j
  PROVE  BagOf(s) = Promise!SetToBag({s[i] : i \in 1 .. Len(s)})
<1> DEFINE S == {s[i] : i \in 1 .. Len(s)}
<1>1. ASSUME NEW t \in S PROVE Cardinality({i \in 1 .. Len(s) : s[i] = t}) = 1
  <2>1. PICK j \in 1 .. Len(s) : s[j] = t
    OBVIOUS
  <2>2. {i \in 1 .. Len(s) : s[i] = t} = {j}
    BY <2>1
  <2> QED BY <2>2, FS_Singleton
<1>2. BagOf(s) = [t \in S |-> 1]
  BY <1>1 DEF BagOf
<1> QED BY <1>2 DEF Promise!SetToBag

(* The last step of combine()'s loop is the promised Combine.              *)
LEMMA LastReduce ==
  ASSUME RInv, client = "reduce", NEW w, toReduce = {w},
         acc' = acc \o mapped[w], reduced' = acc'
  PROVE  BagOf(reduced)' = Promise!SetToBag(Todo)
<1> DEFINE seen == acc \o mapped[w]
<1>1. OnceFrom(seen, Worker)
  <2>1. w \in toReduce /\ Worker \ (toReduce \ {w}) = Worker
    OBVIOUS
  <2> QED BY <2>1, ReduceOne
<1>2. BagOf(reduced)' = BagOf(seen)
  BY DEF BagOf
<1> HIDE DEF seen
<1>3. tasks = <<>> /\ Mapping = {}
  BY DEF RInv, IInv, Asleep, ActiveWorker, Mapping
<1>4. \A t : t \in Todo <=> t \in {seen[i] : i \in 1 .. Len(seen)}
  <2> SUFFICES ASSUME NEW t
               PROVE  t \in Todo <=> \E i \in 1 .. Len(seen) : seen[i] = t
    OBVIOUS
  <2>1. t \in Todo <=> \E v \in Worker : \E i \in 1 .. Len(mapped[v]) : mapped[v][i] = t
    BY <1>3, InTodo
  <2> QED BY <1>1, <2>1 DEF OnceFrom
<1>5. Todo = {seen[i] : i \in 1 .. Len(seen)}
  BY <1>4
<1>6. \A i, j \in 1 .. Len(seen) : seen[i] = seen[j] => i = j
  BY <1>1 DEF OnceFrom
<1> QED BY <1>2, <1>5, <1>6, BagOfOnce

(* Every step of the pool is a step of the promise or leaves its variables *)
(* alone.                                                                  *)
LEMMA RefinementStep == RInv /\ [Next]_vars => [Promise!Next]_<<Todo, BagOf(reduced)>>
<1> SUFFICES ASSUME RInv, [Next]_vars
             PROVE  Promise!Next \/ UNCHANGED <<Todo, BagOf(reduced)>>
  OBVIOUS
<1>0. ASSUME reduced' = reduced PROVE BagOf(reduced)' = BagOf(reduced)
  BY <1>0 DEF BagOf
<1>1. ASSUME Quiet PROVE Todo' = Todo
  BY <1>1 DEF Quiet, Todo, Held
<1>2. ASSUME reduced' = reduced, Queued PROVE Promise!Submit
  <2>1. submitted + 1 \in Task \ Todo /\ Todo' = Todo \cup {submitted + 1}
    BY <1>2, QueuedAddsTodo
  <2> QED BY <1>0, <1>2, <2>1 DEF Promise!Submit
<1>3. ASSUME reduced' = reduced, Emptied PROVE Promise!Reset
  <2>1. \A t : t \notin Todo'
    BY <1>3, InTodoNext DEF Emptied
  <2> QED BY <1>0, <1>3, <2>1 DEF Promise!Reset
<1>4. ASSUME reduced' = reduced PROVE Promise!Next \/ UNCHANGED <<Todo, BagOf(reduced)>>
  <2>1. CASE Quiet
    BY <1>0, <1>1, <1>4, <2>1
  <2>2. CASE Queued \/ Emptied
    BY <1>2, <1>3, <1>4, <2>2 DEF Promise!Next
  <2>3. ASSUME NEW w \in Worker, Taken(w) \/ Finished(w) PROVE Todo' = Todo
    BY <2>3, TakenKeepsTodo, FinishedKeepsTodo
  <2> QED BY <1>0, <1>4, <2>1, <2>2, <2>3, StepKinds
<1>5. ASSUME NEW w \in Worker, WorkerStep(w) PROVE reduced' = reduced
  BY <1>5 DEF WorkerStep, Fetch, Resume, TakeTask, GiveUp, WaitForTask, BroadcastIdle,
              SpuriousTaskWakeup, MapTask, ThreadTerminated, EndRun, clientVars
<1>6. CASE ReduceMapper
  <2>1. PICK w \in toReduce :
          /\ acc' = acc \o mapped[w]
          /\ IF toReduce = {w} THEN reduced' = acc' ELSE reduced' = reduced
    BY <1>6 DEF ReduceMapper
  <2>2. CASE toReduce = {w}
    <3>1. client = "reduce" /\ Quiet
      BY <1>6 DEF ReduceMapper, Quiet, workerVars, Mapping
    <3>2. BagOf(reduced)' = Promise!SetToBag(Todo)
      BY <2>1, <2>2, <3>1, LastReduce
    <3> QED BY <1>1, <3>1, <3>2 DEF Promise!Next, Promise!Combine
  <2> QED BY <1>4, <2>1, <2>2
<1>7. CASE ClientStep /\ ~ReduceMapper
  <2>1. reduced' = reduced
    BY <1>7 DEF ClientStep, InitPool, Submit, Call, WaitTest, SpuriousIdleWakeup, ResetMappers,
                BeginCombine, TerminateThreads, JoinTest, JoinWorkers
  <2> QED BY <2>1, <1>4
<1>8. CASE UNCHANGED vars
  <2>1. reduced' = reduced
    BY <1>8 DEF vars, clientVars
  <2> QED BY <2>1, <1>4
<1> QED BY <1>4, <1>5, <1>6, <1>7, <1>8 DEF Next, Terminated

(* The pool begins as the abstract map and reduce does.                    *)
LEMMA RefinementInit == Init => Promise!Init
<1> SUFFICES ASSUME Init PROVE Promise!Init
  OBVIOUS
<1>1. \A t : t \notin Todo
  BY InTodo DEF Init, Mapping
<1>2. reduced = <<>>
  BY DEF Init
<1>3. \A i, j \in 1 .. Len(reduced) : reduced[i] = reduced[j] => i = j
  BY <1>2
<1>4. BagOf(reduced) = Promise!SetToBag({reduced[i] : i \in 1 .. Len(reduced)})
  BY <1>3, BagOfOnce
<1>5. {reduced[i] : i \in 1 .. Len(reduced)} = {}
  BY <1>2
<1> QED BY <1>1, <1>4, <1>5 DEF Promise!Init, Promise!EmptyBag

(* The pool implements its promise: what a finished combine() has seen is  *)
(* the set of tasks submitted since the last reset(), each exactly once,   *)
(* whatever the number of workers and however they are scheduled.          *)
THEOREM PoolImplementsMapReduce == Spec => MapReduceOK
<1>1. RInv /\ [Next]_vars => [Promise!Next]_Promise!vars
  BY RefinementStep DEF Promise!vars
<1> QED BY <1>1, RefinementInit, RInvariance, PTL DEF Spec, MapReduceOK, Promise!Spec
=============================================================================
