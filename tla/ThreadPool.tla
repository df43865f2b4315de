----------------------------- MODULE ThreadPool -----------------------------
(***************************************************************************)
(* Core::ThreadPool (Core/ThreadPool.hh, Core/Thread.hh): a monitor shared *)
(* by the worker threads and the one client thread that calls init,        *)
(* submit, wait, reset, combine and the destructor.                        *)
(*                                                                         *)
(* A critical section, from the acquisition of monitor_ to its release or  *)
(* to a wait on one of the two conditions, is one step.  A thread that has *)
(* left a condition's wait has to take monitor_ again, a step of its own;  *)
(* it may have left it because it was signalled or for no reason at all.   *)
(* terminateThreads() joins the threads inside its critical section.        *)
(* combine() reads the mappers outside the monitor, one step per mapper.   *)
(***************************************************************************)
EXTENDS Integers, Sequences, FiniteSets, Bags

CONSTANTS Worker,        \* the worker threads, each with its mapper
          MaxTasks,      \* bound: tasks submitted in a behaviour
          StartMayFail   \* whether pthread_create may fail in Thread::start

ASSUME WorkerAssumption   == IsFiniteSet(Worker) /\ Worker # {}
ASSUME MaxTasksAssumption == MaxTasks \in Nat
ASSUME StartAssumption    == StartMayFail \in BOOLEAN

Task   == 1 .. MaxTasks
NoTask == 0

VARIABLES
  tasks,       \* tasks_
  active,      \* active_threads_
  running,     \* running_threads_
  terminate,   \* terminate_
  pc,          \* where each worker thread is
  taskOf,      \* the task a worker has taken from tasks_
  mapped,      \* tasks whose results a worker's mapper holds
  client,      \* where the client thread is
  op,          \* the call the client is in
  submitted,   \* number of tasks submitted so far; tasks are named in order
  toReduce,    \* workers whose mapper combine() has not read yet
  acc,         \* tasks whose results the current reducer has seen
  reduced      \* what the last finished combine() saw

workerVars == <<pc, taskOf, mapped>>
clientVars == <<client, op, submitted, toReduce, acc, reduced>>
countVars  == <<active, running>>
vars == <<tasks, countVars, terminate, workerVars, clientVars>>

(***************************************************************************)
(* Places of a worker thread.                                              *)
(*   new        init has not run                                           *)
(*   unstarted  init counted the thread but pthread_create failed          *)
(*   fetch      about to enter executeTask's critical section              *)
(*   waiting    in new_task_.wait                                          *)
(*   woken      out of new_task_.wait, has to take monitor_ again          *)
(*   map        in mapper->map(task), outside the monitor                  *)
(*   exit       executeTask returned false, threadTerminated is next       *)
(*   leaving    out of threadTerminated, run() is about to return          *)
(*   done       the thread is over                                         *)
(***************************************************************************)
WorkerPlace == {"new", "unstarted", "fetch", "waiting", "woken", "map", "exit", "leaving", "done"}

(***************************************************************************)
(* Places of the client thread.                                            *)
(*   new      before init                                                  *)
(*   out      between two calls                                            *)
(*   check    about to test the loop condition of wait()                   *)
(*   blocked  in thread_idle_.wait, called from wait()                     *)
(*   apply    wait() has returned to reset, combine or shutdown            *)
(*   reduce   in the loop of combine                                       *)
(*   join     about to test the loop condition of terminateThreads         *)
(*   parked   in thread_idle_.wait, called from terminateThreads           *)
(*   joining  in the loop that joins the threads, holding monitor_         *)
(*   gone     the pool is destroyed                                        *)
(***************************************************************************)
ClientPlace == {"new", "out", "check", "blocked", "apply", "reduce", "join", "parked", "joining", "gone"}
Op == {"none", "wait", "reset", "combine", "shutdown"}

Init ==
  /\ tasks = <<>> /\ active = 0 /\ running = 0 /\ terminate = FALSE
  /\ pc = [w \in Worker |-> "new"]
  /\ taskOf = [w \in Worker |-> NoTask]
  /\ mapped = [w \in Worker |-> <<>>]
  /\ client = "new" /\ op = "none" /\ submitted = 0
  /\ toReduce = {} /\ acc = <<>> /\ reduced = <<>>

-----------------------------------------------------------------------------
(* Only the joins keep monitor_ beyond a step. *)
MonitorFree == client # "joining"

(* thread_idle_.broadcast(): the only thread that waits on it is the client *)
BroadcastIdle ==
  /\ client' = CASE client = "blocked" -> "check"
                 [] client = "parked"  -> "join"
                 [] OTHER              -> client
  /\ UNCHANGED <<op, submitted, toReduce, acc, reduced>>

(* Mutant of SignalNewTask: submit forgets the signal. *)
NoSignal == UNCHANGED pc

(* new_task_.signal(): one waiting worker, if there is one *)
SignalNewTask ==
  IF \E w \in Worker : pc[w] = "waiting"
  THEN \E w \in Worker : pc[w] = "waiting" /\ pc' = [pc EXCEPT ![w] = "woken"]
  ELSE UNCHANGED pc

(* new_task_.broadcast() *)
BroadcastNewTask ==
  pc' = [w \in Worker |-> IF pc[w] = "waiting" THEN "woken" ELSE pc[w]]

-----------------------------------------------------------------------------
(* The loop of executeTask, entered with act active threads.               *)

(* Mutant of TakeTask: the task is read but not popped. *)
TakeTaskKeep(w, act) ==
  /\ tasks # <<>>
  /\ taskOf' = [taskOf EXCEPT ![w] = Head(tasks)]
  /\ pc' = [pc EXCEPT ![w] = "map"]
  /\ active' = act
  /\ UNCHANGED <<tasks, running, terminate, mapped, clientVars>>

TakeTask(w, act) ==
  /\ tasks # <<>>
  /\ taskOf' = [taskOf EXCEPT ![w] = Head(tasks)]
  /\ tasks' = Tail(tasks)
  /\ pc' = [pc EXCEPT ![w] = "map"]
  /\ active' = act
  /\ UNCHANGED <<running, terminate, mapped, clientVars>>

GiveUp(w, act) ==
  /\ pc' = [pc EXCEPT ![w] = "exit"]
  /\ active' = act
  /\ UNCHANGED <<tasks, running, terminate, taskOf, mapped, clientVars>>

WaitForTask(w, act) ==
  /\ tasks = <<>> /\ ~terminate
  /\ active' = act - 1
  /\ BroadcastIdle
  /\ pc' = [pc EXCEPT ![w] = "waiting"]
  /\ UNCHANGED <<tasks, running, terminate, taskOf, mapped>>

(* executeTask up to the end of its critical section *)
Fetch(w) ==
  /\ pc[w] = "fetch" /\ MonitorFree
  /\ \/ terminate /\ GiveUp(w, active)
     \/ ~terminate /\ TakeTask(w, active)
     \/ WaitForTask(w, active)

(* Mutant of Resume: ++active_threads_ is missing after the wait. *)
ResumeUncounted(w) ==
  /\ pc[w] = "woken" /\ MonitorFree
  /\ \/ TakeTask(w, active)
     \/ tasks = <<>> /\ terminate /\ GiveUp(w, active)
     \/ WaitForTask(w, active)

(* executeTask from the return of new_task_.wait *)
Resume(w) ==
  /\ pc[w] = "woken" /\ MonitorFree
  /\ \/ TakeTask(w, active + 1)
     \/ tasks = <<>> /\ terminate /\ GiveUp(w, active + 1)
     \/ WaitForTask(w, active + 1)

(* new_task_.wait may return without a signal *)
SpuriousTaskWakeup(w) ==
  /\ pc[w] = "waiting"
  /\ pc' = [pc EXCEPT ![w] = "woken"]
  /\ UNCHANGED <<tasks, countVars, terminate, taskOf, mapped, clientVars>>

(* Mutant of MapTask: the worker keeps the task it has mapped. *)
MapTaskKeep(w) ==
  /\ pc[w] = "map"
  /\ mapped' = [mapped EXCEPT ![w] = Append(@, taskOf[w])]
  /\ pc' = [pc EXCEPT ![w] = "fetch"]
  /\ UNCHANGED <<tasks, countVars, terminate, taskOf, clientVars>>

(* the end of mapper->map(task) *)
MapTask(w) ==
  /\ pc[w] = "map"
  /\ mapped' = [mapped EXCEPT ![w] = Append(@, taskOf[w])]
  /\ taskOf' = [taskOf EXCEPT ![w] = NoTask]
  /\ pc' = [pc EXCEPT ![w] = "fetch"]
  /\ UNCHANGED <<tasks, countVars, terminate, clientVars>>

(* Mutant of ThreadTerminated: the broadcast is missing. *)
ThreadTerminatedSilently(w) ==
  /\ pc[w] = "exit" /\ MonitorFree
  /\ active' = active - 1
  /\ running' = running - 1
  /\ pc' = [pc EXCEPT ![w] = "leaving"]
  /\ UNCHANGED <<tasks, terminate, taskOf, mapped, clientVars>>

ThreadTerminated(w) ==
  /\ pc[w] = "exit" /\ MonitorFree
  /\ active' = active - 1
  /\ running' = running - 1
  /\ BroadcastIdle
  /\ pc' = [pc EXCEPT ![w] = "leaving"]
  /\ UNCHANGED <<tasks, terminate, taskOf, mapped>>

(* run() returns to the code of the thread object *)
EndRun(w) ==
  /\ pc[w] = "leaving"
  /\ pc' = [pc EXCEPT ![w] = "done"]
  /\ UNCHANGED <<tasks, countVars, terminate, taskOf, mapped, clientVars>>

-----------------------------------------------------------------------------
(* The client.  init() counts a thread before it starts it and ignores the *)
(* result of start().                                                      *)

InitPool ==
  /\ client = "new"
  /\ \E started \in IF StartMayFail THEN SUBSET Worker ELSE {Worker} :
       pc' = [w \in Worker |-> IF w \in started THEN "fetch" ELSE "unstarted"]
  /\ active' = Cardinality(Worker)
  /\ running' = Cardinality(Worker)
  /\ mapped' = [w \in Worker |-> <<>>]
  /\ client' = "out"
  /\ UNCHANGED <<tasks, terminate, taskOf, op, submitted, toReduce, acc, reduced>>

Submit ==
  /\ client = "out" /\ submitted < MaxTasks
  /\ submitted' = submitted + 1
  /\ tasks' = Append(tasks, submitted')
  /\ SignalNewTask
  /\ UNCHANGED <<countVars, terminate, taskOf, mapped, client, op, toReduce, acc, reduced>>

(* wait, reset, combine and the destructor's shutdown all start with wait() *)
Call(o) ==
  /\ client = "out"
  /\ op' = o
  /\ client' = "check"
  /\ UNCHANGED <<tasks, countVars, terminate, workerVars, submitted, toReduce, acc, reduced>>

(* The counters are u32, so "> 0" in the code is "# 0".                   *)

(* Mutants of Idle: wait() looks at the queue only, or at the workers only. *)
IdleQueueOnly  == tasks = <<>>
IdleActiveOnly == active = 0

Idle == active = 0 /\ tasks = <<>>

(* one test of the loop condition of wait() *)
WaitTest ==
  /\ client = "check"
  /\ \/ ~Idle /\ client' = "blocked" /\ UNCHANGED op
     \/ Idle /\ op = "wait" /\ client' = "out" /\ op' = "none"
     \/ Idle /\ op # "wait" /\ client' = "apply" /\ UNCHANGED op
  /\ UNCHANGED <<tasks, countVars, terminate, workerVars, submitted, toReduce, acc, reduced>>

(* thread_idle_.wait may return without a broadcast *)
SpuriousIdleWakeup ==
  /\ \/ client = "blocked" /\ client' = "check"
     \/ client = "parked"  /\ client' = "join"
  /\ UNCHANGED <<tasks, countVars, terminate, workerVars, op, submitted, toReduce, acc, reduced>>

(* the second critical section of reset() *)
ResetMappers ==
  /\ client = "apply" /\ op = "reset"
  /\ mapped' = [w \in Worker |-> <<>>]
  /\ client' = "out" /\ op' = "none"
  /\ UNCHANGED <<tasks, countVars, terminate, pc, taskOf, submitted, toReduce, acc, reduced>>

BeginCombine ==
  /\ client = "apply" /\ op = "combine"
  /\ client' = "reduce"
  /\ toReduce' = Worker
  /\ acc' = <<>>
  /\ UNCHANGED <<tasks, countVars, terminate, workerVars, op, submitted, reduced>>

(* reducer->reduce(threads_[t]->getMapper()), without the monitor *)
ReduceMapper ==
  /\ client = "reduce"
  /\ \E w \in toReduce :
       /\ acc' = acc \o mapped[w]
       /\ toReduce' = toReduce \ {w}
       /\ IF toReduce = {w}
          THEN client' = "out" /\ op' = "none" /\ reduced' = acc'
          ELSE UNCHANGED <<client, op, reduced>>
  /\ UNCHANGED <<tasks, countVars, terminate, workerVars, submitted>>

(* terminateThreads() up to the first test of its loop *)
TerminateThreads ==
  /\ client = "apply" /\ op = "shutdown"
  /\ terminate' = TRUE
  /\ BroadcastNewTask
  /\ client' = IF running # 0 THEN "parked" ELSE "joining"
  /\ UNCHANGED <<tasks, countVars, taskOf, mapped, op, submitted, toReduce, acc, reduced>>

(* another test of it *)
JoinTest ==
  /\ client = "join"
  /\ client' = IF running # 0 THEN "parked" ELSE "joining"
  /\ UNCHANGED <<tasks, countVars, terminate, workerVars, op, submitted, toReduce, acc, reduced>>

(* Mutant of JoinWorkers: the threads are not joined. *)
JoinWorkersNot ==
  /\ client = "joining"
  /\ client' = "gone"
  /\ UNCHANGED <<tasks, countVars, terminate, workerVars, op, submitted, toReduce, acc, reduced>>

(* the loop that joins every thread that was started; after it the         *)
(* destructor frees mappers and thread objects                             *)
JoinWorkers ==
  /\ client = "joining" /\ \A w \in Worker : pc[w] \in {"unstarted", "done"}
  /\ client' = "gone"
  /\ UNCHANGED <<tasks, countVars, terminate, workerVars, op, submitted, toReduce, acc, reduced>>

-----------------------------------------------------------------------------
WorkerStep(w) ==
  \/ Fetch(w) \/ Resume(w) \/ SpuriousTaskWakeup(w) \/ MapTask(w)
  \/ ThreadTerminated(w) \/ EndRun(w)

ClientStep ==
  \/ InitPool \/ Submit \/ \E o \in Op \ {"none"} : Call(o)
  \/ WaitTest \/ SpuriousIdleWakeup \/ ResetMappers
  \/ BeginCombine \/ ReduceMapper \/ TerminateThreads \/ JoinTest \/ JoinWorkers

Terminated == client = "gone" /\ UNCHANGED vars

(* monitor_ is held for a whole step, so steps never overlap. *)
Next == ClientStep \/ (\E w \in Worker : WorkerStep(w)) \/ Terminated

Spec == Init /\ [][Next]_vars

(* A thread that can run is scheduled eventually and a call that can       *)
(* proceed does; the client need not make another call, no wakeup comes    *)
(* for free.                                                               *)
Fairness ==
  /\ \A w \in Worker : WF_vars(Fetch(w) \/ Resume(w) \/ MapTask(w) \/ ThreadTerminated(w) \/ EndRun(w))
  /\ WF_vars(WaitTest \/ ResetMappers \/ BeginCombine \/ ReduceMapper
               \/ TerminateThreads \/ JoinTest \/ JoinWorkers)

FairSpec == Spec /\ Fairness

-----------------------------------------------------------------------------
(* Properties                                                              *)

Types ==
  /\ tasks \in Seq(Task)
  /\ active \in Int /\ running \in Int /\ terminate \in BOOLEAN
  /\ pc \in [Worker -> WorkerPlace]
  /\ taskOf \in [Worker -> Task \cup {NoTask}]
  /\ mapped \in [Worker -> Seq(Task)]
  /\ client \in ClientPlace /\ op \in Op
  /\ submitted \in 0 .. MaxTasks
  /\ toReduce \subseteq Worker
  /\ acc \in Seq(Task) /\ reduced \in Seq(Task)

TypeOK == Types /\ \A w \in Worker : pc[w] = "map" <=> taskOf[w] # NoTask

(* active_threads_ and running_threads_ are changed at eight places of the *)
(* code, under the monitor but far from what they count: the threads that  *)
(* are not asleep in (or just out of) new_task_.wait, and the threads that *)
(* init counted and threadTerminated did not.                              *)
ActiveWorker  == {w \in Worker : pc[w] \in {"unstarted", "fetch", "map", "exit"}}
RunningWorker == {w \in Worker : pc[w] \notin {"new", "leaving", "done"}}

CountersExact ==
  /\ active = Cardinality(ActiveWorker)
  /\ running = Cardinality(RunningWorker)

(* When wait() has returned to reset or combine, which then touch the      *)
(* mappers (combine without the monitor), no task is queued and no worker  *)
(* is inside map, so the mapper data is not raced over.                    *)
MappersQuiescent ==
  client \in {"apply", "reduce"} =>
    /\ tasks = <<>>
    /\ \A w \in Worker : pc[w] # "map"

(* A task is in one place: it is queued, or with one worker, or in one     *)
(* mapper, and there once.  Tasks start in the order they were submitted.  *)
Mapping == {w \in Worker : pc[w] = "map"}
NoTaskTwice ==
  /\ \A i, j \in 1 .. Len(tasks) : i < j => tasks[i] < tasks[j]
  /\ \A w \in Mapping, i \in 1 .. Len(tasks) : taskOf[w] < tasks[i]
  /\ \A v, w \in Mapping : taskOf[v] = taskOf[w] => v = w
  /\ \A v, w \in Worker : \A i \in 1 .. Len(mapped[w]) :
       /\ v \in Mapping => mapped[w][i] # taskOf[v]
       /\ \A k \in 1 .. Len(tasks) : mapped[w][i] < tasks[k]
       /\ \A k \in 1 .. Len(mapped[v]) : mapped[w][i] = mapped[v][k] => v = w /\ i = k

(* The destructor frees mappers and thread objects only after the last     *)
(* thread is over, although it has counted itself out before.              *)
NobodyInDeadPool ==
  client = "gone" => \A w \in Worker : pc[w] = "done"

(* shutdown() first waits: no submitted task is thrown away by terminate_. *)
NoTaskDropped == terminate => tasks = <<>>

(* A call that waits for the workers returns, whatever the number of tasks *)
(* and of wakeups: no wakeup is lost between the counters, the queue and   *)
(* the two conditions.                                                     *)
CallReturns == client \in {"check", "join", "joining"} ~> client \in {"out", "gone"}

(* "wait for all tasks to be completed" (ThreadPool.hh:292): every task    *)
(* that was submitted is completed if the client waits.                    *)
WaitCompletes == (client = "check" /\ op = "wait") ~> (client = "out")

(* A submitted task is mapped, whether or not the client waits for it.     *)
Held == UNION {{mapped[w][i] : i \in 1 .. Len(mapped[w])} : w \in Worker}
EveryTaskMapped ==
  \A t \in Task : (client # "new" /\ \E i \in 1 .. Len(tasks) : tasks[i] = t) ~> t \in Held

(* The pool implements the map-reduce promise: the bag a finished combine  *)
(* has collected is the set of tasks submitted since the last reset.       *)
Todo == {tasks[i] : i \in 1 .. Len(tasks)} \cup {taskOf[w] : w \in Mapping} \cup Held

BagOf(s) == [t \in {s[i] : i \in 1 .. Len(s)} |-> Cardinality({i \in 1 .. Len(s) : s[i] = t})]

Promise == INSTANCE MapReduce WITH todo <- Todo, result <- BagOf(reduced)
MapReduceOK == Promise!Spec
=============================================================================
