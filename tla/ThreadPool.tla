----------------------------- MODULE ThreadPool -----------------------------
(***************************************************************************)
(* ThreadPool of thread_pool.cc: the workers are the threads of the        *)
(* process, the owner is the thread that makes, uses and destroys the      *)
(* pool.  Code under task_queue_lock_ is one step; the two condition       *)
(* variables do what FutexMutex shows, spurious wake-ups included.  A task *)
(* that runs may add tasks.                                                *)
(***************************************************************************)
EXTENDS ArtThreads, Sequences, FiniteSets

CONSTANTS MaxTasks,        \* bound: tasks added
          MaxPoolCalls     \* bound: calls of the owner other than AddTask

ASSUME PoolAssumption == MaxTasks \in Nat /\ MaxPoolCalls \in Nat

NoTask == 0

VARIABLES
  tasks, started, shuttingDown, waitingCount, maxActive,
  creation,       \* count_ of creation_barier_
  wAt,            \* where a worker is; "woken" has still to get the lock back
  ownerAt,        \* where the owner is
  doing,          \* doing[t]: the task that t runs
  ownTask,        \* the task that the owner runs in Wait
  added, done,    \* history: how many tasks were added, and which have run
  poolCalls

poolVars == <<tasks, started, shuttingDown, waitingCount, maxActive, creation, wAt, ownerAt,
              doing, ownTask, added, done, poolCalls>>

ThreadCount == Cardinality(Thread)

(* The owner is in the constructor and has made the threads.               *)
PoolInit ==
  /\ tasks = <<>> /\ started = FALSE /\ shuttingDown = FALSE /\ waitingCount = 0
  /\ maxActive = ThreadCount /\ creation = ThreadCount + 1
  /\ wAt = [w \in Thread |-> "new"] /\ ownerAt = "new"
  /\ doing = [w \in Thread |-> NoTask] /\ ownTask = NoTask
  /\ added = 0 /\ done = {} /\ poolCalls = 0

WorkerGoes(w, p) == wAt' = [wAt EXCEPT ![w] = p]
AwakeAll == wAt' = [w \in Thread |-> IF wAt[w] = "asleep" THEN "woken" ELSE wAt[w]]

-----------------------------------------------------------------------------
(* Barrier::Wait of workers and owner: the count goes down, and nobody     *)
(* passes before it is zero.                                               *)
AtBarrier(w) ==
  /\ wAt[w] = "new" /\ creation' = creation - 1 /\ WorkerGoes(w, "barrier")
  /\ UNCHANGED <<tasks, started, shuttingDown, waitingCount, maxActive, ownerAt, doing, ownTask,
                 added, done, poolCalls>>
OwnerAtBarrier ==
  /\ ownerAt = "new" /\ creation' = creation - 1 /\ ownerAt' = "barrier"
  /\ UNCHANGED <<tasks, started, shuttingDown, waitingCount, maxActive, wAt, doing, ownTask,
                 added, done, poolCalls>>
LeaveBarrier(w) ==
  /\ wAt[w] = "barrier" /\ creation = 0 /\ WorkerGoes(w, "get")
  /\ UNCHANGED <<tasks, started, shuttingDown, waitingCount, maxActive, creation, ownerAt, doing,
                 ownTask, added, done, poolCalls>>
Constructed ==
  /\ ownerAt = "barrier" /\ creation = 0 /\ ownerAt' = "out"
  /\ UNCHANGED <<tasks, started, shuttingDown, waitingCount, maxActive, creation, wAt, doing,
                 ownTask, added, done, poolCalls>>

-----------------------------------------------------------------------------

(* GetTask, of a worker that calls it or comes back from the condition;    *)
(* waiting is waiting_count_ without it.                                   *)
MayTake(waiting) == ThreadCount - waiting <= maxActive /\ started /\ tasks # <<>>

TakeTask(w, waiting) ==
  /\ MayTake(waiting)
  /\ doing' = [doing EXCEPT ![w] = Head(tasks)] /\ tasks' = Tail(tasks)
  /\ waitingCount' = waiting /\ WorkerGoes(w, "run") /\ UNCHANGED ownerAt

WaitForTask(w, waiting) ==
  /\ ~MayTake(waiting)
  /\ waitingCount' = waiting + 1 /\ WorkerGoes(w, "asleep") /\ UNCHANGED <<tasks, doing>>
  /\ ownerAt' = IF waitingCount' = ThreadCount /\ tasks = <<>> /\ ownerAt = "asleep"
                THEN "check" ELSE ownerAt

\* Mutant: a worker that was woken stays counted as one that waits.
GetTaskStillCounted(w) ==
  /\ wAt[w] \in {"get", "woken"}
  /\ IF shuttingDown
     THEN WorkerGoes(w, "exit") /\ UNCHANGED <<waitingCount, tasks, doing, ownerAt>>
     ELSE TakeTask(w, waitingCount) \/ WaitForTask(w, waitingCount)
  /\ UNCHANGED <<started, shuttingDown, maxActive, creation, ownTask, added, done, poolCalls>>

GetTask(w) ==
  /\ wAt[w] \in {"get", "woken"}
  /\ LET waiting == waitingCount - (IF wAt[w] = "woken" THEN 1 ELSE 0)
     IN  IF shuttingDown
         THEN WorkerGoes(w, "exit") /\ waitingCount' = waiting /\ UNCHANGED <<tasks, doing, ownerAt>>
         ELSE TakeTask(w, waiting) \/ WaitForTask(w, waiting)
  /\ UNCHANGED <<started, shuttingDown, maxActive, creation, ownTask, added, done, poolCalls>>

TaskRun(w) ==
  /\ wAt[w] = "run" /\ done' = done \cup {doing[w]}
  /\ doing' = [doing EXCEPT ![w] = NoTask] /\ WorkerGoes(w, "get")
  /\ UNCHANGED <<tasks, started, shuttingDown, waitingCount, maxActive, creation, ownerAt, ownTask,
                 added, poolCalls>>

(* AddTask, with the signal to one of the workers that sleep               *)
AddTask ==
  /\ added < MaxTasks /\ added' = added + 1 /\ tasks' = Append(tasks, added')
  /\ IF started /\ waitingCount # 0 /\ \E w \in Thread : wAt[w] = "asleep"
     THEN \E w \in Thread : wAt[w] = "asleep" /\ WorkerGoes(w, "woken")
     ELSE UNCHANGED wAt
  /\ UNCHANGED <<started, shuttingDown, waitingCount, maxActive, creation, ownerAt, doing, ownTask,
                 done, poolCalls>>

(* By the owner between its calls, or by a task                            *)
TaskAdded == (ownerAt \in {"out", "run"} \/ \E w \in Thread : wAt[w] = "run") /\ AddTask

-----------------------------------------------------------------------------
OwnerCalls == ownerAt = "out" /\ poolCalls < MaxPoolCalls /\ poolCalls' = poolCalls + 1

SetMaxActiveWorkers(n) ==
  /\ OwnerCalls /\ maxActive' = n
  /\ UNCHANGED <<tasks, started, shuttingDown, waitingCount, creation, wAt, ownerAt, doing, ownTask,
                 added, done>>

StartWorkers ==
  /\ OwnerCalls /\ started' = TRUE /\ AwakeAll
  /\ UNCHANGED <<tasks, shuttingDown, waitingCount, maxActive, creation, ownerAt, doing, ownTask,
                 added, done>>

StopWorkers ==
  /\ OwnerCalls /\ started' = FALSE
  /\ UNCHANGED <<tasks, shuttingDown, waitingCount, maxActive, creation, wAt, ownerAt, doing,
                 ownTask, added, done>>

(* Wait with and without do_work                                           *)
BeginWait ==
  /\ OwnerCalls /\ ownerAt' \in {"work", "check"}
  /\ UNCHANGED <<tasks, started, shuttingDown, waitingCount, maxActive, creation, wAt, doing,
                 ownTask, added, done>>

TryGetTask ==
  /\ ownerAt = "work"
  /\ IF started /\ tasks # <<>>
     THEN ownTask' = Head(tasks) /\ tasks' = Tail(tasks) /\ ownerAt' = "run"
     ELSE ownerAt' = "check" /\ UNCHANGED <<tasks, ownTask>>
  /\ UNCHANGED <<started, shuttingDown, waitingCount, maxActive, creation, wAt, doing, added, done,
                 poolCalls>>

OwnTaskRun ==
  /\ ownerAt = "run" /\ done' = done \cup {ownTask} /\ ownTask' = NoTask /\ ownerAt' = "work"
  /\ UNCHANGED <<tasks, started, shuttingDown, waitingCount, maxActive, creation, wAt, doing, added,
                 poolCalls>>

\* Mutant: an empty queue is enough for Wait to return.
CheckQueueOnly ==
  /\ ownerAt = "check" /\ ownerAt' = IF tasks = <<>> THEN "out" ELSE "asleep"
  /\ UNCHANGED <<tasks, started, shuttingDown, waitingCount, maxActive, creation, wAt, doing,
                 ownTask, added, done, poolCalls>>

CheckDone ==
  /\ ownerAt = "check"
  /\ ownerAt' = IF shuttingDown \/ (waitingCount = ThreadCount /\ tasks = <<>>)
                THEN "out" ELSE "asleep"
  /\ UNCHANGED <<tasks, started, shuttingDown, waitingCount, maxActive, creation, wAt, doing,
                 ownTask, added, done, poolCalls>>

\* Mutant: the destructor joins workers that it has not woken.
DestroyQuietly ==
  /\ ownerAt = "out" /\ shuttingDown' = TRUE /\ ownerAt' = "joining"
  /\ UNCHANGED <<tasks, started, waitingCount, maxActive, creation, wAt, doing, ownTask, added, done,
                 poolCalls>>

(* The destructor, which then joins the workers one by one                 *)
Destroy ==
  /\ ownerAt = "out" /\ shuttingDown' = TRUE /\ AwakeAll /\ ownerAt' = "joining"
  /\ UNCHANGED <<tasks, started, waitingCount, maxActive, creation, doing, ownTask, added, done,
                 poolCalls>>
Joined ==
  /\ ownerAt = "joining" /\ (\A w \in Thread : wAt[w] = "exit") /\ ownerAt' = "gone"
  /\ UNCHANGED <<tasks, started, shuttingDown, waitingCount, maxActive, creation, wAt, doing,
                 ownTask, added, done, poolCalls>>

(* A condition variable returns early.                                     *)
WakesEarly ==
  /\ \/ \E w \in Thread : wAt[w] = "asleep" /\ WorkerGoes(w, "woken") /\ UNCHANGED ownerAt
     \/ ownerAt = "asleep" /\ ownerAt' = "check" /\ UNCHANGED wAt
  /\ UNCHANGED <<tasks, started, shuttingDown, waitingCount, maxActive, creation, doing, ownTask,
                 added, done, poolCalls>>

-----------------------------------------------------------------------------
WorkerStep(w) == AtBarrier(w) \/ LeaveBarrier(w) \/ GetTask(w) \/ TaskRun(w)
OwnerStep == OwnerAtBarrier \/ Constructed \/ TryGetTask \/ OwnTaskRun \/ CheckDone \/ Joined
PoolNext ==
  \/ \E w \in Thread : WorkerStep(w)
  \/ OwnerStep \/ TaskAdded \/ (\E n \in 1..ThreadCount : SetMaxActiveWorkers(n))
  \/ StartWorkers \/ StopWorkers \/ BeginWait \/ Destroy \/ WakesEarly

(* Threads run and tasks end.                                              *)
PoolSpec ==
  /\ PoolInit /\ [][PoolNext]_poolVars
  /\ WF_poolVars(OwnerStep) /\ \A w \in Thread : WF_poolVars(WorkerStep(w))

-----------------------------------------------------------------------------
(* Every variable has its type; waiting_count_ counts the workers in the   *)
(* condition, so it never exceeds the threads nor wraps below zero.        *)
PoolTypeOK ==
  /\ tasks \in Seq(1..MaxTasks) /\ started \in BOOLEAN /\ shuttingDown \in BOOLEAN
  /\ waitingCount = Cardinality({w \in Thread : wAt[w] \in {"asleep", "woken"}})
  /\ maxActive \in 0..ThreadCount /\ creation \in 0..(ThreadCount + 1)
  /\ wAt \in [Thread -> {"new", "barrier", "get", "asleep", "woken", "run", "exit"}]
  /\ ownerAt \in {"new", "barrier", "out", "work", "run", "check", "asleep", "joining", "gone"}
  /\ doing \in [Thread -> 0..MaxTasks] /\ ownTask \in 0..MaxTasks
  /\ added \in 0..MaxTasks /\ done \subseteq 1..added /\ poolCalls \in 0..MaxPoolCalls

(* When Wait returns, every task added so far has run to its end, those    *)
(* that tasks have added included.                                         *)
WaitMeansDone ==
  [][ownerAt = "check" /\ ownerAt' = "out" => done = 1..added]_poolVars

(* Wait returns once the workers are started, and the destructor ends      *)
(* whatever the workers were doing.                                        *)
PoolAnswers ==
  []<>(ownerAt # "joining" /\ (started => ownerAt \notin {"work", "run", "check", "asleep"}))
=============================================================================
