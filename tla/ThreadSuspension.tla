--------------------------- MODULE ThreadSuspension --------------------------
(***************************************************************************)
(* How the runtime stops its threads: thread_list.cc with the transitions  *)
(* and the checkpoints of thread.cc and the barrier of barrier.cc.         *)
(*                                                                         *)
(* A thread may touch the heap while it is Runnable, and then has a share  *)
(* of the mutator lock.  A requester that is not Runnable itself stops all *)
(* the others (SuspendAll, ResumeAll), stops one (SuspendThreadByThreadId, *)
(* Resume), or has a closure run once on behalf of every thread            *)
(* (RunCheckpoint, RunCheckpointOnRunnableThreads) and waits at a barrier. *)
(* Any attached thread can be a requester.  The request flag of a thread   *)
(* is set exactly while its suspend count is positive: both change in      *)
(* ModifySuspendCount, under thread_suspend_count_lock_.                   *)
(***************************************************************************)
EXTENDS ArtThreads, FiniteSets

CONSTANTS MaxCheckpoints,   \* kMaxCheckpoints, the slots of a thread
          MaxRequests,      \* bound: requests
          MaxDetaches       \* bound: threads that detach

ASSUME CheckpointAssumption == MaxCheckpoints \in Nat \ {0}

VARIABLES
  list,       \* list_, the attached threads
  run,        \* run[t]: "runnable", "leaving" or "entering" (with a share of
              \* mutator_lock_ but not Runnable) or "out"
  exclusive,  \* the thread that holds mutator_lock_ exclusively
  scount,     \* scount[t]: suspend_count
  allCount,   \* suspend_all_count_
  locker,     \* who holds thread_list_lock_ and thread_suspend_count_lock_
              \* from one step to the next
  pc, todo,   \* what t is doing; the threads its loop has yet to visit
  seen,       \* seen[t]: the thread t has just seen not Runnable
  raised,     \* raised[t]: the threads whose suspend count t has raised alone
  slots,      \* slots[t]: the requesters whose closures wait for t
  barrier,    \* barrier[r]: count_ of r's barrier
  visited,    \* visited[r]: the threads RunCheckpoint counted
  ran,        \* ran[r][t]: how often r's closure ran on behalf of t
  requests, detaches

suspensionVars == <<list, run, exclusive, scount, allCount, locker, pc, todo, seen,
                    raised, slots, barrier, visited, ran, requests, detaches>>
transitionVars == <<list, exclusive, scount, allCount, locker, pc, todo, seen,
                    raised, slots, barrier, visited, ran, requests, detaches>>
requestVars == <<run, slots, barrier, visited, ran, detaches>>

SuspensionInit ==
  /\ list = Thread /\ run = [t \in Thread |-> "out"]
  /\ exclusive = Nobody /\ scount = [t \in Thread |-> 0] /\ allCount = 0
  /\ locker = Nobody /\ pc = [t \in Thread |-> "none"]
  /\ todo = [t \in Thread |-> {}] /\ seen = [t \in Thread |-> Nobody]
  /\ raised = [t \in Thread |-> {}] /\ slots = [t \in Thread |-> {}]
  /\ barrier = [t \in Thread |-> 0] /\ visited = [t \in Thread |-> {}]
  /\ ran = [r \in Thread |-> [t \in Thread |-> 0]]
  /\ requests = 0 /\ detaches = 0

HasShare(t) == run[t] # "out"
IsSuspended(t) == run[t] # "runnable" /\ scount[t] > 0
Unlocked == locker = Nobody

(* ModifySuspendCount(self, delta, false) on every thread of S             *)
ModifySuspendCount(S, delta) ==
  scount' = [t \in Thread |-> IF t \in S THEN scount[t] + delta ELSE scount[t]]

-----------------------------------------------------------------------------
\* Mutant: the state changes although a checkpoint is pending.
LeaveWithCheckpoint(t) ==
  /\ run[t] = "runnable" /\ pc[t] \notin {"suspend_look", "suspended_one"}
  /\ run' = [run EXCEPT ![t] = "leaving"]
  /\ pc' = [pc EXCEPT ![t] = CASE @ = "suspend_sleep" -> "suspend_look"
                              [] @ = "suspend_found" -> "suspended_one"
                              [] OTHER -> @]
  /\ UNCHANGED <<list, exclusive, scount, allCount, locker, todo, seen, raised, slots,
                 barrier, visited, ran, requests, detaches>>

(* TransitionFromRunnableToSuspended: the state changes first, unless a    *)
(* checkpoint is pending, then the share of mutator_lock_ is released.     *)
LeaveRunnable(t) ==
  /\ run[t] = "runnable" /\ slots[t] = {} /\ pc[t] \notin {"suspend_look", "suspended_one"}
  /\ run' = [run EXCEPT ![t] = "leaving"]
  /\ pc' = [pc EXCEPT ![t] = CASE @ = "suspend_sleep" -> "suspend_look"
                              [] @ = "suspend_found" -> "suspended_one"
                              [] OTHER -> @]
  /\ UNCHANGED <<list, exclusive, scount, allCount, locker, todo, seen, raised, slots,
                 barrier, visited, ran, requests, detaches>>

ReleaseShare(t) ==
  /\ run[t] = "leaving"
  /\ run' = [run EXCEPT ![t] = "out"] /\ UNCHANGED transitionVars

(* TransitionFromSuspendedToRunnable: wait while there is a request, take  *)
(* a share, and become Runnable unless a request came in between.          *)
MayEnter(t) == t \in list /\ pc[t] \in {"none", "suspend_look", "suspended_one"}

TakeShare(t) ==
  /\ run[t] = "out" /\ MayEnter(t) /\ scount[t] = 0 /\ exclusive = Nobody
  /\ run' = [run EXCEPT ![t] = "entering"] /\ UNCHANGED transitionVars

BecomeRunnable(t) ==
  /\ run[t] = "entering"
  /\ run' = [run EXCEPT ![t] = IF scount[t] = 0 THEN "runnable" ELSE "out"]
  /\ UNCHANGED transitionVars

(* RunCheckpointFunction: take the closures and run them.                  *)
RunCheckpointFunction(t) ==
  /\ run[t] = "runnable" /\ slots[t] # {} /\ Unlocked
  /\ slots' = [slots EXCEPT ![t] = {}]
  /\ ran' = [r \in Thread |-> IF r \in slots[t]
                              THEN [ran[r] EXCEPT ![t] = @ + 1] ELSE ran[r]]
  /\ barrier' = [r \in Thread |-> IF r \in slots[t] THEN barrier[r] - 1 ELSE barrier[r]]
  /\ UNCHANGED <<list, run, exclusive, scount, allCount, locker, pc, todo, seen, raised,
                 visited, requests, detaches>>

(* Register makes the new thread obey the SuspendAll that is going on.     *)
Register(t) ==
  /\ t \notin list /\ Unlocked
  /\ list' = list \cup {t} /\ scount' = [scount EXCEPT ![t] = allCount]
  /\ UNCHANGED <<run, exclusive, allCount, locker, pc, todo, seen, raised, slots,
                 barrier, visited, ran, requests, detaches>>

(* Unregister tries again while the thread is suspended.                   *)
Unregister(t) ==
  /\ t \in list /\ pc[t] = "none" /\ run[t] = "out" /\ Unlocked
  /\ ~IsSuspended(t) /\ detaches < MaxDetaches
  /\ list' = list \ {t} /\ detaches' = detaches + 1
  /\ UNCHANGED <<run, exclusive, scount, allCount, locker, pc, todo, seen, raised,
                 slots, barrier, visited, ran, requests>>

-----------------------------------------------------------------------------
Request(r) ==
  /\ r \in list /\ pc[r] = "none" /\ run[r] = "out" /\ Unlocked
  /\ requests < MaxRequests /\ requests' = requests + 1

SuspendAll(r) ==
  /\ Request(r)
  /\ allCount' = allCount + 1 /\ ModifySuspendCount(list \ {r}, 1)
  /\ pc' = [pc EXCEPT ![r] = "suspend_all"]
  /\ UNCHANGED <<list, exclusive, locker, todo, seen, raised, requestVars>>

\* Mutant: the lock is taken without waiting for the shares.
LockAtOnce(r) ==
  /\ pc[r] = "suspend_all" /\ exclusive = Nobody
  /\ exclusive' = r /\ pc' = [pc EXCEPT ![r] = "all_suspended"]
  /\ UNCHANGED <<list, scount, allCount, locker, todo, seen, raised, requests, requestVars>>

LockMutators(r) ==
  /\ pc[r] = "suspend_all" /\ exclusive = Nobody /\ \A t \in Thread : ~HasShare(t)
  /\ exclusive' = r /\ pc' = [pc EXCEPT ![r] = "all_suspended"]
  /\ UNCHANGED <<list, scount, allCount, locker, todo, seen, raised, requests, requestVars>>

(* ResumeAll: release the lock, then lower the counts and broadcast.       *)
UnlockMutators(r) ==
  /\ pc[r] = "all_suspended"
  /\ exclusive' = Nobody /\ pc' = [pc EXCEPT ![r] = "resume_all"]
  /\ UNCHANGED <<list, scount, allCount, locker, todo, seen, raised, requests, requestVars>>

ResumeAll(r) ==
  /\ pc[r] = "resume_all" /\ Unlocked
  /\ allCount' = allCount - 1 /\ ModifySuspendCount(list \ {r}, -1)
  /\ pc' = [pc EXCEPT ![r] = "none"]
  /\ UNCHANGED <<list, exclusive, locker, todo, seen, raised, requests, requestVars>>

-----------------------------------------------------------------------------
(* RunCheckpoint, RunCheckpointOnRunnableThreads.  Both hold the two locks *)
(* while they visit the list.  The collector also keeps a share of         *)
(* mutator_lock_ until it waits at its barrier, which would only delay a   *)
(* SuspendAll.                                                             *)
BeginCheckpoint(r, visit) ==
  /\ Request(r)
  /\ locker' = r /\ todo' = [todo EXCEPT ![r] = list \ {r}]
  /\ pc' = [pc EXCEPT ![r] = visit]
  /\ UNCHANGED <<list, exclusive, scount, allCount, seen, raised, requestVars>>

RunCheckpoint(r) == BeginCheckpoint(r, "visit")
RunCheckpointOnRunnableThreads(r) == BeginCheckpoint(r, "visit_runnable")

(* RequestCheckpoint succeeds on a Runnable thread with a free slot.       *)
RequestCheckpoint(r, t) ==
  /\ pc[r] \in {"visit", "visit_runnable"} /\ t \in todo[r] /\ seen[r] = Nobody
  /\ run[t] = "runnable" /\ Cardinality(slots[t]) < MaxCheckpoints
  /\ slots' = [slots EXCEPT ![t] = @ \cup {r}]
  /\ visited' = [visited EXCEPT ![r] = @ \cup {t}]
  /\ todo' = [todo EXCEPT ![r] = @ \ {t}]
  /\ UNCHANGED <<list, run, exclusive, scount, allCount, locker, pc, seen, raised,
                 barrier, ran, requests, detaches>>

(* It fails on a thread that is not Runnable.  The thread may become       *)
(* Runnable again before its suspend count is raised.                      *)
SeeSuspended(r, t) ==
  /\ pc[r] = "visit" /\ t \in todo[r] /\ seen[r] = Nobody /\ run[t] # "runnable"
  /\ seen' = [seen EXCEPT ![r] = t]
  /\ UNCHANGED <<list, exclusive, scount, allCount, locker, pc, todo, raised, requests,
                 requestVars>>

RaiseSeen(r) ==
  /\ pc[r] = "visit" /\ seen[r] # Nobody
  /\ ModifySuspendCount({seen[r]}, 1)
  /\ raised' = [raised EXCEPT ![r] = @ \cup {seen[r]}]
  /\ visited' = [visited EXCEPT ![r] = @ \cup {seen[r]}]
  /\ todo' = [todo EXCEPT ![r] = @ \ {seen[r]}]
  /\ seen' = [seen EXCEPT ![r] = Nobody]
  /\ UNCHANGED <<list, run, exclusive, allCount, locker, pc, slots, barrier, ran, requests,
                 detaches>>

SkipNotRunnable(r, t) ==
  /\ pc[r] = "visit_runnable" /\ t \in todo[r]
  /\ ~(run[t] = "runnable" /\ Cardinality(slots[t]) < MaxCheckpoints)
  /\ todo' = [todo EXCEPT ![r] = @ \ {t}]
  /\ UNCHANGED <<list, exclusive, scount, allCount, locker, pc, seen, raised, requests,
                 requestVars>>

(* The locks are released and the requester runs the closure for itself.   *)
RunOnSelf(r) ==
  /\ pc[r] = "visit" /\ todo[r] = {}
  /\ locker' = Nobody /\ pc' = [pc EXCEPT ![r] = "run_suspended"]
  /\ ran' = [ran EXCEPT ![r][r] = @ + 1] /\ barrier' = [barrier EXCEPT ![r] = @ - 1]
  /\ visited' = [visited EXCEPT ![r] = @ \cup {r}]
  /\ UNCHANGED <<list, run, exclusive, scount, allCount, todo, seen, raised, slots,
                 requests, detaches>>

(* It runs the closure on behalf of a raised thread once that IsSuspended, *)
(* then lowers its count.                                                  *)
BeginRunOn(r, t) ==
  /\ pc[r] = "run_suspended" /\ seen[r] = Nobody /\ t \in raised[r] /\ IsSuspended(t)
  /\ seen' = [seen EXCEPT ![r] = t]
  /\ UNCHANGED <<list, exclusive, scount, allCount, locker, pc, todo, raised, requests,
                 requestVars>>

EndRunOn(r) ==
  /\ pc[r] = "run_suspended" /\ seen[r] # Nobody /\ Unlocked
  /\ ran' = [ran EXCEPT ![r][seen[r]] = @ + 1] /\ barrier' = [barrier EXCEPT ![r] = @ - 1]
  /\ ModifySuspendCount({seen[r]}, -1)
  /\ raised' = [raised EXCEPT ![r] = @ \ {seen[r]}] /\ seen' = [seen EXCEPT ![r] = Nobody]
  /\ UNCHANGED <<list, run, exclusive, allCount, locker, pc, todo, slots, visited,
                 requests, detaches>>

\* Mutant: the requester does not count itself.
AwaitOthers(r) ==
  /\ \/ pc[r] = "run_suspended" /\ raised[r] = {} /\ locker' = locker
     \/ pc[r] = "visit_runnable" /\ todo[r] = {} /\ locker' = Nobody
  /\ barrier' = [barrier EXCEPT ![r] = @ + Cardinality(visited[r] \ {r})]
  /\ pc' = [pc EXCEPT ![r] = "barrier"]
  /\ UNCHANGED <<list, run, exclusive, scount, allCount, todo, seen, raised, slots, visited,
                 ran, requests, detaches>>

(* Barrier::Increment by the number of threads counted, and wait for zero. *)
AwaitBarrier(r) ==
  /\ \/ pc[r] = "run_suspended" /\ raised[r] = {} /\ locker' = locker
     \/ pc[r] = "visit_runnable" /\ todo[r] = {} /\ locker' = Nobody
  /\ barrier' = [barrier EXCEPT ![r] = @ + Cardinality(visited[r])]
  /\ pc' = [pc EXCEPT ![r] = "barrier"]
  /\ UNCHANGED <<list, run, exclusive, scount, allCount, todo, seen, raised, slots, visited,
                 ran, requests, detaches>>

PassBarrier(r) ==
  /\ pc[r] = "barrier" /\ barrier[r] = 0
  /\ pc' = [pc EXCEPT ![r] = "none"] /\ visited' = [visited EXCEPT ![r] = {}]
  /\ ran' = [ran EXCEPT ![r] = [t \in Thread |-> 0]]
  /\ UNCHANGED <<list, run, exclusive, scount, allCount, locker, todo, seen, raised, slots,
                 barrier, requests, detaches>>

-----------------------------------------------------------------------------
(* SuspendThreadByThreadId, whose callers hold                             *)
(* thread_list_suspend_thread_lock_, and Resume.  The requester becomes    *)
(* Runnable to look at the thread and sleeps in between.                   *)
SuspendThread(r, t) ==
  /\ Request(r) /\ t # r
  /\ \A x \in Thread : pc[x] \notin {"suspend_look", "suspend_sleep", "suspend_found"}
  /\ pc' = [pc EXCEPT ![r] = "suspend_look"] /\ todo' = [todo EXCEPT ![r] = {t}]
  /\ UNCHANGED <<list, exclusive, scount, allCount, locker, seen, raised, requestVars>>

SuspendEnds(r) ==
  /\ pc' = [pc EXCEPT ![r] = "none"] /\ todo' = [todo EXCEPT ![r] = {}]
  /\ raised' = [raised EXCEPT ![r] = {}]
  /\ UNCHANGED <<list, exclusive, allCount, locker, seen, requests, requestVars>>

NoSuchThread(r) ==
  /\ pc[r] = "suspend_look" /\ run[r] = "runnable" /\ Unlocked
  /\ todo[r] \cap list = {} /\ UNCHANGED scount /\ SuspendEnds(r)

LookAtThread(r) ==
  /\ pc[r] = "suspend_look" /\ run[r] = "runnable" /\ Unlocked /\ todo[r] \subseteq list
  /\ ModifySuspendCount(todo[r] \ raised[r], 1) /\ raised' = [raised EXCEPT ![r] = todo[r]]
  /\ pc' = [pc EXCEPT ![r] = IF \A t \in todo[r] : run[t] # "runnable"
                             THEN "suspend_found" ELSE "suspend_sleep"]
  /\ UNCHANGED <<list, exclusive, allCount, locker, todo, seen, requests, requestVars>>

(* The thread did not suspend within kTimeoutUs.                           *)
SuspendTimesOut(r) ==
  /\ pc[r] = "suspend_look" /\ run[r] = "runnable" /\ Unlocked
  /\ raised[r] # {} /\ \A t \in todo[r] : ~IsSuspended(t)
  /\ ModifySuspendCount(raised[r], -1) /\ SuspendEnds(r)

Resume(r) ==
  /\ pc[r] = "suspended_one" /\ run[r] = "runnable" /\ Unlocked
  /\ ModifySuspendCount(raised[r], -1) /\ SuspendEnds(r)

-----------------------------------------------------------------------------
(* A thread that was asked to stop polls the flag, or is on its way.       *)
Transition(t) ==
  \/ LeaveRunnable(t) \/ ReleaseShare(t) \/ TakeShare(t) \/ BecomeRunnable(t)
  \/ RunCheckpointFunction(t)

Step(r) ==
  \/ LockMutators(r) \/ UnlockMutators(r) \/ ResumeAll(r)
  \/ \E t \in Thread : RequestCheckpoint(r, t) \/ SeeSuspended(r, t) \/ SkipNotRunnable(r, t)
  \/ RaiseSeen(r) \/ RunOnSelf(r) \/ (\E t \in Thread : BeginRunOn(r, t)) \/ EndRunOn(r)
  \/ AwaitBarrier(r) \/ PassBarrier(r)
  \/ NoSuchThread(r) \/ LookAtThread(r) \/ Resume(r)

BeginRequest(r) ==
  \/ SuspendAll(r) \/ RunCheckpoint(r) \/ RunCheckpointOnRunnableThreads(r)
  \/ \E t \in Thread : SuspendThread(r, t)

SuspensionNext ==
  \E t \in Thread :
    Transition(t) \/ Step(t) \/ BeginRequest(t) \/ SuspendTimesOut(t) \/ Register(t) \/ Unregister(t)

(* Managed code polls the request flags, so a Runnable thread with a       *)
(* request leaves; a requester that is Runnable only to look at another    *)
(* thread leaves by itself; every thread gets its turns.  Nothing makes a  *)
(* thread issue a request, attach, detach or go back to managed code.      *)
MustTransition(t) ==
  \/ (scount[t] > 0 \/ pc[t] \in {"suspend_sleep", "suspend_found"}) /\ LeaveRunnable(t)
  \/ ReleaseShare(t) \/ BecomeRunnable(t) \/ RunCheckpointFunction(t)
  \/ pc[t] # "none" /\ TakeShare(t)

SuspensionFairness ==
  \A t \in Thread : WF_suspensionVars(MustTransition(t)) /\ WF_suspensionVars(Step(t))

SuspensionSpec == SuspensionInit /\ [][SuspensionNext]_suspensionVars /\ SuspensionFairness

-----------------------------------------------------------------------------
(* Every variable has its type.                                           *)
SuspensionTypeOK ==
  /\ list \subseteq Thread /\ exclusive \in Thread \cup {Nobody} /\ allCount \in Nat
  /\ run \in [Thread -> {"runnable", "leaving", "entering", "out"}]
  /\ scount \in [Thread -> Nat] /\ locker \in Thread \cup {Nobody}
  /\ pc \in [Thread -> {"none", "suspend_all", "all_suspended", "resume_all", "visit",
                        "visit_runnable", "run_suspended", "barrier", "suspend_look",
                        "suspend_sleep", "suspend_found", "suspended_one"}]
  /\ seen \in [Thread -> Thread \cup {Nobody}] /\ barrier \in [Thread -> Int]
  /\ todo \in [Thread -> SUBSET Thread] /\ raised \in [Thread -> SUBSET Thread]
  /\ slots \in [Thread -> SUBSET Thread] /\ visited \in [Thread -> SUBSET Thread]

(* While SuspendAll holds the mutator lock no thread runs managed code:    *)
(* not one that attached meanwhile, nor one that was on its way back.      *)
WorldStops == \A t \in Thread : run[t] = "runnable" => exclusive = Nobody

(* Suspend counts stay in step with the requests: a thread's count is the  *)
(* number of SuspendAlls in force over it, whether it was attached when    *)
(* they were made or came later, and of the single requests on it.  So     *)
(* ModifySuspendCount never goes below zero, which aborts, and no thread   *)
(* stays stopped once all requests are over.                               *)
StopsAll(r) == pc[r] \in {"suspend_all", "all_suspended", "resume_all"}
CountsBalance ==
  \A t \in list : scount[t] = Cardinality({r \in Thread \ {t} : StopsAll(r)})
                              + Cardinality({r \in Thread : t \in raised[r]})

(* A closure that another thread runs on behalf of t runs while t is       *)
(* stopped and stays stopped (the CHECK of CheckpointMarkThreadRoots), and *)
(* a thread whose count was raised is still attached, so the pointers that *)
(* RunCheckpoint and SuspendThreadByThreadId keep do not dangle.           *)
RunsOnStopped ==
  \A r \in Thread :
    /\ pc[r] = "run_suspended" /\ seen[r] # Nobody => IsSuspended(seen[r])
    /\ raised[r] \subseteq list
    /\ pc[r] \in {"suspend_found", "suspended_one"} => \A t \in todo[r] : IsSuspended(t)

(* When a requester passes its barrier, its closure has run exactly once   *)
(* for every thread that was counted.                                      *)
CheckpointOnce ==
  \A r \in Thread : pc[r] = "barrier" /\ barrier[r] = 0 =>
    \A t \in Thread : ran[r][t] = IF t \in visited[r] THEN 1 ELSE 0

(* Every request comes to an end: no two requesters wait for each other,   *)
(* and no checkpoint is lost by a thread that changes its state.           *)
RequestsFinish == \A r \in Thread : []<>(pc[r] = "none")
=============================================================================
