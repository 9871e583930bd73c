----------------------------- MODULE FutexMutex -----------------------------
(***************************************************************************)
(* Mutex and ConditionVariable of base/mutex.cc, built on two futexes: the *)
(* state of the mutex and the sequence number of the condition.            *)
(*                                                                         *)
(* Each access to a shared word is a step.  A weak compare-and-swap that   *)
(* fails is tried again and leaves no trace, so it is the step in which it *)
(* succeeds.  The calls of futex() are the kernel's: it compares and puts  *)
(* to sleep in one step, and a sleeper may return early (EINTR, timeout).  *)
(***************************************************************************)
EXTENDS ArtThreads, FiniteSets

CONSTANT MaxMutexOps       \* bound: lock, wait and signal calls

ASSUME MutexAssumption == MaxMutexOps \in Nat

VARIABLES
  recursive,        \* recursive_
  futexWord,        \* state_ of the mutex
  exclusiveOwner, recursionCount, numContenders,
  sequence,         \* sequence_ of the condition
  numWaiters,       \* num_waiters_ of the condition
  at,               \* where a thread is
  after,            \* after[t]: where t goes on once it has unlocked
  curSequence,      \* curSequence[t]: the sequence t has read in Wait
  oldCount,         \* oldCount[t]: old_recursion_count in Wait
  onWord,           \* the threads that sleep on the state of the mutex
  onSequence,       \* the threads that sleep on the sequence
  entered,          \* history: the locks of t without their unlocks
  mutexOps

condVars == <<sequence, numWaiters, curSequence, oldCount>>
mutexVars == <<recursive, futexWord, exclusiveOwner, recursionCount, numContenders, at, after,
               onWord, onSequence, entered, mutexOps, condVars>>

MutexInit ==
  /\ recursive \in BOOLEAN /\ futexWord = 0 /\ exclusiveOwner = Nobody
  /\ recursionCount = 0 /\ numContenders = 0 /\ sequence = 0 /\ numWaiters = 0
  /\ at = [t \in Thread |-> "out"] /\ after = [t \in Thread |-> "out"]
  /\ curSequence = [t \in Thread |-> 0] /\ oldCount = [t \in Thread |-> 0]
  /\ onWord = {} /\ onSequence = {}
  /\ entered = [t \in Thread |-> 0] /\ mutexOps = 0

Walk(t, p) == at' = [at EXCEPT ![t] = p]
MutexCall(t, p) ==
  /\ at[t] = p /\ mutexOps < MaxMutexOps /\ mutexOps' = mutexOps + 1
Asleep(t) == t \in onWord \cup onSequence

-----------------------------------------------------------------------------
(* ExclusiveLock                                                           *)
ExclusiveLock(t) ==
  /\ MutexCall(t, "out") /\ Walk(t, "lock")
  /\ UNCHANGED <<recursive, futexWord, exclusiveOwner, recursionCount, numContenders, after,
                 onWord, onSequence, entered, condVars>>

(* ExclusiveLock or ExclusiveTryLock by the owner of a recursive mutex     *)
LockAgain(t) ==
  /\ MutexCall(t, "in") /\ recursive
  /\ recursionCount' = recursionCount + 1 /\ entered' = [entered EXCEPT ![t] = @ + 1]
  /\ UNCHANGED <<recursive, futexWord, exclusiveOwner, numContenders, at, after,
                 onWord, onSequence, condVars>>

(* ExclusiveTryLock of a free mutex; when it is not, nothing changes.      *)
ExclusiveTryLock(t) ==
  /\ MutexCall(t, "out") /\ futexWord = 0 /\ futexWord' = 1 /\ Walk(t, "locked")
  /\ UNCHANGED <<recursive, exclusiveOwner, recursionCount, numContenders, after,
                 onWord, onSequence, entered, condVars>>

Acquire(t) ==
  /\ at[t] \in {"lock", "relock"} /\ futexWord = 0 /\ futexWord' = 1
  /\ Walk(t, IF at[t] = "lock" THEN "locked" ELSE "relocked")
  /\ UNCHANGED <<recursive, exclusiveOwner, recursionCount, numContenders, after,
                 onWord, onSequence, entered, mutexOps, condVars>>

(* after[t] tells a lock call from the one inside Wait while t contends.   *)
SeeHeld(t) ==
  /\ at[t] \in {"lock", "relock"} /\ futexWord # 0
  /\ after' = [after EXCEPT ![t] = at[t]] /\ Walk(t, "contend")
  /\ UNCHANGED <<recursive, futexWord, exclusiveOwner, recursionCount, numContenders,
                 onWord, onSequence, entered, mutexOps, condVars>>

Contend(t) ==
  /\ at[t] = "contend" /\ numContenders' = numContenders + 1 /\ Walk(t, "futex_wait")
  /\ UNCHANGED <<recursive, futexWord, exclusiveOwner, recursionCount, after,
                 onWord, onSequence, entered, mutexOps, condVars>>

FutexWait(t) ==
  /\ at[t] = "futex_wait" /\ Walk(t, "contending")
  /\ onWord' = IF futexWord = 1 THEN onWord \cup {t} ELSE onWord
  /\ UNCHANGED <<recursive, futexWord, exclusiveOwner, recursionCount, numContenders, after,
                 onSequence, entered, mutexOps, condVars>>

Contended(t) ==
  /\ at[t] = "contending" /\ ~Asleep(t)
  /\ numContenders' = numContenders - 1 /\ Walk(t, after[t])
  /\ UNCHANGED <<recursive, futexWord, exclusiveOwner, recursionCount, after,
                 onWord, onSequence, entered, mutexOps, condVars>>

Locked(t) ==
  /\ at[t] = "locked" /\ exclusiveOwner' = t /\ recursionCount' = recursionCount + 1
  /\ entered' = [entered EXCEPT ![t] = @ + 1] /\ Walk(t, "in")
  /\ UNCHANGED <<recursive, futexWord, numContenders, after, onWord, onSequence, mutexOps,
                 condVars>>

-----------------------------------------------------------------------------
(* ExclusiveUnlock                                                         *)
ExclusiveUnlock(t) ==
  /\ at[t] = "in" /\ recursionCount' = recursionCount - 1
  /\ entered' = [entered EXCEPT ![t] = @ - 1]
  /\ IF ~recursive \/ recursionCount' = 0
     THEN /\ exclusiveOwner' = Nobody /\ after' = [after EXCEPT ![t] = "out"]
          /\ Walk(t, "release")
     ELSE UNCHANGED <<exclusiveOwner, after, at>>
  /\ UNCHANGED <<recursive, futexWord, numContenders, onWord, onSequence, mutexOps, condVars>>

Release(t) ==
  /\ at[t] = "release" /\ futexWord' = 0 /\ Walk(t, "wake")
  /\ UNCHANGED <<recursive, exclusiveOwner, recursionCount, numContenders, after,
                 onWord, onSequence, entered, mutexOps, condVars>>

(* FUTEX_WAKE of at most one sleeper of the set                            *)
WakeOne(sleepers) == IF sleepers = {} THEN {{}} ELSE {sleepers \ {u} : u \in sleepers}

\* Mutant: the owner is cleared after the release, when there may be a new one.
WakeClears(t) ==
  /\ at[t] = "wake" /\ exclusiveOwner' = Nobody
  /\ onWord' \in IF numContenders > 0 THEN WakeOne(onWord) ELSE {onWord}
  /\ Walk(t, after[t])
  /\ UNCHANGED <<recursive, futexWord, recursionCount, numContenders, after,
                 onSequence, entered, mutexOps, condVars>>

\* Mutant: a single contender is not woken.
WakeSecond(t) ==
  /\ at[t] = "wake"
  /\ onWord' \in IF numContenders > 1 THEN WakeOne(onWord) ELSE {onWord}
  /\ Walk(t, after[t])
  /\ UNCHANGED <<recursive, futexWord, exclusiveOwner, recursionCount, numContenders, after,
                 onSequence, entered, mutexOps, condVars>>

(* The contenders are read and one is woken in one step: a wake that comes *)
(* later does nothing that SleepEnds does not.                             *)
Wake(t) ==
  /\ at[t] = "wake"
  /\ onWord' \in IF numContenders > 0 THEN WakeOne(onWord) ELSE {onWord}
  /\ Walk(t, after[t])
  /\ UNCHANGED <<recursive, futexWord, exclusiveOwner, recursionCount, numContenders, after,
                 onSequence, entered, mutexOps, condVars>>

-----------------------------------------------------------------------------

(* WaitHoldingLocks and TimedWait, as far as the release of the mutex      *)
CondWait(t) ==
  /\ MutexCall(t, "in") /\ numWaiters' = numWaiters + 1 /\ numContenders' = numContenders + 1
  /\ oldCount' = [oldCount EXCEPT ![t] = recursionCount] /\ recursionCount' = 0
  /\ curSequence' = [curSequence EXCEPT ![t] = sequence]
  /\ exclusiveOwner' = Nobody /\ after' = [after EXCEPT ![t] = "cond_wait"] /\ Walk(t, "release")
  /\ UNCHANGED <<recursive, futexWord, onWord, onSequence, entered, sequence>>

CondSleep(t) ==
  /\ at[t] = "cond_wait" /\ Walk(t, "waiting")
  /\ onSequence' = IF sequence = curSequence[t] THEN onSequence \cup {t} ELSE onSequence
  /\ UNCHANGED <<recursive, futexWord, exclusiveOwner, recursionCount, numContenders, after,
                 onWord, entered, mutexOps, condVars>>

CondAwake(t) ==
  /\ at[t] = "waiting" /\ ~Asleep(t) /\ Walk(t, "relock")
  /\ UNCHANGED <<recursive, futexWord, exclusiveOwner, recursionCount, numContenders, after,
                 onWord, onSequence, entered, mutexOps, condVars>>

(* The end of ExclusiveLock and of the wait                                *)
Relocked(t) ==
  /\ at[t] = "relocked" /\ exclusiveOwner' = t /\ recursionCount' = oldCount[t]
  /\ numWaiters' = numWaiters - 1 /\ numContenders' = numContenders - 1 /\ Walk(t, "in")
  /\ UNCHANGED <<recursive, futexWord, after, onWord, onSequence, entered, mutexOps,
                 sequence, curSequence, oldCount>>

\* Mutant: the sequence does not say that there was a signal.
SignalQuietly(t, p) ==
  /\ MutexCall(t, "in") /\ numWaiters > 0 /\ Walk(t, p)
  /\ UNCHANGED <<recursive, futexWord, exclusiveOwner, recursionCount, numContenders, after,
                 onWord, onSequence, entered, condVars>>

(* Signal and Broadcast; without waiters they do nothing.                  *)
Announce(t, p) ==
  /\ MutexCall(t, "in") /\ numWaiters > 0 /\ sequence' = sequence + 1 /\ Walk(t, p)
  /\ UNCHANGED <<recursive, futexWord, exclusiveOwner, recursionCount, numContenders, after,
                 onWord, onSequence, entered, numWaiters, curSequence, oldCount>>

SignalOne(t) ==
  /\ at[t] = "signal" /\ onSequence' \in WakeOne(onSequence) /\ Walk(t, "in")
  /\ UNCHANGED <<recursive, futexWord, exclusiveOwner, recursionCount, numContenders, after,
                 onWord, entered, mutexOps, condVars>>

(* FUTEX_CMP_REQUEUE: all waiters now sleep on the state of the mutex.     *)
Requeue(t) ==
  /\ at[t] = "broadcast" /\ onWord' = onWord \cup onSequence /\ onSequence' = {} /\ Walk(t, "in")
  /\ UNCHANGED <<recursive, futexWord, exclusiveOwner, recursionCount, numContenders, after,
                 entered, mutexOps, condVars>>

(* A sleep ends early, by a signal of the system or, in TimedWait, in time. *)
SleepEnds(t) ==
  /\ Asleep(t) /\ onWord' = onWord \ {t} /\ onSequence' = onSequence \ {t}
  /\ UNCHANGED <<recursive, futexWord, exclusiveOwner, recursionCount, numContenders, at, after,
                 entered, mutexOps, condVars>>

-----------------------------------------------------------------------------
(* What a thread does once it has called, until it is outside or inside    *)
InCall(t) ==
  \/ Acquire(t) \/ SeeHeld(t) \/ Contend(t) \/ FutexWait(t) \/ Contended(t) \/ Locked(t)
  \/ Release(t) \/ Wake(t) \/ CondSleep(t) \/ CondAwake(t) \/ Relocked(t)
  \/ SignalOne(t) \/ Requeue(t)

MutexStep(t) ==
  \/ ExclusiveLock(t) \/ LockAgain(t) \/ ExclusiveTryLock(t) \/ ExclusiveUnlock(t)
  \/ CondWait(t) \/ Announce(t, "signal") \/ Announce(t, "broadcast") \/ SleepEnds(t)
  \/ InCall(t)

MutexNext == \E t \in Thread : MutexStep(t)

(* Threads run, and a thread inside unlocks in the end.                    *)
MutexFair(t) == InCall(t) \/ ExclusiveUnlock(t)

MutexSpec == MutexInit /\ [][MutexNext]_mutexVars /\ \A t \in Thread : WF_mutexVars(MutexFair(t))

-----------------------------------------------------------------------------
MutexPc == {"out", "lock", "locked", "contend", "futex_wait", "contending", "in", "release",
            "wake", "cond_wait", "waiting", "relock", "relocked", "signal", "broadcast"}
(* Every variable has its type; in particular no count goes below zero, as *)
(* the CHECK_GE of the waits say.                                          *)
MutexTypeOK ==
  /\ recursive \in BOOLEAN /\ futexWord \in {0, 1} /\ exclusiveOwner \in Thread \cup {Nobody}
  /\ recursionCount \in Nat /\ numContenders \in Nat /\ sequence \in Nat /\ numWaiters \in Nat
  /\ at \in [Thread -> MutexPc] /\ after \in [Thread -> MutexPc]
  /\ curSequence \in [Thread -> Nat] /\ oldCount \in [Thread -> Nat]
  /\ onWord \subseteq Thread /\ onSequence \subseteq Thread
  /\ entered \in [Thread -> Nat] /\ mutexOps \in 0..MaxMutexOps

(* The mutex excludes: whoever is between the compare-and-swap that takes  *)
(* it and the one that releases it is alone there, and inside it is the    *)
(* recorded owner with a count of its own locks, also after a wait in      *)
(* which others have held the mutex.                                       *)
Holds(t) == at[t] \in {"locked", "relocked", "in", "signal", "broadcast", "release"}
Inside(t) == at[t] \in {"in", "signal", "broadcast"}
OwnerIsInside ==
  /\ \A t, u \in Thread : Holds(t) /\ Holds(u) => t = u
  /\ futexWord = 1 <=> \E t \in Thread : Holds(t)
  /\ \A t \in Thread : Inside(t) => exclusiveOwner = t /\ recursionCount = entered[t]

(* A signal reaches a thread that was waiting when it was given, and a     *)
(* broadcast all of them, those included that have released the mutex and  *)
(* are not asleep yet: they will not go to sleep.                          *)
WaitsNow == {w \in Thread : at[w] \in {"wake", "cond_wait"} /\ after[w] = "cond_wait"}
            \cup onSequence
Reached(w) == w \notin onSequence' /\ curSequence[w] # sequence
SignalReaches ==
  [][ \A t \in Thread : at'[t] = "in" /\ WaitsNow # {} =>
        /\ at[t] = "signal" => \E w \in WaitsNow : Reached(w)
        /\ at[t] = "broadcast" => \A w \in WaitsNow : Reached(w) ]_mutexVars

(* Whoever asks for the mutex gets it, also at the end of a wait that was  *)
(* signalled, timed out or interrupted: with finitely many calls there     *)
(* comes a time when nobody waits for the mutex.                           *)
Waits(t) == at[t] \notin {"out", "in"} /\ t \notin onSequence
LockReturns == []<>(\A t \in Thread : ~Waits(t))
=============================================================================
