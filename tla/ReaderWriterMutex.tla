-------------------------- MODULE ReaderWriterMutex --------------------------
(***************************************************************************)
(* ReaderWriterMutex of base/mutex.cc and base/mutex-inl.h, which is also  *)
(* the mutator lock.  Its state is -1 for a writer, else the number of     *)
(* readers; it is a futex.  Steps and futex calls are as in FutexMutex.    *)
(* In SharedLock an EINTR ends the process, and with it what is modelled.  *)
(***************************************************************************)
EXTENDS ArtThreads, FiniteSets

CONSTANT MaxRwOps          \* bound: lock calls

ASSUME RwAssumption == MaxRwOps \in Nat

VARIABLES
  rwState,          \* state_
  rwOwner,          \* exclusive_owner_
  pendingReaders, pendingWriters,
  rwAt,             \* where a thread is
  timed,            \* the threads in ExclusiveLockWithTimeout
  seenState,        \* seenState[t]: cur_state of t when it has to wait
  rwSleepers,       \* the threads that sleep on the state
  rwOps

rwVars == <<rwState, rwOwner, pendingReaders, pendingWriters, rwAt, timed, seenState,
            rwSleepers, rwOps>>

RwInit ==
  /\ rwState = 0 /\ rwOwner = Nobody /\ pendingReaders = 0 /\ pendingWriters = 0
  /\ rwAt = [t \in Thread |-> "out"] /\ timed = {} /\ seenState = [t \in Thread |-> 0]
  /\ rwSleepers = {} /\ rwOps = 0

RwGo(t, p) == rwAt' = [rwAt EXCEPT ![t] = p]
RwCall(t, p) ==
  /\ rwAt[t] = "out" /\ rwOps < MaxRwOps /\ rwOps' = rwOps + 1
  /\ RwGo(t, p)

-----------------------------------------------------------------------------
BeginLock(t) ==
  /\ \/ RwCall(t, "read") /\ timed' = timed
     \/ RwCall(t, "write") /\ timed' \in {timed, timed \cup {t}}
  /\ UNCHANGED <<rwState, rwOwner, pendingReaders, pendingWriters, seenState, rwSleepers>>

\* Mutant: a reader comes in while the lock is held exclusively.
ReadAnyway(t) ==
  /\ rwAt[t] = "read" /\ rwState >= -1 /\ rwState' = rwState + 1 /\ RwGo(t, "reading")
  /\ UNCHANGED <<rwOwner, pendingReaders, pendingWriters, timed, seenState, rwSleepers, rwOps>>

(* SharedLock without a writer inside                                      *)
SharedAcquire(t) ==
  /\ rwAt[t] = "read" /\ rwState >= 0 /\ rwState' = rwState + 1 /\ RwGo(t, "reading")
  /\ UNCHANGED <<rwOwner, pendingReaders, pendingWriters, timed, seenState, rwSleepers, rwOps>>

(* SharedTryLock; with a writer inside it changes nothing.                 *)
SharedTryLock(t) ==
  /\ RwCall(t, "reading") /\ rwState >= 0 /\ rwState' = rwState + 1
  /\ UNCHANGED <<rwOwner, pendingReaders, pendingWriters, timed, seenState, rwSleepers>>

ExclusiveAcquire(t) ==
  /\ rwAt[t] = "write" /\ rwState = 0 /\ rwState' = -1 /\ RwGo(t, "acquired")
  /\ UNCHANGED <<rwOwner, pendingReaders, pendingWriters, timed, seenState, rwSleepers, rwOps>>

SetOwner(t) ==
  /\ rwAt[t] = "acquired" /\ rwOwner' = t /\ timed' = timed \ {t} /\ RwGo(t, "writing")
  /\ UNCHANGED <<rwState, pendingReaders, pendingWriters, seenState, rwSleepers, rwOps>>

(* A lock call has read a state with which it must wait.                   *)
MustWait(t) ==
  /\ \/ rwAt[t] = "read" /\ rwState < 0 /\ RwGo(t, "read_pends")
     \/ rwAt[t] = "write" /\ rwState # 0 /\ RwGo(t, "write_pends")
  /\ seenState' = [seenState EXCEPT ![t] = rwState]
  /\ UNCHANGED <<rwState, rwOwner, pendingReaders, pendingWriters, timed, rwSleepers, rwOps>>

Pend(t) ==
  /\ \/ rwAt[t] = "read_pends" /\ pendingReaders' = pendingReaders + 1
        /\ UNCHANGED pendingWriters /\ RwGo(t, "read_wait")
     \/ rwAt[t] = "write_pends" /\ pendingWriters' = pendingWriters + 1
        /\ UNCHANGED pendingReaders /\ RwGo(t, "write_wait")
  /\ UNCHANGED <<rwState, rwOwner, timed, seenState, rwSleepers, rwOps>>

RwFutexWait(t) ==
  /\ \/ rwAt[t] = "read_wait" /\ RwGo(t, "read_waits")
     \/ rwAt[t] = "write_wait" /\ RwGo(t, "write_waits")
  /\ rwSleepers' = IF rwState = seenState[t] THEN rwSleepers \cup {t} ELSE rwSleepers
  /\ UNCHANGED <<rwState, rwOwner, pendingReaders, pendingWriters, timed, seenState, rwOps>>

(* The wait is over, and the lock is tried again.                          *)
Waited(t) ==
  /\ t \notin rwSleepers
  /\ \/ rwAt[t] = "read_waits" /\ pendingReaders' = pendingReaders - 1
        /\ UNCHANGED pendingWriters /\ RwGo(t, "read")
     \/ rwAt[t] = "write_waits" /\ pendingWriters' = pendingWriters - 1
        /\ UNCHANGED pendingReaders /\ RwGo(t, "write")
  /\ UNCHANGED <<rwState, rwOwner, timed, seenState, rwSleepers, rwOps>>

(* EINTR of a writer                                                       *)
RwInterrupted(t) ==
  /\ t \in rwSleepers /\ rwAt[t] = "write_waits" /\ rwSleepers' = rwSleepers \ {t}
  /\ UNCHANGED <<rwState, rwOwner, pendingReaders, pendingWriters, rwAt, timed, seenState, rwOps>>

(* ExclusiveLockWithTimeout returns false, before it waits or after.       *)
TimedOut(t) ==
  /\ t \in timed /\ timed' = timed \ {t} /\ rwSleepers' = rwSleepers \ {t}
  /\ \/ rwAt[t] = "write_pends" /\ UNCHANGED pendingWriters
     \/ rwAt[t] = "write_waits" /\ t \in rwSleepers /\ pendingWriters' = pendingWriters - 1
  /\ RwGo(t, "out")
  /\ UNCHANGED <<rwState, rwOwner, pendingReaders, seenState, rwOps>>

-----------------------------------------------------------------------------
RwUnlock(t) ==
  /\ rwAt[t] = "writing" /\ rwOwner' = Nobody /\ RwGo(t, "release")
  /\ UNCHANGED <<rwState, pendingReaders, pendingWriters, timed, seenState, rwSleepers, rwOps>>

ExclusiveRelease(t) ==
  /\ rwAt[t] = "release" /\ rwState' = 0 /\ RwGo(t, "look_readers")
  /\ UNCHANGED <<rwOwner, pendingReaders, pendingWriters, timed, seenState, rwSleepers, rwOps>>

(* SharedUnlock                                                            *)
SharedRelease(t) ==
  /\ rwAt[t] = "reading" /\ rwState' = rwState - 1
  /\ RwGo(t, IF rwState' = 0 THEN "look_writers" ELSE "out")
  /\ UNCHANGED <<rwOwner, pendingReaders, pendingWriters, timed, seenState, rwSleepers, rwOps>>

\* Mutant: only the first of the two counts is read.
WakeAllOrLeave(t, pending, else) ==
  /\ rwSleepers' = (IF pending > 0 THEN {} ELSE rwSleepers) /\ RwGo(t, "out")
  /\ UNCHANGED <<rwState, rwOwner, pendingReaders, pendingWriters, timed, seenState, rwOps>>

(* One of the two counts is read; if it is not zero all are woken.         *)
WakeAllIf(t, pending, else) ==
  /\ \/ pending > 0 /\ RwGo(t, "out") /\ rwSleepers' = {}
     \/ pending = 0 /\ RwGo(t, else) /\ UNCHANGED rwSleepers
  /\ UNCHANGED <<rwState, rwOwner, pendingReaders, pendingWriters, timed, seenState, rwOps>>

(* ExclusiveUnlock reads the pending readers first, SharedUnlock the       *)
(* pending writers.                                                        *)
WakeWaiters(t) ==
  \/ rwAt[t] = "look_readers" /\ WakeAllIf(t, pendingReaders, "then_writers")
  \/ rwAt[t] = "then_writers" /\ WakeAllIf(t, pendingWriters, "out")
  \/ rwAt[t] = "look_writers" /\ WakeAllIf(t, pendingWriters, "then_readers")
  \/ rwAt[t] = "then_readers" /\ WakeAllIf(t, pendingReaders, "out")

-----------------------------------------------------------------------------
(* What a thread does without a choice: it goes on with its call, and who  *)
(* holds the lock releases it in the end.                                  *)
RwGoesOn(t) ==
  \/ SharedAcquire(t) \/ ExclusiveAcquire(t) \/ SetOwner(t) \/ MustWait(t) \/ Pend(t)
  \/ RwFutexWait(t) \/ Waited(t)
  \/ RwUnlock(t) \/ ExclusiveRelease(t) \/ SharedRelease(t) \/ WakeWaiters(t)

RwStep(t) ==
  BeginLock(t) \/ SharedTryLock(t) \/ RwInterrupted(t) \/ TimedOut(t) \/ RwGoesOn(t)

RwNext == \E t \in Thread : RwStep(t)

RwSpec == RwInit /\ [][RwNext]_rwVars /\ \A t \in Thread : WF_rwVars(RwGoesOn(t))

-----------------------------------------------------------------------------
RwPc == {"out", "read", "write", "reading", "acquired", "writing", "read_pends", "write_pends",
         "read_wait", "write_wait", "read_waits", "write_waits", "release",
         "look_readers", "look_writers", "then_writers", "then_readers"}
(* Every variable has its type; the counts of those that wait stay counts. *)
RwTypeOK ==
  /\ rwState \in Int /\ rwOwner \in Thread \cup {Nobody}
  /\ pendingReaders \in Nat /\ pendingWriters \in Nat /\ rwAt \in [Thread -> RwPc]
  /\ timed \subseteq Thread /\ seenState \in [Thread -> Int]
  /\ rwSleepers \subseteq Thread /\ rwOps \in 0..MaxRwOps

(* The state is what the threads hold: one writer alone, which is the      *)
(* recorded owner, or a number of readers.                                 *)
Readers == {t \in Thread : rwAt[t] = "reading"}
Writers == {t \in Thread : rwAt[t] \in {"acquired", "writing", "release"}}
HoldersAgree ==
  /\ rwState = IF Writers = {} THEN Cardinality(Readers) ELSE -1
  /\ Cardinality(Writers) <= 1 /\ (Writers # {} => Readers = {})
  /\ \A t \in Thread : rwAt[t] = "writing" => rwOwner = t

(* Whoever asks for the lock gets it or, with a timeout, is told that the  *)
(* time is up: with finitely many calls there comes a time when nobody     *)
(* waits for the lock or holds it.                                         *)
RwLockReturns == []<>(\A t \in Thread : rwAt[t] = "out")
=============================================================================
