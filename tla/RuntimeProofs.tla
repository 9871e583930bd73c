---------------------------- MODULE RuntimeProofs ----------------------------
(***************************************************************************)
(* The mutexes that base/mutex.cc builds from futexes are correct for any  *)
(* finite number of threads and any number of calls: FutexMutex with its   *)
(* condition variable, then ReaderWriterMutex.  In both the argument is    *)
(* that the shared words count threads by where they are in the code.      *)
(* Then ThreadPool, for any number of workers, tasks and calls.            *)
(***************************************************************************)
EXTENDS SequenceTheorems, FiniteSetTheorems, TLAPS,
        FutexMutex, ReaderWriterMutex, ThreadPool

(* Finite sets of threads and their sizes                                  *)
LEMMA ThreadSets ==
  ASSUME NEW S \in SUBSET Thread
  PROVE  IsFiniteSet(S) /\ Cardinality(S) \in Nat /\ (S # {} => Cardinality(S) > 0)
<1>1. IsFiniteSet(S)
  BY Zenon, ThreadAssumption, FS_Subset
<1>2. Cardinality(S) \in Nat
  BY Zenon, <1>1, FS_CardinalityType
<1>3. ASSUME S # {} PROVE Cardinality(S) > 0
  BY <1>1, <1>2, <1>3, FS_EmptySet
<1> QED
  BY Zenon, <1>1, <1>2, <1>3

(* A thread that comes into a set of threads or leaves it counts for one.  *)
LEMMA OneThread ==
  ASSUME NEW S \in SUBSET Thread, NEW t \in Thread
  PROVE  /\ t \notin S => Cardinality(S \cup {t}) = Cardinality(S) + 1
         /\ t \in S => Cardinality(S \ {t}) = Cardinality(S) - 1
BY Zenon, ThreadSets, FS_AddElement, FS_RemoveElement

-----------------------------------------------------------------------------
(* FutexMutex: a thread is in a wait from the release of the mutex until   *)
(* it has it again.                                                        *)
InWait(t) ==
  \/ at[t] \in {"release", "wake"} /\ after[t] = "cond_wait"
  \/ at[t] \in {"cond_wait", "waiting", "relock", "relocked"}
  \/ at[t] \in {"contend", "futex_wait", "contending"} /\ after[t] = "relock"

InWaits == {t \in Thread : InWait(t)}
Contenders == {t \in Thread : at[t] \in {"futex_wait", "contending"}}

(* num_waiters_ counts the threads in a wait; num_contenders_ counts them  *)
(* too, so that the requeued ones are woken.                               *)
MutexCounts ==
  /\ numWaiters = Cardinality(InWaits)
  /\ numContenders = Cardinality(InWaits) + Cardinality(Contenders)

(* Where a thread goes on, and where it sleeps                             *)
MutexPlaces ==
  \A t \in Thread :
    /\ at[t] \in {"contend", "futex_wait", "contending"} => after[t] \in {"lock", "relock"}
    /\ at[t] \in {"release", "wake"} => after[t] \in {"out", "cond_wait"}
    /\ t \in onSequence => at[t] = "waiting"
    /\ t \in onWord => at[t] \in {"contending", "waiting"}

(* A thread keeps its locks in a wait, and has none when it is outside.    *)
(* The count is zero while nobody is inside.                               *)
LocksKept ==
  /\ \A t \in Thread :
       /\ Inside(t) => entered[t] > 0 /\ (~recursive => entered[t] = 1)
       /\ InWait(t) => entered[t] = oldCount[t] /\ oldCount[t] > 0 /\ (~recursive => oldCount[t] = 1)
       /\ ~Inside(t) /\ ~InWait(t) => entered[t] = 0
  /\ (\A t \in Thread : ~Inside(t)) => recursionCount = 0

(* While a signal is given every thread in a wait has an older sequence.   *)
SignalSeen ==
  /\ \A t \in Thread : curSequence[t] <= sequence
  /\ (\E t \in Thread : at[t] \in {"signal", "broadcast"}) =>
       \A w \in Thread : InWait(w) => curSequence[w] < sequence

MutexInv ==
  MutexTypeOK /\ MutexCounts /\ MutexPlaces /\ OwnerIsInside /\ LocksKept /\ SignalSeen

-----------------------------------------------------------------------------

(* A new mutex and condition variable satisfy the invariant.               *)
LEMMA MutexStarts == MutexInit => MutexInv
<1> SUFFICES ASSUME MutexInit PROVE MutexInv
  BY Zenon
<1> USE DEF MutexInit
<1>1. InWaits = {} /\ Contenders = {}
  BY Zenon DEF InWaits, InWait, Contenders
<1>2. MutexTypeOK
  BY MutexAssumption, ThreadAssumption DEF MutexTypeOK, MutexPc
<1>3. MutexCounts
  BY <1>1, FS_EmptySet DEF MutexCounts
<1>4. MutexPlaces /\ OwnerIsInside /\ LocksKept /\ SignalSeen
  BY DEF MutexPlaces, OwnerIsInside, LocksKept, SignalSeen, Holds, Inside, InWait
<1> QED BY Zenon, <1>2, <1>3, <1>4 DEF MutexInv

(* No step of a thread disturbs who holds the mutex, what its count is, or *)
(* what a signal has been seen by.                                         *)
LEMMA PlacesKept ==
  ASSUME MutexInv, NEW t \in Thread, MutexStep(t)
  PROVE  MutexPlaces' /\ OwnerIsInside' /\ LocksKept' /\ SignalSeen'
<1> USE DEF MutexInv, MutexTypeOK, condVars, Walk, MutexPc, OwnerIsInside, Holds, Inside,
            LocksKept, InWait, MutexPlaces, SignalSeen
<1>1. CASE ExclusiveLock(t)
  BY <1>1 DEF ExclusiveLock, MutexCall
<1>2. CASE LockAgain(t)
  BY <1>2 DEF LockAgain, MutexCall
<1>3. CASE ExclusiveTryLock(t)
  BY <1>3 DEF ExclusiveTryLock, MutexCall
<1>4. CASE ExclusiveUnlock(t)
  BY <1>4 DEF ExclusiveUnlock
<1>5. CASE CondWait(t)
  BY <1>5 DEF CondWait, MutexCall
<1>6. CASE Announce(t, "signal")
  BY <1>6 DEF Announce, MutexCall
<1>7. CASE Announce(t, "broadcast")
  BY <1>7 DEF Announce, MutexCall
<1>8. CASE SleepEnds(t)
  BY <1>8 DEF SleepEnds, Asleep
<1>9. CASE Acquire(t)
  BY <1>9 DEF Acquire
<1>10. CASE SeeHeld(t)
  BY <1>10 DEF SeeHeld
<1>11. CASE Contend(t)
  BY <1>11 DEF Contend
<1>12. CASE FutexWait(t)
  BY <1>12 DEF FutexWait
<1>13. CASE Contended(t)
  BY <1>13 DEF Contended, Asleep
<1>14. CASE Locked(t)
  BY <1>14 DEF Locked
<1>15. CASE Release(t)
  BY <1>15 DEF Release
<1>16. CASE Wake(t)
  BY <1>16 DEF Wake, WakeOne
<1>17. CASE CondSleep(t)
  BY <1>17 DEF CondSleep
<1>18. CASE CondAwake(t)
  BY <1>18 DEF CondAwake, Asleep
<1>19. CASE Relocked(t)
  BY <1>19 DEF Relocked
<1>20. CASE SignalOne(t)
  BY <1>20 DEF SignalOne, WakeOne
<1>21. CASE Requeue(t)
  BY <1>21 DEF Requeue
<1> QED
  BY Zenon, <1>1, <1>2, <1>3, <1>4, <1>5, <1>6, <1>7, <1>8, <1>9, <1>10,
     <1>11, <1>12, <1>13, <1>14, <1>15, <1>16, <1>17, <1>18, <1>19, <1>20, <1>21
  DEF MutexStep, InCall

(* Only CondWait and the end of the wait change who is in a wait; only     *)
(* Contend and Contended change who contends.  Both words count one thread *)
(* up or down in the same step, so they stay what they count.              *)
LEMMA CountsKept ==
  ASSUME MutexInv, NEW t \in Thread, MutexStep(t)
  PROVE  MutexCounts' /\ numWaiters' \in Nat /\ numContenders' \in Nat
<1> USE DEF MutexInv, MutexTypeOK, condVars, Walk, InWaits, Contenders, InWait, MutexPlaces, MutexPc
<1>a. ASSUME InWaits' = InWaits, Contenders' = Contenders,
             numWaiters' = numWaiters, numContenders' = numContenders
      PROVE  MutexCounts' /\ numWaiters' \in Nat /\ numContenders' \in Nat
  BY Zenon, <1>a DEF MutexCounts
<1>b. InWaits \subseteq Thread /\ Contenders \subseteq Thread
  BY Zenon
<1>1. CASE ExclusiveLock(t)
  BY Zenon, <1>1, <1>a DEF ExclusiveLock, MutexCall
<1>2. CASE LockAgain(t)
  BY Zenon, <1>2, <1>a DEF LockAgain, MutexCall
<1>3. CASE ExclusiveTryLock(t)
  BY Zenon, <1>3, <1>a DEF ExclusiveTryLock, MutexCall
<1>4. CASE ExclusiveUnlock(t)
  BY <1>4, <1>a DEF ExclusiveUnlock
<1>5. CASE CondWait(t)
  <2>1. InWaits' = InWaits \cup {t} /\ t \notin InWaits /\ Contenders' = Contenders
    BY <1>5 DEF CondWait, MutexCall
  <2> HIDE DEF InWaits, Contenders
  <2> QED BY <1>5, <1>b, <2>1, OneThread, ThreadSets DEF CondWait, MutexCall, MutexCounts
<1>6. CASE Announce(t, "signal")
  BY Zenon, <1>6, <1>a DEF Announce, MutexCall
<1>7. CASE Announce(t, "broadcast")
  BY Zenon, <1>7, <1>a DEF Announce, MutexCall
<1>8. CASE SleepEnds(t)
  BY Zenon, <1>8, <1>a DEF SleepEnds, Asleep
<1>9. CASE Acquire(t)
  BY <1>9, <1>a DEF Acquire
<1>10. CASE SeeHeld(t)
  BY <1>10, <1>a DEF SeeHeld
<1>11. CASE Contend(t)
  <2>1. InWaits' = InWaits /\ Contenders' = Contenders \cup {t} /\ t \notin Contenders
    BY Zenon, <1>11 DEF Contend
  <2> HIDE DEF InWaits, Contenders
  <2> QED BY <1>11, <1>b, <2>1, OneThread, ThreadSets DEF Contend, MutexCounts
<1>12. CASE FutexWait(t)
  BY Zenon, <1>12, <1>a DEF FutexWait
<1>13. CASE Contended(t)
  <2>1. InWaits' = InWaits /\ Contenders' = Contenders \ {t} /\ t \in Contenders
    BY <1>13 DEF Contended, Asleep
  <2> HIDE DEF InWaits, Contenders
  <2> QED BY <1>13, <1>b, <2>1, OneThread, ThreadSets DEF Contended, Asleep, MutexCounts
<1>14. CASE Locked(t)
  BY Zenon, <1>14, <1>a DEF Locked
<1>15. CASE Release(t)
  BY Zenon, <1>15, <1>a DEF Release
<1>16. CASE Wake(t)
  BY <1>16, <1>a DEF Wake, WakeOne
<1>17. CASE CondSleep(t)
  BY Zenon, <1>17, <1>a DEF CondSleep
<1>18. CASE CondAwake(t)
  BY Zenon, <1>18, <1>a DEF CondAwake, Asleep
<1>19. CASE Relocked(t)
  <2>1. InWaits' = InWaits \ {t} /\ t \in InWaits /\ Contenders' = Contenders
    BY Zenon, <1>19 DEF Relocked
  <2> HIDE DEF InWaits, Contenders
  <2> QED BY <1>19, <1>b, <2>1, OneThread, ThreadSets DEF Relocked, MutexCounts
<1>20. CASE SignalOne(t)
  BY Zenon, <1>20, <1>a DEF SignalOne, WakeOne
<1>21. CASE Requeue(t)
  BY Zenon, <1>21, <1>a DEF Requeue
<1> QED
  BY Zenon, <1>1, <1>2, <1>3, <1>4, <1>5, <1>6, <1>7, <1>8, <1>9, <1>10,
     <1>11, <1>12, <1>13, <1>14, <1>15, <1>16, <1>17, <1>18, <1>19, <1>20, <1>21
  DEF MutexStep, InCall

(* The variables keep their types, the counts because they count threads.  *)
LEMMA TypesKept ==
  ASSUME MutexInv, NEW t \in Thread, MutexStep(t)
  PROVE  MutexTypeOK'
<1> USE DEF MutexInv, MutexTypeOK, condVars, Walk, MutexPc, OwnerIsInside, Inside, LocksKept,
            MutexPlaces, InWait
<1>a. numWaiters' \in Nat /\ numContenders' \in Nat
  BY Zenon, CountsKept
<1> USE <1>a, MutexAssumption
<1>1. CASE ExclusiveLock(t)
  BY <1>1 DEF ExclusiveLock, MutexCall
<1>2. CASE LockAgain(t)
  BY <1>2 DEF LockAgain, MutexCall
<1>3. CASE ExclusiveTryLock(t)
  BY <1>3 DEF ExclusiveTryLock, MutexCall
<1>4. CASE ExclusiveUnlock(t)
  BY <1>4 DEF ExclusiveUnlock
<1>5. CASE CondWait(t)
  BY <1>5 DEF CondWait, MutexCall
<1>6. CASE Announce(t, "signal")
  BY <1>6 DEF Announce, MutexCall
<1>7. CASE Announce(t, "broadcast")
  BY <1>7 DEF Announce, MutexCall
<1>8. CASE SleepEnds(t)
  BY Zenon, <1>8 DEF SleepEnds, Asleep
<1>9. CASE Acquire(t)
  BY Zenon, <1>9 DEF Acquire
<1>10. CASE SeeHeld(t)
  BY Zenon, <1>10 DEF SeeHeld
<1>11. CASE Contend(t)
  BY Zenon, <1>11 DEF Contend
<1>12. CASE FutexWait(t)
  BY <1>12 DEF FutexWait
<1>13. CASE Contended(t)
  BY Zenon, <1>13 DEF Contended, Asleep
<1>14. CASE Locked(t)
  BY <1>14 DEF Locked
<1>15. CASE Release(t)
  BY Zenon, <1>15 DEF Release
<1>16. CASE Wake(t)
  BY <1>16 DEF Wake, WakeOne
<1>17. CASE CondSleep(t)
  BY <1>17 DEF CondSleep
<1>18. CASE CondAwake(t)
  BY Zenon, <1>18 DEF CondAwake, Asleep
<1>19. CASE Relocked(t)
  BY Zenon, <1>19 DEF Relocked
<1>20. CASE SignalOne(t)
  BY <1>20 DEF SignalOne, WakeOne
<1>21. CASE Requeue(t)
  BY Zenon, <1>21 DEF Requeue
<1> QED
  BY Zenon, <1>1, <1>2, <1>3, <1>4, <1>5, <1>6, <1>7, <1>8, <1>9, <1>10,
     <1>11, <1>12, <1>13, <1>14, <1>15, <1>16, <1>17, <1>18, <1>19, <1>20, <1>21
  DEF MutexStep, InCall

(* MutexInv is inductive.                                                  *)
LEMMA MutexStepInv == MutexInv /\ [MutexNext]_mutexVars => MutexInv'
<1> SUFFICES ASSUME MutexInv, [MutexNext]_mutexVars PROVE MutexInv'
  BY Zenon
<1>1. CASE MutexNext
  <2>1. PICK t \in Thread : MutexStep(t)
    BY Zenon, <1>1 DEF MutexNext
  <2> QED BY Zenon, <2>1, PlacesKept, CountsKept, TypesKept DEF MutexInv
<1>2. CASE UNCHANGED mutexVars
  BY <1>2 DEF mutexVars, condVars, MutexInv, MutexTypeOK, MutexCounts, InWaits, Contenders, InWait,
              MutexPlaces, OwnerIsInside, Holds, Inside, LocksKept, SignalSeen
<1> QED BY Zenon, <1>1, <1>2

(* The invariant holds in every behaviour.                                 *)
THEOREM MutexInvariant == MutexSpec => []MutexInv
BY MutexStarts, MutexStepInv, PTL DEF MutexSpec

(* num_waiters_, num_contenders_ and the recursion count never go below    *)
(* zero, and the state is 0 or 1: the CHECKs of the mutex hold.            *)
THEOREM MutexTypes == MutexSpec => []MutexTypeOK
<1>1. MutexInv => MutexTypeOK
  BY Zenon DEF MutexInv
<1> QED BY <1>1, MutexInvariant, PTL

(* The mutex excludes, and its recorded owner and recursion count are      *)
(* those of the thread inside, also after a wait on the condition.         *)
THEOREM MutexExcludes == MutexSpec => []OwnerIsInside
<1>1. MutexInv => OwnerIsInside
  BY Zenon DEF MutexInv
<1> QED BY <1>1, MutexInvariant, PTL

(* Signal reaches a thread that was waiting when it was called and         *)
(* Broadcast all of them: a thread that has released the mutex and is not  *)
(* asleep yet finds another sequence number and does not go to sleep.      *)
THEOREM SignalsReach == MutexSpec => SignalReaches
<1> DEFINE Reach ==
      \A t \in Thread : at'[t] = "in" /\ WaitsNow # {} =>
        /\ at[t] = "signal" => \E w \in WaitsNow : Reached(w)
        /\ at[t] = "broadcast" => \A w \in WaitsNow : Reached(w)
<1>1. MutexInv /\ [MutexNext]_mutexVars => [Reach]_mutexVars
  <2> SUFFICES ASSUME MutexInv, MutexNext, NEW t \in Thread, at'[t] = "in", WaitsNow # {},
                      at[t] \in {"signal", "broadcast"}
               PROVE  /\ at[t] = "signal" => \E w \in WaitsNow : Reached(w)
                      /\ at[t] = "broadcast" => \A w \in WaitsNow : Reached(w)
    BY Zenon
  <2>1. PICK u \in Thread : MutexStep(u)
    BY Zenon DEF MutexNext
  <2>2. SignalOne(t) \/ Requeue(t)
    BY Zenon, <2>1 DEF MutexStep, InCall, MutexInv, MutexTypeOK, MutexPlaces, Walk, MutexCall, ExclusiveLock,
                LockAgain, ExclusiveTryLock, ExclusiveUnlock, CondWait, Announce, SleepEnds, Acquire,
                SeeHeld, Contend, FutexWait, Contended, Locked, Release, Wake, CondSleep, CondAwake,
                Relocked, SignalOne, Requeue
  <2>3. \A w \in WaitsNow : w \in Thread /\ curSequence[w] \in Nat /\ curSequence[w] < sequence
    BY Zenon DEF MutexInv, MutexTypeOK, MutexPlaces, SignalSeen, InWait, WaitsNow
  <2>4. CASE SignalOne(t)
    <3>1. CASE onSequence = {}
      BY <2>3, <2>4, <3>1 DEF SignalOne, WakeOne, Reached, MutexInv, MutexTypeOK
    <3>2. CASE onSequence # {}
      <4>1. PICK w \in onSequence : onSequence' = onSequence \ {w}
        BY Zenon, <2>4, <3>2 DEF SignalOne, WakeOne
      <4>2. w \in WaitsNow /\ Reached(w)
        BY <2>3, <4>1 DEF WaitsNow, Reached, MutexInv, MutexTypeOK
      <4> QED BY Zenon, <2>4, <4>2 DEF SignalOne
    <3> QED BY Zenon, <3>1, <3>2
  <2>5. CASE Requeue(t)
    BY <2>3, <2>5 DEF Requeue, Reached, MutexInv, MutexTypeOK
  <2> QED BY Zenon, <2>2, <2>4, <2>5
<1> QED BY <1>1, MutexInvariant, PTL DEF MutexSpec, SignalReaches

-----------------------------------------------------------------------------
(* ReaderWriterMutex: the threads that pend, as readers or as writers      *)
PendingReaders == {t \in Thread : rwAt[t] \in {"read_wait", "read_waits"}}
PendingWriters == {t \in Thread : rwAt[t] \in {"write_wait", "write_waits"}}

RwCounts ==
  /\ pendingReaders = Cardinality(PendingReaders)
  /\ pendingWriters = Cardinality(PendingWriters)

OneWriter == \A t, u \in Writers : t = u

RwInv == RwTypeOK /\ RwCounts /\ HoldersAgree /\ OneWriter

(* A new lock satisfies the invariant.                                     *)
LEMMA RwStarts == RwInit => RwInv
<1> SUFFICES ASSUME RwInit PROVE RwInv
  BY Zenon
<1> USE DEF RwInit
<1>1. PendingReaders = {} /\ PendingWriters = {} /\ Readers = {} /\ Writers = {}
  BY Zenon DEF PendingReaders, PendingWriters, Readers, Writers
<1>2. RwTypeOK
  BY RwAssumption, ThreadAssumption DEF RwTypeOK, RwPc
<1>3. RwCounts /\ OneWriter
  BY Zenon, <1>1, FS_EmptySet DEF RwCounts, OneWriter
<1>4. HoldersAgree
  <2> HIDE DEF RwInit
  <2>1. rwState = 0 /\ \A t \in Thread : rwAt[t] # "writing"
    BY Zenon DEF RwInit
  <2> QED BY <1>1, <2>1, FS_EmptySet DEF HoldersAgree
<1> QED BY Zenon, <1>2, <1>3, <1>4 DEF RwInv

(* The state of the lock follows who comes in and who goes: it is the      *)
(* number of readers, or -1.                                               *)
LEMMA HoldersKept ==
  ASSUME RwInv, NEW t \in Thread, RwStep(t)
  PROVE  HoldersAgree' /\ OneWriter'
<1> USE DEF RwInv, RwTypeOK, RwPc, RwGo, Readers, Writers
<1>a. Readers \in SUBSET Thread /\ Writers \in SUBSET Thread
  BY Zenon
<1>f. /\ rwState >= 0 => Writers = {} /\ rwState = Cardinality(Readers)
      /\ rwState = 0 => Readers = {}
      /\ Writers # {} => Readers = {}
  <2> HIDE DEF Readers, Writers
  <2> QED BY <1>a, ThreadSets DEF HoldersAgree
<1>b. ASSUME Readers' = Readers, Writers' = Writers, rwState' = rwState, rwOwner' = rwOwner,
             \A u \in Thread : rwAt'[u] = "writing" => rwAt[u] = "writing"
      PROVE  HoldersAgree' /\ OneWriter'
  <2> HIDE DEF Readers, Writers
  <2> QED BY Zenon, <1>b DEF HoldersAgree, OneWriter
<1>1. CASE BeginLock(t)
  BY Zenon, <1>1, <1>b DEF BeginLock, RwCall
<1>2. CASE SharedTryLock(t)
  <2>1. Writers = {} /\ Writers' = {} /\ Readers' = Readers \cup {t} /\ t \notin Readers
    <3>1. Writers = {}
      BY <1>2 DEF SharedTryLock, RwCall, HoldersAgree
    <3> QED BY Zenon, <3>1, <1>2 DEF SharedTryLock, RwCall
  <2>2. rwState' = Cardinality(Readers')
    <3> HIDE DEF Readers, Writers
    <3> QED BY Zenon, <1>2, <1>a, <2>1, OneThread, ThreadSets DEF SharedTryLock, RwCall, HoldersAgree
  <2> QED BY Zenon, <2>1, <2>2, ThreadSets, FS_EmptySet DEF HoldersAgree, OneWriter
<1>3. CASE RwInterrupted(t)
  BY Zenon, <1>3, <1>b DEF RwInterrupted
<1>4. CASE TimedOut(t)
  BY Zenon, <1>4, <1>b DEF TimedOut
<1>5. CASE SharedAcquire(t)
  <2>1. Writers = {} /\ Writers' = {} /\ Readers' = Readers \cup {t} /\ t \notin Readers
    <3>1. Writers = {}
      BY <1>5 DEF SharedAcquire, HoldersAgree
    <3> QED BY Zenon, <3>1, <1>5 DEF SharedAcquire
  <2>2. rwState' = Cardinality(Readers')
    <3> HIDE DEF Readers, Writers
    <3> QED BY Zenon, <1>5, <1>a, <2>1, OneThread, ThreadSets DEF SharedAcquire, HoldersAgree
  <2> QED BY Zenon, <2>1, <2>2, ThreadSets, FS_EmptySet DEF HoldersAgree, OneWriter
<1>6. CASE ExclusiveAcquire(t)
  <2>1. Writers = {} /\ Readers = {}
    <3> HIDE DEF Readers, Writers
    <3> QED BY <1>6, <1>a, ThreadSets DEF ExclusiveAcquire, HoldersAgree
  <2>2. Writers' = {t} /\ Readers' = {} /\ rwState' = -1 /\ rwAt'[t] = "acquired"
    BY Zenon, <1>6, <2>1 DEF ExclusiveAcquire
  <2>3. \A u \in Thread : rwAt'[u] # "writing"
    BY Zenon, <2>2
  <2>4. Cardinality({t}) = 1
    BY Zenon, FS_Singleton
  <2> HIDE DEF Readers, Writers
  <2> QED BY <2>2, <2>3, <2>4 DEF HoldersAgree, OneWriter
<1>7. CASE SetOwner(t)
  <2>1. Writers' = Writers /\ Readers' = Readers /\ t \in Writers /\ rwState' = rwState /\ rwOwner' = t
    BY Zenon, <1>7 DEF SetOwner
  <2>2. \A u \in Thread : rwAt'[u] = "writing" => u \in Writers
    BY Zenon, <2>1
  <2> HIDE DEF Readers, Writers
  <2> QED BY <2>1, <2>2 DEF HoldersAgree, OneWriter
<1>8. CASE MustWait(t)
  BY Zenon, <1>8, <1>b DEF MustWait
<1>9. CASE Pend(t)
  BY Zenon, <1>9, <1>b DEF Pend
<1>10. CASE RwFutexWait(t)
  BY Zenon, <1>10, <1>b DEF RwFutexWait
<1>11. CASE Waited(t)
  BY Zenon, <1>11, <1>b DEF Waited
<1>12. CASE RwUnlock(t)
  <2>1. Writers' = Writers /\ Readers' = Readers /\ t \in Writers /\ rwState' = rwState
    BY Zenon, <1>12 DEF RwUnlock
  <2>2. \A u \in Thread : rwAt'[u] # "writing"
    BY <1>12 DEF RwUnlock, OneWriter
  <2> HIDE DEF Readers, Writers
  <2> QED BY Zenon, <2>1, <2>2 DEF HoldersAgree, OneWriter
<1>13. CASE ExclusiveRelease(t)
  <2>1. Writers' = {} /\ Readers' = Readers /\ t \in Writers /\ rwState' = 0
    BY <1>13 DEF ExclusiveRelease, OneWriter
  <2>2. Readers' = {}
    BY Zenon, <2>1 DEF HoldersAgree
  <2>3. \A u \in Thread : rwAt'[u] # "writing"
    BY Zenon, <2>1
  <2> QED BY <2>1, <2>2, <2>3, FS_EmptySet DEF HoldersAgree, OneWriter
<1>14. CASE SharedRelease(t)
  <2>1. t \in Readers /\ Readers' = Readers \ {t} /\ Writers' = Writers
    BY Zenon, <1>14 DEF SharedRelease
  <2>2. Writers = {}
    BY Zenon, <2>1 DEF HoldersAgree
  <2>3. rwState' = Cardinality(Readers')
    <3> HIDE DEF Readers, Writers
    <3> QED BY Zenon, <1>14, <1>a, <2>1, <2>2, OneThread, ThreadSets DEF SharedRelease, HoldersAgree
  <2> QED BY Zenon, <2>1, <2>2, <2>3, FS_EmptySet DEF HoldersAgree, OneWriter
<1>15. CASE WakeWaiters(t)
  BY Zenon, <1>15, <1>b DEF WakeWaiters, WakeAllIf
<1> QED
  BY Zenon, <1>1, <1>2, <1>3, <1>4, <1>5, <1>6, <1>7, <1>8, <1>9, <1>10, <1>11, <1>12, <1>13, <1>14, <1>15
  DEF RwStep, RwGoesOn

(* num_pending_readers_ and num_pending_writers_ count the threads between *)
(* the two changes, so they never go below zero.                           *)
LEMMA PendingKept ==
  ASSUME RwInv, NEW t \in Thread, RwStep(t)
  PROVE  RwCounts' /\ pendingReaders' \in Nat /\ pendingWriters' \in Nat
<1> USE DEF RwInv, RwTypeOK, RwPc, RwGo, PendingReaders, PendingWriters
<1>a. PendingReaders \in SUBSET Thread /\ PendingWriters \in SUBSET Thread
  BY Zenon
<1>b. ASSUME PendingReaders' = PendingReaders, PendingWriters' = PendingWriters,
             pendingReaders' = pendingReaders, pendingWriters' = pendingWriters
      PROVE  RwCounts' /\ pendingReaders' \in Nat /\ pendingWriters' \in Nat
  BY Zenon, <1>b DEF RwCounts
<1>c. ASSUME \/ PendingReaders' = PendingReaders \cup {t} /\ t \notin PendingReaders
                /\ pendingReaders' = pendingReaders + 1
             \/ PendingReaders' = PendingReaders \ {t} /\ t \in PendingReaders
                /\ pendingReaders' = pendingReaders - 1,
             PendingWriters' = PendingWriters, pendingWriters' = pendingWriters
      PROVE  RwCounts' /\ pendingReaders' \in Nat /\ pendingWriters' \in Nat
  <2> HIDE DEF PendingReaders, PendingWriters
  <2> QED BY <1>a, <1>c, OneThread, ThreadSets DEF RwCounts
<1>d. ASSUME \/ PendingWriters' = PendingWriters \cup {t} /\ t \notin PendingWriters
                /\ pendingWriters' = pendingWriters + 1
             \/ PendingWriters' = PendingWriters \ {t} /\ t \in PendingWriters
                /\ pendingWriters' = pendingWriters - 1,
             PendingReaders' = PendingReaders, pendingReaders' = pendingReaders
      PROVE  RwCounts' /\ pendingReaders' \in Nat /\ pendingWriters' \in Nat
  <2> HIDE DEF PendingReaders, PendingWriters
  <2> QED BY <1>a, <1>d, OneThread, ThreadSets DEF RwCounts
<1>1. CASE BeginLock(t)
  BY <1>1, <1>b DEF BeginLock, RwCall
<1>2. CASE SharedTryLock(t)
  BY Zenon, <1>2, <1>b DEF SharedTryLock, RwCall
<1>3. CASE RwInterrupted(t)
  BY Zenon, <1>3, <1>b DEF RwInterrupted
<1>4. CASE TimedOut(t)
  <2>1. CASE rwAt[t] = "write_pends"
    BY Zenon, <1>4, <1>b, <2>1 DEF TimedOut
  <2>2. CASE rwAt[t] = "write_waits"
    BY Zenon, <1>4, <1>d, <2>2 DEF TimedOut
  <2> QED BY Zenon, <1>4, <2>1, <2>2 DEF TimedOut
<1>5. CASE SharedAcquire(t)
  BY Zenon, <1>5, <1>b DEF SharedAcquire
<1>6. CASE ExclusiveAcquire(t)
  BY Zenon, <1>6, <1>b DEF ExclusiveAcquire
<1>7. CASE SetOwner(t)
  BY Zenon, <1>7, <1>b DEF SetOwner
<1>8. CASE MustWait(t)
  BY Zenon, <1>8, <1>b DEF MustWait
<1>9. CASE Pend(t)
  <2>1. CASE rwAt[t] = "read_pends"
    BY Zenon, <1>9, <1>c, <2>1 DEF Pend
  <2>2. CASE rwAt[t] = "write_pends"
    BY <1>9, <1>d, <2>2 DEF Pend
  <2> QED BY Zenon, <1>9, <2>1, <2>2 DEF Pend
<1>10. CASE RwFutexWait(t)
  BY Zenon, <1>10, <1>b DEF RwFutexWait
<1>11. CASE Waited(t)
  <2>1. CASE rwAt[t] = "read_waits"
    BY Zenon, <1>11, <1>c, <2>1 DEF Waited
  <2>2. CASE rwAt[t] = "write_waits"
    BY Zenon, <1>11, <1>d, <2>2 DEF Waited
  <2> QED BY Zenon, <1>11, <2>1, <2>2 DEF Waited
<1>12. CASE RwUnlock(t)
  BY Zenon, <1>12, <1>b DEF RwUnlock
<1>13. CASE ExclusiveRelease(t)
  BY Zenon, <1>13, <1>b DEF ExclusiveRelease
<1>14. CASE SharedRelease(t)
  BY Zenon, <1>14, <1>b DEF SharedRelease
<1>15. CASE WakeWaiters(t)
  BY Zenon, <1>15, <1>b DEF WakeWaiters, WakeAllIf
<1> QED
  BY Zenon, <1>1, <1>2, <1>3, <1>4, <1>5, <1>6, <1>7, <1>8, <1>9, <1>10, <1>11, <1>12, <1>13, <1>14, <1>15
  DEF RwStep, RwGoesOn

(* The variables keep their types.                                         *)
LEMMA RwTypesKept ==
  ASSUME RwInv, NEW t \in Thread, RwStep(t)
  PROVE  RwTypeOK'
<1>a. pendingReaders' \in Nat /\ pendingWriters' \in Nat
  BY Zenon, PendingKept
<1> USE <1>a, RwAssumption, ThreadAssumption DEF RwInv, RwTypeOK, RwPc, RwGo
<1>1. CASE BeginLock(t)
  BY <1>1 DEF BeginLock, RwCall
<1>2. CASE SharedTryLock(t)
  BY <1>2 DEF SharedTryLock, RwCall
<1>3. CASE RwInterrupted(t)
  BY Zenon, <1>3 DEF RwInterrupted
<1>4. CASE TimedOut(t)
  BY Zenon, <1>4 DEF TimedOut
<1>5. CASE SharedAcquire(t)
  BY <1>5 DEF SharedAcquire
<1>6. CASE ExclusiveAcquire(t)
  BY <1>6 DEF ExclusiveAcquire
<1>7. CASE SetOwner(t)
  BY Zenon, <1>7 DEF SetOwner
<1>8. CASE MustWait(t)
  BY Zenon, <1>8 DEF MustWait
<1>9. CASE Pend(t)
  BY Zenon, <1>9 DEF Pend
<1>10. CASE RwFutexWait(t)
  BY Zenon, <1>10 DEF RwFutexWait
<1>11. CASE Waited(t)
  BY Zenon, <1>11 DEF Waited
<1>12. CASE RwUnlock(t)
  BY Zenon, <1>12 DEF RwUnlock
<1>13. CASE ExclusiveRelease(t)
  BY <1>13 DEF ExclusiveRelease
<1>14. CASE SharedRelease(t)
  BY <1>14 DEF SharedRelease
<1>15. CASE WakeWaiters(t)
  BY Zenon, <1>15 DEF WakeWaiters, WakeAllIf
<1> QED
  BY Zenon, <1>1, <1>2, <1>3, <1>4, <1>5, <1>6, <1>7, <1>8, <1>9, <1>10, <1>11, <1>12, <1>13, <1>14, <1>15
  DEF RwStep, RwGoesOn

(* RwInv is inductive.                                                     *)
LEMMA RwStepInv == RwInv /\ [RwNext]_rwVars => RwInv'
<1> SUFFICES ASSUME RwInv, [RwNext]_rwVars PROVE RwInv'
  BY Zenon
<1>1. CASE RwNext
  <2>1. PICK t \in Thread : RwStep(t)
    BY Zenon, <1>1 DEF RwNext
  <2> QED BY Zenon, <2>1, HoldersKept, PendingKept, RwTypesKept DEF RwInv
<1>2. CASE UNCHANGED rwVars
  BY Zenon, <1>2 DEF rwVars, RwInv, RwTypeOK, RwCounts, PendingReaders, PendingWriters, HoldersAgree,
              OneWriter, Readers, Writers
<1> QED BY Zenon, <1>1, <1>2

(* The counts of pending readers and writers stay natural numbers.         *)
THEOREM RwTypes == RwSpec => []RwTypeOK
<1>1. RwInv => RwTypeOK
  BY Zenon DEF RwInv
<1> QED BY <1>1, RwStarts, RwStepInv, PTL DEF RwSpec

(* The state word of a ReaderWriterMutex is what the threads hold: -1 for  *)
(* a single writer, which is the recorded owner, and else the number of    *)
(* the readers.                                                            *)
THEOREM RwExcludes == RwSpec => []HoldersAgree
<1>1. RwInv => HoldersAgree
  BY Zenon DEF RwInv
<1> QED BY <1>1, RwStarts, RwStepInv, PTL DEF RwSpec

-----------------------------------------------------------------------------
(* ThreadPool: the workers in the condition of the queue, and those that   *)
(* have not come to the barrier                                            *)
Sleepers == {w \in Thread : wAt[w] \in {"asleep", "woken"}}
Newborn == {w \in Thread : wAt[w] = "new"}

(* No task is lost: each that was added waits in the queue, is run by a    *)
(* worker or by the owner, or has run.                                     *)
Somewhere(n) ==
  \/ n \in done
  \/ \E i \in 1..Len(tasks) : tasks[i] = n
  \/ \E w \in Thread : doing[w] = n
  \/ ownTask = n
TasksKept ==
  /\ \A n \in 1..added : Somewhere(n)
  /\ \A i \in 1..Len(tasks) : tasks[i] <= added
  /\ \A w \in Thread : /\ wAt[w] = "run" <=> doing[w] > 0
                       /\ doing[w] <= added
  /\ ownerAt = "run" <=> ownTask > 0
  /\ ownTask <= added
  /\ shuttingDown => ownerAt \in {"joining", "gone"}

BarrierCounts == creation = Cardinality(Newborn) + (IF ownerAt = "new" THEN 1 ELSE 0)

PoolInv == PoolTypeOK /\ TasksKept /\ BarrierCounts

(* The sets of workers behind the counts                                   *)
LEMMA WorkerSets ==
  ASSUME PoolTypeOK
  PROVE  /\ Sleepers \in SUBSET Thread /\ Newborn \in SUBSET Thread
         /\ waitingCount = Cardinality(Sleepers) /\ waitingCount \in Nat
         /\ Cardinality(Newborn) \in Nat /\ ThreadCount \in Nat
         /\ Cardinality(Newborn) <= ThreadCount
<1>1. Sleepers \in SUBSET Thread /\ Newborn \in SUBSET Thread
  BY Zenon DEF Sleepers, Newborn
<1>2. waitingCount = Cardinality(Sleepers)
  BY Zenon DEF PoolTypeOK, Sleepers
<1>3. Cardinality(Newborn) <= ThreadCount
  BY Zenon, <1>1, ThreadAssumption, FS_Subset DEF ThreadCount
<1> QED BY Zenon, <1>1, <1>2, <1>3, ThreadSets DEF ThreadCount

(* A pool that is being made satisfies the invariant.                      *)
LEMMA PoolStarts == PoolInit => PoolInv
<1> SUFFICES ASSUME PoolInit PROVE PoolInv
  BY Zenon
<1>1. Newborn = Thread /\ {w \in Thread : wAt[w] \in {"asleep", "woken"}} = {}
  BY Zenon DEF PoolInit, Newborn
<1>2. ThreadCount \in Nat
  BY Zenon, ThreadSets DEF ThreadCount
<1>3. PoolTypeOK
  <2>1. waitingCount = Cardinality({w \in Thread : wAt[w] \in {"asleep", "woken"}})
    <3>1. waitingCount = 0
      BY Zenon DEF PoolInit
    <3> QED BY Zenon, <1>1, <3>1, FS_EmptySet
  <2>2. /\ tasks \in Seq(1..MaxTasks)
        /\ maxActive \in 0..ThreadCount /\ creation \in 0..(ThreadCount + 1)
        /\ wAt \in [Thread -> {"new", "barrier", "get", "asleep", "woken", "run", "exit"}]
        /\ ownerAt = "new"
        /\ doing \in [Thread -> 0..MaxTasks] /\ ownTask \in 0..MaxTasks
        /\ added \in 0..MaxTasks /\ done \subseteq 1..added /\ poolCalls \in 0..MaxPoolCalls
    BY <1>2, PoolAssumption DEF PoolInit, NoTask
  <2>3. started \in BOOLEAN /\ shuttingDown \in BOOLEAN
    BY Zenon DEF PoolInit
  <2> QED BY Zenon, <2>1, <2>2, <2>3 DEF PoolTypeOK
<1>4. TasksKept
  BY DEF PoolInit, TasksKept, NoTask
<1>5. BarrierCounts
  BY Zenon, <1>1, <1>2 DEF PoolInit, BarrierCounts, ThreadCount
<1> QED BY Zenon, <1>3, <1>4, <1>5 DEF PoolInv

(* The first element of a queue                                            *)
LEMMA FirstOf ==
  ASSUME NEW S, NEW q \in Seq(S), q # <<>>
  PROVE  Len(q) \in Nat /\ Len(q) > 0 /\ Head(q) = q[1] /\ Head(q) \in S
<1>1. Len(q) \in Nat /\ Len(q) > 0
  BY EmptySeq
<1>2. Head(q) \in S
  BY Zenon, HeadTailProperties
<1>3. Head(q) = q[1]
  OBVIOUS
<1> QED BY Zenon, <1>1, <1>2, <1>3

(* What is left of the queue when its first task is taken                  *)
LEMMA FirstTaken ==
  ASSUME PoolTypeOK, tasks # <<>>, tasks' = Tail(tasks)
  PROVE  /\ tasks' \in Seq(1..MaxTasks) /\ Len(tasks) \in Nat /\ Len(tasks) > 0
         /\ Head(tasks) = tasks[1] /\ Head(tasks) \in 1..MaxTasks
         /\ Len(tasks') = Len(tasks) - 1
         /\ \A i \in 1..Len(tasks') : tasks'[i] = tasks[i + 1]
         /\ \A i \in 1..Len(tasks) : i = 1 \/ (i - 1 \in 1..Len(tasks') /\ tasks'[i - 1] = tasks[i])
<1>a. /\ Len(tasks) \in Nat /\ Len(tasks) > 0
      /\ Head(tasks) = tasks[1] /\ Head(tasks) \in 1..MaxTasks
  <2>1. tasks \in Seq(1..MaxTasks)
    BY Zenon DEF PoolTypeOK
  <2> QED BY Zenon, <2>1, FirstOf
<1>b. /\ tasks' \in Seq(1..MaxTasks) /\ Len(tasks') = Len(tasks) - 1
      /\ \A i \in 1..Len(tasks') : tasks'[i] = tasks[i + 1]
  BY Zenon, HeadTailProperties DEF PoolTypeOK
<1>1. /\ tasks' \in Seq(1..MaxTasks) /\ Len(tasks) \in Nat /\ Len(tasks) > 0
      /\ Head(tasks) = tasks[1] /\ Head(tasks) \in 1..MaxTasks
      /\ Len(tasks') = Len(tasks) - 1
      /\ \A i \in 1..Len(tasks') : tasks'[i] = tasks[i + 1]
  BY Zenon, <1>a, <1>b
<1>2. ASSUME NEW i \in 1..Len(tasks), i # 1
      PROVE  i - 1 \in 1..Len(tasks') /\ tasks'[i - 1] = tasks[(i - 1) + 1]
  BY <1>1, <1>2
<1>3. \A i \in 1..Len(tasks) : (i - 1) + 1 = i
  BY <1>1
<1> QED BY Zenon, <1>1, <1>2, <1>3

(* The queue when a task is added                                          *)
LEMMA LastAdded ==
  ASSUME PoolTypeOK, NEW n \in 1..MaxTasks, tasks' = Append(tasks, n)
  PROVE  /\ tasks' \in Seq(1..MaxTasks) /\ Len(tasks) \in Nat
         /\ Len(tasks') = Len(tasks) + 1 /\ tasks'[Len(tasks) + 1] = n
         /\ \A i \in 1..Len(tasks) : tasks'[i] = tasks[i]
BY DEF PoolTypeOK

(* A task goes from the queue to the one who runs it, and from there to    *)
(* the tasks that have run.                                                *)
LEMMA TasksStay == PoolInv /\ PoolNext => TasksKept'
<1> SUFFICES ASSUME PoolInv, PoolNext PROVE TasksKept'
  BY Zenon
<1> USE DEF PoolInv, PoolTypeOK, TasksKept, Somewhere, WorkerGoes, NoTask
<1>1. CASE \E w \in Thread : AtBarrier(w)
  BY <1>1 DEF AtBarrier
<1>2. CASE \E w \in Thread : LeaveBarrier(w)
  BY <1>2 DEF LeaveBarrier
<1>3. CASE \E w \in Thread : GetTask(w)
  <2>1. PICK w \in Thread : GetTask(w)
    BY Zenon, <1>3
  <2>2. UNCHANGED <<added, done, ownTask, shuttingDown>>
    BY Zenon, <2>1 DEF GetTask
  <2>3. CASE wAt'[w] = "run"
    <3>1. /\ tasks # <<>> /\ tasks' = Tail(tasks) /\ doing' = [doing EXCEPT ![w] = Head(tasks)]
          /\ wAt' = [wAt EXCEPT ![w] = "run"] /\ ownerAt' = ownerAt /\ doing[w] = 0
      BY <2>1, <2>3 DEF GetTask, TakeTask, WaitForTask, MayTake
    <3>2. ASSUME NEW n \in 1..added PROVE Somewhere(n)'
      <4>1. ASSUME NEW i \in 1..Len(tasks), tasks[i] = n PROVE Somewhere(n)'
        BY ZenonT(40), <2>2, <3>1, <4>1, FirstTaken
      <4> QED BY <2>2, <3>1, <4>1
    <3>3. \A i \in 1..Len(tasks') : tasks'[i] <= added'
      BY <2>2, <3>1, FirstTaken
    <3>4. \A v \in Thread : (wAt'[v] = "run" <=> doing'[v] > 0) /\ doing'[v] <= added'
      BY <2>2, <3>1, FirstTaken
    <3> QED BY Zenon, <2>2, <3>1, <3>2, <3>3, <3>4
  <2>4. CASE wAt'[w] # "run"
    <3>1. /\ tasks' = tasks /\ doing' = doing
          /\ ownerAt' = ownerAt \/ (ownerAt = "asleep" /\ ownerAt' = "check")
      BY Zenon, <2>1, <2>4 DEF GetTask, TakeTask, WaitForTask
    <3>2. wAt[w] # "run" /\ \A v \in Thread : v # w => wAt'[v] = wAt[v]
      BY Zenon, <2>1 DEF GetTask, TakeTask, WaitForTask
    <3>3. \A v \in Thread : (wAt'[v] = "run" <=> doing'[v] > 0) /\ doing'[v] <= added'
      BY Zenon, <2>2, <2>4, <3>1, <3>2
    <3>4. \A n \in 1..added' : Somewhere(n)'
      BY Zenon, <2>2, <3>1
    <3> QED BY Zenon, <2>2, <3>1, <3>3, <3>4
  <2> QED BY Zenon, <2>3, <2>4
<1>4. CASE \E w \in Thread : TaskRun(w)
  BY SMTT(20), <1>4 DEF TaskRun
<1>5. CASE OwnerAtBarrier
  BY Zenon, <1>5 DEF OwnerAtBarrier
<1>6. CASE Constructed
  BY Zenon, <1>6 DEF Constructed
<1>7. CASE TryGetTask
  <2>1. UNCHANGED <<added, done, doing, wAt, shuttingDown>> /\ ownerAt # "run" /\ ownTask = 0
    BY <1>7 DEF TryGetTask
  <2>2. CASE ownerAt' = "run"
    <3>1. tasks # <<>> /\ tasks' = Tail(tasks) /\ ownTask' = Head(tasks)
      BY Zenon, <1>7, <2>2 DEF TryGetTask
    <3>2. ASSUME NEW n \in 1..added PROVE Somewhere(n)'
      <4>1. ASSUME NEW i \in 1..Len(tasks), tasks[i] = n PROVE Somewhere(n)'
        BY Zenon, <2>1, <3>1, <4>1, FirstTaken
      <4> QED BY SMTT(20), <2>1, <3>1, <4>1
    <3>3. /\ \A i \in 1..Len(tasks') : tasks'[i] <= added'
          /\ ownTask' > 0 /\ ownTask' <= added'
      BY <2>1, <3>1, FirstTaken
    <3> QED BY <1>7, <2>1, <2>2, <3>2, <3>3 DEF TryGetTask
  <2>3. CASE ownerAt' # "run"
    BY <1>7, <2>1, <2>3 DEF TryGetTask
  <2> QED BY Zenon, <2>2, <2>3
<1>8. CASE OwnTaskRun
  BY <1>8 DEF OwnTaskRun
<1>9. CASE CheckDone
  BY Zenon, <1>9 DEF CheckDone
<1>10. CASE Joined
  BY Zenon, <1>10 DEF Joined
<1>11. CASE TaskAdded
  <2>1. /\ added' = added + 1 /\ added' \in 1..MaxTasks /\ tasks' = Append(tasks, added')
        /\ UNCHANGED <<done, doing, ownTask, ownerAt, shuttingDown>>
    BY <1>11, PoolAssumption DEF TaskAdded, AddTask
  <2>2. \A v \in Thread : wAt'[v] = "run" <=> wAt[v] = "run"
    BY Zenon, <1>11 DEF TaskAdded, AddTask
  <2>3. \A n \in 1..added' : n \in 1..added \/ n = added'
    BY <2>1
  <2>4. \A n \in 1..added' : Somewhere(n)'
    BY SMTT(20), <2>1, <2>3, LastAdded
  <2>5. \A i \in 1..Len(tasks') : tasks'[i] <= added'
    <3>1. \A i \in 1..Len(tasks') : i \in 1..Len(tasks) \/ i = Len(tasks) + 1
      BY <2>1, LastAdded
    <3>2. \A i \in 1..Len(tasks) : tasks'[i] = tasks[i] /\ tasks[i] <= added
      BY Zenon, <2>1, LastAdded
    <3>3. tasks'[Len(tasks) + 1] = added'
      BY Zenon, <2>1, LastAdded
    <3>4. \A i \in 1..Len(tasks) : tasks[i] \in Nat
      <4>1. tasks \in Seq(1..MaxTasks)
        BY Zenon
      <4>2. \A i \in 1..Len(tasks) : tasks[i] \in 1..MaxTasks
        BY Zenon, <4>1, ElementOfSeq
      <4> QED BY <4>2
    <3> HIDE DEF PoolInv, PoolTypeOK, TasksKept
    <3>5. added \in Nat
      BY DEF PoolInv, PoolTypeOK
    <3> QED BY <2>1, <3>1, <3>2, <3>3, <3>4, <3>5
  <2> QED BY <2>1, <2>2, <2>4, <2>5
<1>12. CASE \E n \in 1..ThreadCount : SetMaxActiveWorkers(n)
  BY <1>12 DEF SetMaxActiveWorkers, OwnerCalls
<1>13. CASE StartWorkers
  BY Zenon, <1>13 DEF StartWorkers, OwnerCalls, AwakeAll
<1>14. CASE StopWorkers
  BY Zenon, <1>14 DEF StopWorkers, OwnerCalls
<1>15. CASE BeginWait
  BY Zenon, <1>15 DEF BeginWait, OwnerCalls
<1>16. CASE Destroy
  BY Zenon, <1>16 DEF Destroy, AwakeAll
<1>17. CASE WakesEarly
  BY <1>17 DEF WakesEarly
<1> QED
  BY Zenon, <1>1, <1>2, <1>3, <1>4, <1>5, <1>6, <1>7, <1>8, <1>9, <1>10,
     <1>11, <1>12, <1>13, <1>14, <1>15, <1>16, <1>17
  DEF PoolNext, WorkerStep, OwnerStep

(* waiting_count_ follows the workers in and out of the condition.         *)
LEMMA WaitingCounted == PoolInv /\ PoolNext => waitingCount' = Cardinality(Sleepers')
<1> SUFFICES ASSUME PoolInv, PoolNext PROVE waitingCount' = Cardinality(Sleepers')
  BY Zenon
<1>a. ASSUME Sleepers' = Sleepers, waitingCount' = waitingCount
      PROVE  waitingCount' = Cardinality(Sleepers')
  BY Zenon, <1>a, WorkerSets DEF PoolInv
<1> USE DEF PoolInv, PoolTypeOK, WorkerGoes
<1>1. CASE \E w \in Thread : AtBarrier(w)
  BY Zenon, <1>1, <1>a DEF AtBarrier, Sleepers
<1>2. CASE \E w \in Thread : LeaveBarrier(w)
  BY Zenon, <1>2, <1>a DEF LeaveBarrier, Sleepers
<1>3. CASE \E w \in Thread : GetTask(w)
  <2>1. PICK w \in Thread : GetTask(w)
    BY Zenon, <1>3
  <2>2. /\ wAt[w] = "get" => w \notin Sleepers
        /\ wAt[w] = "woken" => w \in Sleepers
        /\ wAt'[w] = "asleep" => Sleepers' = Sleepers \cup {w}
        /\ wAt'[w] # "asleep" => Sleepers' = Sleepers \ {w}
    BY Zenon, <2>1 DEF GetTask, TakeTask, WaitForTask, Sleepers
  <2>3. CASE wAt[w] = "get"
    <3>1. waitingCount' = IF wAt'[w] = "asleep" THEN waitingCount + 1 ELSE waitingCount
      BY <2>1, <2>3, WorkerSets DEF GetTask, TakeTask, WaitForTask
    <3>2. Sleepers \ {w} = Sleepers
      BY Zenon, <2>2, <2>3
    <3> QED BY ZenonT(40), <2>2, <2>3, <3>1, <3>2, WorkerSets, OneThread
  <2>4. CASE wAt[w] = "woken"
    <3>1. waitingCount' = IF wAt'[w] = "asleep" THEN waitingCount ELSE waitingCount - 1
      BY <2>1, <2>4, WorkerSets DEF GetTask, TakeTask, WaitForTask
    <3>2. Sleepers \cup {w} = Sleepers
      BY Zenon, <2>2, <2>4
    <3> QED BY ZenonT(40), <2>2, <2>4, <3>1, <3>2, WorkerSets, OneThread
  <2> QED BY Zenon, <2>1, <2>3, <2>4 DEF GetTask
<1>4. CASE \E w \in Thread : TaskRun(w)
  BY <1>4, <1>a DEF TaskRun, Sleepers
<1>5. CASE OwnerAtBarrier
  BY Zenon, <1>5, <1>a DEF OwnerAtBarrier, Sleepers
<1>6. CASE Constructed
  BY Zenon, <1>6, <1>a DEF Constructed, Sleepers
<1>7. CASE TryGetTask
  BY Zenon, <1>7, <1>a DEF TryGetTask, Sleepers
<1>8. CASE OwnTaskRun
  BY Zenon, <1>8, <1>a DEF OwnTaskRun, Sleepers
<1>9. CASE CheckDone
  BY Zenon, <1>9, <1>a DEF CheckDone, Sleepers
<1>10. CASE Joined
  BY Zenon, <1>10, <1>a DEF Joined, Sleepers
<1>11. CASE TaskAdded
  BY Zenon, <1>11, <1>a DEF TaskAdded, AddTask, Sleepers
<1>12. CASE \E n \in 1..ThreadCount : SetMaxActiveWorkers(n)
  BY Zenon, <1>12, <1>a DEF SetMaxActiveWorkers, OwnerCalls, Sleepers
<1>13. CASE StartWorkers
  BY Zenon, <1>13, <1>a DEF StartWorkers, OwnerCalls, AwakeAll, Sleepers
<1>14. CASE StopWorkers
  BY Zenon, <1>14, <1>a DEF StopWorkers, OwnerCalls, Sleepers
<1>15. CASE BeginWait
  BY Zenon, <1>15, <1>a DEF BeginWait, OwnerCalls, Sleepers
<1>16. CASE Destroy
  BY Zenon, <1>16, <1>a DEF Destroy, AwakeAll, Sleepers
<1>17. CASE WakesEarly
  BY Zenon, <1>17, <1>a DEF WakesEarly, Sleepers
<1> QED
  BY Zenon, <1>1, <1>2, <1>3, <1>4, <1>5, <1>6, <1>7, <1>8, <1>9, <1>10,
     <1>11, <1>12, <1>13, <1>14, <1>15, <1>16, <1>17
  DEF PoolNext, WorkerStep, OwnerStep

(* The barrier counts those who have not come to it.                       *)
LEMMA BarrierCounted == PoolInv /\ PoolNext => BarrierCounts' /\ creation' \in 0..(ThreadCount + 1)
<1> SUFFICES ASSUME PoolInv, PoolNext
             PROVE  BarrierCounts' /\ creation' \in 0..(ThreadCount + 1)
  BY Zenon
<1>a. ASSUME Newborn' = Newborn, creation' = creation, ownerAt' = "new" <=> ownerAt = "new"
      PROVE  BarrierCounts' /\ creation' \in 0..(ThreadCount + 1)
  BY Zenon, <1>a, WorkerSets DEF PoolInv, PoolTypeOK, BarrierCounts
<1> USE DEF PoolInv, PoolTypeOK, WorkerGoes
<1>1. CASE \E w \in Thread : AtBarrier(w)
  <2>1. PICK w \in Thread : AtBarrier(w)
    BY Zenon, <1>1
  <2>2. w \in Newborn /\ Newborn' = Newborn \ {w} /\ creation' = creation - 1 /\ ownerAt' = ownerAt
    BY Zenon, <2>1 DEF AtBarrier, Newborn
  <2>3. Newborn # {} /\ Newborn' \in SUBSET Thread
    BY Zenon, <2>2, WorkerSets
  <2>4. Cardinality(Newborn') = Cardinality(Newborn) - 1
    BY Zenon, <2>2, WorkerSets, OneThread
  <2>5. Cardinality(Newborn) > 0
    BY Zenon, <2>3, WorkerSets, ThreadSets
  <2> QED BY SMTT(20), <2>2, <2>4, <2>5, WorkerSets DEF BarrierCounts
<1>2. CASE \E w \in Thread : LeaveBarrier(w)
  BY Zenon, <1>2, <1>a DEF LeaveBarrier, Newborn
<1>3. CASE \E w \in Thread : GetTask(w)
  BY <1>3, <1>a DEF GetTask, TakeTask, WaitForTask, Newborn
<1>4. CASE \E w \in Thread : TaskRun(w)
  BY Zenon, <1>4, <1>a DEF TaskRun, Newborn
<1>5. CASE OwnerAtBarrier
  <2>1. Newborn' = Newborn /\ creation' = creation - 1 /\ ownerAt = "new" /\ ownerAt' = "barrier"
    BY Zenon, <1>5 DEF OwnerAtBarrier, Newborn
  <2> QED BY <2>1, WorkerSets DEF BarrierCounts
<1>6. CASE Constructed
  BY Zenon, <1>6, <1>a DEF Constructed, Newborn
<1>7. CASE TryGetTask
  BY Zenon, <1>7, <1>a DEF TryGetTask, Newborn
<1>8. CASE OwnTaskRun
  BY Zenon, <1>8, <1>a DEF OwnTaskRun, Newborn
<1>9. CASE CheckDone
  BY Zenon, <1>9, <1>a DEF CheckDone, Newborn
<1>10. CASE Joined
  BY Zenon, <1>10, <1>a DEF Joined, Newborn
<1>11. CASE TaskAdded
  BY Zenon, <1>11, <1>a DEF TaskAdded, AddTask, Newborn
<1>12. CASE \E n \in 1..ThreadCount : SetMaxActiveWorkers(n)
  BY Zenon, <1>12, <1>a DEF SetMaxActiveWorkers, OwnerCalls, Newborn
<1>13. CASE StartWorkers
  BY Zenon, <1>13, <1>a DEF StartWorkers, OwnerCalls, AwakeAll, Newborn
<1>14. CASE StopWorkers
  BY Zenon, <1>14, <1>a DEF StopWorkers, OwnerCalls, Newborn
<1>15. CASE BeginWait
  BY <1>15, <1>a DEF BeginWait, OwnerCalls, Newborn
<1>16. CASE Destroy
  BY Zenon, <1>16, <1>a DEF Destroy, AwakeAll, Newborn
<1>17. CASE WakesEarly
  BY Zenon, <1>17, <1>a DEF WakesEarly, Newborn
<1> QED
  BY Zenon, <1>1, <1>2, <1>3, <1>4, <1>5, <1>6, <1>7, <1>8, <1>9, <1>10,
     <1>11, <1>12, <1>13, <1>14, <1>15, <1>16, <1>17
  DEF PoolNext, WorkerStep, OwnerStep

(* The variables keep their types.                                         *)
LEMMA PoolTypesStay == PoolInv /\ PoolNext => PoolTypeOK'
<1> SUFFICES ASSUME PoolInv, PoolNext PROVE PoolTypeOK'
  BY Zenon
<1>a. /\ waitingCount' = Cardinality({w \in Thread : wAt'[w] \in {"asleep", "woken"}})
      /\ creation' \in 0..(ThreadCount + 1) /\ ThreadCount \in Nat
  BY Zenon, WaitingCounted, BarrierCounted, WorkerSets DEF Sleepers, PoolInv
<1> USE <1>a, PoolAssumption DEF PoolInv, PoolTypeOK, TasksKept, WorkerGoes, NoTask
<1>1. CASE \E w \in Thread : AtBarrier(w)
  BY Zenon, <1>1 DEF AtBarrier
<1>2. CASE \E w \in Thread : LeaveBarrier(w)
  BY Zenon, <1>2 DEF LeaveBarrier
<1>3. CASE \E w \in Thread : GetTask(w)
  <2>1. PICK w \in Thread : GetTask(w)
    BY Zenon, <1>3
  <2>2. /\ tasks' \in Seq(1..MaxTasks) /\ doing' \in [Thread -> 0..MaxTasks]
        /\ ownerAt' \in {ownerAt, "check"}
    <3>1. CASE TakeTask(w, waitingCount') /\ MayTake(waitingCount')
      BY <3>1, FirstTaken DEF TakeTask, MayTake
    <3>2. CASE tasks' = tasks /\ doing' = doing /\ ownerAt' \in {ownerAt, "check"}
      BY Zenon, <3>2
    <3> QED BY Zenon, <2>1, <3>1, <3>2 DEF GetTask, TakeTask, WaitForTask
  <2>3. wAt' \in [Thread -> {"new", "barrier", "get", "asleep", "woken", "run", "exit"}]
    BY Zenon, <2>1 DEF GetTask, TakeTask, WaitForTask
  <2>4. UNCHANGED <<started, shuttingDown, maxActive, creation, ownTask, added, done, poolCalls>>
    BY Zenon, <2>1 DEF GetTask
  <2> QED BY Zenon, <2>2, <2>3, <2>4
<1>4. CASE \E w \in Thread : TaskRun(w)
  <2>1. PICK w \in Thread : TaskRun(w)
    BY Zenon, <1>4
  <2>2. doing[w] \in 1..added
    BY <2>1 DEF TaskRun
  <2>3. done' \subseteq 1..added
    BY Zenon, <2>1, <2>2 DEF TaskRun
  <2> QED BY <2>1, <2>3 DEF TaskRun
<1>5. CASE OwnerAtBarrier
  BY Zenon, <1>5 DEF OwnerAtBarrier
<1>6. CASE Constructed
  BY Zenon, <1>6 DEF Constructed
<1>7. CASE TryGetTask
  <2>1. tasks' \in Seq(1..MaxTasks) /\ ownTask' \in 0..MaxTasks
    <3>1. CASE started /\ tasks # <<>>
      BY <1>7, <3>1, FirstTaken DEF TryGetTask
    <3> QED BY Zenon, <1>7, <3>1 DEF TryGetTask
  <2> QED BY <1>7, <2>1 DEF TryGetTask
<1>8. CASE OwnTaskRun
  BY <1>8 DEF OwnTaskRun
<1>9. CASE CheckDone
  BY Zenon, <1>9 DEF CheckDone
<1>10. CASE Joined
  BY Zenon, <1>10 DEF Joined
<1>11. CASE TaskAdded
  BY SMTT(20), <1>11 DEF TaskAdded, AddTask
<1>12. CASE \E n \in 1..ThreadCount : SetMaxActiveWorkers(n)
  BY <1>12 DEF SetMaxActiveWorkers, OwnerCalls
<1>13. CASE StartWorkers
  BY <1>13 DEF StartWorkers, OwnerCalls, AwakeAll
<1>14. CASE StopWorkers
  <2>1. started' \in BOOLEAN
    BY <1>14, Zenon DEF StopWorkers
  <2> QED BY <1>14, <2>1 DEF StopWorkers, OwnerCalls
<1>15. CASE BeginWait
  BY <1>15 DEF BeginWait, OwnerCalls
<1>16. CASE Destroy
  BY Zenon, <1>16 DEF Destroy, AwakeAll
<1>17. CASE WakesEarly
  BY Zenon, <1>17 DEF WakesEarly
<1> QED
  BY Zenon, <1>1, <1>2, <1>3, <1>4, <1>5, <1>6, <1>7, <1>8, <1>9, <1>10,
     <1>11, <1>12, <1>13, <1>14, <1>15, <1>16, <1>17
  DEF PoolNext, WorkerStep, OwnerStep

(* PoolInv is inductive.                                                   *)
LEMMA PoolStepInv == PoolInv /\ [PoolNext]_poolVars => PoolInv'
<1> SUFFICES ASSUME PoolInv, [PoolNext]_poolVars PROVE PoolInv'
  BY Zenon
<1>1. CASE PoolNext
  BY Zenon, <1>1, TasksStay, BarrierCounted, PoolTypesStay DEF PoolInv
<1>2. CASE UNCHANGED poolVars
  BY Zenon, <1>2 DEF poolVars, PoolInv, PoolTypeOK, TasksKept, Somewhere, BarrierCounts, Newborn
<1> QED BY Zenon, <1>1, <1>2

(* The counts of the pool stay within the number of its threads.           *)
THEOREM PoolTypes == PoolSpec => []PoolTypeOK
<1>1. PoolInv => PoolTypeOK
  BY Zenon DEF PoolInv
<1> QED BY <1>1, PoolStarts, PoolStepInv, PTL DEF PoolSpec

(* When Wait of the pool returns, every task that was added has run, those *)
(* that tasks have added included.                                         *)
THEOREM WaitIsComplete == PoolSpec => WaitMeansDone
<1>1. PoolInv /\ [PoolNext]_poolVars
      => [ownerAt = "check" /\ ownerAt' = "out" => done = 1..added]_poolVars
  <2> SUFFICES ASSUME PoolInv, PoolNext, ownerAt = "check", ownerAt' = "out"
               PROVE  done = 1..added
    BY Zenon
  <2>1. waitingCount = ThreadCount /\ tasks = <<>>
    BY Zenon DEF PoolNext, WorkerStep, OwnerStep, AtBarrier, LeaveBarrier, GetTask, TakeTask, WaitForTask,
           TaskRun, OwnerAtBarrier, Constructed, TryGetTask, OwnTaskRun, CheckDone, Joined, TaskAdded,
           AddTask, SetMaxActiveWorkers, StartWorkers, StopWorkers, BeginWait, OwnerCalls, Destroy,
           WakesEarly, PoolInv, TasksKept
  <2>2. Sleepers = Thread
    BY Zenon, <2>1, WorkerSets, ThreadAssumption, FS_Subset DEF ThreadCount, PoolInv
  <2>3. \A n \in 1..added : n \in done
    BY <2>1, <2>2 DEF PoolInv, PoolTypeOK, TasksKept, Somewhere, Sleepers
  <2> QED BY Zenon, <2>3 DEF PoolInv, PoolTypeOK
<1> QED BY <1>1, PoolStarts, PoolStepInv, PTL DEF PoolSpec, WaitMeansDone
=============================================================================
