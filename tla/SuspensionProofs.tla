-------------------------- MODULE SuspensionProofs --------------------------
(***************************************************************************)
(* Stopping the threads of the runtime (ThreadSuspension) is safe for any  *)
(* finite number of them.                                                  *)
(***************************************************************************)
EXTENDS FiniteSetTheorems, TLAPS, ThreadSuspension

-----------------------------------------------------------------------------
(* ThreadSuspension.  The argument is book-keeping: every unit of a suspend *)
(* count belongs to one request, so a count that a requester has raised is  *)
(* positive until that requester lowers it, and a thread with a positive    *)
(* count does not become Runnable.                                          *)

(* The exclusive holder of mutator_lock_ shares it with nobody.            *)
Shares == exclusive # Nobody => \A t \in Thread : run[t] = "out"

(* What the loops over the thread list rely on                             *)
Visiting == {"visit", "visit_runnable"}
Single == {"suspend_look", "suspend_sleep", "suspend_found", "suspended_one"}

Books ==
  \A r \in Thread :
    /\ pc[r] # "none" => r \in list
    /\ raised[r] \subseteq list
    /\ pc[r] \in Visiting => locker = r /\ todo[r] \subseteq list
    /\ pc[r] = "visit" => todo[r] \cap raised[r] = {} /\ (seen[r] # Nobody => seen[r] \in todo[r])
    /\ pc[r] = "run_suspended" /\ seen[r] # Nobody => seen[r] \in raised[r]
    /\ pc[r] \notin {"visit", "run_suspended"} => seen[r] = Nobody
    /\ pc[r] \notin {"visit", "run_suspended"} \cup Single => raised[r] = {}
    /\ pc[r] \in Single => raised[r] \subseteq todo[r]
    /\ pc[r] \in Single \ {"suspend_look"} => raised[r] = todo[r]

(* The requests behind the suspend count of t                              *)
Stoppers == {r \in Thread : StopsAll(r)}
Raisers(t) == {r \in Thread : t \in raised[r]}

Balance ==
  /\ allCount = Cardinality(Stoppers)
  /\ \A t \in list : scount[t] = Cardinality(Stoppers \ {t}) + Cardinality(Raisers(t))

(* A thread that a requester works on is not Runnable.                     *)
Stopped ==
  \A r \in Thread :
    /\ pc[r] = "run_suspended" /\ seen[r] # Nobody => run[seen[r]] # "runnable"
    /\ pc[r] \in {"suspend_found", "suspended_one"} => \A t \in todo[r] : run[t] # "runnable"

-----------------------------------------------------------------------------
(* Facts about counting requesters: their sets are finite.                 *)
LEMMA Finite ==
  ASSUME NEW S \in SUBSET Thread
  PROVE  IsFiniteSet(S) /\ Cardinality(S) \in Nat /\ (S # {} => Cardinality(S) > 0)
<1>1. IsFiniteSet(S)
  BY Zenon, ThreadAssumption, FS_Subset
<1>2. Cardinality(S) \in Nat
  BY Zenon, <1>1, FS_CardinalityType
<1>3. ASSUME S # {} PROVE Cardinality(S) > 0
  BY <1>1, <1>2, <1>3, FS_EmptySet
<1> QED
  BY Zenon, <1>1, <1>2, <1>3

(* One requester more or less changes the count by one.                    *)
LEMMA CountOne ==
  ASSUME NEW S \in SUBSET Thread, NEW r \in Thread
  PROVE  /\ r \notin S => Cardinality(S \cup {r}) = Cardinality(S) + 1
         /\ r \in S => Cardinality(S \ {r}) = Cardinality(S) - 1
<1>1. IsFiniteSet(S)
  BY Zenon, Finite
<1>2. r \notin S => Cardinality(S \cup {r}) = Cardinality(S) + 1
  BY Zenon, <1>1, FS_AddElement
<1>3. r \in S => Cardinality(S \ {r}) = Cardinality(S) - 1
  BY Zenon, <1>1, FS_RemoveElement
<1> QED
  BY Zenon, <1>2, <1>3

(* The counts of the requests behind a thread's suspend count are numbers. *)
LEMMA CountsAreNumbers ==
  ASSUME NEW t
  PROVE  /\ Cardinality(Stoppers) \in Nat /\ Cardinality(Stoppers \ {t}) \in Nat
         /\ Cardinality(Raisers(t)) \in Nat
<1>1. Stoppers \in SUBSET Thread /\ Stoppers \ {t} \in SUBSET Thread /\ Raisers(t) \in SUBSET Thread
  BY Zenon DEF Stoppers, Raisers
<1> QED
  BY Zenon, <1>1, Finite

(* A thread some requester has raised alone has a positive suspend count.  *)
LEMMA RaisedCount ==
  ASSUME SuspensionTypeOK, Books, Balance, NEW r \in Thread, NEW t \in raised[r]
  PROVE  t \in list /\ scount[t] > 0
<1>1. t \in list
  BY Zenon DEF Books
<1>2. Raisers(t) \in SUBSET Thread /\ r \in Raisers(t)
  BY Zenon DEF Raisers
<1>3. Cardinality(Raisers(t)) > 0
  BY Zenon, <1>2, Finite
<1>4. scount[t] = Cardinality(Stoppers \ {t}) + Cardinality(Raisers(t))
  BY Zenon, <1>1 DEF Balance
<1> QED
  BY <1>1, <1>3, <1>4, CountsAreNumbers

(* So has every other thread while a SuspendAll is in force.               *)
LEMMA StoppedCount ==
  ASSUME SuspensionTypeOK, Balance, NEW r \in Thread, StopsAll(r)
  PROVE  allCount > 0 /\ \A t \in list \ {r} : scount[t] > 0
<1>1. Stoppers \in SUBSET Thread /\ r \in Stoppers
  BY Zenon DEF Stoppers
<1>2. allCount > 0
  BY Zenon, <1>1, Finite DEF Balance
<1>3. ASSUME NEW t \in list \ {r} PROVE scount[t] > 0
  <2>1. Stoppers \ {t} \in SUBSET Thread /\ r \in Stoppers \ {t}
    BY Zenon, <1>1
  <2>2. Cardinality(Stoppers \ {t}) > 0
    BY <2>1, Finite
  <2>3. scount[t] = Cardinality(Stoppers \ {t}) + Cardinality(Raisers(t))
    BY Zenon DEF Balance
  <2> QED
    BY <2>2, <2>3, CountsAreNumbers
<1> QED
  BY Zenon, <1>2, <1>3

-----------------------------------------------------------------------------
(* No step of any thread breaks the exclusion of the mutator lock.         *)
LEMMA SharesStep == SuspensionTypeOK /\ Shares /\ [SuspensionNext]_suspensionVars => Shares'
<1> SUFFICES ASSUME SuspensionTypeOK, Shares, [SuspensionNext]_suspensionVars PROVE Shares'
  BY Zenon
<1> USE DEF SuspensionTypeOK, Shares
<1>1. ASSUME NEW r \in Thread, LeaveRunnable(r) \/ ReleaseShare(r) PROVE Shares'
  BY Zenon, <1>1 DEF LeaveRunnable, ReleaseShare, transitionVars
<1>2. ASSUME NEW r \in Thread, TakeShare(r) \/ BecomeRunnable(r) PROVE Shares'
  BY Zenon, <1>2 DEF TakeShare, BecomeRunnable, transitionVars
<1>3. ASSUME NEW r \in Thread, LockMutators(r) \/ UnlockMutators(r) PROVE Shares'
  BY Zenon, <1>3 DEF LockMutators, UnlockMutators, HasShare, requestVars
<1>4. CASE UNCHANGED <<run, exclusive>>
  BY Zenon, <1>4
<1>5. ASSUME NEW r \in Thread, RunCheckpointFunction(r) \/ Register(r) \/ Unregister(r) PROVE UNCHANGED <<run, exclusive>>
  BY Zenon, <1>5 DEF RunCheckpointFunction, Register, Unregister
<1>6. ASSUME NEW r \in Thread, BeginRequest(r) PROVE UNCHANGED <<run, exclusive>>
  BY <1>6 DEF BeginRequest, SuspendAll, RunCheckpoint, RunCheckpointOnRunnableThreads, BeginCheckpoint,
              SuspendThread, requestVars
<1>7. ASSUME NEW r \in Thread, Step(r) PROVE LockMutators(r) \/ UnlockMutators(r) \/ UNCHANGED <<run, exclusive>>
  BY Zenon, <1>7 DEF Step, ResumeAll, RequestCheckpoint, SeeSuspended, SkipNotRunnable, RaiseSeen, RunOnSelf, BeginRunOn,
              EndRunOn, AwaitBarrier, PassBarrier, NoSuchThread, LookAtThread, Resume, SuspendEnds, requestVars
<1>8. ASSUME NEW r \in Thread, SuspendTimesOut(r) PROVE UNCHANGED <<run, exclusive>>
  BY Zenon, <1>8 DEF SuspendTimesOut, SuspendEnds, requestVars
<1>9. CASE UNCHANGED suspensionVars
  BY Zenon, <1>9 DEF suspensionVars
<1> QED
  BY Zenon, <1>1, <1>2, <1>3, <1>4, <1>5, <1>6, <1>7, <1>8, <1>9 DEF SuspensionNext, Transition

(* The counts of a step stay numbers because nobody lowers a count that    *)
(* it or a SuspendAll has not raised.                                      *)
LEMMA TypeStep ==
  SuspensionTypeOK /\ Books /\ Balance /\ [SuspensionNext]_suspensionVars => SuspensionTypeOK'
<1> SUFFICES ASSUME SuspensionTypeOK, Books, Balance, [SuspensionNext]_suspensionVars PROVE SuspensionTypeOK'
  BY Zenon
<1> USE ThreadAssumption DEF SuspensionTypeOK
<1>1. ASSUME NEW r \in Thread, LeaveRunnable(r) PROVE SuspensionTypeOK'
  BY Zenon, <1>1 DEF LeaveRunnable
<1>2. ASSUME NEW r \in Thread, ReleaseShare(r) \/ TakeShare(r) \/ BecomeRunnable(r) PROVE SuspensionTypeOK'
  BY Zenon, <1>2 DEF ReleaseShare, TakeShare, BecomeRunnable, transitionVars
<1>3. ASSUME NEW r \in Thread, RunCheckpointFunction(r) PROVE SuspensionTypeOK'
  BY <1>3 DEF RunCheckpointFunction
<1>4. ASSUME NEW r \in Thread, Register(r) \/ Unregister(r) PROVE SuspensionTypeOK'
  BY <1>4 DEF Register, Unregister
<1>5. ASSUME NEW r \in Thread, SuspendAll(r) PROVE SuspensionTypeOK'
  BY <1>5 DEF SuspendAll, ModifySuspendCount, requestVars
<1>6. ASSUME NEW r \in Thread, LockMutators(r) \/ UnlockMutators(r) PROVE SuspensionTypeOK'
  BY <1>6 DEF LockMutators, UnlockMutators, requestVars
<1>7. ASSUME NEW r \in Thread, ResumeAll(r) PROVE SuspensionTypeOK'
  <2>1. allCount' \in Nat /\ scount' \in [Thread -> Nat]
    BY <1>7, StoppedCount DEF ResumeAll, ModifySuspendCount, StopsAll
  <2> QED
    BY Zenon, <1>7, <2>1 DEF ResumeAll, requestVars
<1>8. ASSUME NEW r \in Thread, RunCheckpoint(r) \/ RunCheckpointOnRunnableThreads(r) PROVE SuspensionTypeOK'
  BY <1>8 DEF RunCheckpoint, RunCheckpointOnRunnableThreads, BeginCheckpoint, requestVars
<1>9. ASSUME NEW r \in Thread, NEW t \in Thread, RequestCheckpoint(r, t) PROVE SuspensionTypeOK'
  BY <1>9 DEF RequestCheckpoint
<1>10. ASSUME NEW r \in Thread, NEW t \in Thread, SeeSuspended(r, t) \/ SkipNotRunnable(r, t) \/ BeginRunOn(r, t)
       PROVE  SuspensionTypeOK'
  BY <1>10 DEF SeeSuspended, SkipNotRunnable, BeginRunOn, requestVars
<1>11. ASSUME NEW r \in Thread, RaiseSeen(r) PROVE SuspensionTypeOK'
  BY <1>11 DEF RaiseSeen, ModifySuspendCount
<1>12. ASSUME NEW r \in Thread, RunOnSelf(r) PROVE SuspensionTypeOK'
  BY <1>12 DEF RunOnSelf
<1>13. ASSUME NEW r \in Thread, EndRunOn(r) PROVE SuspensionTypeOK'
  <2>1. seen[r] \in raised[r]
    BY <1>13 DEF EndRunOn, Books
  <2>2. scount' \in [Thread -> Nat]
    BY <1>13, <2>1, RaisedCount DEF EndRunOn, ModifySuspendCount
  <2>3. barrier' \in [Thread -> Int] /\ raised' \in [Thread -> SUBSET Thread]
        /\ seen' \in [Thread -> Thread \cup {Nobody}]
    BY <1>13 DEF EndRunOn
  <2>4. UNCHANGED <<list, run, exclusive, allCount, locker, pc, todo, slots, visited>>
    BY <1>13 DEF EndRunOn
  <2> QED
    BY <2>2, <2>3, <2>4
<1>14. ASSUME NEW r \in Thread, AwaitBarrier(r) PROVE SuspensionTypeOK'
  <2>1. Cardinality(visited[r]) \in Nat
    BY Zenon, Finite
  <2> QED
    BY <1>14, <2>1 DEF AwaitBarrier
<1>15. ASSUME NEW r \in Thread, PassBarrier(r) PROVE SuspensionTypeOK'
  BY <1>15 DEF PassBarrier
<1>16. ASSUME NEW r \in Thread, NEW t \in Thread, SuspendThread(r, t) PROVE SuspensionTypeOK'
  BY <1>16 DEF SuspendThread, requestVars
<1>17. ASSUME NEW r \in Thread, NoSuchThread(r) PROVE SuspensionTypeOK'
  BY <1>17 DEF NoSuchThread, SuspendEnds, requestVars
<1>18. ASSUME NEW r \in Thread, LookAtThread(r) PROVE SuspensionTypeOK'
  BY <1>18 DEF LookAtThread, ModifySuspendCount, requestVars
<1>19. ASSUME NEW r \in Thread, SuspendTimesOut(r) \/ Resume(r) PROVE SuspensionTypeOK'
  <2>1. scount' \in [Thread -> Nat]
    BY <1>19, RaisedCount DEF SuspendTimesOut, Resume, ModifySuspendCount
  <2> QED
    BY <1>19, <2>1 DEF SuspendTimesOut, Resume, SuspendEnds, requestVars
<1>20. CASE UNCHANGED suspensionVars
  BY <1>20 DEF suspensionVars
<1> QED
  BY Zenon, <1>1, <1>2, <1>3, <1>4, <1>5, <1>6, <1>7, <1>8, <1>9, <1>10, <1>11, <1>12, <1>13, <1>14, <1>15, <1>16, <1>17,
     <1>18, <1>19, <1>20 DEF SuspensionNext, Transition, Step, BeginRequest

(* No step of any thread breaks what the loops over the list rely on.      *)
LEMMA BooksStep ==
  SuspensionTypeOK /\ Books /\ Balance /\ [SuspensionNext]_suspensionVars => Books'
<1> SUFFICES ASSUME SuspensionTypeOK, Books, Balance, [SuspensionNext]_suspensionVars PROVE Books'
  OBVIOUS
<1> USE ThreadAssumption DEF SuspensionTypeOK, Books, Visiting, Single
<1>1. ASSUME NEW r \in Thread, LeaveRunnable(r) PROVE Books'
  BY <1>1 DEF LeaveRunnable
<1>2. ASSUME NEW r \in Thread, ReleaseShare(r) \/ TakeShare(r) \/ BecomeRunnable(r) PROVE Books'
  BY <1>2 DEF ReleaseShare, TakeShare, BecomeRunnable, transitionVars
<1>3. ASSUME NEW r \in Thread, RunCheckpointFunction(r) \/ Register(r) PROVE Books'
  BY <1>3 DEF RunCheckpointFunction, Register
<1>4. ASSUME NEW t \in Thread, Unregister(t) PROVE Books'
  <2>1. ASSUME NEW r \in Thread PROVE t \notin raised[r]
    BY <1>4, RaisedCount DEF Unregister, IsSuspended
  <2>2. \A r \in Thread : pc[r] \notin Visiting
    BY <1>4 DEF Unregister, Unlocked
  <2> QED
    BY <1>4, <2>1, <2>2 DEF Unregister
<1>5. ASSUME NEW r \in Thread, SuspendAll(r) PROVE Books'
  BY <1>5 DEF SuspendAll, Request, requestVars
<1>6. ASSUME NEW r \in Thread, LockMutators(r) \/ UnlockMutators(r) \/ ResumeAll(r) PROVE Books'
  BY <1>6 DEF LockMutators, UnlockMutators, ResumeAll, requestVars
<1>7. ASSUME NEW r \in Thread, RunCheckpoint(r) \/ RunCheckpointOnRunnableThreads(r) PROVE Books'
  BY <1>7 DEF RunCheckpoint, RunCheckpointOnRunnableThreads, BeginCheckpoint, Request, Unlocked, requestVars
<1>8. ASSUME NEW r \in Thread, NEW t \in Thread, RequestCheckpoint(r, t) \/ SkipNotRunnable(r, t) PROVE Books'
  BY <1>8 DEF RequestCheckpoint, SkipNotRunnable, requestVars
<1>9. ASSUME NEW r \in Thread, NEW t \in Thread, SeeSuspended(r, t) \/ BeginRunOn(r, t) PROVE Books'
  BY <1>9 DEF SeeSuspended, BeginRunOn, requestVars
<1>10. ASSUME NEW r \in Thread, RaiseSeen(r) PROVE Books'
  BY <1>10 DEF RaiseSeen
<1>11. ASSUME NEW r \in Thread, RunOnSelf(r) PROVE Books'
  BY <1>11 DEF RunOnSelf
<1>12. ASSUME NEW r \in Thread, EndRunOn(r) PROVE Books'
  <2>1. UNCHANGED <<list, locker, pc, todo>>
    BY <1>12 DEF EndRunOn
  <2>2. pc[r] = "run_suspended"
    BY <1>12 DEF EndRunOn
  <2>3. \A x \in Thread : raised'[x] \subseteq raised[x] /\ (x # r => raised'[x] = raised[x] /\ seen'[x] = seen[x])
    BY <1>12 DEF EndRunOn
  <2>4. seen'[r] = Nobody
    BY <1>12 DEF EndRunOn
  <2> QED
    BY <2>1, <2>2, <2>3, <2>4
<1>13. ASSUME NEW r \in Thread, AwaitBarrier(r) PROVE Books'
  BY <1>13 DEF AwaitBarrier
<1>14. ASSUME NEW r \in Thread, PassBarrier(r) PROVE Books'
  BY <1>14 DEF PassBarrier
<1>15. ASSUME NEW r \in Thread, NEW t \in Thread, SuspendThread(r, t) PROVE Books'
  BY <1>15 DEF SuspendThread, Request, requestVars
<1>16. ASSUME NEW r \in Thread, NoSuchThread(r) \/ SuspendTimesOut(r) \/ Resume(r) PROVE Books'
  <2>1. SuspendEnds(r) /\ pc[r] \in Single
    BY <1>16 DEF NoSuchThread, SuspendTimesOut, Resume
  <2> QED
    BY <2>1 DEF SuspendEnds, requestVars
<1>17. ASSUME NEW r \in Thread, LookAtThread(r) PROVE Books'
  BY <1>17 DEF LookAtThread, requestVars
<1>18. CASE UNCHANGED suspensionVars
  BY <1>18 DEF suspensionVars
<1> QED
  BY Zenon, <1>1, <1>2, <1>3, <1>4, <1>5, <1>6, <1>7, <1>8, <1>9, <1>10, <1>11, <1>12, <1>13, <1>14, <1>15, <1>16, <1>17,
     <1>18 DEF SuspensionNext, Transition, Step, BeginRequest

(* A step that begins or ends no SuspendAll, and changes neither the list  *)
(* nor who is raised nor the counts, keeps the balance.                    *)
LEMMA BalanceKept ==
  ASSUME Balance, UNCHANGED <<list, scount, allCount, raised>>,
         \A r \in Thread : StopsAll(r)' <=> StopsAll(r)
  PROVE  Balance'
<1>1. Stoppers' = Stoppers
  BY Zenon DEF Stoppers
<1>2. \A t : Raisers(t)' = Raisers(t)
  BY Zenon DEF Raisers
<1> QED
  BY <1>1, <1>2 DEF Balance

(* A requester raises the counts of the threads in S, or lowers them, and  *)
(* is then behind those counts, or no more.                                *)
LEMMA BalanceRaised ==
  ASSUME SuspensionTypeOK, Balance, UNCHANGED <<list, allCount>>,
         \A x \in Thread : StopsAll(x)' <=> StopsAll(x),
         NEW r \in Thread, NEW S \in SUBSET Thread,
         \/ ModifySuspendCount(S, 1) /\ S \cap raised[r] = {} /\ raised' = [raised EXCEPT ![r] = @ \cup S]
         \/ ModifySuspendCount(S, -1) /\ S \subseteq raised[r] /\ raised' = [raised EXCEPT ![r] = @ \ S]
  PROVE  Balance'
<1>1. Stoppers' = Stoppers
  BY Zenon DEF Stoppers
<1>2. ASSUME NEW t \in list
      PROVE  scount'[t] = Cardinality(Stoppers \ {t}) + Cardinality(Raisers(t)')
  <2>1. scount[t] = Cardinality(Stoppers \ {t}) + Cardinality(Raisers(t)) /\ t \in Thread
    BY Zenon DEF Balance, SuspensionTypeOK
  <2>2. Raisers(t) \in SUBSET Thread
    BY Zenon DEF Raisers
  <2>3. CASE t \notin S
    <3>1. Raisers(t)' = Raisers(t)
      BY <2>3 DEF Raisers, SuspensionTypeOK
    <3>2. scount'[t] = scount[t]
      BY Zenon, <2>1, <2>3 DEF ModifySuspendCount
    <3> QED
      BY Zenon, <2>1, <3>1, <3>2
  <2>4. CASE t \in S /\ S \cap raised[r] = {} /\ ModifySuspendCount(S, 1) /\ raised' = [raised EXCEPT ![r] = @ \cup S]
    <3>1. Raisers(t)' = Raisers(t) \cup {r} /\ r \notin Raisers(t)
      BY <2>4 DEF Raisers, SuspensionTypeOK
    <3>2. scount'[t] = scount[t] + 1
      BY <2>1, <2>4 DEF ModifySuspendCount
    <3>3. Cardinality(Raisers(t)') = Cardinality(Raisers(t)) + 1
      BY <2>2, <3>1, CountOne
    <3> QED
      BY <2>1, <3>2, <3>3, CountsAreNumbers
  <2>5. CASE t \in S /\ S \subseteq raised[r] /\ ModifySuspendCount(S, -1) /\ raised' = [raised EXCEPT ![r] = @ \ S]
    <3>1. Raisers(t)' = Raisers(t) \ {r} /\ r \in Raisers(t)
      BY <2>5 DEF Raisers, SuspensionTypeOK
    <3>2. scount'[t] = scount[t] - 1
      BY <2>1, <2>5 DEF ModifySuspendCount, SuspensionTypeOK
    <3>3. Cardinality(Raisers(t)') = Cardinality(Raisers(t)) - 1
      BY <2>2, <3>1, CountOne
    <3> QED
      BY <2>1, <3>2, <3>3, CountsAreNumbers
  <2> QED
    BY <2>3, <2>4, <2>5
<1> QED
  BY Zenon, <1>1, <1>2 DEF Balance

(* SuspendAll and ResumeAll count r in or out for all threads but r.       *)
LEMMA BalanceAll ==
  ASSUME SuspensionTypeOK, Balance, NEW r \in Thread, SuspendAll(r) \/ ResumeAll(r)
  PROVE  Balance'
<1>1. UNCHANGED <<list, raised>>
  BY Zenon DEF SuspendAll, ResumeAll
<1>2. Stoppers \in SUBSET Thread /\ \A t : Raisers(t)' = Raisers(t)
  BY Zenon, <1>1 DEF Stoppers, Raisers
<1>3. CASE SuspendAll(r)
  <2>1. Stoppers' = Stoppers \cup {r} /\ r \notin Stoppers
    BY Zenon, <1>3 DEF SuspendAll, Request, Stoppers, StopsAll, SuspensionTypeOK
  <2>2. allCount' = Cardinality(Stoppers')
    BY Zenon, <1>2, <1>3, <2>1, CountOne DEF SuspendAll, Balance
  <2>3. ASSUME NEW t \in list PROVE scount'[t] = Cardinality(Stoppers' \ {t}) + Cardinality(Raisers(t))
    <3>1. scount[t] = Cardinality(Stoppers \ {t}) + Cardinality(Raisers(t)) /\ t \in Thread
      BY Zenon DEF Balance, SuspensionTypeOK
    <3>2. CASE t = r
      <4>1. Stoppers' \ {t} = Stoppers \ {t}
        BY Zenon, <2>1, <3>2
      <4>2. scount'[t] = scount[t]
        BY Zenon, <1>3, <3>1, <3>2 DEF SuspendAll, ModifySuspendCount
      <4> QED
        BY <3>1, <4>1, <4>2
    <3>3. CASE t # r
      <4>1. Stoppers' \ {t} = (Stoppers \ {t}) \cup {r} /\ r \notin Stoppers \ {t} /\ Stoppers \ {t} \in SUBSET Thread
        BY <1>2, <2>1, <3>3
      <4>2. Cardinality(Stoppers' \ {t}) = Cardinality(Stoppers \ {t}) + 1
        BY <4>1, CountOne
      <4>3. scount'[t] = scount[t] + 1
        BY <1>3, <3>1, <3>3 DEF SuspendAll, ModifySuspendCount
      <4> QED
        BY <3>1, <4>2, <4>3, CountsAreNumbers
    <3> QED
      BY <3>2, <3>3
  <2> QED
    BY <1>1, <1>2, <2>2, <2>3 DEF Balance
<1>4. CASE ResumeAll(r)
  <2>1. Stoppers' = Stoppers \ {r} /\ r \in Stoppers
    BY <1>4 DEF ResumeAll, Stoppers, StopsAll, SuspensionTypeOK
  <2>2. allCount' = Cardinality(Stoppers')
    BY <1>2, <1>4, <2>1, CountOne DEF ResumeAll, Balance
  <2>3. ASSUME NEW t \in list PROVE scount'[t] = Cardinality(Stoppers' \ {t}) + Cardinality(Raisers(t))
    <3>1. scount[t] = Cardinality(Stoppers \ {t}) + Cardinality(Raisers(t)) /\ t \in Thread
      BY Zenon DEF Balance, SuspensionTypeOK
    <3>2. CASE t = r
      <4>1. Stoppers' \ {t} = Stoppers \ {t}
        BY <2>1, <3>2
      <4>2. scount'[t] = scount[t]
        BY <1>4, <3>1, <3>2 DEF ResumeAll, ModifySuspendCount
      <4> QED
        BY <3>1, <4>1, <4>2
    <3>3. CASE t # r
      <4>1. Stoppers' \ {t} = (Stoppers \ {t}) \ {r} /\ r \in Stoppers \ {t} /\ Stoppers \ {t} \in SUBSET Thread
        BY <1>2, <2>1, <3>3
      <4>2. Cardinality(Stoppers' \ {t}) = Cardinality(Stoppers \ {t}) - 1
        BY Zenon, <4>1, CountOne
      <4>3. scount'[t] = scount[t] - 1
        BY Zenon, <1>4, <3>1, <3>3 DEF ResumeAll, ModifySuspendCount, SuspensionTypeOK
      <4> QED
        BY <3>1, <4>2, <4>3, CountsAreNumbers
    <3> QED
      BY <3>2, <3>3
  <2> QED
    BY <1>1, <1>2, <2>2, <2>3 DEF Balance
<1> QED
  BY <1>3, <1>4

(* No step of any thread puts a suspend count out of step.                 *)
LEMMA BalanceStep ==
  SuspensionTypeOK /\ Books /\ Balance /\ [SuspensionNext]_suspensionVars => Balance'
<1> SUFFICES ASSUME SuspensionTypeOK, Books, Balance, [SuspensionNext]_suspensionVars PROVE Balance'
  BY Zenon
<1> DEFINE Booked == /\ UNCHANGED <<list, scount, allCount, raised>>
                   /\ \A r \in Thread : StopsAll(r)' <=> StopsAll(r)
<1>1. ASSUME NEW r \in Thread, LeaveRunnable(r) PROVE Booked
  BY Zenon, <1>1 DEF LeaveRunnable, StopsAll, SuspensionTypeOK
<1>2. ASSUME NEW r \in Thread, ReleaseShare(r) \/ TakeShare(r) \/ BecomeRunnable(r) \/ RunCheckpointFunction(r)
      PROVE  Booked
  BY Zenon, <1>2 DEF ReleaseShare, TakeShare, BecomeRunnable, RunCheckpointFunction, transitionVars, StopsAll
<1>3. ASSUME NEW r \in Thread, LockMutators(r) \/ UnlockMutators(r) PROVE Booked
  BY Zenon, <1>3 DEF LockMutators, UnlockMutators, StopsAll, SuspensionTypeOK
<1>4. ASSUME NEW r \in Thread, RunCheckpoint(r) \/ RunCheckpointOnRunnableThreads(r) PROVE Booked
  BY <1>4 DEF RunCheckpoint, RunCheckpointOnRunnableThreads, BeginCheckpoint, Request, StopsAll, SuspensionTypeOK
<1>5. ASSUME NEW r \in Thread, NEW t \in Thread,
             RequestCheckpoint(r, t) \/ SeeSuspended(r, t) \/ SkipNotRunnable(r, t) \/ BeginRunOn(r, t)
      PROVE  Booked
  BY <1>5 DEF RequestCheckpoint, SeeSuspended, SkipNotRunnable, BeginRunOn, StopsAll
<1>6. ASSUME NEW r \in Thread, RunOnSelf(r) \/ AwaitBarrier(r) \/ PassBarrier(r) PROVE Booked
  BY <1>6 DEF RunOnSelf, AwaitBarrier, PassBarrier, StopsAll, SuspensionTypeOK
<1>7. ASSUME NEW r \in Thread, NEW t \in Thread, SuspendThread(r, t) PROVE Booked
  BY Zenon, <1>7 DEF SuspendThread, Request, StopsAll, SuspensionTypeOK
<1>8. ASSUME NEW r \in Thread, NoSuchThread(r) PROVE Booked
  <2>1. raised[r] = {}
    BY <1>8 DEF NoSuchThread, Books, Single
  <2> QED
    BY <1>8, <2>1 DEF NoSuchThread, SuspendEnds, StopsAll, SuspensionTypeOK
<1>9. CASE UNCHANGED suspensionVars
  BY Zenon, <1>9, BalanceKept DEF suspensionVars, StopsAll
<1>10. ASSUME NEW t \in Thread, Register(t) PROVE Balance'
  <2>1. t \notin list /\ list' = list \cup {t} /\ scount' = [scount EXCEPT ![t] = allCount]
        /\ UNCHANGED <<allCount, pc, raised>>
    BY <1>10 DEF Register
  <2>2. Stoppers' = Stoppers /\ \A x : Raisers(x)' = Raisers(x)
    BY <2>1 DEF Stoppers, Raisers, StopsAll
  <2>3. Raisers(t) = {}
    BY <2>1 DEF Raisers, Books
  <2>4. t \notin Stoppers
    BY <2>1 DEF Stoppers, StopsAll, Books
  <2>5. Stoppers \ {t} = Stoppers /\ Cardinality(Raisers(t)) = 0
    BY <2>3, <2>4, FS_EmptySet
  <2>6. scount'[t] = Cardinality(Stoppers \ {t}) + Cardinality(Raisers(t))
    <3>1. scount'[t] = allCount /\ allCount = Cardinality(Stoppers)
      BY <2>1 DEF Balance, SuspensionTypeOK
    <3>2. Cardinality(Stoppers \ {t}) = Cardinality(Stoppers)
      BY <2>5
    <3> QED
      BY <2>5, <3>1, <3>2, CountsAreNumbers
  <2>7. \A x \in list : scount'[x] = scount[x]
    BY Zenon, <2>1 DEF SuspensionTypeOK
  <2> QED
    BY Zenon, <2>1, <2>2, <2>6, <2>7 DEF Balance
<1>11. ASSUME NEW t \in Thread, Unregister(t) PROVE Balance'
  <2>1. list' \subseteq list /\ UNCHANGED <<scount, allCount, pc, raised>>
    BY Zenon, <1>11 DEF Unregister
  <2>2. Stoppers' = Stoppers /\ \A x : Raisers(x)' = Raisers(x)
    BY Zenon, <2>1 DEF Stoppers, Raisers, StopsAll
  <2> QED
    BY Zenon, <2>1, <2>2 DEF Balance
<1>12. ASSUME NEW r \in Thread, SuspendAll(r) \/ ResumeAll(r) PROVE Balance'
  BY Zenon, <1>12, BalanceAll
<1>13. ASSUME NEW r \in Thread, RaiseSeen(r) PROVE Balance'
  <2> DEFINE S == {seen[r]}
  <2>1. S \in SUBSET Thread /\ S \cap raised[r] = {}
    BY <1>13 DEF RaiseSeen, Books, SuspensionTypeOK
  <2>2. UNCHANGED <<list, allCount>> /\ \A x \in Thread : StopsAll(x)' <=> StopsAll(x)
    BY Zenon, <1>13 DEF RaiseSeen, StopsAll
  <2>3. ModifySuspendCount(S, 1) /\ raised' = [raised EXCEPT ![r] = @ \cup S]
    BY <1>13 DEF RaiseSeen
  <2> HIDE DEF S
  <2> QED
    BY Zenon, <2>1, <2>2, <2>3, BalanceRaised
<1>14. ASSUME NEW r \in Thread, EndRunOn(r) PROVE Balance'
  <2> DEFINE S == {seen[r]}
  <2>1. S \in SUBSET Thread /\ S \subseteq raised[r]
    BY <1>14 DEF EndRunOn, Books, SuspensionTypeOK
  <2>2. UNCHANGED <<list, allCount>> /\ \A x \in Thread : StopsAll(x)' <=> StopsAll(x)
    BY <1>14 DEF EndRunOn, StopsAll
  <2>3. ModifySuspendCount(S, -1) /\ raised' = [raised EXCEPT ![r] = @ \ S]
    BY <1>14 DEF EndRunOn
  <2> HIDE DEF S
  <2> QED
    BY Zenon, <2>1, <2>2, <2>3, BalanceRaised
<1>15. ASSUME NEW r \in Thread, LookAtThread(r) PROVE Balance'
  <2> DEFINE S == todo[r] \ raised[r]
  <2>1. S \in SUBSET Thread /\ S \cap raised[r] = {}
    BY Zenon DEF SuspensionTypeOK
  <2>2. UNCHANGED <<list, allCount>> /\ \A x \in Thread : StopsAll(x)' <=> StopsAll(x)
    BY Zenon, <1>15 DEF LookAtThread, StopsAll, SuspensionTypeOK
  <2>3. raised[r] \cup S = todo[r]
    BY <1>15 DEF LookAtThread, Books, Single
  <2>4. ModifySuspendCount(S, 1) /\ raised' = [raised EXCEPT ![r] = @ \cup S]
    BY Zenon, <1>15, <2>3 DEF LookAtThread
  <2> HIDE DEF S
  <2> QED
    BY Zenon, <2>1, <2>2, <2>4, BalanceRaised
<1>16. ASSUME NEW r \in Thread, SuspendTimesOut(r) \/ Resume(r) PROVE Balance'
  <2> DEFINE S == raised[r]
  <2>1. S \in SUBSET Thread /\ S \subseteq raised[r]
    BY Zenon DEF SuspensionTypeOK
  <2>2. UNCHANGED <<list, allCount>> /\ \A x \in Thread : StopsAll(x)' <=> StopsAll(x)
    BY <1>16 DEF SuspendTimesOut, Resume, SuspendEnds, StopsAll, SuspensionTypeOK
  <2>3. raised[r] \ S = {}
    BY Zenon
  <2>4. ModifySuspendCount(S, -1) /\ raised' = [raised EXCEPT ![r] = @ \ S]
    BY <1>16, <2>3 DEF SuspendTimesOut, Resume, SuspendEnds
  <2> HIDE DEF S
  <2> QED
    BY Zenon, <2>1, <2>2, <2>4, BalanceRaised
<1>17. ASSUME Booked PROVE Balance'
  BY <1>17, BalanceKept
<1> HIDE DEF Booked
<1> QED
  BY <1>1, <1>2, <1>3, <1>4, <1>5, <1>6, <1>7, <1>8, <1>9, <1>10, <1>11, <1>12, <1>13, <1>14, <1>15, <1>16, <1>17
     DEF SuspensionNext, Transition, Step, BeginRequest

(* No step of any thread lets a thread run that a requester works on.      *)
LEMMA StoppedStep ==
  SuspensionTypeOK /\ Books /\ Balance /\ Stopped /\ [SuspensionNext]_suspensionVars => Stopped'
<1> SUFFICES ASSUME SuspensionTypeOK, Books, Balance, Stopped, [SuspensionNext]_suspensionVars PROVE Stopped'
  BY Zenon
<1> USE ThreadAssumption DEF SuspensionTypeOK, Stopped
<1>1. ASSUME NEW r \in Thread, LeaveRunnable(r) PROVE Stopped'
  <2>1. UNCHANGED <<todo, seen>> /\ run' = [run EXCEPT ![r] = "leaving"]
    BY Zenon, <1>1 DEF LeaveRunnable
  <2>2. \A x \in Thread : pc'[x] = "run_suspended" => pc[x] = "run_suspended"
    BY Zenon, <1>1 DEF LeaveRunnable
  <2>3. \A x \in Thread : pc'[x] \in {"suspend_found", "suspended_one"}
                          => pc[x] \in {"suspend_found", "suspended_one"}
    BY Zenon, <1>1 DEF LeaveRunnable
  <2> QED
    BY Zenon, <2>1, <2>2, <2>3
<1>2. ASSUME NEW r \in Thread, ReleaseShare(r) \/ TakeShare(r) PROVE Stopped'
  BY <1>2 DEF ReleaseShare, TakeShare, transitionVars
<1>3. ASSUME NEW t \in Thread, BecomeRunnable(t) PROVE Stopped'
  <2>1. UNCHANGED <<pc, todo, seen>> /\ \A x \in Thread : x # t => run'[x] = run[x]
    BY Zenon, <1>3 DEF BecomeRunnable, transitionVars
  <2>2. CASE run'[t] # "runnable"
    BY Zenon, <2>1, <2>2
  <2>3. CASE run'[t] = "runnable"
    <3>1. scount[t] = 0
      BY Zenon, <1>3, <2>3 DEF BecomeRunnable
    <3>2. \A r \in Thread : t \notin raised[r]
      BY <3>1, RaisedCount
    <3> QED
      BY <2>1, <3>2 DEF Books, Single
  <2> QED
    BY Zenon, <2>2, <2>3
<1>4. ASSUME NEW r \in Thread, RunCheckpointFunction(r) \/ Register(r) \/ Unregister(r) PROVE Stopped'
  BY <1>4 DEF RunCheckpointFunction, Register, Unregister
<1>5. ASSUME NEW r \in Thread, SuspendAll(r) \/ LockMutators(r) \/ UnlockMutators(r) \/ ResumeAll(r) PROVE Stopped'
  BY <1>5 DEF SuspendAll, LockMutators, UnlockMutators, ResumeAll, requestVars
<1>6. ASSUME NEW r \in Thread, RunCheckpoint(r) \/ RunCheckpointOnRunnableThreads(r) PROVE Stopped'
  BY <1>6 DEF RunCheckpoint, RunCheckpointOnRunnableThreads, BeginCheckpoint, requestVars
<1>7. ASSUME NEW r \in Thread, NEW t \in Thread, RequestCheckpoint(r, t) \/ SkipNotRunnable(r, t) PROVE Stopped'
  BY <1>7 DEF RequestCheckpoint, SkipNotRunnable, requestVars
<1>8. ASSUME NEW r \in Thread, NEW t \in Thread, SeeSuspended(r, t) \/ BeginRunOn(r, t) PROVE Stopped'
  BY <1>8 DEF SeeSuspended, BeginRunOn, IsSuspended, requestVars
<1>9. ASSUME NEW r \in Thread, RaiseSeen(r) \/ EndRunOn(r) PROVE Stopped'
  <2>1. UNCHANGED <<run, pc>> /\ seen' = [seen EXCEPT ![r] = Nobody] /\ pc[r] \in {"visit", "run_suspended"}
    BY <1>9 DEF RaiseSeen, EndRunOn
  <2>2. \A x \in Thread : x # r => todo'[x] = todo[x]
    BY <1>9 DEF RaiseSeen, EndRunOn
  <2> QED
    BY <2>1, <2>2
<1>10. ASSUME NEW r \in Thread, RunOnSelf(r) PROVE Stopped'
  <2>1. seen[r] = Nobody
    BY <1>10 DEF RunOnSelf, Books
  <2> QED
    BY <1>10, <2>1 DEF RunOnSelf
<1>11. ASSUME NEW r \in Thread, AwaitBarrier(r) \/ PassBarrier(r) PROVE Stopped'
  BY <1>11 DEF AwaitBarrier, PassBarrier
<1>12. ASSUME NEW r \in Thread, NEW t \in Thread, SuspendThread(r, t) PROVE Stopped'
  BY <1>12 DEF SuspendThread, requestVars
<1>13. ASSUME NEW r \in Thread, NoSuchThread(r) \/ SuspendTimesOut(r) \/ Resume(r) PROVE Stopped'
  <2>1. SuspendEnds(r)
    BY <1>13 DEF NoSuchThread, SuspendTimesOut, Resume
  <2> QED
    BY <2>1 DEF SuspendEnds, requestVars
<1>14. ASSUME NEW r \in Thread, LookAtThread(r) PROVE Stopped'
  BY Zenon, <1>14 DEF LookAtThread, requestVars
<1>15. CASE UNCHANGED suspensionVars
  BY <1>15 DEF suspensionVars
<1> QED
  BY Zenon, <1>1, <1>2, <1>3, <1>4, <1>5, <1>6, <1>7, <1>8, <1>9, <1>10, <1>11, <1>12, <1>13, <1>14, <1>15
     DEF SuspensionNext, Transition, Step, BeginRequest

(* All of it holds when the runtime has attached its threads.              *)
LEMMA SuspensionBegin == SuspensionInit => SuspensionTypeOK /\ Shares /\ Books /\ Balance /\ Stopped
<1> SUFFICES ASSUME SuspensionInit PROVE SuspensionTypeOK /\ Shares /\ Books /\ Balance /\ Stopped
  OBVIOUS
<1> USE ThreadAssumption DEF SuspensionInit
<1>1. SuspensionTypeOK
  BY DEF SuspensionTypeOK
<1>2. Shares /\ Books /\ Stopped
  BY Zenon DEF Shares, Books, Stopped, Visiting, Single
<1>3. Balance
  <2>1. Stoppers = {} /\ \A t \in Thread : Raisers(t) = {} /\ Stoppers \ {t} = {}
    BY Zenon DEF Stoppers, Raisers, StopsAll
  <2> QED
    BY <2>1, FS_EmptySet DEF Balance
<1> QED
  BY <1>1, <1>2, <1>3

(* The inductive invariant: no part is inductive alone, since a count that *)
(* is not negative needs the books, and the books need the counts.         *)
Suspension == SuspensionTypeOK /\ Shares /\ Books /\ Balance /\ Stopped

(* It holds in every behaviour of the threads and their requesters.        *)
LEMMA Invariant == SuspensionSpec => []Suspension
<1>1. SuspensionInit => Suspension
  BY Zenon, SuspensionBegin DEF Suspension
<1>2. Suspension /\ [SuspensionNext]_suspensionVars => Suspension'
  BY Zenon, SharesStep, TypeStep, BooksStep, BalanceStep, StoppedStep DEF Suspension
<1> QED
  BY <1>1, <1>2, PTL DEF SuspensionSpec

-----------------------------------------------------------------------------
(* For any threads: the suspend counts and the rest keep their types; in   *)
(* particular no ModifySuspendCount takes a count below zero, which aborts *)
(* the runtime.                                                            *)
THEOREM SuspensionTypeCorrect == SuspensionSpec => []SuspensionTypeOK
<1>1. Suspension => SuspensionTypeOK
  BY Zenon DEF Suspension
<1> QED
  BY <1>1, Invariant, PTL

(* For any threads: while SuspendAll holds mutator_lock_ no thread runs    *)
(* managed code.                                                           *)
THEOREM WorldIsStopped == SuspensionSpec => []WorldStops
<1>1. Suspension => WorldStops
  BY Zenon DEF Suspension, Shares, WorldStops
<1> QED
  BY <1>1, Invariant, PTL

(* For any threads: a suspend count is the number of SuspendAlls over the  *)
(* thread and of the single requests on it, through Register, Unregister   *)
(* and timeouts.                                                           *)
THEOREM CountsAreBalanced == SuspensionSpec => []CountsBalance
<1>1. Suspension => CountsBalance
  <2> SUFFICES ASSUME Balance, NEW t \in list
      PROVE  scount[t] = Cardinality({r \in Thread \ {t} : StopsAll(r)}) + Cardinality({r \in Thread : t \in raised[r]})
    BY Zenon DEF Suspension, CountsBalance
  <2>1. {r \in Thread \ {t} : StopsAll(r)} = Stoppers \ {t}
    BY Zenon DEF Stoppers
  <2>2. {r \in Thread : t \in raised[r]} = Raisers(t)
    BY Zenon DEF Raisers
  <2> QED
    BY Zenon, <2>1, <2>2 DEF Balance
<1> QED
  BY <1>1, Invariant, PTL

(* For any threads: RunCheckpoint runs a closure on behalf of a thread     *)
(* only while that is stopped, and the threads that RunCheckpoint and      *)
(* SuspendThreadByThreadId hold on to stay attached.                       *)
THEOREM ClosuresRunOnStopped == SuspensionSpec => []RunsOnStopped
<1>1. Suspension => RunsOnStopped
  <2> SUFFICES ASSUME SuspensionTypeOK, Books, Balance, Stopped, NEW r \in Thread
      PROVE  /\ pc[r] = "run_suspended" /\ seen[r] # Nobody => IsSuspended(seen[r])
             /\ raised[r] \subseteq list
             /\ pc[r] \in {"suspend_found", "suspended_one"} => \A t \in todo[r] : IsSuspended(t)
    BY Zenon DEF Suspension, RunsOnStopped
  <2>1. \A t \in raised[r] : t \in list /\ scount[t] > 0
    BY Zenon, RaisedCount
  <2>2. pc[r] = "run_suspended" /\ seen[r] # Nobody => IsSuspended(seen[r])
    BY Zenon, <2>1 DEF Books, Stopped, IsSuspended
  <2>3. pc[r] \in {"suspend_found", "suspended_one"} => \A t \in todo[r] : IsSuspended(t)
    BY Zenon, <2>1 DEF Books, Stopped, IsSuspended, Single
  <2> QED
    BY Zenon, <2>1, <2>2, <2>3
<1> QED
  BY <1>1, Invariant, PTL

-----------------------------------------------------------------------------
(* RunCheckpoint and RunCheckpointOnRunnableThreads: every thread counted  *)
(* is done, has the closure in a slot, or is a raised thread on whose      *)
(* behalf the requester will run it, and only one of the three; the        *)
(* barrier has been passed once for each one done.                         *)
Checkpointing == Visiting \cup {"run_suspended", "barrier"}
Due(r) == IF pc[r] \in {"visit", "run_suspended"} THEN raised[r] ELSE {}
Done(r) == {t \in Thread : ran[r][t] = 1}

Placed(r, t) ==
  /\ t \in visited[r] <=> ran[r][t] = 1 \/ r \in slots[t] \/ t \in Due(r)
  /\ ran[r][t] = 1 => r \notin slots[t] /\ t \notin Due(r)
  /\ t \in Due(r) => r \notin slots[t]

CountedOnce ==
  /\ ran \in [Thread -> [Thread -> {0, 1}]]
  /\ \A r \in Thread :
       /\ pc[r] \notin Checkpointing => visited[r] = {}
       /\ pc[r] \in Visiting => todo[r] \cap visited[r] = {} /\ r \notin todo[r] \cup visited[r]
       /\ \A t \in Thread : Placed(r, t)

BarrierCounts ==
  \A r \in Thread : barrier[r] = IF pc[r] = "barrier" THEN Cardinality(visited[r]) - Cardinality(Done(r))
                                 ELSE 0 - Cardinality(Done(r))

(* When the barrier is zero, everyone who was counted is done.             *)
LEMMA AllDone ==
  ASSUME SuspensionTypeOK, CountedOnce, BarrierCounts, NEW r \in Thread, pc[r] = "barrier", barrier[r] = 0
  PROVE  Done(r) = visited[r]
<1>1. Done(r) \subseteq visited[r] /\ visited[r] \in SUBSET Thread /\ Done(r) \in SUBSET Thread
  BY Zenon DEF CountedOnce, Placed, Done, SuspensionTypeOK
<1>2. IsFiniteSet(visited[r]) /\ Cardinality(visited[r]) \in Nat /\ Cardinality(Done(r)) \in Nat
  BY Zenon, <1>1, Finite
<1>3. Cardinality(Done(r)) = Cardinality(visited[r])
  BY <1>2 DEF BarrierCounts
<1> QED BY Zenon, <1>1, <1>2, <1>3, FS_Subset

(* A step that changes nothing of a checkpoint, and lets nobody begin or   *)
(* end one, leaves the count alone.                                        *)
LEMMA CheckpointKept ==
  ASSUME CountedOnce, BarrierCounts, UNCHANGED <<slots, barrier, visited, ran>>,
         \A x \in Thread : \/ pc'[x] = pc[x] /\ todo'[x] = todo[x] /\ raised'[x] = raised[x]
                           \/ pc[x] \notin Checkpointing /\ pc'[x] \notin Checkpointing
  PROVE  CountedOnce' /\ BarrierCounts'
<1>1. \A x \in Thread : Due(x)' = Due(x) /\ (Done(x)' = Done(x))
  BY Zenon DEF Due, Done, Checkpointing, Visiting
<1>2. \A x, t \in Thread : Placed(x, t) <=> Placed(x, t)'
  BY Zenon, <1>1 DEF Placed
<1>3. CountedOnce'
  BY Zenon, <1>2 DEF CountedOnce, Checkpointing, Visiting
<1>4. BarrierCounts'
  BY Zenon, <1>1 DEF BarrierCounts, Checkpointing, Visiting
<1> QED BY Zenon, <1>3, <1>4

(* A closure that runs for a thread for the first time is one more done.   *)
LEMMA OneMoreDone ==
  ASSUME CountedOnce, NEW r \in Thread, NEW t \in Thread, ran[r][t] = 0, ran'[r] = [ran[r] EXCEPT ![t] = @ + 1]
  PROVE  /\ ran'[r] \in [Thread -> {0, 1}] /\ ran'[r][t] = 1 /\ \A x \in Thread : x # t => ran'[r][x] = ran[r][x]
         /\ Cardinality(Done(r)') = Cardinality(Done(r)) + 1 /\ Cardinality(Done(r)) \in Nat
<1>1. ran[r] \in [Thread -> {0, 1}]
  BY Zenon DEF CountedOnce
<1>2. ran'[r] \in [Thread -> {0, 1}] /\ ran'[r][t] = 1 /\ \A x \in Thread : x # t => ran'[r][x] = ran[r][x]
  BY <1>1
<1>3. Done(r)' = Done(r) \cup {t} /\ t \notin Done(r) /\ Done(r) \in SUBSET Thread
  BY <1>2 DEF Done
<1> QED BY <1>2, <1>3, CountOne, Finite

LEMMA CheckpointStep ==
  Suspension /\ CountedOnce /\ BarrierCounts /\ [SuspensionNext]_suspensionVars => CountedOnce' /\ BarrierCounts'
<1> SUFFICES ASSUME Suspension, CountedOnce, BarrierCounts, [SuspensionNext]_suspensionVars
             PROVE  CountedOnce' /\ BarrierCounts'
  BY Zenon
<1>0. SuspensionTypeOK /\ Books
  BY Zenon DEF Suspension
<1>a. \A x \in Thread : ran[x] \in [Thread -> {0, 1}]
  BY Zenon DEF CountedOnce
<1>1. ASSUME NEW r \in Thread, LeaveRunnable(r) PROVE CountedOnce' /\ BarrierCounts'
  <2>1. \A x \in Thread : pc'[x] = pc[x] \/ (pc[x] \notin Checkpointing /\ pc'[x] \notin Checkpointing)
    <3>1. \A x \in Thread : x # r => pc'[x] = pc[x]
      BY Zenon, <1>0, <1>1 DEF LeaveRunnable, SuspensionTypeOK
    <3>2. /\ pc[r] = "suspend_sleep" => pc'[r] = "suspend_look"
          /\ pc[r] = "suspend_found" => pc'[r] = "suspended_one"
          /\ pc[r] \notin {"suspend_sleep", "suspend_found"} => pc'[r] = pc[r]
      BY Zenon, <1>0, <1>1 DEF LeaveRunnable, SuspensionTypeOK
    <3>3. pc'[r] = pc[r] \/ (pc[r] \notin Checkpointing /\ pc'[r] \notin Checkpointing)
      <4>1. {"suspend_sleep", "suspend_found", "suspend_look", "suspended_one"} \cap Checkpointing = {}
        BY Zenon DEF Checkpointing, Visiting
      <4>2. CASE pc[r] \notin {"suspend_sleep", "suspend_found"}
        BY Zenon, <3>2, <4>2
      <4>3. CASE pc[r] \in {"suspend_sleep", "suspend_found"}
        <5>1. pc'[r] \in {"suspend_look", "suspended_one"}
          BY Zenon, <3>2, <4>3
        <5> QED BY Zenon, <4>1, <4>3, <5>1
      <4> QED BY Zenon, <4>2, <4>3
    <3>4. ASSUME NEW x \in Thread
          PROVE  pc'[x] = pc[x] \/ (pc[x] \notin Checkpointing /\ pc'[x] \notin Checkpointing)
      BY <3>1, <3>3
    <3> QED BY Zenon, <3>4
  <2>2. UNCHANGED <<slots, barrier, visited, ran, todo, raised>>
    BY <1>1 DEF LeaveRunnable
  <2> QED BY <2>1, <2>2, CheckpointKept
<1>2. ASSUME NEW r \in Thread, ReleaseShare(r) \/ TakeShare(r) \/ BecomeRunnable(r) \/ Register(r) \/ Unregister(r)
      PROVE  CountedOnce' /\ BarrierCounts'
  <2>1. UNCHANGED <<slots, barrier, visited, ran, todo, raised, pc>>
    BY <1>2 DEF ReleaseShare, TakeShare, BecomeRunnable, Register, Unregister, transitionVars
  <2> QED BY Zenon, <2>1, CheckpointKept
<1>3. ASSUME NEW t \in Thread, RunCheckpointFunction(t) PROVE CountedOnce' /\ BarrierCounts'
  <2>1. /\ slots' = [slots EXCEPT ![t] = {}] /\ UNCHANGED <<pc, todo, raised, visited>>
        /\ ran' = [r \in Thread |-> IF r \in slots[t] THEN [ran[r] EXCEPT ![t] = @ + 1] ELSE ran[r]]
        /\ barrier' = [r \in Thread |-> IF r \in slots[t] THEN barrier[r] - 1 ELSE barrier[r]]
    BY Zenon, <1>3 DEF RunCheckpointFunction
  <2>2. slots'[t] = {} /\ \A x \in Thread : x # t => slots'[x] = slots[x]
    BY <1>0, <2>1 DEF SuspensionTypeOK
  <2>3. ASSUME NEW r \in Thread, r \in slots[t]
        PROVE  /\ ran'[r] \in [Thread -> {0, 1}] /\ ran'[r][t] = 1 /\ \A x \in Thread : x # t => ran'[r][x] = ran[r][x]
               /\ Cardinality(Done(r)') = Cardinality(Done(r)) + 1 /\ Cardinality(Done(r)) \in Nat
               /\ barrier'[r] = barrier[r] - 1 /\ ran[r][t] = 0
    <3>1. ran[r][t] = 0
      BY <1>a, <2>3 DEF CountedOnce, Placed
    <3>2. ran'[r] = [ran[r] EXCEPT ![t] = @ + 1] /\ barrier'[r] = barrier[r] - 1
      BY Zenon, <2>1, <2>3
    <3> QED BY Zenon, <3>1, <3>2, OneMoreDone
  <2>4. ASSUME NEW r \in Thread, r \notin slots[t]
        PROVE  ran'[r] = ran[r] /\ barrier'[r] = barrier[r] /\ Done(r)' = Done(r)
    BY Zenon, <2>1, <2>4 DEF Done
  <2>5. ran' \in [Thread -> [Thread -> {0, 1}]]
    <3>1. ran' = [r \in Thread |-> ran'[r]]
      BY Zenon, <2>1
    <3> QED BY Zenon, <1>a, <2>3, <2>4, <3>1
  <2>6. \A r \in Thread : Due(r)' = Due(r)
    BY Zenon, <2>1 DEF Due
  <2>7. ASSUME NEW r \in Thread, NEW x \in Thread PROVE Placed(r, x)'
    <3>1. Placed(r, x)
      BY Zenon DEF CountedOnce
    <3>2. CASE x = t /\ r \in slots[t]
      BY <2>1, <2>2, <2>3, <2>6, <3>1, <3>2 DEF Placed
    <3>3. CASE x # t \/ r \notin slots[t]
      BY Zenon, <2>1, <2>2, <2>3, <2>4, <2>6, <3>1, <3>3 DEF Placed
    <3> QED BY Zenon, <3>2, <3>3
  <2>8. CountedOnce'
    BY <2>1, <2>5, <2>7 DEF CountedOnce
  <2>9. ASSUME NEW r \in Thread
        PROVE  barrier'[r] = IF pc'[r] = "barrier" THEN Cardinality(visited'[r]) - Cardinality(Done(r)')
                             ELSE 0 - Cardinality(Done(r)')
    <3>1. barrier[r] = IF pc[r] = "barrier" THEN Cardinality(visited[r]) - Cardinality(Done(r))
                       ELSE 0 - Cardinality(Done(r))
      BY Zenon DEF BarrierCounts
    <3>2. Cardinality(visited[r]) \in Nat
      BY <1>0, Finite DEF SuspensionTypeOK
    <3>3. CASE r \in slots[t]
      <4>1. /\ Cardinality(Done(r)') = Cardinality(Done(r)) + 1 /\ Cardinality(Done(r)) \in Nat
            /\ barrier'[r] = barrier[r] - 1 /\ pc'[r] = pc[r] /\ visited'[r] = visited[r]
        BY <2>1, <2>3, <3>3
      <4> QED BY <3>1, <3>2, <4>1
    <3>4. CASE r \notin slots[t]
      BY <2>1, <2>4, <3>1, <3>4
    <3> QED BY Zenon, <3>3, <3>4
  <2>10. BarrierCounts'
    BY <2>9 DEF BarrierCounts
  <2> QED BY Zenon, <2>8, <2>10
<1>4. ASSUME NEW r \in Thread,
             SuspendAll(r) \/ LockMutators(r) \/ UnlockMutators(r) \/ ResumeAll(r) \/ NoSuchThread(r)
               \/ LookAtThread(r) \/ SuspendTimesOut(r) \/ Resume(r) \/ (\E t \in Thread : SuspendThread(r, t))
      PROVE  CountedOnce' /\ BarrierCounts'
  <2>1. UNCHANGED <<slots, barrier, visited, ran>>
    BY <1>4 DEF SuspendAll, LockMutators, UnlockMutators, ResumeAll, NoSuchThread, LookAtThread, SuspendTimesOut,
                Resume, SuspendThread, SuspendEnds, requestVars
  <2>2. /\ pc[r] \notin Checkpointing /\ pc'[r] \notin Checkpointing
        /\ \A x \in Thread : x # r => pc'[x] = pc[x] /\ todo'[x] = todo[x] /\ raised'[x] = raised[x]
    BY <1>0, <1>4 DEF SuspendAll, LockMutators, UnlockMutators, ResumeAll, NoSuchThread, LookAtThread, SuspendTimesOut,
                Resume, SuspendThread, SuspendEnds, Request, SuspensionTypeOK, Checkpointing, Visiting
  <2> QED BY SMTT(20), <2>1, <2>2, CheckpointKept
<1>5. ASSUME NEW r \in Thread, RunCheckpoint(r) \/ RunCheckpointOnRunnableThreads(r)
      PROVE  CountedOnce' /\ BarrierCounts'
  <2>1. /\ pc[r] = "none" /\ pc'[r] \in Visiting /\ todo'[r] = list \ {r}
        /\ \A x \in Thread : x # r => pc'[x] = pc[x] /\ todo'[x] = todo[x]
        /\ UNCHANGED <<slots, barrier, visited, ran, raised>>
    BY <1>0, <1>5 DEF RunCheckpoint, RunCheckpointOnRunnableThreads, BeginCheckpoint, Request, requestVars,
                      SuspensionTypeOK, Visiting
  <2>2. raised[r] = {} /\ visited[r] = {} /\ "none" \notin Checkpointing
    BY Zenon, <1>0, <2>1 DEF Books, CountedOnce, Checkpointing, Visiting, Single
  <2>3. \A x \in Thread : Due(x)' = Due(x) /\ Done(x)' = Done(x)
    BY Zenon, <2>1, <2>2 DEF Due, Done
  <2>4. \A x, t \in Thread : Placed(x, t)'
    <3> SUFFICES ASSUME NEW x \in Thread, NEW t \in Thread PROVE Placed(x, t)'
      BY Zenon
    <3>1. Placed(x, t)
      BY Zenon DEF CountedOnce
    <3> QED BY Zenon, <2>1, <2>3, <3>1 DEF Placed
  <2>5. CountedOnce'
    BY Zenon, <2>1, <2>2, <2>4 DEF CountedOnce
  <2>6. BarrierCounts'
    BY Zenon, <2>1, <2>3 DEF BarrierCounts, Visiting
  <2> QED BY Zenon, <2>5, <2>6
<1>6. ASSUME NEW r \in Thread, NEW t \in Thread, RequestCheckpoint(r, t) PROVE CountedOnce' /\ BarrierCounts'
  <2>1. /\ pc[r] \in Visiting /\ t \in todo[r] /\ UNCHANGED <<pc, raised, ran, barrier>>
        /\ slots'[t] = slots[t] \cup {r} /\ visited'[r] = visited[r] \cup {t} /\ todo'[r] = todo[r] \ {t}
        /\ \A x \in Thread : x # t => slots'[x] = slots[x]
        /\ \A x \in Thread : x # r => visited'[x] = visited[x] /\ todo'[x] = todo[x]
    BY <1>0, <1>6 DEF RequestCheckpoint, SuspensionTypeOK, Visiting
  <2>2. \A x \in Thread : Due(x)' = Due(x) /\ Done(x)' = Done(x)
    BY Zenon, <2>1 DEF Due, Done
  <2>3. t \notin visited[r] /\ t # r
    BY Zenon, <2>1 DEF CountedOnce
  <2>4. ASSUME NEW x \in Thread, NEW y \in Thread PROVE Placed(x, y)'
    <3>1. Placed(x, y)
      BY Zenon DEF CountedOnce
    <3>2. CASE x = r /\ y = t
      BY Zenon, <2>1, <2>2, <2>3, <3>1, <3>2 DEF Placed
    <3>3. CASE x # r \/ y # t
      BY Zenon, <2>1, <2>2, <3>1, <3>3 DEF Placed
    <3> QED BY Zenon, <3>2, <3>3
  <2>5. CountedOnce'
    BY <2>1, <2>3, <2>4 DEF CountedOnce, Checkpointing
  <2>6. BarrierCounts'
    BY Zenon, <2>1, <2>2 DEF BarrierCounts, Visiting
  <2> QED BY Zenon, <2>5, <2>6
<1>7. ASSUME NEW r \in Thread, NEW t \in Thread, SeeSuspended(r, t) \/ BeginRunOn(r, t)
      PROVE  CountedOnce' /\ BarrierCounts'
  <2>1. UNCHANGED <<slots, barrier, visited, ran, todo, raised, pc>>
    BY Zenon, <1>7 DEF SeeSuspended, BeginRunOn, requestVars
  <2> QED BY Zenon, <2>1, CheckpointKept
<1>8. ASSUME NEW r \in Thread, NEW t \in Thread, SkipNotRunnable(r, t) PROVE CountedOnce' /\ BarrierCounts'
  <2>1. UNCHANGED <<slots, barrier, visited, ran, raised, pc>> /\ \A x \in Thread : todo'[x] \subseteq todo[x]
    BY <1>0, <1>8 DEF SkipNotRunnable, requestVars, SuspensionTypeOK
  <2>2. \A x \in Thread : Due(x)' = Due(x) /\ Done(x)' = Done(x)
    BY Zenon, <2>1 DEF Due, Done
  <2>3. \A x, y \in Thread : Placed(x, y)'
    BY <2>1, <2>2 DEF Placed, CountedOnce
  <2> QED BY Zenon, <2>1, <2>2, <2>3 DEF CountedOnce, BarrierCounts
<1>9. ASSUME NEW r \in Thread, RaiseSeen(r) PROVE CountedOnce' /\ BarrierCounts'
  <2>0. PICK t \in Thread : t = seen[r]
    BY <1>0, <1>9 DEF RaiseSeen, SuspensionTypeOK
  <2>1. /\ pc[r] = "visit" /\ t \in todo[r] /\ UNCHANGED <<pc, slots, ran, barrier>>
        /\ raised'[r] = raised[r] \cup {t} /\ visited'[r] = visited[r] \cup {t} /\ todo'[r] = todo[r] \ {t}
        /\ \A x \in Thread : x # r => visited'[x] = visited[x] /\ todo'[x] = todo[x] /\ raised'[x] = raised[x]
    BY SMTT(20), <1>0, <1>9, <2>0 DEF RaiseSeen, SuspensionTypeOK, Books
  <2>2. /\ \A x \in Thread : Done(x)' = Done(x) /\ (x # r => Due(x)' = Due(x))
        /\ Due(r)' = Due(r) \cup {t}
    BY <2>1 DEF Due, Done
  <2>3. t \notin visited[r] /\ t # r
    BY <2>1 DEF CountedOnce, Visiting
  <2>4. ASSUME NEW x \in Thread, NEW y \in Thread PROVE Placed(x, y)'
    <3>1. Placed(x, y)
      BY Zenon DEF CountedOnce
    <3>2. CASE x = r /\ y = t
      BY <2>1, <2>2, <2>3, <3>1, <3>2 DEF Placed
    <3>3. CASE x # r \/ y # t
      BY <2>1, <2>2, <3>1, <3>3 DEF Placed
    <3> QED BY <3>2, <3>3
  <2>5. CountedOnce'
    BY ZenonT(40), <2>1, <2>3, <2>4 DEF CountedOnce, Checkpointing, Visiting
  <2>6. BarrierCounts'
    BY <2>1, <2>2 DEF BarrierCounts
  <2> QED BY Zenon, <2>5, <2>6
<1>10. ASSUME NEW r \in Thread, RunOnSelf(r) PROVE CountedOnce' /\ BarrierCounts'
  <2>1. /\ pc[r] = "visit" /\ pc'[r] = "run_suspended" /\ UNCHANGED <<todo, slots, raised>>
        /\ visited'[r] = visited[r] \cup {r} /\ barrier'[r] = barrier[r] - 1
        /\ \A x \in Thread : x # r => visited'[x] = visited[x] /\ barrier'[x] = barrier[x] /\ pc'[x] = pc[x]
    BY Zenon, <1>0, <1>10 DEF RunOnSelf, SuspensionTypeOK
  <2>2. r \notin visited[r] /\ ran[r][r] = 0
    BY <1>a, <2>1 DEF CountedOnce, Placed, Visiting
  <2>3. ran'[r] = [ran[r] EXCEPT ![r] = @ + 1] /\ \A x \in Thread : x # r => ran'[x] = ran[x]
    BY <1>10 DEF RunOnSelf, CountedOnce
  <2>4. /\ ran'[r] \in [Thread -> {0, 1}] /\ ran'[r][r] = 1 /\ \A x \in Thread : x # r => ran'[r][x] = ran[r][x]
        /\ Cardinality(Done(r)') = Cardinality(Done(r)) + 1 /\ Cardinality(Done(r)) \in Nat
    BY Zenon, <2>2, <2>3, OneMoreDone
  <2>5. ran' \in [Thread -> [Thread -> {0, 1}]]
    BY <1>a, <1>10, <2>3, <2>4 DEF RunOnSelf, CountedOnce
  <2>6. \A x \in Thread : Due(x)' = Due(x) /\ (x # r => Done(x)' = Done(x))
    BY <2>1, <2>3 DEF Due, Done
  <2>7. ASSUME NEW x \in Thread, NEW y \in Thread PROVE Placed(x, y)'
    <3>1. Placed(x, y)
      BY Zenon DEF CountedOnce
    <3>2. CASE x = r /\ y = r
      BY Zenon, <2>1, <2>2, <2>4, <2>6, <3>1, <3>2 DEF Placed
    <3>3. CASE x # r \/ y # r
      BY <2>1, <2>3, <2>4, <2>6, <3>1, <3>3 DEF Placed
    <3> QED BY Zenon, <3>2, <3>3
  <2>8. CountedOnce'
    BY <2>1, <2>5, <2>7 DEF CountedOnce, Checkpointing, Visiting
  <2>9. BarrierCounts'
    <3>1. barrier[r] = 0 - Cardinality(Done(r)) /\ pc'[r] # "barrier"
      BY Zenon, <2>1 DEF BarrierCounts
    <3>2. barrier'[r] = 0 - Cardinality(Done(r)')
      BY <2>1, <2>4, <3>1
    <3> QED BY <2>1, <2>6, <3>1, <3>2 DEF BarrierCounts
  <2> QED BY Zenon, <2>8, <2>9
<1>11. ASSUME NEW r \in Thread, EndRunOn(r) PROVE CountedOnce' /\ BarrierCounts'
  <2>0. PICK t \in Thread : t = seen[r]
    BY <1>0, <1>11 DEF EndRunOn, SuspensionTypeOK
  <2>1. /\ pc[r] = "run_suspended" /\ t \in raised[r] /\ UNCHANGED <<pc, todo, slots, visited>>
        /\ raised'[r] = raised[r] \ {t} /\ barrier'[r] = barrier[r] - 1
        /\ \A x \in Thread : x # r => barrier'[x] = barrier[x] /\ raised'[x] = raised[x]
    BY <1>0, <1>11, <2>0 DEF EndRunOn, SuspensionTypeOK, Books
  <2>2. t \in Due(r) /\ ran[r][t] = 0
    <3>1. t \in Due(r)
      BY <2>1 DEF Due
    <3>2. Placed(r, t)
      BY Zenon DEF CountedOnce
    <3> QED BY <1>a, <3>1, <3>2 DEF Placed
  <2>3. ran'[r] = [ran[r] EXCEPT ![t] = @ + 1] /\ \A x \in Thread : x # r => ran'[x] = ran[x]
    BY Zenon, <1>11, <2>0 DEF EndRunOn, CountedOnce
  <2>4. /\ ran'[r] \in [Thread -> {0, 1}] /\ ran'[r][t] = 1 /\ \A x \in Thread : x # t => ran'[r][x] = ran[r][x]
        /\ Cardinality(Done(r)') = Cardinality(Done(r)) + 1 /\ Cardinality(Done(r)) \in Nat
    BY Zenon, <2>2, <2>3, OneMoreDone
  <2>5. ran' \in [Thread -> [Thread -> {0, 1}]]
    BY Zenon, <1>a, <1>11, <2>3, <2>4 DEF EndRunOn, CountedOnce
  <2>6. Due(r)' = Due(r) \ {t} /\ \A x \in Thread : x # r => Due(x)' = Due(x) /\ Done(x)' = Done(x)
    BY <2>1, <2>3 DEF Due, Done
  <2>7. ASSUME NEW x \in Thread, NEW y \in Thread PROVE Placed(x, y)'
    <3>1. Placed(x, y)
      BY DEF CountedOnce
    <3>2. CASE x = r /\ y = t
      BY <2>1, <2>2, <2>4, <2>6, <3>1, <3>2 DEF Placed
    <3>3. CASE x # r \/ y # t
      BY Zenon, <2>1, <2>3, <2>4, <2>6, <3>1, <3>3 DEF Placed
    <3> QED BY <3>2, <3>3
  <2>8. CountedOnce'
    BY Zenon, <2>1, <2>5, <2>7 DEF CountedOnce
  <2>9. BarrierCounts'
    <3>1. barrier[r] = 0 - Cardinality(Done(r)) /\ pc'[r] # "barrier"
      BY Zenon, <2>1 DEF BarrierCounts
    <3>2. barrier'[r] = 0 - Cardinality(Done(r)')
      BY <2>1, <2>4, <3>1
    <3> QED BY Zenon, <2>1, <2>6, <3>1, <3>2 DEF BarrierCounts
  <2> QED BY Zenon, <2>8, <2>9
<1>12. ASSUME NEW r \in Thread, AwaitBarrier(r) PROVE CountedOnce' /\ BarrierCounts'
  <2>1. /\ pc[r] \in {"run_suspended", "visit_runnable"} /\ pc'[r] = "barrier"
        /\ barrier'[r] = barrier[r] + Cardinality(visited[r])
        /\ \A x \in Thread : x # r => barrier'[x] = barrier[x] /\ pc'[x] = pc[x]
        /\ UNCHANGED <<todo, slots, raised, visited, ran>>
    BY <1>0, <1>12 DEF AwaitBarrier, SuspensionTypeOK
  <2>2. raised[r] = {}
    BY Zenon, <1>0, <1>12 DEF AwaitBarrier, Books, Single
  <2>3. \A x \in Thread : Due(x)' = Due(x) /\ Done(x)' = Done(x)
    BY Zenon, <2>1, <2>2 DEF Due, Done
  <2>4. \A x, y \in Thread : Placed(x, y)'
    <3> SUFFICES ASSUME NEW x \in Thread, NEW t \in Thread PROVE Placed(x, t)'
      BY Zenon
    <3>1. Placed(x, t)
      BY Zenon DEF CountedOnce
    <3> QED BY ZenonT(40), <2>1, <2>3, <3>1 DEF Placed
  <2>5. CountedOnce'
    BY <2>1, <2>4 DEF CountedOnce, Checkpointing, Visiting
  <2>6. Done(r) \in SUBSET Thread /\ visited[r] \in SUBSET Thread
    BY Zenon, <1>0 DEF Done, SuspensionTypeOK
  <2>7. Cardinality(Done(r)) \in Nat /\ Cardinality(visited[r]) \in Nat
    BY <2>6, Finite
  <2>8. barrier'[r] = Cardinality(visited[r]) - Cardinality(Done(r))
    BY <2>1, <2>7 DEF BarrierCounts
  <2>9. BarrierCounts'
    BY <2>1, <2>3, <2>8 DEF BarrierCounts
  <2> QED BY Zenon, <2>5, <2>9
<1>13. ASSUME NEW r \in Thread, PassBarrier(r) PROVE CountedOnce' /\ BarrierCounts'
  <2>1. /\ pc[r] = "barrier" /\ barrier[r] = 0 /\ pc'[r] = "none" /\ visited'[r] = {}
        /\ \A x \in Thread : x # r => visited'[x] = visited[x] /\ pc'[x] = pc[x]
        /\ UNCHANGED <<todo, slots, raised, barrier>>
    BY <1>0, <1>13 DEF PassBarrier, SuspensionTypeOK
  <2>2. /\ ran' \in [Thread -> [Thread -> {0, 1}]] /\ \A x \in Thread : x # r => ran'[x] = ran[x]
        /\ \A t \in Thread : ran'[r][t] = 0
    BY Zenon, <1>13 DEF PassBarrier, CountedOnce
  <2>3. Done(r) = visited[r]
    BY Zenon, <1>0, <2>1, AllDone
  <2>4. \A t \in Thread : r \notin slots[t] /\ t \notin Due(r)
    <3>1. ASSUME NEW t \in Thread PROVE r \notin slots[t] /\ t \notin Due(r)
      <4>1. Placed(r, t) /\ (t \in visited[r] <=> ran[r][t] = 1)
        BY <2>3 DEF CountedOnce, Done
      <4> QED BY Zenon, <4>1 DEF Placed
    <3> QED BY Zenon, <3>1
  <2>5. Due(r)' = {} /\ Done(r)' = {}
    BY <2>1, <2>2 DEF Due, Done
  <2>6. \A x \in Thread : x # r => Due(x)' = Due(x) /\ Done(x)' = Done(x)
    BY <2>1, <2>2 DEF Due, Done
  <2>7. ASSUME NEW x \in Thread, NEW y \in Thread PROVE Placed(x, y)'
    <3>1. Placed(x, y)
      BY Zenon DEF CountedOnce
    <3>2. CASE x = r
      BY <2>1, <2>2, <2>4, <2>5, <3>2 DEF Placed
    <3>3. CASE x # r
      BY <2>1, <2>2, <2>6, <3>1, <3>3 DEF Placed
    <3> QED BY <3>2, <3>3
  <2>8. CountedOnce'
    BY Zenon, <2>1, <2>2, <2>7 DEF CountedOnce, Visiting
  <2>9. BarrierCounts'
    <3>1. Cardinality({}) = 0
      BY FS_EmptySet
    <3> QED BY <2>1, <2>5, <2>6, <3>1 DEF BarrierCounts
  <2> QED BY Zenon, <2>8, <2>9
<1>14. CASE UNCHANGED suspensionVars
  BY <1>14, CheckpointKept DEF suspensionVars
<1> QED
  BY <1>1, <1>2, <1>3, <1>4, <1>5, <1>6, <1>7, <1>8, <1>9, <1>10, <1>11, <1>12, <1>13, <1>14
     DEF SuspensionNext, Transition, Step, BeginRequest

(* For any threads and requests: a requester of a checkpoint passes its    *)
(* barrier only when its closure has run exactly once for every thread     *)
(* that RunCheckpoint counted, by the thread or on its behalf, and for no  *)
(* other.                                                                  *)
THEOREM CheckpointsRunOnce == SuspensionSpec => []CheckpointOnce
<1>1. SuspensionInit => CountedOnce /\ BarrierCounts
  <2> SUFFICES ASSUME SuspensionInit PROVE CountedOnce /\ BarrierCounts
    BY Zenon
  <2>1. \A r \in Thread : Due(r) = {} /\ Done(r) = {}
    BY DEF SuspensionInit, Due, Done
  <2>2. CountedOnce
    BY <2>1 DEF SuspensionInit, CountedOnce, Placed, Visiting
  <2> QED BY <2>1, <2>2, FS_EmptySet DEF SuspensionInit, BarrierCounts
<1>2. Suspension /\ CountedOnce /\ BarrierCounts => CheckpointOnce
  <2> SUFFICES ASSUME Suspension, CountedOnce, BarrierCounts, NEW r \in Thread, pc[r] = "barrier", barrier[r] = 0,
                      NEW t \in Thread
               PROVE  ran[r][t] = IF t \in visited[r] THEN 1 ELSE 0
    BY Zenon DEF CheckpointOnce
  <2>1. Done(r) = visited[r]
    BY Zenon, AllDone DEF Suspension
  <2> QED BY <2>1 DEF Done, CountedOnce
<1> QED BY <1>1, <1>2, Invariant, CheckpointStep, PTL DEF SuspensionSpec
=============================================================================
