---------------------------- MODULE ObjectMonitor ----------------------------
(***************************************************************************)
(* The lock of one Java object: monitor.cc, the lock word of lock_word.h   *)
(* and IdentityHashCode of mirror/object.cc.  The lock word is unlocked, a *)
(* thin lock, a hash code, or a pointer to a Monitor (fat); the garbage    *)
(* collector turns a Monitor nobody needs back into a plain word.          *)
(*                                                                         *)
(* A thread can be stopped, by a thread that inflates its lock or by the   *)
(* collector, only where it is not Runnable or polls for suspension: at    *)
(* the steps named in SafePoint.  A plain store to the lock word is a step *)
(* of its own after the read it depends on.  Code between two lockings of  *)
(* monitor_lock_ is one step.                                              *)
(***************************************************************************)
EXTENDS ArtThreads, Sequences, FiniteSets, FiniteSetsExt

CONSTANTS MaxThin,     \* LockWord::kThinLockMaxCount
          MaxDepth,    \* bound: monitor enters that are not yet exited, when one begins
          Hash         \* what GenerateIdentityHashCode may return

ASSUME MonitorAssumption == MaxThin \in Nat /\ MaxDepth \in Nat /\ Hash \subseteq Nat \ {0}

NoHash == 0

VARIABLES
  word,         \* the lock word
  fat,          \* the Monitor: owner_, lock_count_, num_waiters_, hash_code_
  waitSet,      \* wait_set_
  mpc,          \* where a thread is
  held,         \* held[t]: lock word count t has read, before its store
  want,         \* want[t]: the inflation t is about: owner, hash, where to go on
  stoppedBy,    \* stoppedBy[t]: the threads that have suspended t
  depth,        \* depth[t]: the enters of t without their exits
  inWait,       \* the threads inside Monitor::Wait
  saved,        \* saved[t]: prev_lock_count
  waitMonitor,  \* the threads whose wait_monitor_ is set
  interrupted,  \* the threads whose interrupted_ is set
  wasInterrupted, \* the threads whose was_interrupted is set
  hashes,       \* the identity hash codes returned so far
  fatal         \* a CHECK or LOG(FATAL) of Install or Lock failed

monitorVars == <<word, fat, waitSet, mpc, held, want, stoppedBy, depth, inWait, saved,
                 waitMonitor, interrupted, wasInterrupted, hashes, fatal>>
waitVars == <<waitSet, inWait, saved, waitMonitor, interrupted, wasInterrupted>>

UnlockedWord == [st |-> "unlocked", owner |-> Nobody, count |-> 0, hash |-> NoHash]
ThinWord(t, n) == [st |-> "thin", owner |-> t, count |-> n, hash |-> NoHash]
HashWord(h) == [st |-> "hash", owner |-> Nobody, count |-> 0, hash |-> h]
FatWord == [st |-> "fat", owner |-> Nobody, count |-> 0, hash |-> NoHash]
NoMonitor == [owner |-> Nobody, count |-> 0, waiters |-> 0, hash |-> NoHash]
NoWant == [owner |-> Nobody, hash |-> NoHash, back |-> "java"]

MonitorInit ==
  /\ word = UnlockedWord /\ fat = NoMonitor /\ waitSet = <<>>
  /\ mpc = [t \in Thread |-> "java"] /\ held = [t \in Thread |-> 0]
  /\ want = [t \in Thread |-> NoWant] /\ stoppedBy = [t \in Thread |-> {}]
  /\ depth = [t \in Thread |-> 0] /\ inWait = {} /\ saved = [t \in Thread |-> 0]
  /\ waitMonitor = {} /\ interrupted = {} /\ wasInterrupted = {}
  /\ hashes = {} /\ fatal = FALSE

SafePoint == {"java", "suspend_owner", "owner_stopped", "blocked", "contending", "woken",
              "waiting", "signalled", "awake"}
Running(t) == stoppedBy[t] = {}
Goto(t, p) == mpc' = [mpc EXCEPT ![t] = p]
InJava(t) == mpc[t] = "java" /\ Running(t)
ThinOwn(t) == word.st = "thin" /\ word.owner = t

-----------------------------------------------------------------------------
(* MonitorEnter                                                            *)
Entered == MapThenSumSet(LAMBDA u : depth[u], Thread)
BeginEnter(t) ==
  /\ InJava(t) /\ Entered < MaxDepth /\ Goto(t, "enter")
  /\ UNCHANGED <<word, fat, held, want, stoppedBy, depth, hashes, fatal, waitVars>>

EnterUnlocked(t) ==
  /\ mpc[t] = "enter" /\ word.st = "unlocked"
  /\ word' = ThinWord(t, 0) /\ depth' = [depth EXCEPT ![t] = @ + 1] /\ Goto(t, "java")
  /\ UNCHANGED <<fat, held, want, stoppedBy, hashes, fatal, waitVars>>

EnterRecursive(t) ==
  /\ mpc[t] = "enter" /\ ThinOwn(t) /\ word.count + 1 <= MaxThin
  /\ held' = [held EXCEPT ![t] = word.count] /\ Goto(t, "enter_store")
  /\ UNCHANGED <<word, fat, want, stoppedBy, depth, hashes, fatal, waitVars>>

EnterStore(t) ==
  /\ mpc[t] = "enter_store"
  /\ word' = ThinWord(t, held[t] + 1) /\ held' = [held EXCEPT ![t] = 0]
  /\ depth' = [depth EXCEPT ![t] = @ + 1] /\ Goto(t, "java")
  /\ UNCHANGED <<fat, want, stoppedBy, hashes, fatal, waitVars>>

(* InflateThinLocked and Inflate, called from back with a hash code or     *)
(* NoHash: install a Monitor at once when the lock is one's own or has no  *)
(* owner, else suspend the owner first.                                    *)
Inflate(t, owner, hash, back) ==
  /\ want' = [want EXCEPT ![t] = [owner |-> owner, hash |-> hash, back |-> back]]
  /\ Goto(t, IF owner \in {t, Nobody} THEN "install" ELSE "suspend_owner")
  /\ UNCHANGED <<word, fat, held, stoppedBy, depth, hashes, fatal, waitVars>>

EnterContended(t) ==
  /\ mpc[t] = "enter" /\ word.st = "thin" /\ (word.owner = t => word.count = MaxThin)
  /\ Inflate(t, word.owner, NoHash, "enter")

EnterHashed(t) ==
  /\ mpc[t] = "enter" /\ word.st = "hash" /\ Inflate(t, Nobody, word.hash, "enter")

(* The inflation is over: a suspended owner is resumed.                    *)
GoBack(t) ==
  /\ stoppedBy' = [u \in Thread |-> stoppedBy[u] \ {t}]
  /\ want' = [want EXCEPT ![t] = NoWant] /\ Goto(t, want[t].back)

(* SuspendThreadByThreadId gives up when the owner has gone or takes too   *)
(* long.                                                                   *)
SuspendOwner(t) ==
  /\ mpc[t] = "suspend_owner" /\ Running(t) /\ mpc[want[t].owner] \in SafePoint
  /\ stoppedBy' = [stoppedBy EXCEPT ![want[t].owner] = @ \cup {t}]
  /\ Goto(t, "owner_stopped")
  /\ UNCHANGED <<word, fat, held, want, depth, hashes, fatal, waitVars>>

SuspendOwnerFails(t) ==
  /\ mpc[t] = "suspend_owner" /\ Running(t) /\ GoBack(t)
  /\ UNCHANGED <<word, fat, held, depth, hashes, fatal, waitVars>>

(* With the owner stopped the lock word is read again.                     *)
CheckOwner(t) ==
  /\ mpc[t] = "owner_stopped" /\ Running(t)
  /\ IF word.st = "thin" /\ word.owner = want[t].owner
     THEN Goto(t, "install") /\ UNCHANGED <<stoppedBy, want>>
     ELSE GoBack(t)
  /\ UNCHANGED <<word, fat, held, depth, hashes, fatal, waitVars>>

(* Monitor::Install: another thread may have installed a Monitor first.    *)
Install(t) ==
  /\ mpc[t] = "install"
  /\ fatal' = (\/ fatal \/ word.st = "unlocked"
               \/ word.st = "thin" /\ word.owner # want[t].owner
               \/ word.st = "hash" /\ word.hash # want[t].hash)
  /\ IF word.st \in {"thin", "hash"}
     THEN /\ word' = FatWord
          /\ fat' = [owner |-> want[t].owner, count |-> word.count, waiters |-> 0,
                     hash |-> want[t].hash]
     ELSE UNCHANGED <<word, fat>>
  /\ GoBack(t)
  /\ UNCHANGED <<held, depth, hashes, waitVars>>

-----------------------------------------------------------------------------
(* Monitor::Lock, from MonitorEnter and at the end of Wait.  A thread that *)
(* finds another owner raises num_waiters_, looks again in state kBlocked, *)
(* waits on monitor_contenders_, becomes Runnable and tries again.         *)
Locking(t) ==
  \/ mpc[t] = "enter" /\ word.st = "fat"
  \/ mpc[t] = "relock"
  \/ mpc[t] = "woken" /\ Running(t)
Waiters(t) == IF mpc[t] = "woken" THEN fat.waiters - 1 ELSE fat.waiters

LockForEnter(t) ==
  /\ Locking(t) /\ t \notin inWait /\ fat.owner \in {Nobody, t}
  /\ fat' = [fat EXCEPT !.owner = t, !.waiters = Waiters(t),
                        !.count = IF fat.owner = t THEN @ + 1 ELSE @]
  /\ fatal' = (fatal \/ (fat.owner = Nobody /\ fat.count # 0))
  /\ depth' = [depth EXCEPT ![t] = @ + 1] /\ Goto(t, "java")
  /\ UNCHANGED <<word, held, want, stoppedBy, hashes, waitVars>>

(* Where the list s first names a thread of S; 0 if it names none.         *)
FirstIndex(s, S) ==
  LET I == {i \in 1..Len(s) : s[i] \in S} IN IF I # {} THEN Min(I) ELSE 0

(* The list s without t; a thread that Notify has taken off already is not *)
(* found, and the list stays as it is.                                     *)
RemoveFromWaitSet(s, t) ==
  LET k == FirstIndex(s, {t})
  IN  IF k = 0 THEN s ELSE SubSeq(s, 1, k - 1) \o SubSeq(s, k + 1, Len(s))

(* The rest of Wait follows: it restores the count and leaves the wait     *)
(* set; the interrupted status is cleared when it throws.                  *)
LockForWait(t) ==
  /\ Locking(t) /\ t \in inWait /\ fat.owner = Nobody
  /\ fat' = [fat EXCEPT !.owner = t, !.count = saved[t], !.waiters = Waiters(t) - 1]
  /\ fatal' = (fatal \/ fat.count # 0)
  /\ inWait' = inWait \ {t} /\ waitSet' = RemoveFromWaitSet(waitSet, t)
  /\ saved' = [saved EXCEPT ![t] = 0]
  /\ interrupted' = interrupted \ (wasInterrupted \cap {t})
  /\ wasInterrupted' = wasInterrupted \ {t} /\ Goto(t, "java")
  /\ UNCHANGED <<word, held, want, stoppedBy, depth, hashes, waitMonitor>>

LockContended(t) ==
  /\ Locking(t) /\ fat.owner \notin {Nobody, t}
  /\ fat' = [fat EXCEPT !.waiters = Waiters(t) + 1] /\ Goto(t, "blocked")
  /\ UNCHANGED <<word, held, want, stoppedBy, depth, hashes, fatal, waitVars>>

LookAgain(t) ==
  /\ mpc[t] = "blocked" /\ Goto(t, IF fat.owner # Nobody THEN "contending" ELSE "woken")
  /\ UNCHANGED <<word, fat, held, want, stoppedBy, depth, hashes, fatal, waitVars>>

(* t goes on at p and one thread waiting on monitor_contenders_ wakes up.  *)
SignalContender(t, p) ==
  LET contending == {u \in Thread : mpc[u] = "contending"} IN
  \/ contending = {} /\ Goto(t, p)
  \/ \E u \in contending : mpc' = [mpc EXCEPT ![t] = p, ![u] = "woken"]

-----------------------------------------------------------------------------
(* MonitorExit of an owner, Monitor::Unlock                                *)
ExitThin(t) ==
  /\ InJava(t) /\ depth[t] > 0 /\ ThinOwn(t)
  /\ held' = [held EXCEPT ![t] = word.count] /\ Goto(t, "exit_store")
  /\ UNCHANGED <<word, fat, want, stoppedBy, depth, hashes, fatal, waitVars>>

\* Mutant: the last exit is not told from the others.
ExitNotLast(t) ==
  /\ mpc[t] = "exit_store"
  /\ word' = ThinWord(t, held[t] - 1) /\ held' = [held EXCEPT ![t] = 0]
  /\ depth' = [depth EXCEPT ![t] = @ - 1] /\ Goto(t, "java")
  /\ UNCHANGED <<fat, want, stoppedBy, hashes, fatal, waitVars>>

ExitStore(t) ==
  /\ mpc[t] = "exit_store"
  /\ word' = IF held[t] # 0 THEN ThinWord(t, held[t] - 1) ELSE UnlockedWord
  /\ held' = [held EXCEPT ![t] = 0]
  /\ depth' = [depth EXCEPT ![t] = @ - 1] /\ Goto(t, "java")
  /\ UNCHANGED <<fat, want, stoppedBy, hashes, fatal, waitVars>>

\* Mutant: nobody is signalled.
UnlockQuietly(t) ==
  /\ InJava(t) /\ depth[t] > 0 /\ word.st = "fat" /\ fat.owner = t
  /\ fat' = IF fat.count = 0 THEN [fat EXCEPT !.owner = Nobody] ELSE [fat EXCEPT !.count = @ - 1]
  /\ depth' = [depth EXCEPT ![t] = @ - 1]
  /\ UNCHANGED <<mpc, word, held, want, stoppedBy, hashes, fatal, waitVars>>

Unlock(t) ==
  /\ InJava(t) /\ depth[t] > 0 /\ word.st = "fat" /\ fat.owner = t
  /\ IF fat.count = 0
     THEN fat' = [fat EXCEPT !.owner = Nobody] /\ SignalContender(t, "java")
     ELSE fat' = [fat EXCEPT !.count = @ - 1] /\ UNCHANGED mpc
  /\ depth' = [depth EXCEPT ![t] = @ - 1]
  /\ UNCHANGED <<word, held, want, stoppedBy, hashes, fatal, waitVars>>

-----------------------------------------------------------------------------
(* Wait: a thin lock is inflated first.  The thread joins the wait set,    *)
(* releases the lock and waits on its own condition, unless it has been    *)
(* interrupted before.                                                     *)
WaitThin(t) == InJava(t) /\ depth[t] > 0 /\ ThinOwn(t) /\ Inflate(t, t, NoHash, "wait")

WaitFat(t) ==
  /\ mpc[t] = "wait" \/ (InJava(t) /\ depth[t] > 0)
  /\ word.st = "fat" /\ fat.owner = t
  /\ waitSet' = Append(waitSet, t) /\ inWait' = inWait \cup {t}
  /\ saved' = [saved EXCEPT ![t] = fat.count] /\ waitMonitor' = waitMonitor \cup {t}
  /\ fat' = [fat EXCEPT !.owner = Nobody, !.count = 0, !.waiters = @ + 1]
  /\ SignalContender(t, IF t \in interrupted THEN "awake" ELSE "waiting")
  /\ wasInterrupted' = wasInterrupted \cup ({t} \cap interrupted)
  /\ UNCHANGED <<word, held, want, stoppedBy, depth, interrupted, hashes, fatal>>

(* The thread has been signalled, or its time is over.                     *)
WakeUp(t) ==
  /\ mpc[t] \in {"signalled", "waiting"}
  /\ wasInterrupted' = wasInterrupted \cup ({t} \cap interrupted)
  /\ interrupted' = interrupted \ {t} /\ Goto(t, "awake")
  /\ UNCHANGED <<word, fat, held, want, stoppedBy, depth, hashes, fatal, waitSet, inWait,
                 saved, waitMonitor>>

ResetWaitMonitor(t) ==
  /\ mpc[t] = "awake" /\ Running(t)
  /\ waitMonitor' = waitMonitor \ {t} /\ Goto(t, "relock")
  /\ UNCHANGED <<word, fat, held, want, stoppedBy, depth, hashes, fatal, waitSet, inWait,
                 saved, interrupted, wasInterrupted>>

(* Thread::NotifyLocked on every thread of S whose wait_monitor_ is set    *)
SignalWaiting(S) ==
  mpc' = [u \in Thread |-> IF u \in S \cap waitMonitor /\ mpc[u] = "waiting"
                           THEN "signalled" ELSE mpc[u]]

(* Notify takes threads off the wait set until one has its wait_monitor_.  *)
FirstWaiting == FirstIndex(waitSet, waitMonitor)
Notify(t) ==
  LET last == IF FirstWaiting = 0 THEN Len(waitSet) ELSE FirstWaiting
  IN /\ InJava(t) /\ word.st = "fat" /\ fat.owner = t /\ waitSet # <<>>
     /\ waitSet' = SubSeq(waitSet, last + 1, Len(waitSet))
     /\ SignalWaiting({waitSet[last]})
     /\ UNCHANGED <<word, fat, held, want, stoppedBy, depth, hashes, fatal, inWait, saved,
                    waitMonitor, interrupted, wasInterrupted>>

NotifyAll(t) ==
  /\ InJava(t) /\ word.st = "fat" /\ fat.owner = t /\ waitSet # <<>>
  /\ waitSet' = <<>> /\ SignalWaiting(Range(waitSet))
  /\ UNCHANGED <<word, fat, held, want, stoppedBy, depth, hashes, fatal, inWait, saved,
                 waitMonitor, interrupted, wasInterrupted>>

Interrupt(t) ==
  /\ t \notin interrupted
  /\ interrupted' = interrupted \cup {t} /\ SignalWaiting({t})
  /\ UNCHANGED <<word, fat, held, want, stoppedBy, depth, hashes, fatal, waitSet, inWait,
                 saved, waitMonitor, wasInterrupted>>

-----------------------------------------------------------------------------
(* Object::IdentityHashCode; a thin lock has no room for the hash code.    *)
BeginHash(t) ==
  /\ InJava(t) /\ Goto(t, "hash")
  /\ UNCHANGED <<word, fat, held, want, stoppedBy, depth, hashes, fatal, waitVars>>

HashWithoutMonitor(t) ==
  /\ mpc[t] = "hash" /\ word.st \in {"unlocked", "hash"}
  /\ \/ word.st = "hash" /\ UNCHANGED word
     \/ word.st = "unlocked" /\ \E h \in Hash : word' = HashWord(h)
  /\ hashes' = hashes \cup {word'.hash} /\ Goto(t, "java")
  /\ UNCHANGED <<fat, held, want, stoppedBy, depth, fatal, waitVars>>

HashThin(t) ==
  /\ mpc[t] = "hash" /\ word.st = "thin"
  /\ \E h \in Hash : Inflate(t, word.owner, h, "hash")

HashFat(t) ==
  /\ mpc[t] = "hash" /\ word.st = "fat"
  /\ \E h \in Hash : fat' = [fat EXCEPT !.hash = IF @ = NoHash THEN h ELSE @]
  /\ hashes' = hashes \cup {fat'.hash} /\ Goto(t, "java")
  /\ UNCHANGED <<word, held, want, stoppedBy, depth, fatal, waitVars>>

\* Mutant: a Monitor with an owner loses its hash code.
DeflateWithHash ==
  /\ \A t \in Thread : mpc[t] \in SafePoint
  /\ word.st = "fat" /\ fat.waiters = 0 /\ fat.owner # Nobody /\ fat.count <= MaxThin
  /\ word' = ThinWord(fat.owner, fat.count) /\ fat' = NoMonitor
  /\ UNCHANGED <<mpc, held, want, stoppedBy, depth, hashes, fatal, waitVars>>

(* Monitor::Deflate, by the collector with all threads stopped             *)
Deflate ==
  /\ \A t \in Thread : mpc[t] \in SafePoint
  /\ word.st = "fat" /\ fat.waiters = 0
  /\ \/ /\ fat.owner # Nobody /\ fat.hash = NoHash /\ fat.count <= MaxThin
        /\ word' = ThinWord(fat.owner, fat.count)
     \/ fat.owner = Nobody /\ fat.hash # NoHash /\ word' = HashWord(fat.hash)
     \/ fat.owner = Nobody /\ fat.hash = NoHash /\ word' = UnlockedWord
  /\ fat' = NoMonitor
  /\ UNCHANGED <<mpc, held, want, stoppedBy, depth, hashes, fatal, waitVars>>

-----------------------------------------------------------------------------
ThreadStep(t) ==
  \/ BeginEnter(t) \/ EnterUnlocked(t) \/ EnterRecursive(t) \/ EnterStore(t)
  \/ EnterContended(t) \/ EnterHashed(t)
  \/ SuspendOwner(t) \/ SuspendOwnerFails(t) \/ CheckOwner(t) \/ Install(t)
  \/ LockForEnter(t) \/ LockForWait(t) \/ LockContended(t) \/ LookAgain(t)
  \/ ExitThin(t) \/ ExitStore(t) \/ Unlock(t)
  \/ WaitThin(t) \/ WaitFat(t) \/ WakeUp(t) \/ ResetWaitMonitor(t)
  \/ Notify(t) \/ NotifyAll(t) \/ Interrupt(t)
  \/ BeginHash(t) \/ HashWithoutMonitor(t) \/ HashThin(t) \/ HashFat(t)

MonitorNext == (\E t \in Thread : ThreadStep(t)) \/ Deflate

MonitorSpec == MonitorInit /\ [][MonitorNext]_monitorVars

-----------------------------------------------------------------------------
MonitorPc == SafePoint \cup {"enter", "enter_store", "exit_store", "install", "relock",
                             "wait", "hash"}
(* Every variable has its type.                                           *)
MonitorTypeOK ==
  /\ word \in [st : {"unlocked", "thin", "hash", "fat"}, owner : Thread \cup {Nobody},
               count : 0..MaxThin, hash : Hash \cup {NoHash}]
  /\ fat \in [owner : Thread \cup {Nobody}, count : Nat, waiters : Nat,
              hash : Hash \cup {NoHash}]
  /\ waitSet \in Seq(Thread) /\ mpc \in [Thread -> MonitorPc]
  /\ held \in [Thread -> 0..MaxThin] /\ depth \in [Thread -> Nat] /\ saved \in [Thread -> Nat]
  /\ want \in [Thread -> [owner : Thread \cup {Nobody}, hash : Hash \cup {NoHash},
                          back : MonitorPc]]
  /\ stoppedBy \in [Thread -> SUBSET Thread]
  /\ inWait \subseteq Thread /\ waitMonitor \subseteq Thread /\ interrupted \subseteq Thread
  /\ wasInterrupted \subseteq inWait /\ hashes \subseteq Hash /\ fatal \in BOOLEAN

(* Whatever the lock word is replaced by, it keeps what it stands for: the *)
(* lock is recorded as held by exactly the thread that is inside, with its *)
(* recursion count, through every inflation, deflation, wait and hash      *)
(* code, and the identity hash code never changes.  No CHECK of Install or *)
(* Lock fails: no Monitor replaces the lock of another thread.             *)
Records(t, n) ==
  \/ ThinOwn(t) /\ word.count = n
  \/ word.st = "fat" /\ fat.owner = t /\ fat.count = n
LockWordKept ==
  /\ \A t \in Thread :
       IF depth[t] > 0 /\ t \notin inWait
       THEN Records(t, depth[t] - 1)
       ELSE ~ThinOwn(t) /\ fat.owner # t
  /\ Cardinality(hashes) <= 1 /\ ~fatal

(* No thread that blocks in Lock or Wait is forgotten.  num_waiters_ counts *)
(* it, so its Monitor is not deflated; if it waits, it is in the wait set   *)
(* with its wait_monitor_ set; and when the Monitor is free while threads   *)
(* wait to enter, one of them, or one that will signal them, is on its way. *)
BlockedIn == {t \in Thread : mpc[t] \in {"blocked", "contending", "woken"}}
NobodyForgotten ==
  /\ fat.waiters = Cardinality(BlockedIn) + Cardinality(inWait)
  /\ BlockedIn \cup inWait # {} => word.st = "fat"
  /\ \A t \in Thread : mpc[t] = "waiting" => t \in waitMonitor /\ t \in Range(waitSet)
  /\ word.st = "fat" /\ fat.owner = Nobody /\ (\E t \in Thread : mpc[t] = "contending")
       => \E t \in Thread : mpc[t] \in {"blocked", "woken", "relock", "enter"}
=============================================================================
