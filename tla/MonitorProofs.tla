---------------------------- MODULE MonitorProofs ----------------------------
(***************************************************************************)
(* The lock of a Java object is safe for any finite number of threads and  *)
(* any number of recursions and hash codes (ObjectMonitor).                *)
(***************************************************************************)
EXTENDS SequenceTheorems, FiniteSetTheorems, TLAPS, ObjectMonitor

Below == {p \in Nat \X Nat : p[1] < p[2]}

(* The order of the natural numbers is well-founded.                       *)
LEMMA BelowWellFounded == IsWellFoundedOn(Below, Nat)
<1>1. OpToRel(<, Nat) = Below
  BY Zenon DEF OpToRel, Below
<1> QED BY Zenon, <1>1, NatLessThanWellFounded

(* A set of natural numbers has a least member: the position where a       *)
(* search of the wait set stops.                                           *)
LEMMA LeastNatural ==
  ASSUME NEW S \in SUBSET Nat, S # {}
  PROVE  \E n \in S : \A m \in S : n <= m
<1>1. PICK x \in S : \A y \in S : ~(<<y, x>> \in Below)
  BY Zenon, BelowWellFounded, WFMin
<1>2. \A m \in Nat : ~(<<m, x>> \in Below) => x <= m
  BY DEF Below
<1>3. \A m \in S : x <= m
  BY Zenon, <1>1, <1>2
<1> QED BY Zenon, <1>3

-----------------------------------------------------------------------------
(* ObjectMonitor: what the lock word records.                              *)

(* The lock word and the Monitor agree: only a thin word has an owner, and *)
(* there is a Monitor only behind a fat word.                              *)
WordShape ==
  /\ word.st = "thin" => word.owner \in Thread /\ word.hash = NoHash
  /\ word.st # "thin" => word.owner = Nobody /\ word.count = 0
  /\ word.st = "hash" => word.hash # NoHash
  /\ word.st # "fat" => fat = NoMonitor
  /\ fat.owner = Nobody => fat.count = 0

(* A stopped thread stays at a safe point, so between its read of the lock *)
(* word and its store nobody inflates the lock; an inflation that is under *)
(* way is about the lock word as it is, or one was faster.                 *)
Inflating(t) ==
  \/ want[t].owner = t /\ ThinOwn(t)
  \/ want[t].owner = Nobody /\ (word.st = "hash" /\ want[t].hash = word.hash)
  \/ want[t].owner = Nobody /\ word.st = "fat"
  \/ want[t].owner \in Thread \ {t} /\ t \in stoppedBy[want[t].owner] /\ (ThinOwn(want[t].owner) \/ word.st = "fat")

StopsAt(t) ==
  /\ mpc[t] \notin SafePoint => stoppedBy[t] = {}
  /\ mpc[t] \in {"suspend_owner", "owner_stopped"} => want[t].owner \in Thread \ {t}
  /\ mpc[t] = "owner_stopped" => t \in stoppedBy[want[t].owner]
  /\ mpc[t] \in {"suspend_owner", "owner_stopped", "install"} => want[t].back \in {"enter", "wait", "hash"}
  /\ mpc[t] \in {"enter_store", "exit_store"} => ThinOwn(t) /\ held[t] = word.count
  /\ mpc[t] = "enter_store" => held[t] < MaxThin
  /\ mpc[t] = "install" => Inflating(t)
Stops == \A t \in Thread : StopsAt(t)

(* Where a thread inside Wait can be, with the count it will restore       *)
WaitsAt(t) ==
  /\ t \in inWait => mpc[t] \in {"waiting", "signalled", "awake", "relock", "blocked", "contending", "woken"}
  /\ t \in inWait => depth[t] > 0 /\ saved[t] = depth[t] - 1
  /\ mpc[t] \in {"waiting", "signalled", "awake", "relock"} => t \in inWait
Waits == \A t \in Thread : WaitsAt(t)

(* The lock is recorded for the thread inside; the hash code stays.        *)
OwnersAt(t) ==
  IF depth[t] > 0 /\ t \notin inWait THEN Records(t, depth[t] - 1) ELSE ~ThinOwn(t) /\ fat.owner # t
Owners == \A t \in Thread : OwnersAt(t)
HashKept ==
  \A h \in hashes : (word.st = "hash" /\ word.hash = h) \/ (word.st = "fat" /\ fat.hash = h)

(* Inductive.                                                              *)
Monitored ==
  /\ MonitorTypeOK /\ WordShape /\ Stops /\ Waits /\ Owners /\ HashKept /\ ~fatal /\ NobodyForgotten

WordType == [st : {"unlocked", "thin", "hash", "fat"}, owner : Thread \cup {Nobody},
             count : 0..MaxThin, hash : Hash \cup {NoHash}]
FatType == [owner : Thread \cup {Nobody}, count : Nat, waiters : Nat, hash : Hash \cup {NoHash}]
WantType == [owner : Thread \cup {Nobody}, hash : Hash \cup {NoHash}, back : MonitorPc]

(* The parts of the lock word and the Monitor have their types.            *)
LEMMA WordFields ==
  ASSUME MonitorTypeOK
  PROVE  /\ word \in WordType /\ word.owner \in Thread \cup {Nobody} /\ word.count \in 0..MaxThin
         /\ word.hash \in Hash \cup {NoHash} /\ word.st \in {"unlocked", "thin", "hash", "fat"}
         /\ fat \in FatType /\ fat.owner \in Thread \cup {Nobody} /\ fat.count \in Nat /\ fat.waiters \in Nat
         /\ fat.hash \in Hash \cup {NoHash}
         /\ want \in [Thread -> WantType]
         /\ \A t \in Thread : /\ want[t].owner \in Thread \cup {Nobody} /\ want[t].back \in MonitorPc
                              /\ want[t].hash \in Hash \cup {NoHash}
BY Zenon DEF MonitorTypeOK, WordType, FatType, WantType

(* The words the code writes are lock words.                               *)
LEMMA Words ==
  /\ UnlockedWord \in WordType /\ FatWord \in WordType /\ NoMonitor \in FatType
  /\ \A t \in Thread, n \in 0..MaxThin : ThinWord(t, n) \in WordType
  /\ \A h \in Hash : HashWord(h) \in WordType
  /\ NoWant \in WantType
<1>1. 0 \in 0..MaxThin
  BY MonitorAssumption
<1> QED BY Zenon, <1>1 DEF UnlockedWord, FatWord, NoMonitor, ThinWord, HashWord, NoWant, WordType, FatType, WantType, NoHash,
                    MonitorPc, SafePoint

(* Sets of threads are finite; they can be counted.                        *)
LEMMA CountThreads ==
  ASSUME NEW S \in SUBSET Thread
  PROVE  /\ IsFiniteSet(S) /\ Cardinality(S) \in Nat /\ (S # {} => Cardinality(S) >= 1)
         /\ \A x \in Thread : /\ x \notin S => Cardinality(S \cup {x}) = Cardinality(S) + 1
                              /\ x \in S => Cardinality(S \ {x}) = Cardinality(S) - 1
<1>1. IsFiniteSet(S)
  BY Zenon, ThreadAssumption, FS_Subset
<1>2. Cardinality(S) \in Nat
  BY Zenon, <1>1, FS_CardinalityType
<1>3. S # {} => Cardinality(S) # 0
  BY Zenon, <1>1, FS_EmptySet
<1>4. S # {} => Cardinality(S) >= 1
  BY <1>2, <1>3
<1>5. \A x \in Thread : x \notin S => Cardinality(S \cup {x}) = Cardinality(S) + 1
  BY Zenon, <1>1, FS_AddElement
<1>6. \A x \in Thread : x \in S => Cardinality(S \ {x}) = Cardinality(S) - 1
  BY Zenon, <1>1, FS_RemoveElement
<1> QED BY Zenon, <1>1, <1>2, <1>4, <1>5, <1>6

(* A thread that leaves the Monitor's waiters was counted.                 *)
LEMMA WaitersCount ==
  ASSUME Monitored
  PROVE  /\ BlockedIn \in SUBSET Thread /\ inWait \in SUBSET Thread
         /\ Cardinality(BlockedIn) \in Nat /\ Cardinality(inWait) \in Nat
         /\ \A t \in Thread : Locking(t) => Waiters(t) \in Nat /\ word.st = "fat" /\ (t \in inWait => Waiters(t) >= 1)
<1>1. BlockedIn \in SUBSET Thread /\ inWait \in SUBSET Thread
  BY Zenon DEF BlockedIn, Monitored, MonitorTypeOK
<1>2. /\ Cardinality(BlockedIn) \in Nat /\ (BlockedIn # {} => Cardinality(BlockedIn) >= 1)
      /\ Cardinality(inWait) \in Nat /\ (inWait # {} => Cardinality(inWait) >= 1)
  BY Zenon, <1>1, CountThreads
<1>3. ASSUME NEW t \in Thread, Locking(t)
      PROVE  Waiters(t) \in Nat /\ word.st = "fat" /\ (t \in inWait => Waiters(t) >= 1)
  <2>1. mpc[t] = "woken" => t \in BlockedIn
    BY Zenon DEF BlockedIn
  <2>2. mpc[t] = "relock" => t \in inWait
    BY Zenon DEF Monitored, Waits, WaitsAt
  <2>3. word.st = "fat"
    BY Zenon, <1>3, <2>1, <2>2 DEF Locking, Monitored, NobodyForgotten
  <2>4. fat.waiters = Cardinality(BlockedIn) + Cardinality(inWait)
    BY Zenon DEF Monitored, NobodyForgotten
  <2>5. Waiters(t) \in Nat
    BY <1>2, <2>1, <2>4 DEF Waiters
  <2>6. t \in inWait => Waiters(t) >= 1
    BY <1>2, <2>1, <2>4 DEF Waiters
  <2> QED BY Zenon, <2>3, <2>5, <2>6
<1> QED BY Zenon, <1>1, <1>2, <1>3

(* RemoveFromWaitSet takes one thread off and keeps the others.            *)
LEMMA Removal ==
  ASSUME NEW s \in Seq(Thread), NEW y
  PROVE  RemoveFromWaitSet(s, y) \in Seq(Thread) /\ \A x \in Range(s) : x # y => x \in Range(RemoveFromWaitSet(s, y))
<1>1. CASE \A i \in 1..Len(s) : s[i] # y
  BY <1>1 DEF RemoveFromWaitSet, FirstIndex
<1>2. CASE \E i \in 1..Len(s) : s[i] = y
  <2> DEFINE I == {i \in 1..Len(s) : s[i] \in {y}}
             k == CHOOSE x \in I : \A z \in I : x <= z
             a == SubSeq(s, 1, k - 1)
             b == SubSeq(s, k + 1, Len(s))
  <2>1. k \in I
    <3>1. PICK i \in 1..Len(s) : i \in I
      BY Zenon, <1>2
    <3>2. \E x \in I : \A z \in I : x <= z
      <4>1. I \in SUBSET Nat /\ I # {}
        BY <3>1
      <4> HIDE DEF I
      <4> QED BY Zenon, <4>1, LeastNatural
    <3> QED BY Zenon, <3>2
  <2>2. RemoveFromWaitSet(s, y) = a \o b
    <3>1. k = FirstIndex(s, {y})
      <4>1. I # {} /\ k = Min(I)
        BY Zenon, <2>1 DEF Min
      <4> QED BY Zenon, <4>1 DEF FirstIndex
    <3>2. k # 0
      <4>1. k \in 1..Len(s) /\ Len(s) \in Nat
        BY Zenon, <2>1, LenProperties
      <4> HIDE DEF k
      <4> QED BY <4>1
    <3> QED BY Zenon, <3>1, <3>2 DEF RemoveFromWaitSet
  <2> HIDE DEF k
  <2>3. k \in 1..Len(s) /\ Len(s) \in Nat
    BY <2>1
  <2>4. a \in Seq(Thread) /\ Len(a) = k - 1 /\ \A i \in 1..(k - 1) : a[i] = s[i]
    BY <2>3, SubSeqProperties
  <2>5. b \in Seq(Thread) /\ Len(b) = Len(s) - k /\ \A i \in 1..(Len(s) - k) : b[i] = s[k + i]
    BY <2>3, SubSeqProperties
  <2> HIDE DEF a, b
  <2>6. a \o b \in Seq(Thread) /\ Len(a \o b) = Len(s) - 1
    <3>1. a \o b \in Seq(Thread) /\ Len(a \o b) = Len(a) + Len(b)
      BY <2>4, <2>5, ConcatProperties
    <3> QED BY <2>3, <2>4, <2>5, <3>1
  <2>7. ASSUME NEW x \in Range(s), x # y PROVE x \in Range(a \o b)
    <3>1. PICK i \in 1..Len(s) : x = s[i]
      BY DEF Range
    <3>2. i # k
      BY Zenon, <2>1, <2>7, <3>1
    <3>3. CASE i < k
      <4>1. i \in 1..(Len(s) - 1) /\ (a \o b)[i] = x
        BY <2>3, <2>4, <2>5, <3>1, <3>3
      <4>2. i \in DOMAIN (a \o b)
        BY <2>6, <4>1
      <4> QED BY Zenon, <4>1, <4>2 DEF Range
    <3>4. CASE i > k
      <4>1. i - 1 \in 1..(Len(s) - 1) /\ (a \o b)[i - 1] = b[i - k]
        BY <2>3, <2>4, <2>5, <3>4
      <4>2. i - k \in 1..(Len(s) - k) /\ b[i - k] = x
        BY <2>3, <2>5, <3>1, <3>4
      <4>3. i - 1 \in DOMAIN (a \o b)
        BY <2>6, <4>1
      <4> QED BY Zenon, <4>1, <4>2, <4>3 DEF Range
    <3> QED BY <2>3, <3>2, <3>3, <3>4
  <2> QED BY Zenon, <2>2, <2>6, <2>7
<1> QED BY Zenon, <1>1, <1>2

(* Notify: whoever comes before the thread it signals has no wait_monitor_. *)
LEMMA FirstIsWaiting ==
  ASSUME waitSet \in Seq(Thread), waitSet # <<>>
  PROVE  LET last == IF FirstWaiting = 0 THEN Len(waitSet) ELSE FirstWaiting IN
         /\ last \in 1..Len(waitSet)
         /\ \A i \in 1..Len(waitSet) : i < last => waitSet[i] \notin waitMonitor
         /\ FirstWaiting = 0 => \A i \in 1..Len(waitSet) : waitSet[i] \notin waitMonitor
<1> DEFINE I == {i \in 1..Len(waitSet) : waitSet[i] \in waitMonitor}
           k == CHOOSE x \in I : \A z \in I : x <= z
<1>1. Len(waitSet) \in 1..Len(waitSet)
  BY EmptySeq
<1>2. FirstWaiting = IF I # {} THEN k ELSE 0
  BY Zenon DEF FirstWaiting, FirstIndex, Min
<1>3. CASE I = {}
  BY Zenon, <1>1, <1>2, <1>3
<1>4. CASE I # {}
  <2>1. PICK i \in I : TRUE
    BY Zenon, <1>4
  <2>2. \E x \in I : \A z \in I : x <= z
    <3>1. I \in SUBSET Nat /\ I # {}
      BY <2>1
    <3> HIDE DEF I
    <3> QED BY Zenon, <3>1, LeastNatural
  <2>3. k \in I /\ \A z \in I : k <= z
    BY Zenon, <2>2
  <2> HIDE DEF k
  <2>4. k \in 1..Len(waitSet) /\ k # 0 /\ Len(waitSet) \in Nat
    BY <2>3
  <2>5. \A z \in 1..Len(waitSet) : z < k => z \notin I
    BY <2>3, <2>4
  <2> QED BY Zenon, <1>2, <1>4, <2>4, <2>5
<1> QED BY Zenon, <1>3, <1>4

(* An object nobody has locked satisfies the invariant.                     *)
LEMMA MonitorBegins == MonitorInit => Monitored
<1> SUFFICES ASSUME MonitorInit PROVE Monitored
  BY Zenon
<1> USE DEF MonitorInit
<1>1. MonitorTypeOK
  <2>1. word \in WordType /\ fat \in FatType /\ want \in [Thread -> WantType] /\ 0 \in 0..MaxThin
    BY Words, MonitorAssumption
  <2>2. waitSet \in Seq(Thread) /\ mpc \in [Thread -> MonitorPc]
    BY Zenon, EmptySeq DEF MonitorPc, SafePoint
  <2>3. held \in [Thread -> 0..MaxThin] /\ depth \in [Thread -> Nat] /\ saved \in [Thread -> Nat]
    BY Zenon, <2>1
  <2>4. /\ stoppedBy \in [Thread -> SUBSET Thread] /\ inWait = {} /\ waitMonitor = {} /\ interrupted = {}
        /\ wasInterrupted = {} /\ hashes = {} /\ fatal \in BOOLEAN
    BY Zenon
  <2> QED BY Zenon, <2>1, <2>2, <2>3, <2>4 DEF MonitorTypeOK, WordType, FatType, WantType
<1>2. WordShape /\ Stops /\ Waits /\ Owners /\ HashKept
  BY ThreadAssumption DEF WordShape, Stops, StopsAt, Waits, WaitsAt, Owners, OwnersAt, HashKept, UnlockedWord, NoMonitor, ThinOwn, SafePoint
<1>3. NobodyForgotten
  <2>1. BlockedIn = {} /\ Cardinality({}) = 0
    BY Zenon, FS_EmptySet DEF BlockedIn
  <2> QED BY <2>1 DEF NobodyForgotten, NoMonitor, UnlockedWord
<1> QED BY Zenon, <1>1, <1>2, <1>3 DEF Monitored

(* SignalContender and SignalWaiting move a thread on and wake others.     *)
LEMMA Signals ==
  ASSUME MonitorTypeOK, NEW t \in Thread
  PROVE  /\ \A p \in MonitorPc : SignalContender(t, p) =>
              /\ mpc' \in [Thread -> MonitorPc]
              /\ mpc[t] # "contending" => mpc'[t] = p
              /\ \A u \in Thread : u # t => mpc'[u] = mpc[u] \/ (mpc[u] = "contending" /\ mpc'[u] = "woken")
              /\ mpc[t] # "contending" /\ (\E u \in Thread : mpc[u] = "contending")
                   => \E u \in Thread : u # t /\ mpc'[u] = "woken"
         /\ \A S : SignalWaiting(S) =>
              /\ mpc' \in [Thread -> MonitorPc]
              /\ \A u \in Thread : mpc'[u] = IF u \in S \cap waitMonitor /\ mpc[u] = "waiting" THEN "signalled" ELSE mpc[u]
<1>1. mpc \in [Thread -> MonitorPc] /\ "woken" \in MonitorPc /\ "signalled" \in MonitorPc
  BY Zenon DEF MonitorTypeOK, MonitorPc, SafePoint
<1>2. ASSUME NEW p \in MonitorPc, SignalContender(t, p)
      PROVE  /\ mpc' \in [Thread -> MonitorPc]
             /\ mpc[t] # "contending" => mpc'[t] = p
             /\ \A u \in Thread : u # t => mpc'[u] = mpc[u] \/ (mpc[u] = "contending" /\ mpc'[u] = "woken")
             /\ mpc[t] # "contending" /\ (\E u \in Thread : mpc[u] = "contending")
                  => \E u \in Thread : u # t /\ mpc'[u] = "woken"
  BY Zenon, <1>1, <1>2 DEF SignalContender, Goto
<1>3. ASSUME NEW S, SignalWaiting(S)
      PROVE  /\ mpc' \in [Thread -> MonitorPc]
             /\ \A u \in Thread : mpc'[u] = IF u \in S \cap waitMonitor /\ mpc[u] = "waiting" THEN "signalled" ELSE mpc[u]
  BY Zenon, <1>1, <1>3 DEF SignalWaiting
<1> QED BY Zenon, <1>2, <1>3

(* Every step keeps the types.                                              *)
LEMMA MonitorTypesStep == Monitored /\ [MonitorNext]_monitorVars => MonitorTypeOK'
<1> SUFFICES ASSUME Monitored, [MonitorNext]_monitorVars PROVE MonitorTypeOK'
  BY Zenon
<1>0. MonitorTypeOK /\ word \in WordType /\ fat \in FatType /\ want \in [Thread -> WantType]
  BY Zenon, WordFields DEF Monitored
<1>a. ASSUME word' \in WordType, fat' \in FatType, want' \in [Thread -> WantType], mpc' \in [Thread -> MonitorPc],
             held' \in [Thread -> 0..MaxThin], depth' \in [Thread -> Nat], stoppedBy' \in [Thread -> SUBSET Thread],
             hashes' \subseteq Hash, fatal' \in BOOLEAN, UNCHANGED waitVars
      PROVE  MonitorTypeOK'
  BY Zenon, <1>0, <1>a DEF MonitorTypeOK, WordType, FatType, WantType, waitVars
<1>b. /\ mpc \in [Thread -> MonitorPc] /\ held \in [Thread -> 0..MaxThin] /\ depth \in [Thread -> Nat]
      /\ stoppedBy \in [Thread -> SUBSET Thread] /\ hashes \subseteq Hash /\ fatal \in BOOLEAN
      /\ waitSet \in Seq(Thread) /\ saved \in [Thread -> Nat]
  BY Zenon, <1>0 DEF MonitorTypeOK
<1>c. ASSUME NEW t \in Thread, NEW p \in MonitorPc, Goto(t, p) PROVE mpc' \in [Thread -> MonitorPc]
  BY Zenon, <1>b, <1>c DEF Goto
<1>1. ASSUME NEW t \in Thread, BeginEnter(t) \/ BeginHash(t) \/ LookAgain(t) PROVE MonitorTypeOK'
  <2>1. mpc' \in [Thread -> MonitorPc]
    BY Zenon, <1>1, <1>b DEF BeginEnter, BeginHash, LookAgain, Goto, MonitorPc, SafePoint
  <2>2. UNCHANGED <<word, fat, held, want, stoppedBy, depth, hashes, fatal, waitVars>>
    BY Zenon, <1>1 DEF BeginEnter, BeginHash, LookAgain
  <2> QED BY Zenon, <1>0, <1>a, <1>b, <2>1, <2>2
<1>2. ASSUME NEW t \in Thread, EnterRecursive(t) \/ ExitThin(t) PROVE MonitorTypeOK'
  <2>1. mpc' \in [Thread -> MonitorPc]
    BY Zenon, <1>2, <1>b DEF EnterRecursive, ExitThin, Goto, MonitorPc, SafePoint
  <2>2. held' \in [Thread -> 0..MaxThin]
    BY Zenon, <1>2, <1>0, <1>b, WordFields DEF EnterRecursive, ExitThin
  <2>3. UNCHANGED <<word, fat, want, stoppedBy, depth, hashes, fatal, waitVars>>
    BY Zenon, <1>2 DEF EnterRecursive, ExitThin
  <2> QED BY Zenon, <1>0, <1>a, <1>b, <2>1, <2>2, <2>3
<1>3. ASSUME NEW t \in Thread, EnterContended(t) \/ EnterHashed(t) \/ WaitThin(t) \/ HashThin(t) PROVE MonitorTypeOK'
  <2>1. PICK o \in Thread \cup {Nobody}, h \in Hash \cup {NoHash}, b \in {"enter", "wait", "hash"} : Inflate(t, o, h, b)
    BY Zenon, <1>3, <1>0, WordFields DEF EnterContended, EnterHashed, WaitThin, HashThin
  <2>2. [owner |-> o, hash |-> h, back |-> b] \in WantType
    BY Zenon DEF WantType, MonitorPc
  <2>3. want' \in [Thread -> WantType]
    BY Zenon, <1>0, <2>1, <2>2 DEF Inflate
  <2>4. mpc' \in [Thread -> MonitorPc]
    BY Zenon, <1>b, <2>1 DEF Inflate, Goto, MonitorPc, SafePoint
  <2>5. UNCHANGED <<word, fat, held, stoppedBy, depth, hashes, fatal, waitVars>>
    BY Zenon, <2>1 DEF Inflate
  <2> QED BY Zenon, <1>0, <1>a, <1>b, <2>3, <2>4, <2>5
<1>d. ASSUME NEW t \in Thread, GoBack(t)
      PROVE  /\ mpc' \in [Thread -> MonitorPc] /\ want' \in [Thread -> WantType]
             /\ stoppedBy' \in [Thread -> SUBSET Thread]
  <2>1. want[t].back \in MonitorPc
    BY Zenon, <1>0, WordFields
  <2>2. mpc' \in [Thread -> MonitorPc]
    BY Zenon, <1>c, <1>d, <2>1 DEF GoBack
  <2>3. want' \in [Thread -> WantType]
    BY Zenon, <1>0, <1>d, Words DEF GoBack
  <2>4. stoppedBy' \in [Thread -> SUBSET Thread]
    BY <1>b, <1>d DEF GoBack
  <2> QED BY Zenon, <2>2, <2>3, <2>4
<1>4. ASSUME NEW t \in Thread, SuspendOwner(t) \/ SuspendOwnerFails(t) \/ CheckOwner(t) PROVE MonitorTypeOK'
  <2>1. mpc' \in [Thread -> MonitorPc]
    BY Zenon, <1>4, <1>b, <1>d DEF SuspendOwner, SuspendOwnerFails, CheckOwner, Goto, MonitorPc, SafePoint
  <2>2. want' \in [Thread -> WantType] /\ stoppedBy' \in [Thread -> SUBSET Thread]
    BY SMTT(20), <1>4, <1>0, <1>b, <1>d DEF SuspendOwner, SuspendOwnerFails, CheckOwner
  <2>3. UNCHANGED <<word, fat, held, depth, hashes, fatal, waitVars>>
    BY <1>4 DEF SuspendOwner, SuspendOwnerFails, CheckOwner
  <2> QED BY Zenon, <1>0, <1>a, <1>b, <2>1, <2>2, <2>3
<1>5. ASSUME NEW t \in Thread, Install(t) PROVE MonitorTypeOK'
  <2>1. mpc' \in [Thread -> MonitorPc] /\ want' \in [Thread -> WantType] /\ stoppedBy' \in [Thread -> SUBSET Thread]
    BY Zenon, <1>5, <1>d DEF Install
  <2>2. UNCHANGED <<held, depth, hashes, waitVars>>
    BY Zenon, <1>5 DEF Install
  <2>3. fatal' \in BOOLEAN
    BY <1>5, Zenon DEF Install
  <2>4. word' \in WordType
    BY Zenon, <1>5, <1>0, Words DEF Install
  <2>5. fat' \in FatType
    <3>1. [owner |-> want[t].owner, count |-> word.count, waiters |-> 0, hash |-> want[t].hash] \in FatType
      BY <1>0, WordFields DEF FatType
    <3> QED BY Zenon, <1>0, <1>5, <3>1 DEF Install
  <2> QED BY Zenon, <1>a, <1>b, <2>1, <2>2, <2>3, <2>4, <2>5
<1>6. ASSUME NEW t \in Thread, EnterUnlocked(t) \/ EnterStore(t) \/ ExitStore(t) PROVE MonitorTypeOK'
  <2>0. 0 \in 0..MaxThin /\ held[t] \in 0..MaxThin /\ depth[t] \in Nat
    BY <1>b, MonitorAssumption
  <2>1. mpc' \in [Thread -> MonitorPc]
    BY Zenon, <1>6, <1>b DEF EnterUnlocked, EnterStore, ExitStore, Goto, MonitorPc, SafePoint
  <2>2. held' \in [Thread -> 0..MaxThin]
    BY Zenon, <1>6, <1>b, <2>0 DEF EnterUnlocked, EnterStore, ExitStore
  <2>3. UNCHANGED <<fat, want, stoppedBy, hashes, fatal, waitVars>>
    BY Zenon, <1>6 DEF EnterUnlocked, EnterStore, ExitStore
  <2>4. mpc[t] = "exit_store" => depth[t] > 0
    BY Zenon DEF Monitored, Stops, StopsAt, Owners, OwnersAt
  <2>9. depth[t] + 1 \in Nat /\ (mpc[t] = "exit_store" => depth[t] - 1 \in Nat)
    BY <2>0, <2>4
  <2>5. depth' \in [Thread -> Nat]
    BY Zenon, <1>6, <1>b, <2>9 DEF EnterUnlocked, EnterStore, ExitStore
  <2>6. mpc[t] = "enter_store" => held[t] + 1 \in 0..MaxThin
    BY <2>0, MonitorAssumption DEF Monitored, Stops, StopsAt
  <2>7. held[t] # 0 => held[t] - 1 \in 0..MaxThin
    BY <2>0, MonitorAssumption
  <2>8. word' \in WordType
    BY Zenon, <1>6, <2>0, <2>6, <2>7, Words DEF EnterUnlocked, EnterStore, ExitStore
  <2> QED BY Zenon, <1>0, <1>a, <1>b, <2>1, <2>2, <2>3, <2>5, <2>8
<1>7. ASSUME NEW t \in Thread, LockForEnter(t) PROVE MonitorTypeOK'
  <2>1. Waiters(t) \in Nat /\ fat.count + 1 \in Nat
    BY <1>0, <1>7, WaitersCount, WordFields DEF LockForEnter
  <2>2. fat' \in FatType
    BY Zenon, <1>0, <1>7, <2>1 DEF LockForEnter, FatType
  <2>3. mpc' \in [Thread -> MonitorPc] /\ depth' \in [Thread -> Nat]
    BY <1>b, <1>7 DEF LockForEnter, Goto, MonitorPc, SafePoint
  <2>4. fatal' \in BOOLEAN
    BY <1>7, Zenon DEF LockForEnter
  <2>5. UNCHANGED <<word, held, want, stoppedBy, hashes, waitVars>>
    BY Zenon, <1>7 DEF LockForEnter
  <2> QED BY Zenon, <1>0, <1>a, <1>b, <2>2, <2>3, <2>4, <2>5
<1>8. ASSUME NEW t \in Thread, LockForWait(t) PROVE MonitorTypeOK'
  <2>1. Waiters(t) - 1 \in Nat /\ saved[t] \in Nat
    BY <1>b, <1>8, WaitersCount DEF LockForWait
  <2>2. fat' \in FatType
    BY Zenon, <1>0, <1>8, <2>1 DEF LockForWait, FatType
  <2>3. mpc' \in [Thread -> MonitorPc] /\ saved' \in [Thread -> Nat]
    BY Zenon, <1>b, <1>8 DEF LockForWait, Goto, MonitorPc, SafePoint
  <2>4. fatal' \in BOOLEAN
    BY <1>8, Zenon DEF LockForWait
  <2>5. waitSet' \in Seq(Thread)
    BY Zenon, <1>b, <1>8, Removal DEF LockForWait
  <2>6. /\ inWait' = inWait \ {t} /\ wasInterrupted' = wasInterrupted \ {t} /\ interrupted' \subseteq interrupted
        /\ UNCHANGED <<word, held, want, stoppedBy, depth, hashes, waitMonitor>>
    BY Zenon, <1>8 DEF LockForWait
  <2> QED BY Zenon, <1>0, <2>2, <2>3, <2>4, <2>5, <2>6 DEF MonitorTypeOK, FatType
<1>9. ASSUME NEW t \in Thread, LockContended(t) PROVE MonitorTypeOK'
  <2>1. Waiters(t) + 1 \in Nat
    BY <1>9, WaitersCount DEF LockContended
  <2>2. fat' \in FatType
    BY Zenon, <1>0, <1>9, <2>1 DEF LockContended, FatType
  <2>3. mpc' \in [Thread -> MonitorPc]
    BY Zenon, <1>b, <1>9 DEF LockContended, Goto, MonitorPc, SafePoint
  <2>4. UNCHANGED <<word, held, want, stoppedBy, depth, hashes, fatal, waitVars>>
    BY Zenon, <1>9 DEF LockContended
  <2> QED BY Zenon, <1>0, <1>a, <1>b, <2>2, <2>3, <2>4
<1>10. ASSUME NEW t \in Thread, Unlock(t) PROVE MonitorTypeOK'
  <2>1. fat.count # 0 => fat.count - 1 \in Nat
    BY <1>0, WordFields
  <2>2. fat' \in FatType
    BY Zenon, <1>0, <1>10, <2>1 DEF Unlock, FatType
  <2>3. mpc' \in [Thread -> MonitorPc]
    <3>1. "java" \in MonitorPc
      BY Zenon DEF MonitorPc, SafePoint
    <3> QED BY Zenon, <1>0, <1>b, <1>10, <3>1, Signals DEF Unlock
  <2>4. depth' \in [Thread -> Nat]
    BY <1>b, <1>10 DEF Unlock
  <2>5. UNCHANGED <<word, held, want, stoppedBy, hashes, fatal, waitVars>>
    BY Zenon, <1>10 DEF Unlock
  <2> QED BY Zenon, <1>0, <1>a, <1>b, <2>2, <2>3, <2>4, <2>5
<1>11. ASSUME NEW t \in Thread, WaitFat(t) PROVE MonitorTypeOK'
  <2>0. fat.count \in Nat /\ fat.waiters + 1 \in Nat /\ 0 \in Nat
    BY <1>0, WordFields
  <2>1. fat' \in FatType /\ fat.count \in Nat
    BY Zenon, <1>0, <1>11, <2>0 DEF WaitFat, FatType
  <2>2. mpc' \in [Thread -> MonitorPc]
    <3>1. PICK p \in MonitorPc : SignalContender(t, p)
      BY Zenon, <1>11 DEF WaitFat, MonitorPc, SafePoint
    <3> QED BY Zenon, <1>0, <3>1, Signals
  <2>3. waitSet' \in Seq(Thread)
    BY Zenon, <1>b, <1>11, AppendProperties DEF WaitFat
  <2>4. saved' \in [Thread -> Nat]
    BY <1>b, <1>11, <2>1 DEF WaitFat
  <2>5. /\ inWait' = inWait \cup {t} /\ waitMonitor' = waitMonitor \cup {t}
        /\ wasInterrupted' = wasInterrupted \cup ({t} \cap interrupted)
        /\ UNCHANGED <<word, held, want, stoppedBy, depth, interrupted, hashes, fatal>>
    BY Zenon, <1>11 DEF WaitFat
  <2> QED BY Zenon, <1>0, <2>1, <2>2, <2>3, <2>4, <2>5 DEF MonitorTypeOK, FatType
<1>12. ASSUME NEW t \in Thread, WakeUp(t) \/ ResetWaitMonitor(t) PROVE MonitorTypeOK'
  <2>1. mpc' \in [Thread -> MonitorPc]
    BY Zenon, <1>b, <1>12 DEF WakeUp, ResetWaitMonitor, Goto, MonitorPc, SafePoint
  <2>2. mpc[t] \in {"signalled", "waiting"} => t \in inWait
    BY Zenon DEF Monitored, Waits, WaitsAt
  <2>3. /\ interrupted' \subseteq interrupted /\ waitMonitor' \subseteq waitMonitor
        /\ wasInterrupted' \subseteq inWait
        /\ UNCHANGED <<word, fat, held, want, stoppedBy, depth, hashes, fatal, waitSet, inWait, saved>>
    BY Zenon, <1>0, <1>12, <2>2 DEF WakeUp, ResetWaitMonitor, MonitorTypeOK
  <2> QED BY Zenon, <1>0, <2>1, <2>3 DEF MonitorTypeOK
<1>13. ASSUME NEW t \in Thread, Notify(t) \/ NotifyAll(t) \/ Interrupt(t) PROVE MonitorTypeOK'
  <2>1. mpc' \in [Thread -> MonitorPc]
    <3>1. \E S : SignalWaiting(S)
      BY Zenon, <1>13 DEF Notify, NotifyAll, Interrupt
    <3> QED BY Zenon, <1>0, <3>1, Signals
  <2>2. waitSet' \in Seq(Thread)
    <3>1. CASE Notify(t)
      <4> DEFINE last == IF FirstWaiting = 0 THEN Len(waitSet) ELSE FirstWaiting
      <4>1. last \in 1..Len(waitSet) /\ waitSet' = SubSeq(waitSet, last + 1, Len(waitSet))
        BY Zenon, <1>b, <3>1, FirstIsWaiting DEF Notify
      <4> HIDE DEF last
      <4>2. \A i \in (last + 1)..Len(waitSet) : waitSet[i] \in Thread
        BY <1>b, <4>1
      <4>3. last + 1 \in Int /\ Len(waitSet) \in Int
        BY <1>b, <4>1
      <4> QED BY Zenon, <4>1, <4>2, <4>3, SubSeqProperties
    <3>2. CASE NotifyAll(t)
      <4>1. waitSet' = <<>>
        BY <3>2 DEF NotifyAll
      <4> QED BY <4>1, EmptySeq
    <3>3. CASE Interrupt(t)
      <4>1. waitSet' = waitSet
        BY Zenon, <3>3 DEF Interrupt
      <4> QED BY Zenon, <1>b, <4>1
    <3> QED BY Zenon, <1>13, <3>1, <3>2, <3>3
  <2>3. /\ interrupted' \subseteq interrupted \cup {t}
        /\ UNCHANGED <<word, fat, held, want, stoppedBy, depth, hashes, fatal, inWait, saved, waitMonitor, wasInterrupted>>
    BY Zenon, <1>13 DEF Notify, NotifyAll, Interrupt
  <2> QED BY Zenon, <1>0, <2>1, <2>2, <2>3 DEF MonitorTypeOK
<1>14. ASSUME NEW t \in Thread, HashWithoutMonitor(t) PROVE MonitorTypeOK'
  <2>1. mpc' \in [Thread -> MonitorPc]
    BY <1>b, <1>14 DEF HashWithoutMonitor, Goto, MonitorPc, SafePoint
  <2>2. word' \in WordType
    BY <1>0, <1>14, Words DEF HashWithoutMonitor
  <2>3. word'.hash \in Hash
    BY <1>0, <1>14, WordFields DEF HashWithoutMonitor, HashWord, Monitored, WordShape
  <2>4. hashes' \subseteq Hash /\ UNCHANGED <<fat, held, want, stoppedBy, depth, fatal, waitVars>>
    BY Zenon, <1>b, <1>14, <2>3 DEF HashWithoutMonitor
  <2> QED BY <1>0, <1>a, <1>b, <2>1, <2>2, <2>4
<1>15. ASSUME NEW t \in Thread, HashFat(t) PROVE MonitorTypeOK'
  <2>1. mpc' \in [Thread -> MonitorPc]
    BY Zenon, <1>b, <1>15 DEF HashFat, Goto, MonitorPc, SafePoint
  <2>2. PICK h \in Hash : fat' = [fat EXCEPT !.hash = IF @ = NoHash THEN h ELSE @]
    BY Zenon, <1>15 DEF HashFat
  <2>3. fat' \in FatType /\ fat'.hash \in Hash
    BY Zenon, <1>0, <2>2 DEF FatType
  <2>4. hashes' \subseteq Hash /\ UNCHANGED <<word, held, want, stoppedBy, depth, fatal, waitVars>>
    BY Zenon, <1>b, <1>15, <2>3 DEF HashFat
  <2> QED BY Zenon, <1>0, <1>a, <1>b, <2>1, <2>3, <2>4
<1>16. CASE Deflate
  <2>1. fat' \in FatType /\ UNCHANGED <<mpc, held, want, stoppedBy, depth, hashes, fatal, waitVars>>
    BY Zenon, <1>16, Words DEF Deflate
  <2>2. fat.count <= MaxThin => fat.count \in 0..MaxThin
    BY <1>0, WordFields, MonitorAssumption
  <2>3. (fat.owner # Nobody => fat.owner \in Thread) /\ (fat.hash # NoHash => fat.hash \in Hash)
    BY <1>0, WordFields
  <2>4. word' \in WordType
    BY Zenon, <1>16, <2>2, <2>3, Words DEF Deflate
  <2> QED BY Zenon, <1>0, <1>a, <1>b, <2>1, <2>4
<1>17. CASE UNCHANGED monitorVars
  BY Zenon, <1>0, <1>17 DEF monitorVars, MonitorTypeOK
<1> QED BY Zenon, <1>1, <1>2, <1>3, <1>4, <1>5, <1>6, <1>7, <1>8, <1>9, <1>10, <1>11, <1>12, <1>13, <1>14, <1>15, <1>16, <1>17
     DEF MonitorNext, ThreadStep

(* The lock word and the Monitor agree after every step.                   *)
LEMMA ShapeStep == Monitored /\ [MonitorNext]_monitorVars => WordShape'
<1> SUFFICES ASSUME Monitored, [MonitorNext]_monitorVars PROVE WordShape'
  BY Zenon
<1>0. /\ MonitorTypeOK /\ WordShape /\ Stops
      /\ word \in WordType /\ fat \in FatType /\ fat.owner \in Thread \cup {Nobody} /\ fat.hash \in Hash \cup {NoHash}
  BY Zenon, WordFields DEF Monitored
<1>a. ASSUME UNCHANGED <<word, fat>> PROVE WordShape'
  BY Zenon, <1>0, <1>a DEF WordShape
<1>b. ASSUME word.st = "fat", word' = word, fat'.owner = Nobody => fat'.count = 0 PROVE WordShape'
  BY Zenon, <1>0, <1>b DEF WordShape
<1>1. ASSUME NEW t \in Thread, EnterUnlocked(t) \/ EnterStore(t) \/ ExitStore(t) PROVE WordShape'
  <2>1. fat' = fat /\ fat = NoMonitor
    BY Zenon, <1>0, <1>1 DEF EnterUnlocked, EnterStore, ExitStore, WordShape, Stops, StopsAt, ThinOwn
  <2>2. word' = UnlockedWord \/ (\E n : word' = ThinWord(t, n))
    BY Zenon, <1>1 DEF EnterUnlocked, EnterStore, ExitStore
  <2> QED BY <2>1, <2>2 DEF WordShape, UnlockedWord, ThinWord, NoMonitor
<1>2. ASSUME NEW t \in Thread, Install(t) PROVE WordShape'
  <2>1. CASE word.st \in {"thin", "hash"}
    <3>1. Inflating(t)
      BY Zenon, <1>0, <1>2 DEF Install, Stops, StopsAt
    <3>2. want[t].owner = Nobody => word.count = 0
      BY Zenon, <1>0, <2>1, <3>1, ThreadAssumption DEF Inflating, WordShape, ThinOwn
    <3>3. word' = FatWord /\ fat'.owner = want[t].owner /\ fat'.count = word.count
      BY <1>2, <2>1 DEF Install
    <3> QED BY Zenon, <3>2, <3>3 DEF WordShape, FatWord
  <2>2. CASE word.st \notin {"thin", "hash"}
    BY <1>2, <1>a, <2>2 DEF Install
  <2> QED BY Zenon, <2>1, <2>2
<1>3. ASSUME NEW t \in Thread, LockForEnter(t) \/ LockForWait(t) \/ LockContended(t) PROVE WordShape'
  <2>1. word.st = "fat" /\ word' = word
    BY Zenon, <1>3, WaitersCount DEF LockForEnter, LockForWait, LockContended
  <2>2. fat'.owner = Nobody => fat'.count = 0
    BY Zenon, <1>0, <1>3, ThreadAssumption DEF LockForEnter, LockForWait, LockContended, FatType, WordShape
  <2> QED BY Zenon, <1>b, <2>1, <2>2
<1>4. ASSUME NEW t \in Thread, Unlock(t) \/ WaitFat(t) \/ HashFat(t) PROVE WordShape'
  <2>1. word.st = "fat" /\ word' = word
    BY Zenon, <1>4 DEF Unlock, WaitFat, HashFat
  <2>2. fat'.owner = Nobody => fat'.count = 0
    BY Zenon, <1>0, <1>4, ThreadAssumption DEF Unlock, WaitFat, HashFat, FatType, WordShape
  <2> QED BY <1>b, <2>1, <2>2
<1>5. ASSUME NEW t \in Thread, HashWithoutMonitor(t) PROVE WordShape'
  <2>1. CASE word' = word
    BY <1>5, <1>a, <2>1 DEF HashWithoutMonitor
  <2>2. CASE word.st = "unlocked" /\ \E h \in Hash : word' = HashWord(h)
    BY <1>0, <1>5, <2>2, MonitorAssumption DEF HashWithoutMonitor, HashWord, WordShape, NoMonitor, NoHash
  <2> QED BY Zenon, <1>5, <2>1, <2>2 DEF HashWithoutMonitor
<1>6. CASE Deflate
  BY <1>0, <1>6, ThreadAssumption DEF Deflate, WordShape, ThinWord, HashWord, UnlockedWord, NoMonitor
<1>7. ASSUME NEW t \in Thread, BeginEnter(t) \/ EnterRecursive(t) \/ ExitThin(t) \/ LookAgain(t) \/ BeginHash(t) PROVE WordShape'
  BY Zenon, <1>7, <1>a DEF BeginEnter, EnterRecursive, ExitThin, LookAgain, BeginHash
<1>8. ASSUME NEW t \in Thread, EnterContended(t) \/ EnterHashed(t) \/ WaitThin(t) \/ HashThin(t) PROVE WordShape'
  BY <1>8, <1>a DEF EnterContended, EnterHashed, WaitThin, HashThin, Inflate
<1>9. ASSUME NEW t \in Thread, SuspendOwner(t) \/ SuspendOwnerFails(t) \/ CheckOwner(t) PROVE WordShape'
  BY Zenon, <1>9, <1>a DEF SuspendOwner, SuspendOwnerFails, CheckOwner
<1>10. ASSUME NEW t \in Thread, WakeUp(t) \/ ResetWaitMonitor(t) \/ Notify(t) \/ NotifyAll(t) \/ Interrupt(t) PROVE WordShape'
  BY Zenon, <1>10, <1>a DEF WakeUp, ResetWaitMonitor, Notify, NotifyAll, Interrupt
<1>11. CASE UNCHANGED monitorVars
  BY Zenon, <1>11, <1>a DEF monitorVars
<1> QED BY Zenon, <1>1, <1>2, <1>3, <1>4, <1>5, <1>6, <1>7, <1>8, <1>9, <1>10, <1>11 DEF MonitorNext, ThreadStep

(* A thread that does not move, or that goes on where it neither inflates   *)
(* the lock nor is about to store the word, keeps its part of Stops.        *)
LEMMA StopsKept ==
  ASSUME NEW u \in Thread, StopsAt(u),
         \/ /\ mpc'[u] = mpc[u] /\ want'[u] = want[u] /\ held'[u] = held[u]
            /\ \A v \in Thread : u \in stoppedBy[v] => u \in stoppedBy'[v]
         \/ /\ mpc'[u] \notin {"suspend_owner", "owner_stopped", "install", "enter_store", "exit_store"}
            /\ mpc'[u] \notin SafePoint => stoppedBy'[u] = {},
         stoppedBy'[u] \subseteq stoppedBy[u] \/ mpc'[u] \in SafePoint,
         word' = word \/ (word.st = "fat" /\ word'.st = "fat") \/ mpc'[u] \notin {"install", "enter_store", "exit_store"}
  PROVE  StopsAt(u)'
<1>1. CASE mpc'[u] \notin {"suspend_owner", "owner_stopped", "install", "enter_store", "exit_store"}
           /\ (mpc'[u] \notin SafePoint => stoppedBy'[u] = {})
  BY Zenon, <1>1 DEF StopsAt
<1>2. CASE mpc'[u] = mpc[u] /\ want'[u] = want[u] /\ held'[u] = held[u]
           /\ (\A v \in Thread : u \in stoppedBy[v] => u \in stoppedBy'[v])
  <2>1. mpc[u] \notin SafePoint => stoppedBy'[u] = {}
    BY Zenon, <1>2 DEF StopsAt
  <2>2. mpc[u] \in {"enter_store", "exit_store"} => ThinOwn(u)' /\ held'[u] = word'.count
    BY Zenon, <1>2 DEF StopsAt, ThinOwn
  <2>3. mpc[u] = "install" => Inflating(u)'
    BY Zenon, <1>2 DEF StopsAt, Inflating, ThinOwn
  <2>4. mpc[u] = "owner_stopped" => u \in stoppedBy'[want[u].owner]
    BY Zenon, <1>2 DEF StopsAt
  <2> QED BY Zenon, <1>2, <2>1, <2>2, <2>3, <2>4 DEF StopsAt
<1> QED BY Zenon, <1>1, <1>2

(* Nobody inflates, or is about to store, the word of a lock that is free, *)
(* or whose owner is itself about to store it.                             *)
LEMMA NobodyElse ==
  ASSUME Monitored, NEW t \in Thread,
         \/ word.st = "unlocked"
         \/ ThinOwn(t) /\ mpc[t] \in {"enter_store", "exit_store"},
         NEW u \in Thread, u # t \/ word.st = "unlocked"
  PROVE  mpc[u] \notin {"install", "enter_store", "exit_store"}
<1>1. StopsAt(u) /\ StopsAt(t)
  BY Zenon DEF Monitored, Stops
<1>2. mpc[u] \notin {"enter_store", "exit_store"}
  BY Zenon, <1>1 DEF StopsAt, ThinOwn
<1>3. mpc[u] = "install" => FALSE
  <2> SUFFICES ASSUME mpc[u] = "install" PROVE FALSE
    BY Zenon
  <2>1. Inflating(u)
    BY Zenon, <1>1 DEF StopsAt
  <2>2. CASE word.st = "unlocked"
    BY Zenon, <2>1, <2>2 DEF Inflating, ThinOwn
  <2>3. CASE u # t /\ ThinOwn(t) /\ mpc[t] \in {"enter_store", "exit_store"}
    <3>1. u \in stoppedBy[t]
      BY Zenon, <2>1, <2>3 DEF Inflating, ThinOwn
    <3>2. stoppedBy[t] = {}
      BY Zenon, <1>1, <2>3 DEF StopsAt, SafePoint
    <3> QED BY Zenon, <3>1, <3>2
  <2> QED BY <2>2, <2>3
<1> QED BY <1>2, <1>3

(* Every thread keeps its part of Stops in every step.                      *)
LEMMA StopsStep == Monitored /\ [MonitorNext]_monitorVars => Stops'
<1> SUFFICES ASSUME Monitored, [MonitorNext]_monitorVars, NEW u \in Thread PROVE StopsAt(u)'
  BY Zenon DEF Stops
<1>0. /\ MonitorTypeOK /\ WordShape /\ StopsAt(u) /\ (\A v \in Thread : StopsAt(v))
      /\ mpc \in [Thread -> MonitorPc] /\ stoppedBy \in [Thread -> SUBSET Thread] /\ held \in [Thread -> 0..MaxThin]
      /\ want \in [Thread -> WantType]
  <2>1. MonitorTypeOK /\ WordShape /\ Stops
    BY Zenon DEF Monitored
  <2>2. want \in [Thread -> WantType]
    BY Zenon, <2>1, WordFields
  <2>3. mpc \in [Thread -> MonitorPc] /\ stoppedBy \in [Thread -> SUBSET Thread] /\ held \in [Thread -> 0..MaxThin]
    BY Zenon, <2>1 DEF MonitorTypeOK
  <2> QED BY Zenon, <2>1, <2>2, <2>3 DEF Stops
<1>a. ASSUME UNCHANGED <<word, want, held, stoppedBy>>,
             \/ mpc'[u] = mpc[u]
             \/ /\ mpc'[u] \notin {"suspend_owner", "owner_stopped", "install", "enter_store", "exit_store"}
                /\ mpc'[u] \notin SafePoint => stoppedBy[u] = {}
      PROVE  StopsAt(u)'
  BY Zenon, <1>0, <1>a, StopsKept
<1>1. ASSUME NEW t \in Thread, BeginEnter(t) \/ BeginHash(t) \/ LookAgain(t) PROVE StopsAt(u)'
  <2>1. UNCHANGED <<word, want, held, stoppedBy>>
    BY Zenon, <1>1 DEF BeginEnter, BeginHash, LookAgain
  <2>2. \/ mpc'[u] = mpc[u]
        \/ mpc'[u] \in {"enter", "hash"} /\ stoppedBy[u] = {}
        \/ mpc'[u] \in {"contending", "woken"}
    BY Zenon, <1>0, <1>1 DEF BeginEnter, BeginHash, LookAgain, Goto, InJava, Running
  <2> QED BY Zenon, <1>a, <2>1, <2>2 DEF SafePoint
<1>2. ASSUME NEW t \in Thread, EnterRecursive(t) \/ ExitThin(t) PROVE StopsAt(u)'
  <2>1. UNCHANGED <<word, want, stoppedBy>>
    BY <1>2 DEF EnterRecursive, ExitThin
  <2>2. CASE u # t
    <3>1. mpc'[u] = mpc[u] /\ held'[u] = held[u]
      BY <1>0, <1>2, <2>2 DEF EnterRecursive, ExitThin, Goto
    <3> QED BY <1>0, <2>1, <3>1, StopsKept
  <2>3. CASE u = t
    <3>1. mpc'[u] \in {"enter_store", "exit_store"} /\ held'[u] = word.count /\ ThinOwn(u)
      BY Zenon, <1>0, <1>2, <2>3 DEF EnterRecursive, ExitThin, Goto
    <3>2. stoppedBy[u] = {}
      BY Zenon, <1>0, <1>2, <2>3 DEF EnterRecursive, ExitThin, InJava, Running, StopsAt, SafePoint
    <3>3. mpc'[u] = "enter_store" => word.count < MaxThin
      <4>1. word.count \in 0..MaxThin
        BY Zenon, <1>0, WordFields
      <4>2. mpc'[u] = "enter_store" => word.count + 1 <= MaxThin
        BY Zenon, <1>0, <1>2, <2>3 DEF EnterRecursive, ExitThin, Goto
      <4> QED BY <4>1, <4>2, MonitorAssumption
    <3> QED BY Zenon, <2>1, <3>1, <3>2, <3>3 DEF StopsAt, SafePoint, ThinOwn
  <2> QED BY <2>2, <2>3
<1>3. ASSUME NEW t \in Thread, EnterContended(t) \/ EnterHashed(t) \/ WaitThin(t) \/ HashThin(t) PROVE StopsAt(u)'
  <2>1. PICK o \in Thread \cup {Nobody}, h \in Hash \cup {NoHash}, b \in {"enter", "wait", "hash"} :
          /\ Inflate(t, o, h, b)
          /\ \/ word.st = "thin" /\ o = word.owner
             \/ word.st = "hash" /\ o = Nobody /\ h = word.hash
    <3>1. word.owner \in Thread \cup {Nobody} /\ word.hash \in Hash \cup {NoHash}
      BY Zenon, <1>0, WordFields
    <3>2. CASE EnterContended(t)
      BY Zenon, <3>1, <3>2 DEF EnterContended
    <3>3. CASE EnterHashed(t)
      BY Zenon, <3>1, <3>3 DEF EnterHashed
    <3>4. CASE WaitThin(t)
      BY Zenon, <3>1, <3>4 DEF WaitThin, ThinOwn
    <3>5. CASE HashThin(t)
      BY Zenon, <3>1, <3>5 DEF HashThin
    <3> QED BY Zenon, <1>3, <3>2, <3>3, <3>4, <3>5
  <2>2. UNCHANGED <<word, held, stoppedBy>>
    BY Zenon, <2>1 DEF Inflate
  <2>3. CASE u # t
    <3>1. mpc'[u] = mpc[u] /\ want'[u] = want[u]
      BY Zenon, <1>0, <2>1, <2>3 DEF Inflate, Goto
    <3> QED BY Zenon, <1>0, <2>2, <3>1, StopsKept
  <2>4. CASE u = t
    <3>1. want'[u] = [owner |-> o, hash |-> h, back |-> b] /\ mpc'[u] = IF o \in {t, Nobody} THEN "install" ELSE "suspend_owner"
      BY <1>0, <2>1, <2>4 DEF Inflate, Goto
    <3>2. stoppedBy[u] = {}
      BY Zenon, <1>0, <1>3, <2>4 DEF EnterContended, EnterHashed, WaitThin, HashThin, InJava, Running, StopsAt, SafePoint
    <3>3. mpc'[u] = "install" => Inflating(u)'
      BY <1>0, <2>1, <2>2, <2>4, <3>1, ThreadAssumption DEF Inflating, ThinOwn, WordShape
    <3> QED BY <2>1, <2>2, <2>4, <3>1, <3>2, <3>3 DEF StopsAt, SafePoint
  <2> QED BY <2>3, <2>4
<1>b. ASSUME NEW t \in Thread, GoBack(t), mpc[t] \in {"suspend_owner", "owner_stopped", "install"}, stoppedBy[t] = {}, held' = held,
             word' = word \/ (word.st = "fat" /\ word'.st = "fat") \/ (u # t => mpc[u] \notin {"install", "enter_store", "exit_store"})
      PROVE  StopsAt(u)'
  <2>1. CASE u # t
    <3>1. mpc'[u] = mpc[u] /\ want'[u] = want[u] /\ stoppedBy'[u] \subseteq stoppedBy[u]
      BY Zenon, <1>0, <1>b, <2>1 DEF GoBack, Goto
    <3>2. \A v \in Thread : u \in stoppedBy[v] => u \in stoppedBy'[v]
      BY <1>b, <2>1 DEF GoBack
    <3> QED BY Zenon, <1>0, <1>b, <2>1, <3>1, <3>2, StopsKept
  <2>2. CASE u = t
    <3>1. mpc'[u] \in {"enter", "wait", "hash"} /\ stoppedBy'[u] = {}
      BY <1>0, <1>b, <2>2 DEF GoBack, Goto, StopsAt
    <3> QED BY <3>1 DEF StopsAt, SafePoint
  <2> QED BY Zenon, <2>1, <2>2
<1>4. ASSUME NEW t \in Thread, SuspendOwner(t) PROVE StopsAt(u)'
  <2>1. UNCHANGED <<word, want, held>>
    BY <1>4 DEF SuspendOwner
  <2>2. want[t].owner \in Thread \ {t} /\ mpc[t] = "suspend_owner" /\ want[t].back \in {"enter", "wait", "hash"}
    BY Zenon, <1>0, <1>4 DEF SuspendOwner, StopsAt
  <2>3. /\ \A v, w \in Thread : v \in stoppedBy[w] => v \in stoppedBy'[w]
        /\ t \in stoppedBy'[want[t].owner]
        /\ stoppedBy'[u] = stoppedBy[u] \/ (u = want[t].owner /\ mpc[u] \in SafePoint)
    BY <1>0, <1>4, <2>2 DEF SuspendOwner
  <2>4. CASE u # t
    <3>1. mpc'[u] = mpc[u]
      BY Zenon, <1>0, <1>4, <2>4 DEF SuspendOwner, Goto
    <3> QED BY Zenon, <1>0, <2>1, <2>3, <3>1, StopsKept
  <2>5. CASE u = t
    <3>1. mpc'[u] = "owner_stopped"
      BY Zenon, <1>0, <1>4, <2>5 DEF SuspendOwner, Goto
    <3> QED BY Zenon, <2>1, <2>2, <2>3, <2>5, <3>1 DEF StopsAt, SafePoint
  <2> QED BY <2>4, <2>5
<1>5. ASSUME NEW t \in Thread, SuspendOwnerFails(t) PROVE StopsAt(u)'
  <2>1. GoBack(t) /\ mpc[t] = "suspend_owner" /\ stoppedBy[t] = {} /\ held' = held /\ word' = word
    BY Zenon, <1>5 DEF SuspendOwnerFails, Running
  <2> QED BY Zenon, <1>b, <2>1
<1>6. ASSUME NEW t \in Thread, CheckOwner(t) PROVE StopsAt(u)'
  <2>1. mpc[t] = "owner_stopped" /\ stoppedBy[t] = {} /\ held' = held /\ word' = word
    BY Zenon, <1>6 DEF CheckOwner, Running
  <2>2. CASE GoBack(t)
    BY <1>b, <2>1, <2>2
  <2>3. CASE word.st = "thin" /\ word.owner = want[t].owner /\ Goto(t, "install") /\ UNCHANGED <<stoppedBy, want>>
    <3>1. CASE u # t
      <4>1. mpc'[u] = mpc[u]
        BY Zenon, <1>0, <2>3, <3>1 DEF Goto
      <4> QED BY Zenon, <1>a, <2>1, <2>3, <4>1
    <3>2. CASE u = t
      <4>1. mpc'[u] = "install"
        BY Zenon, <1>0, <2>3, <3>2 DEF Goto
      <4>2. Inflating(u)'
        BY Zenon, <1>0, <2>1, <2>3, <3>2 DEF Inflating, ThinOwn, StopsAt
      <4> QED BY Zenon, <1>0, <2>1, <2>3, <3>2, <4>1, <4>2 DEF StopsAt
    <3> QED BY Zenon, <3>1, <3>2
  <2> QED BY <1>6, <2>2, <2>3 DEF CheckOwner
<1>7. ASSUME NEW t \in Thread, Install(t) PROVE StopsAt(u)'
  <2>1. GoBack(t) /\ mpc[t] = "install" /\ stoppedBy[t] = {} /\ held' = held /\ Inflating(t)
    BY <1>0, <1>7 DEF Install, StopsAt, SafePoint
  <2>2. CASE word.st \notin {"thin", "hash"}
    BY Zenon, <1>7, <1>b, <2>1, <2>2 DEF Install
  <2>3. CASE word.st \in {"thin", "hash"}
    <3>1. CASE u = t
      BY Zenon, <1>b, <2>1, <3>1
    <3>2. CASE u # t
      <4>1. mpc'[u] = mpc[u] /\ want'[u] = want[u] /\ stoppedBy'[u] \subseteq stoppedBy[u]
        BY Zenon, <1>0, <2>1, <3>2 DEF GoBack, Goto
      <4>2. \A v \in Thread : u \in stoppedBy[v] => u \in stoppedBy'[v]
        BY Zenon, <2>1, <3>2 DEF GoBack
      <4>3. word'.st = "fat"
        BY <1>7, <2>3 DEF Install, FatWord
      <4>4. mpc[u] \notin SafePoint => ~ThinOwn(u)
        BY <1>0, <2>1, <2>3, <3>2, ThreadAssumption DEF StopsAt, Inflating, ThinOwn
      <4>5. mpc[u] \notin {"enter_store", "exit_store"}
        BY Zenon, <1>0, <4>4 DEF StopsAt, SafePoint
      <4>6. CASE mpc[u] = "install"
        <5>1. Inflating(u) /\ ~ThinOwn(u)
          BY Zenon, <1>0, <4>4, <4>6 DEF StopsAt, SafePoint
        <5>2. \/ want[u].owner = Nobody
              \/ want[u].owner \in Thread \ {u} /\ u \in stoppedBy[want[u].owner]
          BY Zenon, <5>1 DEF Inflating
        <5>3. Inflating(u)'
          BY <4>1, <4>2, <4>3, <5>2 DEF Inflating
        <5> QED BY <1>0, <4>1, <4>6, <5>3 DEF StopsAt
      <4>7. CASE mpc[u] # "install"
        BY Zenon, <1>0, <2>1, <4>1, <4>2, <4>5, <4>7, StopsKept
      <4> QED BY Zenon, <4>6, <4>7
    <3> QED BY Zenon, <3>1, <3>2
  <2> QED BY Zenon, <2>2, <2>3
<1>8. ASSUME NEW t \in Thread, EnterUnlocked(t) \/ EnterStore(t) \/ ExitStore(t) PROVE StopsAt(u)'
  <2>1. /\ UNCHANGED <<want, stoppedBy>> /\ mpc'[t] = "java"
        /\ u # t => mpc'[u] = mpc[u] /\ held'[u] = held[u]
    BY <1>0, <1>8 DEF EnterUnlocked, EnterStore, ExitStore, Goto
  <2>2. word.st = "unlocked" \/ (ThinOwn(t) /\ mpc[t] \in {"enter_store", "exit_store"})
    BY Zenon, <1>0, <1>8 DEF EnterUnlocked, EnterStore, ExitStore, StopsAt
  <2>3. u # t => mpc[u] \notin {"install", "enter_store", "exit_store"}
    BY <2>2, NobodyElse
  <2>4. CASE u # t
    BY <1>0, <2>1, <2>3, <2>4, StopsKept
  <2>5. CASE u = t
    BY <1>0, <2>1, <2>5, StopsKept DEF SafePoint
  <2> QED BY Zenon, <2>4, <2>5
<1>9. ASSUME NEW t \in Thread, HashWithoutMonitor(t) PROVE StopsAt(u)'
  <2>1. /\ UNCHANGED <<want, held, stoppedBy>> /\ mpc'[t] = "java"
        /\ u # t => mpc'[u] = mpc[u]
    BY <1>0, <1>9 DEF HashWithoutMonitor, Goto
  <2>2. word' = word \/ word.st = "unlocked"
    BY Zenon, <1>9 DEF HashWithoutMonitor
  <2>3. word' = word \/ mpc[u] \notin {"install", "enter_store", "exit_store"}
    BY <2>2, NobodyElse
  <2>4. CASE u # t
    BY Zenon, <1>0, <2>1, <2>3, <2>4, StopsKept
  <2>5. CASE u = t
    BY Zenon, <1>0, <2>1, <2>5, StopsKept DEF SafePoint
  <2> QED BY Zenon, <2>4, <2>5
<1>10. ASSUME NEW t \in Thread, LockForEnter(t) \/ LockForWait(t) \/ LockContended(t) \/ HashFat(t) PROVE StopsAt(u)'
  <2>1. UNCHANGED <<word, want, held, stoppedBy>>
    BY Zenon, <1>10 DEF LockForEnter, LockForWait, LockContended, HashFat
  <2>2. mpc'[u] = mpc[u] \/ mpc'[u] \in {"java", "blocked"}
    BY Zenon, <1>0, <1>10 DEF LockForEnter, LockForWait, LockContended, HashFat, Goto
  <2> QED BY Zenon, <1>a, <2>1, <2>2 DEF SafePoint
<1>11. ASSUME NEW t \in Thread, Unlock(t) \/ WaitFat(t) PROVE StopsAt(u)'
  <2>1. UNCHANGED <<word, want, held, stoppedBy>>
    BY Zenon, <1>11 DEF Unlock, WaitFat
  <2>2. mpc' = mpc \/ (\E p \in {"java", "awake", "waiting"} : SignalContender(t, p))
    BY Zenon, <1>11 DEF Unlock, WaitFat
  <2>3. mpc[t] # "contending"
    BY Zenon, <1>11 DEF Unlock, WaitFat, InJava
  <2>4. mpc'[u] = mpc[u] \/ mpc'[u] \in {"java", "awake", "waiting", "woken"}
    BY Zenon, <1>0, <2>2, <2>3 DEF SignalContender, Goto
  <2> QED BY <1>a, <2>1, <2>4 DEF SafePoint
<1>12. ASSUME NEW t \in Thread, WakeUp(t) \/ ResetWaitMonitor(t) PROVE StopsAt(u)'
  <2>1. UNCHANGED <<word, want, held, stoppedBy>>
    BY Zenon, <1>12 DEF WakeUp, ResetWaitMonitor
  <2>2. mpc'[u] = mpc[u] \/ mpc'[u] = "awake" \/ (mpc'[u] = "relock" /\ stoppedBy[u] = {})
    BY Zenon, <1>0, <1>12 DEF WakeUp, ResetWaitMonitor, Goto, Running
  <2> QED BY Zenon, <1>a, <2>1, <2>2 DEF SafePoint
<1>13. ASSUME NEW t \in Thread, Notify(t) \/ NotifyAll(t) \/ Interrupt(t) PROVE StopsAt(u)'
  <2>1. UNCHANGED <<word, want, held, stoppedBy>>
    BY Zenon, <1>13 DEF Notify, NotifyAll, Interrupt
  <2>2. \E S : SignalWaiting(S)
    BY Zenon, <1>13 DEF Notify, NotifyAll, Interrupt
  <2>3. mpc'[u] = mpc[u] \/ mpc'[u] = "signalled"
    BY Zenon, <1>0, <2>2, Signals
  <2> QED BY <1>a, <2>1, <2>3 DEF SafePoint
<1>14. CASE Deflate
  <2>1. UNCHANGED <<mpc, want, held, stoppedBy>> /\ mpc[u] \in SafePoint
    BY Zenon, <1>14 DEF Deflate
  <2>2. mpc[u] \notin {"install", "enter_store", "exit_store"}
    BY Zenon, <2>1 DEF SafePoint
  <2> QED BY <1>0, <2>1, <2>2, StopsKept
<1>15. CASE UNCHANGED monitorVars
  BY Zenon, <1>15, <1>a DEF monitorVars
<1> QED BY Zenon, <1>1, <1>2, <1>3, <1>4, <1>5, <1>6, <1>7, <1>8, <1>9, <1>10, <1>11, <1>12, <1>13, <1>14, <1>15 DEF MonitorNext, ThreadStep

(* A thread is inside Wait exactly where the code of Wait is.               *)
LEMMA WaitsStep == Monitored /\ [MonitorNext]_monitorVars => Waits'
<1> SUFFICES ASSUME Monitored, [MonitorNext]_monitorVars, NEW u \in Thread PROVE WaitsAt(u)'
  BY Zenon DEF Waits
<1>0. /\ MonitorTypeOK /\ WaitsAt(u) /\ (\A v \in Thread : WaitsAt(v) /\ StopsAt(v) /\ OwnersAt(v))
      /\ mpc \in [Thread -> MonitorPc] /\ depth \in [Thread -> Nat] /\ saved \in [Thread -> Nat]
  <2>1. MonitorTypeOK /\ Stops /\ Waits /\ Owners
    BY Zenon DEF Monitored
  <2>2. mpc \in [Thread -> MonitorPc] /\ depth \in [Thread -> Nat] /\ saved \in [Thread -> Nat]
    BY Zenon, <2>1 DEF MonitorTypeOK
  <2> QED BY Zenon, <2>1, <2>2 DEF Stops, Waits, Owners
<1> DEFINE Inside == {"waiting", "signalled", "awake", "relock", "blocked", "contending", "woken"}
<1>a. ASSUME inWait' = inWait, saved' = saved, u \in inWait => depth'[u] = depth[u],
             \/ mpc'[u] = mpc[u]
             \/ u \in inWait /\ mpc'[u] \in Inside
             \/ u \notin inWait /\ mpc'[u] \notin {"waiting", "signalled", "awake", "relock"}
      PROVE  WaitsAt(u)'
  BY Zenon, <1>0, <1>a DEF WaitsAt
<1>1. ASSUME NEW t \in Thread, BeginEnter(t) \/ BeginHash(t) \/ EnterRecursive(t) \/ ExitThin(t) PROVE WaitsAt(u)'
  <2>1. UNCHANGED <<inWait, saved, depth>>
    BY Zenon, <1>1 DEF BeginEnter, BeginHash, EnterRecursive, ExitThin, waitVars
  <2>2. mpc[t] \in {"java", "enter"} /\ \E p \in {"enter", "hash", "enter_store", "exit_store"} : Goto(t, p)
    BY Zenon, <1>1 DEF BeginEnter, BeginHash, EnterRecursive, ExitThin, InJava
  <2>3. mpc'[u] = mpc[u] \/ (u \notin inWait /\ mpc'[u] \in {"enter", "hash", "enter_store", "exit_store"})
    BY Zenon, <1>0, <2>2 DEF Goto, WaitsAt
  <2> QED BY <1>a, <2>1, <2>3
<1>2. ASSUME NEW t \in Thread, EnterContended(t) \/ EnterHashed(t) \/ WaitThin(t) \/ HashThin(t) PROVE WaitsAt(u)'
  <2>1. UNCHANGED <<inWait, saved, depth>>
    BY Zenon, <1>2 DEF EnterContended, EnterHashed, WaitThin, HashThin, Inflate, waitVars
  <2>2. mpc[t] \in {"java", "enter", "hash"} /\ \E p \in {"install", "suspend_owner"} : Goto(t, p)
    BY Zenon, <1>2 DEF EnterContended, EnterHashed, WaitThin, HashThin, Inflate, InJava
  <2>3. mpc'[u] = mpc[u] \/ (u \notin inWait /\ mpc'[u] \in {"install", "suspend_owner"})
    BY <1>0, <2>2 DEF Goto, WaitsAt
  <2> QED BY Zenon, <1>a, <2>1, <2>3
<1>3. ASSUME NEW t \in Thread, SuspendOwner(t) \/ SuspendOwnerFails(t) \/ CheckOwner(t) \/ Install(t) PROVE WaitsAt(u)'
  <2>0. Install(t) => UNCHANGED <<inWait, saved, depth>> /\ mpc[t] = "install" /\ Goto(t, want[t].back)
    BY Zenon DEF Install, GoBack, waitVars
  <2>1. UNCHANGED <<inWait, saved, depth>>
    BY <1>3, <2>0 DEF SuspendOwner, SuspendOwnerFails, CheckOwner, waitVars
  <2>2. mpc[t] \in {"suspend_owner", "owner_stopped", "install"}
    BY Zenon, <1>3, <2>0 DEF SuspendOwner, SuspendOwnerFails, CheckOwner
  <2>3. want[t].back \in {"enter", "wait", "hash"}
    BY <1>0, <2>2 DEF StopsAt
  <2>4. \E p \in {"owner_stopped", "install", "enter", "wait", "hash"} : Goto(t, p)
    BY <1>3, <2>0, <2>3 DEF SuspendOwner, SuspendOwnerFails, CheckOwner, GoBack
  <2>5. mpc'[u] = mpc[u] \/ (u \notin inWait /\ mpc'[u] \in {"owner_stopped", "install", "enter", "wait", "hash"})
    BY Zenon, <1>0, <2>2, <2>4 DEF Goto, WaitsAt
  <2> QED BY Zenon, <1>a, <2>1, <2>5
<1>4. ASSUME NEW t \in Thread, EnterUnlocked(t) \/ EnterStore(t) \/ ExitStore(t) \/ HashWithoutMonitor(t) \/ HashFat(t) PROVE WaitsAt(u)'
  <2>1. UNCHANGED <<inWait, saved>> /\ (u # t => depth'[u] = depth[u])
    BY <1>0, <1>4 DEF EnterUnlocked, EnterStore, ExitStore, HashWithoutMonitor, HashFat, waitVars
  <2>2. mpc[t] \in {"enter", "enter_store", "exit_store", "hash"} /\ Goto(t, "java")
    BY <1>4 DEF EnterUnlocked, EnterStore, ExitStore, HashWithoutMonitor, HashFat
  <2>3. t \notin inWait /\ (mpc'[u] = mpc[u] \/ (u = t /\ mpc'[u] = "java"))
    BY <1>0, <2>2 DEF Goto, WaitsAt
  <2> QED BY Zenon, <1>a, <2>1, <2>3
<1>5. ASSUME NEW t \in Thread, LockForEnter(t) PROVE WaitsAt(u)'
  <2>1. UNCHANGED <<inWait, saved>> /\ (u # t => depth'[u] = depth[u]) /\ t \notin inWait
    BY <1>0, <1>5 DEF LockForEnter, waitVars
  <2>2. mpc'[u] = mpc[u] \/ (u = t /\ mpc'[u] = "java")
    BY <1>0, <1>5 DEF LockForEnter, Goto
  <2> QED BY <1>a, <2>1, <2>2
<1>6. ASSUME NEW t \in Thread, LockForWait(t) PROVE WaitsAt(u)'
  <2>1. inWait' = inWait \ {t} /\ depth' = depth /\ (u # t => saved'[u] = saved[u])
    BY <1>0, <1>6 DEF LockForWait
  <2>2. IF u = t THEN mpc'[u] = "java" ELSE mpc'[u] = mpc[u]
    BY Zenon, <1>0, <1>6 DEF LockForWait, Goto
  <2> QED BY Zenon, <1>0, <2>1, <2>2 DEF WaitsAt
<1>7. ASSUME NEW t \in Thread, LockContended(t) \/ LookAgain(t) PROVE WaitsAt(u)'
  <2>1. UNCHANGED <<inWait, saved, depth>>
    BY <1>7 DEF LockContended, LookAgain, waitVars
  <2>2. mpc'[u] = mpc[u] \/ mpc'[u] \in {"blocked", "contending", "woken"}
    BY Zenon, <1>0, <1>7 DEF LockContended, LookAgain, Goto
  <2> QED BY Zenon, <1>a, <2>1, <2>2
<1>8. ASSUME NEW t \in Thread, Unlock(t) PROVE WaitsAt(u)'
  <2>1. UNCHANGED <<inWait, saved>> /\ (u # t => depth'[u] = depth[u]) /\ mpc[t] = "java"
    BY Zenon, <1>0, <1>8 DEF Unlock, InJava, waitVars
  <2>2. t \notin inWait
    BY Zenon, <1>0, <2>1 DEF WaitsAt
  <2>3. "java" \in MonitorPc
    BY Zenon DEF MonitorPc, SafePoint
  <2>4. mpc' = mpc \/ SignalContender(t, "java")
    BY Zenon, <1>8 DEF Unlock
  <2>5. mpc'[u] = mpc[u] \/ (u = t /\ mpc'[u] = "java") \/ (mpc[u] = "contending" /\ mpc'[u] = "woken")
    BY Zenon, <1>0, <2>1, <2>3, <2>4, Signals
  <2> QED BY Zenon, <1>0, <1>a, <2>1, <2>2, <2>5
<1>9. ASSUME NEW t \in Thread, WaitFat(t) PROVE WaitsAt(u)'
  <2>1. /\ inWait' = inWait \cup {t} /\ UNCHANGED depth /\ mpc[t] \in {"wait", "java"}
        /\ \A v \in Thread : saved'[v] = IF v = t THEN fat.count ELSE saved[v]
    BY Zenon, <1>0, <1>9 DEF WaitFat, InJava
  <2>2. PICK p \in {"awake", "waiting"} : SignalContender(t, p)
    BY Zenon, <1>9 DEF WaitFat
  <2>3. p \in MonitorPc
    BY Zenon DEF MonitorPc, SafePoint
  <2>4. mpc'[t] = p /\ (u # t => mpc'[u] = mpc[u] \/ (mpc[u] = "contending" /\ mpc'[u] = "woken"))
    BY Zenon, <1>0, <2>1, <2>2, <2>3, Signals
  <2>5. depth[t] > 0 /\ fat.count = depth[t] - 1
    BY Zenon, <1>0, <1>9 DEF WaitFat, OwnersAt, Records, ThinOwn
  <2>6. CASE u = t
    BY Zenon, <2>1, <2>4, <2>5, <2>6 DEF WaitsAt
  <2>7. CASE u # t
    BY <1>0, <2>1, <2>4, <2>7 DEF WaitsAt
  <2> QED BY <2>6, <2>7
<1>10. ASSUME NEW t \in Thread, WakeUp(t) \/ ResetWaitMonitor(t) PROVE WaitsAt(u)'
  <2>1. UNCHANGED <<inWait, saved, depth>> /\ t \in inWait
    BY Zenon, <1>0, <1>10 DEF WakeUp, ResetWaitMonitor, WaitsAt
  <2>2. mpc'[u] = mpc[u] \/ (u = t /\ mpc'[u] \in {"awake", "relock"})
    BY Zenon, <1>0, <1>10 DEF WakeUp, ResetWaitMonitor, Goto
  <2> QED BY Zenon, <1>a, <2>1, <2>2
<1>11. ASSUME NEW t \in Thread, Notify(t) \/ NotifyAll(t) \/ Interrupt(t) PROVE WaitsAt(u)'
  <2>1. UNCHANGED <<inWait, saved, depth>>
    BY Zenon, <1>11 DEF Notify, NotifyAll, Interrupt
  <2>2. \E S : SignalWaiting(S)
    BY Zenon, <1>11 DEF Notify, NotifyAll, Interrupt
  <2>3. mpc'[u] = mpc[u] \/ (mpc[u] = "waiting" /\ mpc'[u] = "signalled")
    BY <1>0, <2>2, Signals
  <2>4. mpc[u] = "waiting" => u \in inWait
    BY Zenon, <1>0 DEF WaitsAt
  <2> QED BY Zenon, <1>a, <2>1, <2>3, <2>4
<1>12. CASE Deflate \/ UNCHANGED monitorVars
  <2>1. UNCHANGED <<inWait, saved, depth, mpc>>
    BY Zenon, <1>12 DEF Deflate, monitorVars, waitVars
  <2> QED BY Zenon, <1>a, <2>1
<1> QED BY Zenon, <1>1, <1>2, <1>3, <1>4, <1>5, <1>6, <1>7, <1>8, <1>9, <1>10, <1>11, <1>12 DEF MonitorNext, ThreadStep

(* The lock is recorded for the thread inside after every step.             *)
LEMMA OwnersStep == Monitored /\ [MonitorNext]_monitorVars => Owners'
<1> SUFFICES ASSUME Monitored, [MonitorNext]_monitorVars, NEW u \in Thread PROVE OwnersAt(u)'
  BY Zenon DEF Owners
<1>0. /\ MonitorTypeOK /\ WordShape /\ OwnersAt(u) /\ (\A v \in Thread : WaitsAt(v) /\ StopsAt(v) /\ OwnersAt(v))
      /\ depth \in [Thread -> Nat] /\ saved \in [Thread -> Nat] /\ held \in [Thread -> 0..MaxThin] /\ fat \in FatType
      /\ word.count \in Nat /\ fat.count \in Nat
  <2>1. MonitorTypeOK /\ WordShape /\ Stops /\ Waits /\ Owners
    BY Zenon DEF Monitored
  <2>2. depth \in [Thread -> Nat] /\ saved \in [Thread -> Nat] /\ held \in [Thread -> 0..MaxThin]
    BY Zenon, <2>1 DEF MonitorTypeOK
  <2>3. fat \in FatType /\ word.count \in 0..MaxThin /\ fat.count \in Nat
    BY Zenon, <2>1, WordFields
  <2> QED BY <2>1, <2>2, <2>3, MonitorAssumption DEF Stops, Waits, Owners
<1>z. word.st # "fat" => inWait = {}
  BY Zenon DEF Monitored, NobodyForgotten
<1>a. ASSUME word' = word, fat'.owner = fat.owner, fat'.count = fat.count, UNCHANGED <<depth, inWait>> PROVE OwnersAt(u)'
  BY Zenon, <1>0, <1>a DEF OwnersAt, Records, ThinOwn
<1>b. ASSUME NEW t \in Thread, u # t, depth'[u] = depth[u], u \in inWait <=> u \in inWait',
             fat.owner \in {t, Nobody}, ThinOwn(t) \/ word.st # "thin", fat'.owner \in {t, Nobody},
             word'.st = "thin" => word'.owner = t
      PROVE  OwnersAt(u)'
  BY Zenon, <1>0, <1>b, ThreadAssumption DEF OwnersAt, Records, ThinOwn
<1>1. ASSUME NEW t \in Thread, EnterUnlocked(t) PROVE OwnersAt(u)'
  <2>1. /\ word.st = "unlocked" /\ fat' = fat /\ fat.owner = Nobody /\ inWait' = inWait /\ word' = ThinWord(t, 0)
        /\ \A v \in Thread : depth'[v] = IF v = t THEN depth[v] + 1 ELSE depth[v]
    BY <1>0, <1>1 DEF EnterUnlocked, waitVars, WordShape, NoMonitor
  <2>2. depth[t] = 0
    BY <1>0, <1>z, <2>1, ThreadAssumption DEF OwnersAt, Records, ThinOwn
  <2>3. CASE u = t
    BY <1>z, <2>1, <2>2, <2>3 DEF OwnersAt, Records, ThinOwn, ThinWord
  <2>4. CASE u # t
    BY Zenon, <1>b, <2>1, <2>4 DEF ThinWord
  <2> QED BY Zenon, <2>3, <2>4
<1>2. ASSUME NEW t \in Thread, EnterStore(t) \/ ExitStore(t) PROVE OwnersAt(u)'
  <2>1. ThinOwn(t) /\ held[t] = word.count /\ fat' = fat /\ fat.owner = Nobody /\ inWait' = inWait /\ inWait = {}
    BY <1>0, <1>2, <1>z DEF EnterStore, ExitStore, waitVars, StopsAt, WordShape, NoMonitor, ThinOwn
  <2>2. depth[t] > 0 /\ word.count = depth[t] - 1 /\ depth[t] \in Nat
    BY Zenon, <1>0, <2>1 DEF OwnersAt, Records, ThinOwn
  <2>3. CASE u # t
    <3>1. depth'[u] = depth[u] /\ (word'.st = "thin" => word'.owner = t)
      BY <1>0, <1>2, <2>3 DEF EnterStore, ExitStore, ThinWord, UnlockedWord
    <3> QED BY Zenon, <1>b, <2>1, <2>3, <3>1
  <2>4. CASE u = t /\ EnterStore(t)
    <3>1. word' = ThinWord(t, held[t] + 1) /\ depth'[t] = depth[t] + 1
      BY <1>0, <2>4 DEF EnterStore
    <3> QED BY <2>1, <2>2, <2>4, <3>1 DEF OwnersAt, Records, ThinOwn, ThinWord
  <2>5. CASE u = t /\ ExitStore(t)
    <3>1. word' = (IF held[t] # 0 THEN ThinWord(t, held[t] - 1) ELSE UnlockedWord) /\ depth'[t] = depth[t] - 1
      BY Zenon, <1>0, <2>5 DEF ExitStore
    <3>2. CASE held[t] # 0
      <4>1. word'.st = "thin" /\ word'.owner = t /\ word'.count = held[t] - 1
        BY Zenon, <3>1, <3>2 DEF ThinWord
      <4>2. depth'[t] > 0 /\ word'.count = depth'[t] - 1
        BY <1>0, <2>1, <2>2, <3>1, <3>2, <4>1
      <4> QED BY <2>1, <2>5, <4>1, <4>2 DEF OwnersAt, Records, ThinOwn
    <3>3. CASE held[t] = 0
      <4>1. word'.st = "unlocked" /\ ~(depth'[t] > 0)
        BY <2>1, <2>2, <3>1, <3>3 DEF UnlockedWord
      <4> QED BY Zenon, <2>1, <2>5, <4>1, ThreadAssumption DEF OwnersAt, ThinOwn
    <3> QED BY Zenon, <3>2, <3>3
  <2> QED BY Zenon, <1>2, <2>3, <2>4, <2>5
<1>3. ASSUME NEW t \in Thread, Install(t) PROVE OwnersAt(u)'
  <2>1. UNCHANGED <<depth, inWait>> /\ Inflating(t)
    BY Zenon, <1>0, <1>3 DEF Install, waitVars, StopsAt
  <2>2. CASE word.st \notin {"thin", "hash"}
    <3>1. word' = word /\ fat' = fat
      BY Zenon, <1>3, <2>2 DEF Install
    <3> QED BY Zenon, <1>a, <2>1, <3>1
  <2>3. CASE word.st \in {"thin", "hash"}
    <3>1. word'.st = "fat" /\ fat'.owner = want[t].owner /\ fat'.count = word.count /\ fat.owner = Nobody
      BY <1>0, <1>3, <2>3 DEF Install, FatWord, WordShape, NoMonitor
    <3>2. want[t].owner = word.owner
      BY <1>0, <2>1, <2>3 DEF Inflating, ThinOwn, WordShape
    <3>3. word.st = "hash" => word.owner = Nobody
      BY Zenon, <1>0 DEF WordShape
    <3> QED BY Zenon, <1>0, <2>1, <2>3, <3>1, <3>2, <3>3, ThreadAssumption DEF OwnersAt, Records, ThinOwn
  <2> QED BY Zenon, <2>2, <2>3
<1>4. ASSUME NEW t \in Thread, LockForEnter(t) PROVE OwnersAt(u)'
  <2>1. /\ word.st = "fat" /\ word' = word /\ inWait' = inWait /\ t \notin inWait /\ fat.owner \in {Nobody, t}
        /\ \A v \in Thread : depth'[v] = IF v = t THEN depth[v] + 1 ELSE depth[v]
    BY Zenon, <1>0, <1>4, WaitersCount DEF LockForEnter, waitVars
  <2>2. fat'.owner = t /\ fat'.count = IF fat.owner = t THEN fat.count + 1 ELSE fat.count
    BY <1>0, <1>4 DEF LockForEnter, FatType
  <2>3. CASE u # t
    BY Zenon, <1>b, <2>1, <2>2, <2>3
  <2>4. CASE u = t
    <3>1. fat.owner = t => depth[t] > 0 /\ fat.count = depth[t] - 1
      BY <1>0, <2>1 DEF OwnersAt, Records, ThinOwn
    <3>2. fat.owner = Nobody => depth[t] = 0 /\ fat.count = 0
      BY <1>0, <2>1, ThreadAssumption DEF OwnersAt, Records, ThinOwn, WordShape
    <3>3. depth'[t] > 0 /\ fat'.count = depth'[t] - 1
      BY <1>0, <2>1, <2>2, <3>1, <3>2, ThreadAssumption
    <3> QED BY Zenon, <2>1, <2>2, <2>4, <3>3 DEF OwnersAt, Records
  <2> QED BY Zenon, <2>3, <2>4
<1>5. ASSUME NEW t \in Thread, LockForWait(t) PROVE OwnersAt(u)'
  <2>1. /\ word.st = "fat" /\ word' = word /\ inWait' = inWait \ {t} /\ t \in inWait /\ fat.owner = Nobody /\ depth' = depth
    BY Zenon, <1>5, WaitersCount DEF LockForWait
  <2>2. fat'.owner = t /\ fat'.count = saved[t]
    BY Zenon, <1>0, <1>5 DEF LockForWait, FatType
  <2>3. CASE u # t
    BY Zenon, <1>b, <2>1, <2>2, <2>3
  <2>4. CASE u = t
    BY Zenon, <1>0, <2>1, <2>2, <2>4 DEF OwnersAt, Records, WaitsAt
  <2> QED BY Zenon, <2>3, <2>4
<1>6. ASSUME NEW t \in Thread, LockContended(t) \/ HashFat(t) PROVE OwnersAt(u)'
  <2>1. word' = word /\ UNCHANGED <<depth, inWait>>
    BY Zenon, <1>6 DEF LockContended, HashFat, waitVars
  <2>2. fat'.owner = fat.owner /\ fat'.count = fat.count
    BY Zenon, <1>0, <1>6 DEF LockContended, HashFat, FatType
  <2> QED BY Zenon, <1>a, <2>1, <2>2
<1>7. ASSUME NEW t \in Thread, Unlock(t) PROVE OwnersAt(u)'
  <2>1. /\ word.st = "fat" /\ word' = word /\ inWait' = inWait /\ fat.owner = t
        /\ \A v \in Thread : depth'[v] = IF v = t THEN depth[v] - 1 ELSE depth[v]
    BY Zenon, <1>0, <1>7 DEF Unlock, waitVars
  <2>2. IF fat.count = 0 THEN fat'.owner = Nobody ELSE fat'.owner = t /\ fat'.count = fat.count - 1
    BY Zenon, <1>0, <1>7 DEF Unlock, FatType
  <2>3. CASE u # t
    BY Zenon, <1>b, <2>1, <2>2, <2>3
  <2>4. CASE u = t
    <3>1. depth[t] > 0 /\ t \notin inWait /\ fat.count = depth[t] - 1 /\ depth[t] \in Nat
      BY Zenon, <1>0, <2>1 DEF OwnersAt, Records, ThinOwn
    <3>2. depth'[t] > 0 <=> fat.count # 0
      BY <2>1, <3>1
    <3>3. fat.count # 0 => fat'.count = depth'[t] - 1
      BY Zenon, <1>0, <2>1, <2>2, <3>1
    <3> QED BY Zenon, <2>1, <2>2, <2>4, <3>1, <3>2, <3>3, ThreadAssumption DEF OwnersAt, Records, ThinOwn
  <2> QED BY Zenon, <2>3, <2>4
<1>8. ASSUME NEW t \in Thread, WaitFat(t) PROVE OwnersAt(u)'
  <2>1. word.st = "fat" /\ word' = word /\ inWait' = inWait \cup {t} /\ fat.owner = t /\ depth' = depth
    BY Zenon, <1>8 DEF WaitFat
  <2>2. fat'.owner = Nobody
    BY Zenon, <1>0, <1>8 DEF WaitFat, FatType
  <2>3. CASE u # t
    BY Zenon, <1>b, <2>1, <2>2, <2>3
  <2>4. CASE u = t
    BY Zenon, <2>1, <2>2, <2>4, ThreadAssumption DEF OwnersAt, ThinOwn
  <2> QED BY <2>3, <2>4
<1>9. ASSUME NEW t \in Thread, HashWithoutMonitor(t) PROVE OwnersAt(u)'
  <2>1. UNCHANGED <<fat, depth, inWait>> /\ word.st \in {"unlocked", "hash"} /\ word'.st \in {"unlocked", "hash"}
    BY <1>9 DEF HashWithoutMonitor, HashWord, waitVars
  <2> QED BY Zenon, <1>0, <2>1 DEF OwnersAt, Records, ThinOwn
<1>10. CASE Deflate
  <2>1. UNCHANGED <<depth, inWait>> /\ word.st = "fat" /\ fat'.owner = Nobody
    BY Zenon, <1>10 DEF Deflate, NoMonitor, waitVars
  <2>2. \/ fat.owner # Nobody /\ word' = ThinWord(fat.owner, fat.count)
        \/ fat.owner = Nobody /\ word'.st # "thin"
    BY <1>10 DEF Deflate, HashWord, UnlockedWord
  <2>3. CASE fat.owner = u
    BY <1>0, <2>1, <2>2, <2>3, ThreadAssumption DEF OwnersAt, Records, ThinOwn, ThinWord
  <2>4. CASE fat.owner # u
    BY <1>0, <2>1, <2>2, <2>4, ThreadAssumption DEF OwnersAt, Records, ThinOwn, ThinWord
  <2> QED BY Zenon, <2>3, <2>4
<1>11. ASSUME NEW t \in Thread, BeginEnter(t) \/ EnterRecursive(t) \/ ExitThin(t) \/ LookAgain(t) \/ BeginHash(t) PROVE OwnersAt(u)'
  BY Zenon, <1>11, <1>a DEF BeginEnter, EnterRecursive, ExitThin, LookAgain, BeginHash, waitVars
<1>12. ASSUME NEW t \in Thread, EnterContended(t) \/ EnterHashed(t) \/ WaitThin(t) \/ HashThin(t) PROVE OwnersAt(u)'
  BY <1>12, <1>a DEF EnterContended, EnterHashed, WaitThin, HashThin, Inflate, waitVars
<1>13. ASSUME NEW t \in Thread, SuspendOwner(t) \/ SuspendOwnerFails(t) \/ CheckOwner(t) PROVE OwnersAt(u)'
  BY Zenon, <1>13, <1>a DEF SuspendOwner, SuspendOwnerFails, CheckOwner, waitVars
<1>14. ASSUME NEW t \in Thread, WakeUp(t) \/ ResetWaitMonitor(t) \/ Notify(t) \/ NotifyAll(t) \/ Interrupt(t) PROVE OwnersAt(u)'
  BY <1>14, <1>a DEF WakeUp, ResetWaitMonitor, Notify, NotifyAll, Interrupt
<1>15. CASE UNCHANGED monitorVars
  BY <1>15, <1>a DEF monitorVars
<1> QED BY SMTT(20), <1>1, <1>2, <1>3, <1>4, <1>5, <1>6, <1>7, <1>8, <1>9, <1>10, <1>11, <1>12, <1>13, <1>14, <1>15 DEF MonitorNext, ThreadStep

(* The identity hash code stays where it was stored, and no CHECK fails.    *)
LEMMA HashStep == Monitored /\ [MonitorNext]_monitorVars => HashKept' /\ ~fatal'
<1> SUFFICES ASSUME Monitored, [MonitorNext]_monitorVars PROVE HashKept' /\ ~fatal'
  BY Zenon
<1>0. /\ WordShape /\ HashKept /\ ~fatal /\ (\A v \in Thread : StopsAt(v)) /\ hashes \subseteq Hash /\ fat \in FatType
  <2>1. MonitorTypeOK /\ WordShape /\ HashKept /\ ~fatal /\ Stops
    BY Zenon DEF Monitored
  <2>2. hashes \subseteq Hash
    BY Zenon, <2>1 DEF MonitorTypeOK
  <2> QED BY <2>1, <2>2, WordFields DEF Stops
<1>a. ASSUME UNCHANGED <<word, hashes, fatal>>, fat'.hash = fat.hash PROVE HashKept' /\ ~fatal'
  BY Zenon, <1>0, <1>a DEF HashKept
<1>b. word.st \in {"unlocked", "thin"} => hashes = {}
  BY Zenon, <1>0 DEF HashKept
<1>c. fat.hash = NoHash /\ word.st = "fat" => hashes = {}
  BY Zenon, <1>0, MonitorAssumption DEF HashKept, NoHash
<1>1. ASSUME NEW t \in Thread, EnterUnlocked(t) \/ EnterStore(t) \/ ExitStore(t) PROVE HashKept' /\ ~fatal'
  <2>1. word.st \in {"unlocked", "thin"} /\ hashes' = hashes /\ fatal' = fatal
    BY <1>0, <1>1 DEF EnterUnlocked, EnterStore, ExitStore, StopsAt, ThinOwn
  <2> QED BY Zenon, <1>0, <1>b, <2>1 DEF HashKept
<1>2. ASSUME NEW t \in Thread, Install(t) PROVE HashKept' /\ ~fatal'
  <2>1. Inflating(t)
    BY Zenon, <1>0, <1>2 DEF Install, StopsAt
  <2>2. /\ word.st # "unlocked"
        /\ ~(word.st = "thin" /\ word.owner # want[t].owner)
        /\ ~(word.st = "hash" /\ word.hash # want[t].hash)
    BY Zenon, <2>1 DEF Inflating, ThinOwn
  <2>3. ~fatal'
    BY <1>0, <1>2, <2>2, Zenon DEF Install
  <2>4. CASE word.st \in {"thin", "hash"}
    <3>1. word'.st = "fat" /\ fat'.hash = want[t].hash /\ hashes' = hashes
      BY <1>2, <2>4 DEF Install, FatWord
    <3> QED BY Zenon, <1>0, <1>b, <2>2, <2>3, <2>4, <3>1 DEF HashKept
  <2>5. CASE word.st \notin {"thin", "hash"}
    <3>1. UNCHANGED <<word, fat, hashes>>
      BY Zenon, <1>2, <2>5 DEF Install
    <3> QED BY Zenon, <1>0, <2>3, <3>1 DEF HashKept
  <2> QED BY Zenon, <2>4, <2>5
<1>3. ASSUME NEW t \in Thread, LockForEnter(t) \/ LockForWait(t) PROVE HashKept' /\ ~fatal'
  <2>1. fat.owner = Nobody => fat.count = 0
    BY Zenon, <1>0 DEF WordShape
  <2>2. ~fatal'
    BY <1>0, <1>3, <2>1, Zenon DEF LockForEnter, LockForWait
  <2>3. UNCHANGED <<word, hashes>>
    BY Zenon, <1>3 DEF LockForEnter, LockForWait
  <2>4. fat'.hash = fat.hash
    <3>1. CASE LockForEnter(t)
      BY Zenon, <1>0, <3>1 DEF LockForEnter, FatType
    <3>2. CASE LockForWait(t)
      BY Zenon, <1>0, <3>2 DEF LockForWait, FatType
    <3> QED BY Zenon, <1>3, <3>1, <3>2
  <2> QED BY Zenon, <1>0, <2>2, <2>3, <2>4 DEF HashKept
<1>4. ASSUME NEW t \in Thread, LockContended(t) \/ Unlock(t) \/ WaitFat(t) PROVE HashKept' /\ ~fatal'
  <2>1. UNCHANGED <<word, hashes, fatal>>
    BY Zenon, <1>4 DEF LockContended, Unlock, WaitFat
  <2>2. fat'.hash = fat.hash
    <3>1. CASE LockContended(t)
      BY Zenon, <1>0, <3>1 DEF LockContended, FatType
    <3>2. CASE Unlock(t)
      BY <1>0, <3>2 DEF Unlock, FatType
    <3>3. CASE WaitFat(t)
      BY Zenon, <1>0, <3>3 DEF WaitFat, FatType
    <3> QED BY Zenon, <1>4, <3>1, <3>2, <3>3
  <2> QED BY Zenon, <1>a, <2>1, <2>2
<1>5. ASSUME NEW t \in Thread, HashWithoutMonitor(t) PROVE HashKept' /\ ~fatal'
  <2>1. fatal' = fatal /\ hashes' = hashes \cup {word'.hash} /\ word.st \in {"unlocked", "hash"}
    BY Zenon, <1>5 DEF HashWithoutMonitor
  <2>2. CASE word.st = "hash"
    <3>1. word' = word
      BY Zenon, <1>5, <2>2 DEF HashWithoutMonitor
    <3> QED BY Zenon, <1>0, <2>1, <2>2, <3>1 DEF HashKept
  <2>3. CASE word.st = "unlocked"
    <3>1. word'.st = "hash"
      BY <1>5, <2>3 DEF HashWithoutMonitor, HashWord
    <3> QED BY Zenon, <1>0, <1>b, <2>1, <2>3, <3>1 DEF HashKept
  <2> QED BY <2>1, <2>2, <2>3
<1>6. ASSUME NEW t \in Thread, HashFat(t) PROVE HashKept' /\ ~fatal'
  <2>1. fatal' = fatal /\ hashes' = hashes \cup {fat'.hash} /\ word.st = "fat" /\ word' = word
    BY Zenon, <1>6 DEF HashFat
  <2>2. fat.hash # NoHash => fat'.hash = fat.hash
    BY Zenon, <1>0, <1>6 DEF HashFat, FatType
  <2> QED BY Zenon, <1>0, <1>c, <2>1, <2>2 DEF HashKept
<1>7. CASE Deflate
  <2>1. word.st = "fat" /\ hashes' = hashes /\ fatal' = fatal
    BY Zenon, <1>7 DEF Deflate
  <2>2. fat.hash = NoHash \/ (word'.st = "hash" /\ word'.hash = fat.hash)
    BY <1>7 DEF Deflate, HashWord
  <2> QED BY Zenon, <1>0, <1>c, <2>1, <2>2 DEF HashKept
<1>8. ASSUME NEW t \in Thread, BeginEnter(t) \/ EnterRecursive(t) \/ ExitThin(t) \/ LookAgain(t) \/ BeginHash(t) PROVE HashKept' /\ ~fatal'
  <2>1. UNCHANGED <<word, fat, hashes, fatal>>
    BY Zenon, <1>8 DEF BeginEnter, EnterRecursive, ExitThin, LookAgain, BeginHash
  <2> QED BY Zenon, <1>a, <2>1
<1>9. ASSUME NEW t \in Thread, EnterContended(t) \/ EnterHashed(t) \/ WaitThin(t) \/ HashThin(t) PROVE HashKept' /\ ~fatal'
  <2>1. UNCHANGED <<word, fat, hashes, fatal>>
    BY <1>9 DEF EnterContended, EnterHashed, WaitThin, HashThin, Inflate
  <2> QED BY Zenon, <1>a, <2>1
<1>10. ASSUME NEW t \in Thread, SuspendOwner(t) \/ SuspendOwnerFails(t) \/ CheckOwner(t) PROVE HashKept' /\ ~fatal'
  <2>1. UNCHANGED <<word, fat, hashes, fatal>>
    BY Zenon, <1>10 DEF SuspendOwner, SuspendOwnerFails, CheckOwner
  <2> QED BY Zenon, <1>a, <2>1
<1>11. ASSUME NEW t \in Thread, WakeUp(t) \/ ResetWaitMonitor(t) \/ Notify(t) \/ NotifyAll(t) \/ Interrupt(t) PROVE HashKept' /\ ~fatal'
  <2>1. UNCHANGED <<word, fat, hashes, fatal>>
    BY Zenon, <1>11 DEF WakeUp, ResetWaitMonitor, Notify, NotifyAll, Interrupt
  <2> QED BY <1>a, <2>1
<1>12. CASE UNCHANGED monitorVars
  <2>1. UNCHANGED <<word, fat, hashes, fatal>>
    BY Zenon, <1>12 DEF monitorVars
  <2> QED BY Zenon, <1>a, <2>1
<1> QED BY Zenon, <1>1, <1>2, <1>3, <1>4, <1>5, <1>6, <1>7, <1>8, <1>9, <1>10, <1>11, <1>12 DEF MonitorNext, ThreadStep

(* The parts of NobodyForgotten                                             *)
Counted ==
  /\ fat.waiters = Cardinality(BlockedIn) + Cardinality(inWait)
  /\ BlockedIn \cup inWait # {} => word.st = "fat"
Listed == \A t \in Thread : mpc[t] = "waiting" => t \in waitMonitor /\ t \in Range(waitSet)
Contended == word.st = "fat" /\ fat.owner = Nobody /\ \E t \in Thread : mpc[t] = "contending"
OnTheWay == Contended => \E t \in Thread : mpc[t] \in {"blocked", "woken", "relock", "enter"}

(* num_waiters_ counts the threads that block in Lock or Wait, and its      *)
(* Monitor stays as long as there is one.                                   *)
LEMMA CountedStep == Monitored /\ [MonitorNext]_monitorVars => Counted'
<1> SUFFICES ASSUME Monitored, [MonitorNext]_monitorVars PROVE Counted'
  BY Zenon
<1>0. /\ MonitorTypeOK /\ Counted /\ (\A v \in Thread : WaitsAt(v) /\ StopsAt(v))
      /\ mpc \in [Thread -> MonitorPc] /\ fat \in FatType
  <2>1. MonitorTypeOK /\ Counted /\ Waits /\ Stops
    BY Zenon DEF Monitored, NobodyForgotten, Counted
  <2>2. mpc \in [Thread -> MonitorPc]
    BY Zenon, <2>1 DEF MonitorTypeOK
  <2> QED BY <2>1, <2>2, WordFields DEF Stops, Waits
<1>s. /\ BlockedIn \in SUBSET Thread /\ inWait \in SUBSET Thread
      /\ Cardinality(BlockedIn) \in Nat /\ Cardinality(inWait) \in Nat
      /\ BlockedIn # {} => Cardinality(BlockedIn) >= 1
      /\ inWait # {} => Cardinality(inWait) >= 1
  BY Zenon, WaitersCount, CountThreads
<1> DEFINE Blk == {"blocked", "contending", "woken"}
<1>a. ASSUME \A u \in Thread : mpc'[u] \in Blk <=> mpc[u] \in Blk,
             inWait' = inWait, fat'.waiters = fat.waiters, word'.st = "fat" \/ word.st # "fat"
      PROVE  Counted'
  <2>1. BlockedIn' = BlockedIn
    BY Zenon, <1>a DEF BlockedIn
  <2> QED BY Zenon, <1>0, <1>a, <2>1 DEF Counted
<1>b. ASSUME NEW t \in Thread, NEW p \in MonitorPc \ Blk, mpc[t] \notin Blk, Goto(t, p),
             inWait' = inWait, fat'.waiters = fat.waiters, word'.st = "fat" \/ word.st # "fat"
      PROVE  Counted'
  <2>1. \A u \in Thread : mpc'[u] \in Blk <=> mpc[u] \in Blk
    BY Zenon, <1>0, <1>b DEF Goto
  <2> QED BY <1>a, <1>b, <2>1
<1>p. {"java", "enter", "hash", "wait", "enter_store", "exit_store", "install", "suspend_owner", "owner_stopped", "awake",
       "waiting", "relock"} \subseteq MonitorPc \ Blk
  BY Zenon DEF MonitorPc, SafePoint
<1>1. ASSUME NEW t \in Thread, BeginEnter(t) \/ BeginHash(t) \/ EnterRecursive(t) \/ ExitThin(t) PROVE Counted'
  <2>1. UNCHANGED <<inWait, fat, word>>
    BY Zenon, <1>1 DEF BeginEnter, BeginHash, EnterRecursive, ExitThin, waitVars
  <2>2. mpc[t] \in {"java", "enter"} /\ \E p \in {"enter", "hash", "enter_store", "exit_store"} : Goto(t, p)
    BY Zenon, <1>1 DEF BeginEnter, BeginHash, EnterRecursive, ExitThin, InJava
  <2> QED BY Zenon, <1>b, <1>p, <2>1, <2>2
<1>2. ASSUME NEW t \in Thread, EnterContended(t) \/ EnterHashed(t) \/ WaitThin(t) \/ HashThin(t) PROVE Counted'
  <2>1. UNCHANGED <<inWait, fat, word>>
    BY Zenon, <1>2 DEF EnterContended, EnterHashed, WaitThin, HashThin, Inflate, waitVars
  <2>2. mpc[t] \in {"java", "enter", "hash"} /\ \E p \in {"install", "suspend_owner"} : Goto(t, p)
    BY Zenon, <1>2 DEF EnterContended, EnterHashed, WaitThin, HashThin, Inflate, InJava
  <2> QED BY Zenon, <1>b, <1>p, <2>1, <2>2
<1>3. ASSUME NEW t \in Thread, SuspendOwner(t) \/ SuspendOwnerFails(t) \/ CheckOwner(t) PROVE Counted'
  <2>1. UNCHANGED <<inWait, fat, word>>
    BY Zenon, <1>3 DEF SuspendOwner, SuspendOwnerFails, CheckOwner, waitVars
  <2>2. mpc[t] \in {"suspend_owner", "owner_stopped"}
    BY Zenon, <1>3 DEF SuspendOwner, SuspendOwnerFails, CheckOwner
  <2>3. want[t].back \in {"enter", "wait", "hash"}
    BY Zenon, <1>0, <2>2 DEF StopsAt
  <2>4. \E p \in {"owner_stopped", "install", "enter", "wait", "hash"} : Goto(t, p)
    BY Zenon, <1>3, <2>3 DEF SuspendOwner, SuspendOwnerFails, CheckOwner, GoBack
  <2> QED BY Zenon, <1>b, <1>p, <2>1, <2>2, <2>4
<1>4. ASSUME NEW t \in Thread, Install(t) PROVE Counted'
  <2>1. inWait' = inWait /\ mpc[t] = "install" /\ Goto(t, want[t].back)
    BY Zenon, <1>4 DEF Install, GoBack, waitVars
  <2>2. want[t].back \in {"enter", "wait", "hash"}
    BY Zenon, <1>0, <2>1 DEF StopsAt
  <2>3. word' = word \/ (word'.st = "fat" /\ word.st # "fat")
    BY <1>4 DEF Install, FatWord
  <2>4. word.st # "fat" => fat = NoMonitor
    BY Zenon DEF Monitored, WordShape
  <2>5. fat'.waiters = fat.waiters
    BY <1>4, <2>4 DEF Install, NoMonitor
  <2> QED BY Zenon, <1>b, <1>p, <2>1, <2>2, <2>3, <2>5
<1>5. ASSUME NEW t \in Thread, EnterUnlocked(t) \/ EnterStore(t) \/ ExitStore(t) \/ HashWithoutMonitor(t) PROVE Counted'
  <2>1. inWait' = inWait /\ fat' = fat
    BY Zenon, <1>5 DEF EnterUnlocked, EnterStore, ExitStore, HashWithoutMonitor, waitVars
  <2>2. mpc[t] \in {"enter", "enter_store", "exit_store", "hash"} /\ Goto(t, "java") /\ word.st # "fat"
    BY Zenon, <1>0, <1>5 DEF EnterUnlocked, EnterStore, ExitStore, HashWithoutMonitor, StopsAt, ThinOwn
  <2> QED BY <1>b, <1>p, <2>1, <2>2
<1>6. ASSUME NEW t \in Thread, HashFat(t) PROVE Counted'
  <2>1. inWait' = inWait /\ word' = word /\ mpc[t] = "hash" /\ Goto(t, "java") /\ fat'.waiters = fat.waiters
    BY Zenon, <1>0, <1>6 DEF HashFat, waitVars, FatType
  <2> QED BY <1>b, <1>p, <2>1
<1>7. ASSUME NEW t \in Thread, LookAgain(t) PROVE Counted'
  <2>1. UNCHANGED <<inWait, fat, word>>
    BY Zenon, <1>7 DEF LookAgain, waitVars
  <2>2. \A u \in Thread : mpc'[u] \in Blk <=> mpc[u] \in Blk
    BY Zenon, <1>0, <1>7 DEF LookAgain, Goto
  <2> QED BY Zenon, <1>a, <2>1, <2>2
<1>8. ASSUME NEW t \in Thread, LockForEnter(t) PROVE Counted'
  <2>1. Locking(t) /\ t \notin inWait /\ inWait' = inWait /\ Goto(t, "java") /\ word' = word
    BY Zenon, <1>8 DEF LockForEnter, waitVars
  <2>2. fat'.waiters = Waiters(t)
    BY Zenon, <1>0, <1>8 DEF LockForEnter, FatType
  <2>3. word.st = "fat"
    BY Zenon, <2>1, WaitersCount
  <2>4. CASE mpc[t] = "woken"
    <3>1. BlockedIn' = BlockedIn \ {t} /\ t \in BlockedIn
      BY <1>0, <2>1, <2>4 DEF BlockedIn, Goto
    <3>2. Cardinality(BlockedIn \ {t}) = Cardinality(BlockedIn) - 1
      BY Zenon, <1>s, <3>1, CountThreads
    <3>3. fat.waiters = Cardinality(BlockedIn) + Cardinality(inWait) /\ fat'.waiters = fat.waiters - 1
      BY Zenon, <1>0, <2>2, <2>4 DEF Counted, Waiters
    <3>4. fat'.waiters = Cardinality(BlockedIn \ {t}) + Cardinality(inWait)
      BY <1>s, <3>2, <3>3
    <3> QED BY Zenon, <2>1, <2>3, <3>1, <3>4 DEF Counted
  <2>5. CASE mpc[t] # "woken"
    <3>1. mpc[t] \notin Blk
      BY <2>1, <2>5 DEF Locking
    <3>2. fat'.waiters = fat.waiters
      BY Zenon, <2>2, <2>5 DEF Waiters
    <3> QED BY <1>b, <1>p, <2>1, <2>3, <3>1, <3>2
  <2> QED BY Zenon, <2>4, <2>5
<1>9. ASSUME NEW t \in Thread, LockForWait(t) PROVE Counted'
  <2>1. Locking(t) /\ t \in inWait /\ inWait' = inWait \ {t} /\ Goto(t, "java") /\ word' = word
    BY Zenon, <1>9 DEF LockForWait
  <2>2. fat'.waiters = Waiters(t) - 1
    BY Zenon, <1>0, <1>9 DEF LockForWait, FatType
  <2>3. word.st = "fat"
    BY Zenon, <2>1, WaitersCount
  <2>4. Cardinality(inWait \ {t}) = Cardinality(inWait) - 1
    BY Zenon, <1>s, <2>1, CountThreads
  <2>5. CASE mpc[t] = "woken"
    <3>1. BlockedIn' = BlockedIn \ {t} /\ t \in BlockedIn
      BY Zenon, <1>0, <2>1, <2>5 DEF BlockedIn, Goto
    <3>2. Cardinality(BlockedIn \ {t}) = Cardinality(BlockedIn) - 1
      BY Zenon, <1>s, <3>1, CountThreads
    <3>3. fat.waiters = Cardinality(BlockedIn) + Cardinality(inWait) /\ fat'.waiters = fat.waiters - 1 - 1
      BY Zenon, <1>0, <2>2, <2>5 DEF Counted, Waiters
    <3>4. fat'.waiters = Cardinality(BlockedIn \ {t}) + Cardinality(inWait \ {t})
      BY <1>s, <2>4, <3>2, <3>3
    <3> QED BY Zenon, <2>1, <2>3, <3>1, <3>4 DEF Counted
  <2>6. CASE mpc[t] # "woken"
    <3>1. BlockedIn' = BlockedIn
      BY <1>0, <2>1, <2>6 DEF BlockedIn, Goto, Locking
    <3>2. fat.waiters = Cardinality(BlockedIn) + Cardinality(inWait) /\ fat'.waiters = fat.waiters - 1
      BY <1>0, <2>2, <2>6 DEF Counted, Waiters
    <3>3. fat'.waiters = Cardinality(BlockedIn) + Cardinality(inWait \ {t})
      BY <1>s, <2>4, <3>2
    <3> QED BY <2>1, <2>3, <3>1, <3>3 DEF Counted
  <2> QED BY Zenon, <2>5, <2>6
<1>10. ASSUME NEW t \in Thread, LockContended(t) PROVE Counted'
  <2>1. Locking(t) /\ inWait' = inWait /\ Goto(t, "blocked") /\ word' = word
    BY Zenon, <1>10 DEF LockContended, waitVars
  <2>2. fat'.waiters = Waiters(t) + 1
    BY <1>0, <1>10 DEF LockContended, FatType
  <2>3. word.st = "fat"
    BY <2>1, WaitersCount
  <2>4. CASE mpc[t] = "woken"
    <3>1. \A u \in Thread : mpc'[u] \in Blk <=> mpc[u] \in Blk
      BY Zenon, <1>0, <2>1, <2>4 DEF Goto
    <3>2. fat'.waiters = fat.waiters - 1 + 1 /\ fat.waiters \in Nat
      BY Zenon, <1>0, <2>2, <2>4 DEF Waiters, FatType
    <3>3. fat'.waiters = fat.waiters
      BY <3>2
    <3> QED BY Zenon, <1>a, <2>1, <2>3, <3>1, <3>3
  <2>5. CASE mpc[t] # "woken"
    <3>1. BlockedIn' = BlockedIn \cup {t} /\ t \notin BlockedIn
      BY Zenon, <1>0, <2>1, <2>5 DEF BlockedIn, Goto, Locking
    <3>2. Cardinality(BlockedIn \cup {t}) = Cardinality(BlockedIn) + 1
      BY Zenon, <1>s, <3>1, CountThreads
    <3>3. fat.waiters = Cardinality(BlockedIn) + Cardinality(inWait) /\ fat'.waiters = fat.waiters + 1
      BY Zenon, <1>0, <2>2, <2>5 DEF Counted, Waiters
    <3>4. fat'.waiters = Cardinality(BlockedIn \cup {t}) + Cardinality(inWait)
      BY <1>s, <3>2, <3>3
    <3> QED BY Zenon, <2>1, <2>3, <3>1, <3>4 DEF Counted
  <2> QED BY <2>4, <2>5
<1>11. ASSUME NEW t \in Thread, Unlock(t) PROVE Counted'
  <2>1. inWait' = inWait /\ word' = word /\ mpc[t] = "java"
    BY <1>11 DEF Unlock, waitVars, InJava
  <2>2. fat'.waiters = fat.waiters
    BY Zenon, <1>0, <1>11 DEF Unlock, FatType
  <2>3. mpc' = mpc \/ SignalContender(t, "java")
    BY Zenon, <1>11 DEF Unlock
  <2>4. \A u \in Thread : mpc'[u] \in Blk <=> mpc[u] \in Blk
    BY <1>0, <1>p, <2>1, <2>3, Signals
  <2> QED BY Zenon, <1>a, <2>1, <2>2, <2>4
<1>12. ASSUME NEW t \in Thread, WaitFat(t) PROVE Counted'
  <2>1. inWait' = inWait \cup {t} /\ word' = word /\ word.st = "fat" /\ mpc[t] \in {"wait", "java"}
    BY Zenon, <1>12 DEF WaitFat, InJava
  <2>2. fat'.waiters = fat.waiters + 1
    BY Zenon, <1>0, <1>12 DEF WaitFat, FatType
  <2>3. PICK p \in {"awake", "waiting"} : SignalContender(t, p)
    BY Zenon, <1>12 DEF WaitFat
  <2>4. \A u \in Thread : mpc'[u] \in Blk <=> mpc[u] \in Blk
    BY <1>0, <1>p, <2>1, <2>3, Signals
  <2>5. BlockedIn' = BlockedIn
    BY Zenon, <2>4 DEF BlockedIn
  <2>6. t \notin inWait
    BY <1>0, <2>1 DEF WaitsAt
  <2>7. Cardinality(inWait \cup {t}) = Cardinality(inWait) + 1
    BY <1>s, <2>6, CountThreads
  <2>8. fat.waiters = Cardinality(BlockedIn) + Cardinality(inWait)
    BY Zenon, <1>0 DEF Counted
  <2>9. fat'.waiters = Cardinality(BlockedIn) + Cardinality(inWait \cup {t})
    BY <1>s, <2>2, <2>7, <2>8
  <2> QED BY Zenon, <2>1, <2>5, <2>9 DEF Counted
<1>13. ASSUME NEW t \in Thread, WakeUp(t) \/ ResetWaitMonitor(t) PROVE Counted'
  <2>1. UNCHANGED <<inWait, fat, word>>
    BY Zenon, <1>13 DEF WakeUp, ResetWaitMonitor
  <2>2. mpc[t] \in {"signalled", "waiting", "awake"} /\ \E p \in {"awake", "relock"} : Goto(t, p)
    BY Zenon, <1>13 DEF WakeUp, ResetWaitMonitor
  <2> QED BY Zenon, <1>b, <1>p, <2>1, <2>2
<1>14. ASSUME NEW t \in Thread, Notify(t) \/ NotifyAll(t) \/ Interrupt(t) PROVE Counted'
  <2>1. UNCHANGED <<inWait, fat, word>>
    BY Zenon, <1>14 DEF Notify, NotifyAll, Interrupt
  <2>2. \E S : SignalWaiting(S)
    BY Zenon, <1>14 DEF Notify, NotifyAll, Interrupt
  <2>3. \A u \in Thread : mpc'[u] \in Blk <=> mpc[u] \in Blk
    BY Zenon, <1>0, <2>2, Signals
  <2> QED BY <1>a, <2>1, <2>3
<1>15. CASE Deflate
  <2>1. UNCHANGED <<mpc, inWait>> /\ fat.waiters = 0 /\ fat'.waiters = 0
    BY Zenon, <1>15 DEF Deflate, NoMonitor, waitVars
  <2>2. Cardinality(BlockedIn) + Cardinality(inWait) = 0
    BY Zenon, <1>0, <2>1 DEF Counted
  <2>3. BlockedIn = {} /\ inWait = {}
    BY <1>s, <2>2
  <2>4. BlockedIn' = BlockedIn
    BY Zenon, <2>1 DEF BlockedIn
  <2> QED BY Zenon, <2>1, <2>2, <2>3, <2>4 DEF Counted
<1>16. CASE UNCHANGED monitorVars
  <2>1. UNCHANGED <<mpc, inWait, fat, word>>
    BY Zenon, <1>16 DEF monitorVars
  <2> QED BY Zenon, <1>a, <2>1
<1> QED BY Zenon, <1>1, <1>2, <1>3, <1>4, <1>5, <1>6, <1>7, <1>8, <1>9, <1>10, <1>11, <1>12, <1>13, <1>14, <1>15, <1>16 DEF MonitorNext, ThreadStep

(* A thread that waits is in the wait set with its wait_monitor_ set.       *)
LEMMA ListedStep == Monitored /\ [MonitorNext]_monitorVars => Listed'
<1> SUFFICES ASSUME Monitored, [MonitorNext]_monitorVars PROVE Listed'
  BY Zenon
<1>0. /\ MonitorTypeOK /\ Listed /\ (\A v \in Thread : StopsAt(v))
      /\ mpc \in [Thread -> MonitorPc] /\ waitSet \in Seq(Thread)
  <2>1. MonitorTypeOK /\ Listed /\ Stops
    BY Zenon DEF Monitored, NobodyForgotten, Listed
  <2>2. mpc \in [Thread -> MonitorPc] /\ waitSet \in Seq(Thread)
    BY Zenon, <2>1 DEF MonitorTypeOK
  <2> QED BY Zenon, <2>1, <2>2 DEF Stops
<1>a. ASSUME \A u \in Thread : mpc'[u] = "waiting" => mpc[u] = "waiting",
             UNCHANGED <<waitSet, waitMonitor>>
      PROVE  Listed'
  BY Zenon, <1>0, <1>a DEF Listed
<1>b. ASSUME NEW t \in Thread, NEW p, p # "waiting", Goto(t, p), UNCHANGED <<waitSet, waitMonitor>> PROVE Listed'
  BY Zenon, <1>0, <1>b, <1>a DEF Goto
<1>1. ASSUME NEW t \in Thread, BeginEnter(t) \/ BeginHash(t) \/ EnterRecursive(t) \/ ExitThin(t) \/ LookAgain(t) PROVE Listed'
  <2>1. UNCHANGED <<waitSet, waitMonitor>> /\ \E p \in {"enter", "hash", "enter_store", "exit_store", "contending", "woken"} : Goto(t, p)
    BY Zenon, <1>1 DEF BeginEnter, BeginHash, EnterRecursive, ExitThin, LookAgain, waitVars
  <2> QED BY Zenon, <1>b, <2>1
<1>2. ASSUME NEW t \in Thread, EnterContended(t) \/ EnterHashed(t) \/ WaitThin(t) \/ HashThin(t) PROVE Listed'
  <2>1. UNCHANGED <<waitSet, waitMonitor>> /\ \E p \in {"install", "suspend_owner"} : Goto(t, p)
    BY Zenon, <1>2 DEF EnterContended, EnterHashed, WaitThin, HashThin, Inflate, waitVars
  <2> QED BY <1>b, <2>1
<1>3. ASSUME NEW t \in Thread, SuspendOwner(t) \/ SuspendOwnerFails(t) \/ CheckOwner(t) \/ Install(t) PROVE Listed'
  <2>0. Install(t) => UNCHANGED <<waitSet, waitMonitor>> /\ mpc[t] = "install" /\ Goto(t, want[t].back)
    BY Zenon DEF Install, GoBack, waitVars
  <2>1. UNCHANGED <<waitSet, waitMonitor>> /\ mpc[t] \in {"suspend_owner", "owner_stopped", "install"}
    BY <1>3, <2>0 DEF SuspendOwner, SuspendOwnerFails, CheckOwner, waitVars
  <2>2. want[t].back \in {"enter", "wait", "hash"}
    BY Zenon, <1>0, <2>1 DEF StopsAt
  <2>3. \E p \in {"owner_stopped", "install", "enter", "wait", "hash"} : Goto(t, p)
    BY Zenon, <1>3, <2>0, <2>2 DEF SuspendOwner, SuspendOwnerFails, CheckOwner, GoBack
  <2> QED BY Zenon, <1>b, <2>1, <2>3
<1>4. ASSUME NEW t \in Thread, EnterUnlocked(t) \/ EnterStore(t) \/ ExitStore(t) \/ HashWithoutMonitor(t) \/ HashFat(t) PROVE Listed'
  <2>1. UNCHANGED <<waitSet, waitMonitor>> /\ Goto(t, "java")
    BY Zenon, <1>4 DEF EnterUnlocked, EnterStore, ExitStore, HashWithoutMonitor, HashFat, waitVars
  <2> QED BY <1>b, <2>1
<1>5. ASSUME NEW t \in Thread, LockForEnter(t) \/ LockContended(t) PROVE Listed'
  <2>1. UNCHANGED <<waitSet, waitMonitor>> /\ \E p \in {"java", "blocked"} : Goto(t, p)
    BY Zenon, <1>5 DEF LockForEnter, LockContended, waitVars
  <2> QED BY <1>b, <2>1
<1>6. ASSUME NEW t \in Thread, LockForWait(t) PROVE Listed'
  <2>1. waitSet' = RemoveFromWaitSet(waitSet, t) /\ waitMonitor' = waitMonitor /\ Goto(t, "java")
    BY <1>6 DEF LockForWait
  <2>2. \A u \in Thread : mpc'[u] = "waiting" => u # t /\ mpc[u] = "waiting"
    BY Zenon, <1>0, <2>1 DEF Goto
  <2> QED BY Zenon, <1>0, <2>1, <2>2, Removal DEF Listed
<1>7. ASSUME NEW t \in Thread, Unlock(t) PROVE Listed'
  <2>1. UNCHANGED <<waitSet, waitMonitor>> /\ mpc[t] = "java" /\ (mpc' = mpc \/ SignalContender(t, "java"))
    BY Zenon, <1>7 DEF Unlock, waitVars, InJava
  <2>2. "java" \in MonitorPc
    BY Zenon DEF MonitorPc, SafePoint
  <2>3. \A u \in Thread : mpc'[u] = "waiting" => mpc[u] = "waiting"
    BY Zenon, <1>0, <2>1, <2>2, Signals
  <2> QED BY Zenon, <1>a, <2>1, <2>3
<1>8. ASSUME NEW t \in Thread, WaitFat(t) PROVE Listed'
  <2>1. waitSet' = Append(waitSet, t) /\ waitMonitor' = waitMonitor \cup {t} /\ mpc[t] \in {"wait", "java"}
    BY Zenon, <1>8 DEF WaitFat, InJava
  <2>2. PICK p \in {"awake", "waiting"} : SignalContender(t, p)
    BY Zenon, <1>8 DEF WaitFat
  <2>3. p \in MonitorPc
    BY Zenon DEF MonitorPc, SafePoint
  <2>4. \A u \in Thread : mpc'[u] = "waiting" => u = t \/ mpc[u] = "waiting"
    BY <1>0, <2>1, <2>2, <2>3, Signals
  <2>5. t \in Range(waitSet') /\ \A u \in Range(waitSet) : u \in Range(waitSet')
    <3>1. /\ Len(waitSet') = Len(waitSet) + 1 /\ waitSet' \in Seq(Thread) /\ waitSet'[Len(waitSet) + 1] = t
          /\ \A i \in 1..Len(waitSet) : waitSet'[i] = waitSet[i]
      BY <1>0, <2>1, AppendProperties
    <3>2. DOMAIN waitSet' = 1..(Len(waitSet) + 1) /\ DOMAIN waitSet = 1..Len(waitSet) /\ Len(waitSet) \in Nat
      BY Zenon, <1>0, <3>1, LenProperties
    <3> QED BY <3>1, <3>2 DEF Range
  <2> QED BY Zenon, <1>0, <2>1, <2>4, <2>5 DEF Listed
<1>9. ASSUME NEW t \in Thread, WakeUp(t) PROVE Listed'
  <2>1. UNCHANGED <<waitSet, waitMonitor>> /\ Goto(t, "awake")
    BY Zenon, <1>9 DEF WakeUp
  <2> QED BY Zenon, <1>b, <2>1
<1>10. ASSUME NEW t \in Thread, ResetWaitMonitor(t) PROVE Listed'
  <2>1. waitSet' = waitSet /\ waitMonitor' = waitMonitor \ {t} /\ Goto(t, "relock")
    BY Zenon, <1>10 DEF ResetWaitMonitor
  <2>2. \A u \in Thread : mpc'[u] = "waiting" => u # t /\ mpc[u] = "waiting"
    BY Zenon, <1>0, <2>1 DEF Goto
  <2> QED BY Zenon, <1>0, <2>1, <2>2 DEF Listed
<1>11. ASSUME NEW t \in Thread, Notify(t) PROVE Listed'
  <2> DEFINE last == IF FirstWaiting = 0 THEN Len(waitSet) ELSE FirstWaiting
  <2>1. waitSet # <<>> /\ waitSet' = SubSeq(waitSet, last + 1, Len(waitSet)) /\ SignalWaiting({waitSet[last]}) /\ waitMonitor' = waitMonitor
    BY Zenon, <1>11 DEF Notify
  <2>2. /\ last \in 1..Len(waitSet)
        /\ \A i \in 1..Len(waitSet) : i < last => waitSet[i] \notin waitMonitor
    BY Zenon, <1>0, <2>1, FirstIsWaiting
  <2> HIDE DEF last
  <2>3. /\ Len(waitSet') = Len(waitSet) - last /\ DOMAIN waitSet' = 1..(Len(waitSet) - last)
        /\ \A i \in 1..(Len(waitSet) - last) : waitSet'[i] = waitSet[last + i]
    <3>1. \A i \in (last + 1)..Len(waitSet) : waitSet[i] \in Thread
      BY <1>0, <2>2
    <3>2. last + 1 \in Int /\ Len(waitSet) \in Int /\ last \in Int
      BY <1>0, <2>2
    <3>3. waitSet' \in Seq(Thread) /\ Len(waitSet') = Len(waitSet) - last
      BY <2>1, <2>2, <3>1, <3>2, SubSeqProperties
    <3>4. \A i \in 1..(Len(waitSet) - last) : waitSet'[i] = waitSet[last + i]
      BY <2>1, <2>2, <3>1, <3>2, SubSeqProperties
    <3> QED BY Zenon, <3>3, <3>4, LenProperties
  <2>4. ASSUME NEW u \in Thread, mpc'[u] = "waiting" PROVE u \in waitMonitor' /\ u \in Range(waitSet')
    <3>1. mpc[u] = "waiting" /\ u \notin {waitSet[last]} \cap waitMonitor
      BY <1>0, <2>1, <2>4, Signals
    <3>2. u \in waitMonitor /\ u \in Range(waitSet)
      BY Zenon, <1>0, <3>1 DEF Listed
    <3>3. PICK i \in 1..Len(waitSet) : u = waitSet[i]
      BY <1>0, <3>2 DEF Range
    <3>4. i # last /\ ~(i < last)
      BY Zenon, <2>2, <3>1, <3>2, <3>3
    <3>5. i - last \in 1..(Len(waitSet) - last) /\ last + (i - last) = i
      BY <1>0, <2>2, <3>3, <3>4
    <3>6. waitSet'[i - last] = u
      BY <2>3, <3>3, <3>5
    <3>7. i - last \in DOMAIN waitSet'
      BY <2>3, <3>5
    <3>8. u \in Range(waitSet')
      BY <3>6, <3>7 DEF Range
    <3> QED BY Zenon, <2>1, <3>2, <3>8
  <2> QED BY Zenon, <2>4 DEF Listed
<1>12. ASSUME NEW t \in Thread, NotifyAll(t) PROVE Listed'
  <2>1. SignalWaiting(Range(waitSet))
    BY <1>12 DEF NotifyAll
  <2>2. \A u \in Thread : mpc'[u] # "waiting"
    BY Zenon, <1>0, <2>1, Signals DEF Listed
  <2> QED BY Zenon, <2>2 DEF Listed
<1>13. ASSUME NEW t \in Thread, Interrupt(t) PROVE Listed'
  <2>1. SignalWaiting({t}) /\ UNCHANGED <<waitSet, waitMonitor>>
    BY Zenon, <1>13 DEF Interrupt
  <2>2. \A u \in Thread : mpc'[u] = "waiting" => mpc[u] = "waiting"
    BY Zenon, <1>0, <2>1, Signals
  <2> QED BY Zenon, <1>a, <2>1, <2>2
<1>14. CASE Deflate \/ UNCHANGED monitorVars
  <2>1. UNCHANGED <<mpc, waitSet, waitMonitor>>
    BY Zenon, <1>14 DEF Deflate, monitorVars, waitVars
  <2> QED BY Zenon, <1>a, <2>1
<1> QED BY Zenon, <1>1, <1>2, <1>3, <1>4, <1>5, <1>6, <1>7, <1>8, <1>9, <1>10, <1>11, <1>12, <1>13, <1>14 DEF MonitorNext, ThreadStep

(* While threads wait to enter a free Monitor, one of them or one that will *)
(* signal them is on its way.                                               *)
LEMMA OnTheWayStep == Monitored /\ [MonitorNext]_monitorVars => OnTheWay'
<1> SUFFICES ASSUME Monitored, [MonitorNext]_monitorVars PROVE OnTheWay'
  BY Zenon
<1>0. /\ MonitorTypeOK /\ Counted /\ OnTheWay /\ (\A v \in Thread : StopsAt(v))
      /\ mpc \in [Thread -> MonitorPc] /\ fat \in FatType
  <2>1. MonitorTypeOK /\ Counted /\ OnTheWay /\ Stops
    BY Zenon DEF Monitored, NobodyForgotten, Counted, OnTheWay, Contended
  <2>2. mpc \in [Thread -> MonitorPc]
    BY <2>1 DEF MonitorTypeOK
  <2> QED BY Zenon, <2>1, <2>2, WordFields DEF Stops
<1> DEFINE Way == {"blocked", "woken", "relock", "enter"}
<1>a. ASSUME word'.st # "fat" \/ fat'.owner # Nobody PROVE OnTheWay'
  BY Zenon, <1>a DEF OnTheWay, Contended
<1>b. ASSUME word' = word, fat'.owner = fat.owner,
             \A u \in Thread : /\ mpc'[u] = "contending" => mpc[u] = "contending"
                               /\ mpc[u] \in Way => mpc'[u] \in Way
      PROVE  OnTheWay'
  BY Zenon, <1>0, <1>b DEF OnTheWay, Contended
<1>c. ASSUME NEW t \in Thread, NEW p, p # "contending", mpc[t] \notin Way, Goto(t, p), word' = word, fat'.owner = fat.owner
      PROVE  OnTheWay'
  BY Zenon, <1>0, <1>b, <1>c DEF Goto
<1>1. ASSUME NEW t \in Thread, BeginEnter(t) \/ BeginHash(t) \/ ExitThin(t) PROVE OnTheWay'
  <2>1. UNCHANGED <<word, fat>> /\ mpc[t] = "java" /\ \E p \in {"enter", "hash", "exit_store"} : Goto(t, p)
    BY Zenon, <1>1 DEF BeginEnter, BeginHash, ExitThin, InJava
  <2> QED BY Zenon, <1>c, <2>1
<1>2. ASSUME NEW t \in Thread, EnterRecursive(t) \/ EnterContended(t) \/ EnterHashed(t) \/ WaitThin(t) \/ HashThin(t) PROVE OnTheWay'
  <2>1. word' = word /\ word.st # "fat"
    BY <1>2 DEF EnterRecursive, EnterContended, EnterHashed, WaitThin, HashThin, Inflate, ThinOwn
  <2> QED BY Zenon, <1>a, <2>1
<1>3. ASSUME NEW t \in Thread, LookAgain(t) PROVE OnTheWay'
  <2>1. CASE fat.owner # Nobody
    BY Zenon, <1>3, <1>a, <2>1 DEF LookAgain
  <2>2. CASE fat.owner = Nobody
    <3>1. Goto(t, "woken") /\ UNCHANGED <<word, fat>>
      BY Zenon, <1>3, <2>2 DEF LookAgain
    <3> QED BY Zenon, <1>0, <1>b, <3>1 DEF Goto
  <2> QED BY Zenon, <2>1, <2>2
<1>d. ASSUME NEW t \in Thread, mpc[t] \in {"suspend_owner", "owner_stopped", "install"}
      PROVE  want[t].back \in {"enter", "wait", "hash"}
  BY Zenon, <1>0, <1>d DEF StopsAt
<1>4. ASSUME NEW t \in Thread, SuspendOwner(t) \/ SuspendOwnerFails(t) \/ CheckOwner(t) PROVE OnTheWay'
  <2>1. UNCHANGED <<word, fat>> /\ mpc[t] \in {"suspend_owner", "owner_stopped"}
    BY Zenon, <1>4 DEF SuspendOwner, SuspendOwnerFails, CheckOwner
  <2>2. \E p \in {"owner_stopped", "install", "enter", "wait", "hash"} : Goto(t, p)
    BY Zenon, <1>4, <1>d, <2>1 DEF SuspendOwner, SuspendOwnerFails, CheckOwner, GoBack
  <2> QED BY Zenon, <1>c, <2>1, <2>2
<1>5. ASSUME NEW t \in Thread, Install(t) PROVE OnTheWay'
  <2>1. mpc[t] = "install" /\ Goto(t, want[t].back)
    BY Zenon, <1>5 DEF Install, GoBack
  <2>2. want[t].back # "contending"
    BY Zenon, <1>d, <2>1
  <2>3. CASE word.st \in {"thin", "hash"}
    <3>1. \A u \in Thread : mpc[u] # "contending"
      BY <1>0, <2>3 DEF Counted, BlockedIn
    <3>2. \A u \in Thread : mpc'[u] # "contending"
      BY Zenon, <1>0, <2>1, <2>2, <3>1 DEF Goto
    <3> QED BY Zenon, <3>2 DEF OnTheWay, Contended
  <2>4. CASE word.st \notin {"thin", "hash"}
    <3>1. UNCHANGED <<word, fat>>
      BY Zenon, <1>5, <2>4 DEF Install
    <3> QED BY Zenon, <1>c, <2>1, <2>2, <3>1
  <2> QED BY Zenon, <2>3, <2>4
<1>6. ASSUME NEW t \in Thread, EnterUnlocked(t) \/ EnterStore(t) \/ ExitStore(t) \/ HashWithoutMonitor(t) PROVE OnTheWay'
  <2>1. word'.st # "fat"
    BY <1>6 DEF EnterUnlocked, EnterStore, ExitStore, HashWithoutMonitor, ThinWord, HashWord, UnlockedWord
  <2> QED BY <1>a, <2>1
<1>7. ASSUME NEW t \in Thread, LockForEnter(t) \/ LockForWait(t) \/ LockContended(t) PROVE OnTheWay'
  <2>1. fat'.owner # Nobody
    <3>1. CASE LockForEnter(t)
      BY <1>0, <3>1, ThreadAssumption DEF LockForEnter, FatType
    <3>2. CASE LockForWait(t)
      BY <1>0, <3>2, ThreadAssumption DEF LockForWait, FatType
    <3>3. CASE LockContended(t)
      BY <1>0, <3>3 DEF LockContended, FatType
    <3> QED BY <1>7, <3>1, <3>2, <3>3
  <2> QED BY <1>a, <2>1
<1>e. ASSUME NEW t \in Thread, NEW p \in {"java", "awake", "waiting"}, SignalContender(t, p), mpc[t] # "contending"
      PROVE  OnTheWay'
  <2>1. p \in MonitorPc
    BY DEF MonitorPc, SafePoint
  <2>2. /\ mpc'[t] = p
        /\ \A u \in Thread : u # t => mpc'[u] = mpc[u] \/ (mpc[u] = "contending" /\ mpc'[u] = "woken")
        /\ (\E u \in Thread : mpc[u] = "contending") => \E u \in Thread : u # t /\ mpc'[u] = "woken"
    BY Zenon, <1>0, <1>e, <2>1, Signals
  <2>3. ASSUME NEW u \in Thread, mpc'[u] = "contending" PROVE \E v \in Thread : mpc'[v] = "woken"
    BY Zenon, <2>2, <2>3
  <2> QED BY Zenon, <2>3 DEF OnTheWay, Contended
<1>8. ASSUME NEW t \in Thread, Unlock(t) PROVE OnTheWay'
  <2>1. CASE fat.count = 0
    <3>1. SignalContender(t, "java") /\ mpc[t] # "contending"
      BY Zenon, <1>8, <2>1 DEF Unlock, InJava
    <3> QED BY Zenon, <1>e, <3>1
  <2>2. CASE fat.count # 0
    <3>1. fat'.owner = t
      BY Zenon, <1>0, <1>8, <2>2 DEF Unlock, FatType
    <3> QED BY Zenon, <1>a, <3>1, ThreadAssumption
  <2> QED BY Zenon, <2>1, <2>2
<1>9. ASSUME NEW t \in Thread, WaitFat(t) PROVE OnTheWay'
  <2>1. mpc[t] # "contending" /\ \E p \in {"awake", "waiting"} : SignalContender(t, p)
    BY Zenon, <1>9 DEF WaitFat, InJava
  <2> QED BY <1>e, <2>1
<1>10. ASSUME NEW t \in Thread, WakeUp(t) \/ ResetWaitMonitor(t) PROVE OnTheWay'
  <2>1. UNCHANGED <<word, fat>> /\ mpc[t] \in {"signalled", "waiting", "awake"} /\ \E p \in {"awake", "relock"} : Goto(t, p)
    BY Zenon, <1>10 DEF WakeUp, ResetWaitMonitor
  <2> QED BY Zenon, <1>c, <2>1
<1>11. ASSUME NEW t \in Thread, Notify(t) \/ NotifyAll(t) \/ Interrupt(t) PROVE OnTheWay'
  <2>1. UNCHANGED <<word, fat>> /\ \E S : SignalWaiting(S)
    BY Zenon, <1>11 DEF Notify, NotifyAll, Interrupt
  <2>2. \A u \in Thread : mpc'[u] = mpc[u] \/ (mpc[u] = "waiting" /\ mpc'[u] = "signalled")
    BY Zenon, <1>0, <2>1, Signals
  <2> QED BY <1>b, <2>1, <2>2
<1>12. ASSUME NEW t \in Thread, HashFat(t) PROVE OnTheWay'
  <2>1. word' = word /\ mpc[t] = "hash" /\ Goto(t, "java") /\ fat'.owner = fat.owner
    BY Zenon, <1>0, <1>12 DEF HashFat, FatType
  <2> QED BY Zenon, <1>c, <2>1
<1>13. CASE Deflate
  <2>1. word'.st # "fat"
    BY <1>13 DEF Deflate, ThinWord, HashWord, UnlockedWord
  <2> QED BY Zenon, <1>a, <2>1
<1>14. CASE UNCHANGED monitorVars
  <2>1. UNCHANGED <<word, fat, mpc>>
    BY Zenon, <1>14 DEF monitorVars
  <2> QED BY Zenon, <1>b, <2>1
<1> QED BY Zenon, <1>1, <1>2, <1>3, <1>4, <1>5, <1>6, <1>7, <1>8, <1>9, <1>10, <1>11, <1>12, <1>13, <1>14 DEF MonitorNext, ThreadStep

(* Monitored is inductive.                                                  *)
LEMMA MonitorStep == Monitored /\ [MonitorNext]_monitorVars => Monitored'
<1> SUFFICES ASSUME Monitored, [MonitorNext]_monitorVars PROVE Monitored'
  BY Zenon
<1>1. MonitorTypeOK' /\ WordShape' /\ Stops' /\ Waits' /\ Owners' /\ HashKept' /\ ~fatal'
  BY Zenon, MonitorTypesStep, ShapeStep, StopsStep, WaitsStep, OwnersStep, HashStep
<1>2. NobodyForgotten'
  BY Zenon, CountedStep, ListedStep, OnTheWayStep DEF NobodyForgotten, Counted, Listed, OnTheWay, Contended
<1> QED BY Zenon, <1>1, <1>2 DEF Monitored

(* It holds in every state.                                                 *)
LEMMA MonitorInvariant == MonitorSpec => []Monitored
<1>1. MonitorInit => Monitored
  BY Zenon, MonitorBegins
<1>2. Monitored /\ [MonitorNext]_monitorVars => Monitored'
  BY Zenon, MonitorStep
<1> QED BY <1>1, <1>2, PTL DEF MonitorSpec

(* Every variable of the object's lock has its type.                        *)
THEOREM MonitorTypes == MonitorSpec => []MonitorTypeOK
<1>1. Monitored => MonitorTypeOK
  BY Zenon DEF Monitored
<1> QED BY <1>1, MonitorInvariant, PTL

(* MonitorEnter, MonitorExit, Wait, IdentityHashCode, inflation and         *)
(* deflation: the lock word or its Monitor records exactly the thread that  *)
(* is inside with its recursion count, the identity hash code never         *)
(* changes, and no CHECK of Install or Lock fails.                          *)
THEOREM LockWordsAreKept == MonitorSpec => []LockWordKept
<1>1. Monitored => LockWordKept
  <2> SUFFICES ASSUME Monitored PROVE LockWordKept
    BY Zenon
  <2>1. \A h, k \in hashes : h = k
    BY Zenon DEF Monitored, HashKept
  <2>2. CASE hashes = {}
    <3>1. Cardinality(hashes) = 0
      BY Zenon, <2>2, FS_EmptySet
    <3> QED BY <3>1 DEF LockWordKept, Monitored, Owners, OwnersAt
  <2>3. CASE hashes # {}
    <3>1. PICK h \in hashes : hashes = {h}
      BY Zenon, <2>1, <2>3
    <3>2. Cardinality(hashes) = 1
      BY Zenon, <3>1, FS_Singleton
    <3> QED BY <3>2 DEF LockWordKept, Monitored, Owners, OwnersAt
  <2> QED BY Zenon, <2>2, <2>3
<1> QED BY <1>1, MonitorInvariant, PTL

(* Monitor::Lock, Wait, Notify, Unlock and Deflate: no thread that blocks   *)
(* is forgotten.                                                            *)
THEOREM NobodyIsForgotten == MonitorSpec => []NobodyForgotten
<1>1. Monitored => NobodyForgotten
  BY Zenon DEF Monitored
<1> QED BY <1>1, MonitorInvariant, PTL
=============================================================================
