------------------------ MODULE ModuleServiceProofs -------------------------
(***************************************************************************)
(* Proofs about the service of modules (ModuleService) and about the proxy *)
(* through which an application uses it (ClientProxy), for any number of   *)
(* keys, modules, calls and restarts.                                      *)
(***************************************************************************)
EXTENDS WellFoundedInduction, TLAPS, ModuleService, ClientProxy

What == {"onReceive", "CHECK_PROCESS_WHETHER_EXIST", "XLOADER_SYSTEM_SERVER_STARTPROCESS",
         "CHECK_PROCESS_HAD_STARTED_BEFORE_ADDMODULE", "CHECK_HAD_STARTED_BEFORE_XLOADERSERVICE"}
Msg == [what : What, delay : {0, 100, 1000, 3000}, key : Key \cup {None}]

\* PendingIsWatched is inductive with the range of the counter: CheckPending
\* gives up a watch only at the limit.
Watched ==
  /\ mCheckNums \in 0..5 /\ queue \in Seq(Msg) /\ broadcast \in Key \cup {None}
  /\ PendingIsWatched

-----------------------------------------------------------------------------
\* MessageQueue: taking message j out keeps all the others.
LEMMA WithoutKeeps ==
  ASSUME NEW S, NEW s \in Seq(S), NEW j \in 1..Len(s)
  PROVE  /\ Without(s, j) \in Seq(S) /\ Len(Without(s, j)) = Len(s) - 1
         /\ \A i \in 1..Len(s) : i # j => \E h \in 1..Len(s) - 1 : Without(s, j)[h] = s[i]
<1>0. Len(s) \in Nat /\ Len(s) - 1 \in Nat
  OBVIOUS
<1>1. \A i \in 1..Len(s) - 1 : (IF i < j THEN s[i] ELSE s[i + 1]) \in S
  OBVIOUS
<1>2. Without(s, j) \in [1..Len(s) - 1 -> S]
  BY Zenon, <1>1 DEF Without
<1>3. Without(s, j) \in Seq(S) /\ Len(Without(s, j)) = Len(s) - 1
  BY <1>0, <1>2
<1>4. ASSUME NEW i \in 1..Len(s), i # j PROVE \E h \in 1..Len(s) - 1 : Without(s, j)[h] = s[i]
  <2>1. CASE i < j
    <3>1. i \in 1..Len(s) - 1 /\ Without(s, j)[i] = s[i]
      BY <2>1 DEF Without
    <3> QED BY Zenon, <3>1
  <2>2. CASE i > j
    <3>1. i - 1 \in 1..Len(s) - 1 /\ ~(i - 1 < j) /\ (i - 1) + 1 = i
      BY <2>2
    <3>2. Without(s, j)[i - 1] = s[i]
      BY Zenon, <3>1 DEF Without
    <3> QED BY Zenon, <3>1, <3>2
  <2> QED BY <1>4, <2>1, <2>2
<1> QED BY Zenon, <1>3, <1>4

\* Posting a message keeps the others and adds it.
LEMMA PostKeeps ==
  ASSUME NEW S, NEW s \in Seq(S), NEW e \in S
  PROVE  /\ Append(s, e) \in Seq(S) /\ Len(Append(s, e)) = Len(s) + 1
         /\ Append(s, e)[Len(s) + 1] = e
         /\ \A i \in 1..Len(s) : Append(s, e)[i] = s[i]
  OBVIOUS

\* The messages the service posts.
LEMMA Messages ==
  /\ {CheckSoon, CheckAgain, StartSystem, CheckAdded, CheckAll} \subseteq Msg
  /\ CheckSoon.what = "CHECK_PROCESS_WHETHER_EXIST" /\ CheckAgain.what = "CHECK_PROCESS_WHETHER_EXIST"
<1> USE DEF Message, Msg, What
<1>1. CheckSoon \in Msg /\ CheckSoon.what = "CHECK_PROCESS_WHETHER_EXIST"
  BY DEF CheckSoon
<1>2. CheckAgain \in Msg /\ CheckAgain.what = "CHECK_PROCESS_WHETHER_EXIST"
  BY DEF CheckAgain
<1>3. StartSystem \in Msg
  BY DEF StartSystem
<1>4. CheckAdded \in Msg
  BY DEF CheckAdded
<1>5. CheckAll \in Msg
  BY DEF CheckAll
<1> QED BY <1>1, <1>2, <1>3, <1>4, <1>5

\* A handler that takes another message, and maybe posts one, keeps the watch.
LEMMA OtherMessage ==
  ASSUME Watched, NEW j \in 1..Len(queue), queue[j].what # "CHECK_PROCESS_WHETHER_EXIST",
         \/ queue' = Without(queue, j)
         \/ \E m \in Msg : queue' = Append(Without(queue, j), m),
         UNCHANGED <<mPendingModuleList, mCheckNums, broadcast>>
  PROVE  Watched'
<1> DEFINE q == Without(queue, j)
<1>1. /\ q \in Seq(Msg) /\ Len(q) = Len(queue) - 1
      /\ \A i \in 1..Len(queue) : i # j => \E h \in 1..Len(queue) - 1 : q[h] = queue[i]
  BY Zenon, WithoutKeeps DEF Watched
<1>2. CheckQueued => \E h \in 1..Len(q) : q[h].what = "CHECK_PROCESS_WHETHER_EXIST"
  BY Zenon, <1>1 DEF CheckQueued
<1>3. queue' = q \/ \E m \in Msg : queue' = Append(q, m)
  BY Zenon
<1> HIDE DEF q
<1>4. queue' \in Seq(Msg) /\ Len(queue') >= Len(q) /\ \A h \in 1..Len(q) : queue'[h] = q[h]
  <2>1. CASE queue' = q
    BY <1>1, <2>1
  <2>2. ASSUME NEW m \in Msg, queue' = Append(q, m) PROVE queue' \in Seq(Msg) /\ Len(queue') >= Len(q) /\ \A h \in 1..Len(q) : queue'[h] = q[h]
    BY <1>1, <2>2, PostKeeps
  <2> QED BY Zenon, <1>3, <2>1, <2>2
<1>5. CheckQueued => CheckQueued'
  <2> SUFFICES ASSUME CheckQueued PROVE CheckQueued'
    BY Zenon
  <2>1. PICK h \in 1..Len(q) : q[h].what = "CHECK_PROCESS_WHETHER_EXIST"
    BY Zenon, <1>2
  <2>2. Len(q) \in Nat /\ Len(queue') \in Nat
    BY <1>1, <1>4
  <2>3. h \in 1..Len(queue')
    BY <1>4, <2>2
  <2>4. queue'[h].what = "CHECK_PROCESS_WHETHER_EXIST"
    BY Zenon, <1>4, <2>1
  <2> QED BY Zenon, <2>3, <2>4 DEF CheckQueued
<1> QED BY Zenon, <1>4, <1>5 DEF Watched, PendingIsWatched

\* Posting a message keeps the watch.
LEMMA AnotherPost ==
  ASSUME Watched, NEW m \in Msg, queue' = Append(queue, m),
         UNCHANGED <<mPendingModuleList, mCheckNums>>, broadcast' \in Key \cup {None}
  PROVE  Watched'
<1>1. /\ queue' \in Seq(Msg) /\ Len(queue') = Len(queue) + 1
      /\ \A i \in 1..Len(queue) : queue'[i] = queue[i]
  BY PostKeeps DEF Watched
<1>2. CheckQueued => CheckQueued'
  BY <1>1 DEF CheckQueued, Watched
<1> QED BY Zenon, <1>1, <1>2 DEF Watched, PendingIsWatched

\* A step that leaves queue, pending modules and counter alone keeps the watch.
LEMMA SameQueue ==
  ASSUME Watched, UNCHANGED <<queue, mPendingModuleList, mCheckNums>>, broadcast' \in Key \cup {None}
  PROVE  Watched'
  BY Zenon DEF Watched, PendingIsWatched, CheckQueued

-----------------------------------------------------------------------------
\* The steps of the main thread keep the watch.
LEMMA MainWatched == ASSUME Watched, MainStep PROVE Watched'
<1>0. Watched => queue \in Seq(Msg) /\ Len(queue) \in Nat
  BY DEF Watched
<1>1. ASSUME NEW j \in 1..Len(queue), Receive(j) PROVE Watched'
  BY Zenon, <1>1, OtherMessage DEF Receive, Handles, system
<1>2. ASSUME NEW j \in 1..Len(queue), CheckPending(j) PROVE Watched'
  <2> DEFINE q == Without(queue, j)
  <2>1. q \in Seq(Msg) /\ Len(q) \in Nat
    BY WithoutKeeps DEF Watched
  <2>2. broadcast' = broadcast
    BY Zenon, <1>2 DEF CheckPending, system
  <2>3. PICK left : /\ mPendingModuleList' = left
                    /\ IF left # {} /\ mCheckNums < 5
                       THEN mCheckNums' = mCheckNums + 1 /\ queue' = Append(q, CheckAgain)
                       ELSE mCheckNums' = mCheckNums /\ queue' = q
    BY Zenon, <1>2 DEF CheckPending
  <2> HIDE DEF q
  <2>4. CASE left # {} /\ mCheckNums < 5
    <3>1. /\ queue' \in Seq(Msg) /\ Len(queue') = Len(q) + 1
          /\ queue'[Len(q) + 1] = CheckAgain
      BY <2>1, <2>3, <2>4, PostKeeps, Messages
    <3>2. CheckQueued'
      BY <2>1, <3>1, Messages DEF CheckQueued
    <3> QED BY <2>2, <2>3, <2>4, <3>1, <3>2 DEF Watched, PendingIsWatched
  <2>5. CASE ~(left # {} /\ mCheckNums < 5)
    BY <2>1, <2>2, <2>3, <2>5 DEF Watched, PendingIsWatched
  <2> QED BY Zenon, <2>4, <2>5
<1>3. ASSUME NEW j \in 1..Len(queue), LoadSystem(j) PROVE Watched'
  BY Zenon, <1>3, OtherMessage, Messages DEF LoadSystem, Handles, main
<1>4. ASSUME NEW j \in 1..Len(queue), QueryAdded(j) PROVE Watched'
  BY Zenon, <1>4, OtherMessage DEF QueryAdded, Handles, system
<1>5. ASSUME NEW j \in 1..Len(queue), BeginAll(j) PROVE Watched'
  BY Zenon, <1>5, OtherMessage DEF BeginAll, Handles, system
<1>6. CASE Received
  <2>1. broadcast' = broadcast
    BY Zenon, <1>6 DEF Received, system
  <2>2. CASE heard \in Keys(mit)
    <3>1. mCheckNums' = 0 /\ queue' = Append(queue, CheckSoon)
      BY Zenon, <1>6, <2>2 DEF Received
    <3>2. /\ queue' \in Seq(Msg) /\ Len(queue') = Len(queue) + 1
          /\ queue'[Len(queue) + 1] = CheckSoon
      BY <1>0, <3>1, PostKeeps, Messages
    <3>3. CheckQueued'
      BY <1>0, <3>2, Messages DEF CheckQueued
    <3> QED BY <2>1, <3>1, <3>2, <3>3 DEF Watched, PendingIsWatched
  <2>3. CASE heard \notin Keys(mit)
    BY Zenon, <1>6, <2>1, <2>3, SameQueue DEF Received, Watched
  <2> QED BY Zenon, <2>2, <2>3
<1>7. CASE MainThrows
  BY <1>7 DEF MainThrows, Gone, Watched, PendingIsWatched, system
<1>8. CASE SendAdded \/ NextAll
  BY Zenon, <1>8, SameQueue DEF SendAdded, NextAll, system, Watched
<1> QED BY Zenon, <1>1, <1>2, <1>3, <1>4, <1>5, <1>6, <1>7, <1>8 DEF MainStep, ReceiveThrows, AllThrows

\* While the service is down nothing is pending and no handler runs.
Down == up = "down" => mPendingModuleList = {} /\ mpc = "looper"

\* A binder thread touches neither the main thread's variables nor the process.
LEMMA BinderFrame ==
  ASSUME NEW c \in Client, CallStep(c) \/ \E m \in Module : \E op \in {"add", "remove", "check"} : Call(c, op, m)
  PROVE  /\ UNCHANGED <<up, mPendingModuleList, mCheckNums, mpc, broadcast>>
         /\ queue' = queue \/ queue' = Append(queue, CheckAdded)
<1> USE DEF NotBinder, main, system
<1>1. CASE \E m \in Module : \E op \in {"add", "remove", "check"} : Call(c, op, m)
  BY Zenon, <1>1 DEF Call
<1>2. CASE Search(c) \/ CallThrows(c) \/ Add(c) \/ SetCurrent(c)
  BY Zenon, <1>2 DEF Search, CallThrows, Add, SetCurrent
<1>3. CASE Remove(c) \/ WriteSize(c) \/ WriteEntries(c) \/ Commit(c)
  BY Zenon, <1>3 DEF Remove, WriteSize, WriteEntries, Commit
<1>4. CASE \E d \in Client : AddTogether(c, d)
  BY Zenon, <1>4 DEF AddTogether
<1> QED BY Zenon, <1>1, <1>2, <1>3, <1>4 DEF CallStep

\* Every step keeps the service down as it should be.
LEMMA NextDown == Down /\ [Next]_vars => Down'
<1> SUFFICES ASSUME Down, [Next]_vars PROVE Down'
  BY Zenon
<1>1. CASE Start
  BY Zenon, <1>1 DEF Start, Down
<1>2. CASE Killed \/ MainThrows
  BY Zenon, <1>2 DEF Killed, MainThrows, Gone, Down
<1>3. CASE Deliver
  BY Zenon, <1>3 DEF Deliver, Down, main
<1>4. ASSUME NEW j \in 1..Len(queue), Receive(j) \/ QueryAdded(j) \/ BeginAll(j) \/ CheckPending(j) \/ LoadSystem(j)
      PROVE Down'
  <2>1. up = "up"
    BY Zenon, <1>4 DEF Receive, QueryAdded, BeginAll, CheckPending, LoadSystem, Handles
  <2>2. up' = up
    BY Zenon, <1>4 DEF Receive, QueryAdded, BeginAll, CheckPending, LoadSystem
  <2> QED BY Zenon, <2>1, <2>2 DEF Down
<1>5. CASE Received \/ SendAdded \/ NextAll
  <2>1. mpc # "looper" /\ up' = up
    BY Zenon, <1>5 DEF Received, SendAdded, NextAll
  <2> QED BY Zenon, <2>1 DEF Down
<1>6. ASSUME NEW k \in Key, StartProcess(k) \/ ProcessRuns(k) \/ ProcessDies(k) PROVE Down'
  BY Zenon, <1>6 DEF StartProcess, ProcessRuns, ProcessDies, Down, main
<1>7. ASSUME NEW c \in Client, CallStep(c) \/ \E m \in Module : \E op \in {"add", "remove", "check"} : Call(c, op, m)
      PROVE Down'
  BY Zenon, <1>7, BinderFrame DEF Down
<1>8. CASE UNCHANGED vars
  BY Zenon, <1>8 DEF vars, main, Down
<1> QED BY Zenon, <1>1, <1>2, <1>3, <1>4, <1>5, <1>6, <1>7, <1>8
        DEF Next, MainStep, ReceiveThrows, AllThrows

\* Every step keeps the watch.
LEMMA NextWatched == Watched /\ Down /\ [Next]_vars => Watched'
<1> SUFFICES ASSUME Watched, Down, [Next]_vars PROVE Watched'
  BY Zenon
<1>1. CASE Start
  <2>1. queue' = <<StartSystem>> /\ UNCHANGED <<mPendingModuleList, mCheckNums, broadcast>>
    BY Zenon, <1>1 DEF Start, main, system
  <2>2. mPendingModuleList = {}
    BY Zenon, <1>1 DEF Start, Down
  <2> QED BY <2>1, <2>2, Messages DEF Watched, PendingIsWatched
<1>2. CASE Killed
  BY <1>2 DEF Killed, Gone, Watched, PendingIsWatched, system
<1>3. CASE Deliver
  <2>1. broadcast \in Key /\ broadcast' = None /\ UNCHANGED <<mPendingModuleList, mCheckNums>>
    BY Zenon, <1>3 DEF Deliver, Watched, main
  <2>2. CASE up = "up"
    <3>1. [what |-> "onReceive", delay |-> 0, key |-> broadcast] \in Msg
      BY <2>1 DEF Msg, What
    <3> QED BY Zenon, <1>3, <2>1, <2>2, <3>1, AnotherPost DEF Deliver
  <2>3. CASE up # "up"
    BY Zenon, <1>3, <2>1, <2>3, SameQueue DEF Deliver
  <2> QED BY Zenon, <2>2, <2>3
<1>4. CASE MainStep
  BY Zenon, <1>4, MainWatched
<1>5. ASSUME NEW k \in Key, StartProcess(k) \/ ProcessRuns(k) \/ ProcessDies(k) PROVE Watched'
  <2>1. broadcast' \in Key \cup {None}
    BY Zenon, <1>5 DEF StartProcess, ProcessRuns, ProcessDies, Watched
  <2>2. UNCHANGED <<queue, mPendingModuleList, mCheckNums>>
    BY Zenon, <1>5 DEF StartProcess, ProcessRuns, ProcessDies, main
  <2> QED BY Zenon, <2>1, <2>2, SameQueue
<1>6. ASSUME NEW c \in Client, CallStep(c) \/ \E m \in Module : \E op \in {"add", "remove", "check"} : Call(c, op, m)
      PROVE Watched'
  <2>1. /\ UNCHANGED <<mPendingModuleList, mCheckNums, broadcast>>
        /\ queue' = queue \/ queue' = Append(queue, CheckAdded)
    BY Zenon, <1>6, BinderFrame
  <2> QED BY Zenon, <2>1, SameQueue, AnotherPost, Messages DEF Watched
<1>7. CASE UNCHANGED vars
  BY Zenon, <1>7, SameQueue DEF vars, main, system, Watched
<1> QED BY Zenon, <1>1, <1>2, <1>3, <1>4, <1>5, <1>6, <1>7 DEF Next

\* A pending module is never forgotten: as long as it is pending, the next
\* CHECK_PROCESS_WHETHER_EXIST is posted or the five looks are used up.
THEOREM NeverForgotten == Spec => []PendingIsWatched
<1>1. Init => Watched /\ Down
  BY DEF Init, Watched, Down, PendingIsWatched
<1>2. Watched /\ Down /\ [Next]_vars => Watched' /\ Down'
  BY Zenon, NextWatched, NextDown
<1>3. Watched => PendingIsWatched
  BY Zenon DEF Watched
<1> QED BY <1>1, <1>2, <1>3, PTL DEF Spec

-----------------------------------------------------------------------------
(* What a command is made of: SentWasAdded.  Everything a command can be   *)
(* made from, over any restart, comes from the modules that were added.    *)

\* What a list may hold: Null is what readSharedPreferences() makes of a
\* missing index.
Stock == added \cup {Null}

\* The messages, where onReceive() is called for a key.
Posting == {m \in Msg : m.what = "onReceive" => m.key \in Key}
Where == {"idle", "search", "add", "remove", "current", "size", "entries", "commit"}

\* The processes and the messages about them.
Announced ==
  /\ running \in SUBSET Key /\ starting \in SUBSET Key /\ broadcast \in Key \cup {None}
  /\ queue \in Seq(Posting) /\ (mpc = "receive" => heard \in Key)

\* The calls: what has become mCurAddModule was listed before.
Calling ==
  /\ added \in SUBSET Module /\ mCurAddModule \in Stock
  /\ pc \in [Client -> Where] /\ call \in [Client -> [op : {"add", "remove", "check"}, m : Module \cup {Null}]]
  /\ \A c \in Client : /\ pc[c] # "idle" => call[c].m \in Module
                       /\ pc[c] = "current" => call[c].m \in added

\* The list, its copies and its file.
Lists ==
  /\ mModuleList \in Seq(Stock) /\ mit \in Seq(Stock) /\ it \in [Client -> Seq(Stock)]
  /\ prefs.nums \in Nat /\ prefs.entries \in Seq(Stock)

\* The pending modules, and the module between the two reads of mCurAddModule.
Chosen ==
  /\ mPendingModuleList \in SUBSET added
  /\ mpc = "added" => mit # <<>> /\ mit[1] \in added /\ ("current" \notin raced => mCurAddModule = mit[1])

\* Inductive.
Sourced == Announced /\ Calling /\ Lists /\ num \in [Client -> Nat] /\ Chosen /\ SentWasAdded

-----------------------------------------------------------------------------
\* The order of the natural numbers, as a relation.
Before == {p \in Nat \X Nat : p[1] < p[2]}

\* It is well-founded.
LEMMA BeforeWellFounded == IsWellFoundedOn(Before, Nat)
<1>1. OpToRel(<, Nat) = Before
  BY Zenon DEF OpToRel, Before
<1> QED BY Zenon, <1>1, NatLessThanWellFounded

\* A set of indices has a least one.
LEMMA LeastIndex ==
  ASSUME NEW S \in SUBSET Nat, S # {}
  PROVE  \E n \in S : \A m \in S : n <= m
<1>1. PICK x \in S : \A y \in S : ~(<<y, x>> \in Before)
  BY Zenon, BeforeWellFounded, WFMin
<1>2. \A m \in Nat : ~(<<m, x>> \in Before) => x <= m
  BY DEF Before
<1> QED BY Zenon, <1>1, <1>2

\* The element at which a loop over the list stops is the one it looks for.
LEMMA FirstIs ==
  ASSUME NEW S, NEW s \in Seq(S), NEW k \in Keys(s)
  PROVE  First(s, k) \in S /\ First(s, k).key = k
<1> DEFINE I == {i \in 1..Len(s) : s[i].key = k}
<1>1. I \in SUBSET Nat /\ I # {}
  BY DEF Keys
<1>2. PICK n \in I : \A m \in I : n <= m
  <2> HIDE DEF I
  <2> QED BY Zenon, <1>1, LeastIndex
<1>3. n \in 1..Len(s) /\ s[n].key = k /\ \A j \in 1..n - 1 : s[j].key # k
  <2>1. n \in 1..Len(s) /\ s[n].key = k /\ Len(s) \in Nat
    BY <1>2
  <2>2. ASSUME NEW j \in 1..n - 1, s[j].key = k PROVE FALSE
    <3>1. j \in I /\ j < n /\ j \in Nat /\ n \in Nat
      BY <2>1, <2>2
    <3> QED BY <1>2, <3>1
  <2> QED BY Zenon, <2>1, <2>2
<1>4. PICK i \in 1..Len(s) : First(s, k) = s[i] /\ s[i].key = k
  BY Zenon, <1>3 DEF First
<1> QED BY <1>4

\* A list of some things is a list of more.
LEMMA SeqGrows ==
  ASSUME NEW S, NEW T, S \subseteq T, NEW s \in Seq(S)
  PROVE  s \in Seq(T)
  OBVIOUS

\* The messages that are posted.
LEMMA Postings == {CheckSoon, CheckAgain, StartSystem, CheckAdded, CheckAll} \subseteq Posting
<1> USE DEF Posting, Msg, What, Message
<1>1. CheckSoon \in Posting /\ CheckAgain \in Posting
  BY DEF CheckSoon, CheckAgain
<1>2. StartSystem \in Posting /\ CheckAdded \in Posting /\ CheckAll \in Posting
  BY DEF StartSystem, CheckAdded, CheckAll
<1> QED BY <1>1, <1>2

\* Null stands for no key.
LEMMA NullIs ==
  /\ Null.key = None /\ Null.key \notin Key /\ Null \notin Module
  /\ \A m \in Module : m.key \in Key /\ [key |-> m.key, path |-> m.path] = m
<1>1. Null.key = None /\ Null.key \notin Key
  BY Zenon, ServiceAssumption DEF Null
<1>2. \A m \in Module : m.key \in Key /\ [key |-> m.key, path |-> m.path] = m
  BY DEF Module
<1> QED BY Zenon, <1>1, <1>2

-----------------------------------------------------------------------------
\* The main thread takes a message, and maybe posts one.
LEMMA Handled ==
  ASSUME Announced, NEW j \in 1..Len(queue)
  PROVE  /\ Without(queue, j) \in Seq(Posting)
         /\ \A m \in Posting : Append(Without(queue, j), m) \in Seq(Posting)
<1>1. Without(queue, j) \in Seq(Posting)
  BY Zenon, WithoutKeeps DEF Announced
<1> QED BY Zenon, <1>1, PostKeeps

\* Processes and messages: every step keeps a received key a key.
LEMMA AnnouncedStep ==
  ASSUME Announced, [Next]_vars
  PROVE  Announced'
<1> USE DEF Announced, main, binder, system, NotBinder
<1>0. queue \in Seq(Posting) /\ \A m \in Posting : Append(queue, m) \in Seq(Posting)
  BY Zenon, PostKeeps
<1>1. CASE Start
  BY <1>1, Postings DEF Start
<1>2. CASE Gone
  BY <1>2 DEF Gone
<1>3. CASE Deliver
  <2>1. [what |-> "onReceive", delay |-> 0, key |-> broadcast] \in Posting
    BY <1>3 DEF Deliver, Posting, Msg, What
  <2>2. queue' \in Seq(Posting)
    BY Zenon, <1>0, <1>3, <2>1 DEF Deliver
  <2> QED BY Zenon, <1>3, <2>2 DEF Deliver
<1>4. ASSUME NEW k \in Key, StartProcess(k) PROVE Announced'
  BY Zenon, <1>4 DEF StartProcess
<1>5. ASSUME NEW k \in Key, ProcessRuns(k) PROVE Announced'
  BY Zenon, <1>5 DEF ProcessRuns
<1>6. ASSUME NEW k \in Key, ProcessDies(k) PROVE Announced'
  BY Zenon, <1>6 DEF ProcessDies
<1>7. ASSUME NEW j \in 1..Len(queue), Receive(j) PROVE Announced'
  <2>1. queue[j] \in Posting /\ queue[j].what = "onReceive"
    BY <1>7 DEF Receive, Handles
  <2>2. queue[j].key \in Key
    BY Zenon, <2>1 DEF Posting
  <2>3. queue' \in Seq(Posting)
    BY Zenon, <1>7, Handled DEF Receive
  <2> QED BY Zenon, <1>7, <2>2, <2>3 DEF Receive
<1>8. CASE Received
  <2>1. queue' \in Seq(Posting)
    BY Zenon, <1>0, <1>8, Postings DEF Received
  <2> QED BY Zenon, <1>8, <2>1 DEF Received
<1>9. ASSUME NEW j \in 1..Len(queue), CheckPending(j) PROVE Announced'
  <2>1. queue' \in Seq(Posting)
    BY Zenon, <1>9, Handled, Postings DEF CheckPending
  <2> QED BY Zenon, <1>9, <2>1 DEF CheckPending
<1>10. ASSUME NEW j \in 1..Len(queue), LoadSystem(j) PROVE Announced'
  <2>1. queue' \in Seq(Posting)
    BY Zenon, <1>10, Handled, Postings DEF LoadSystem
  <2> QED BY Zenon, <1>10, <2>1 DEF LoadSystem
<1>11. ASSUME NEW j \in 1..Len(queue), QueryAdded(j) PROVE Announced'
  <2>1. queue' \in Seq(Posting)
    BY Zenon, <1>11, Handled DEF QueryAdded
  <2> QED BY Zenon, <1>11, <2>1 DEF QueryAdded
<1>12. ASSUME NEW j \in 1..Len(queue), BeginAll(j) PROVE Announced'
  <2>1. queue' \in Seq(Posting)
    BY Zenon, <1>12, Handled DEF BeginAll
  <2> QED BY Zenon, <1>12, <2>1 DEF BeginAll
<1>13. CASE SendAdded
  BY Zenon, <1>13 DEF SendAdded
<1>14. CASE NextAll
  BY Zenon, <1>14 DEF NextAll
<1>15. ASSUME NEW c \in Client, NEW m \in Module, NEW op \in {"add", "remove", "check"}, Call(c, op, m)
       PROVE  Announced'
  BY Zenon, <1>15 DEF Call
<1>16. ASSUME NEW c \in Client, SetCurrent(c) PROVE Announced'
  <2>1. queue' \in Seq(Posting)
    BY Zenon, <1>0, <1>16, Postings DEF SetCurrent
  <2> QED BY Zenon, <1>16, <2>1 DEF SetCurrent
<1>17. ASSUME NEW c \in Client, Search(c) \/ CallThrows(c) \/ Add(c) \/ Remove(c) \/ WriteSize(c)
                                \/ WriteEntries(c) \/ Commit(c) \/ \E d \in Client : AddTogether(c, d)
       PROVE  Announced'
  <2>1. UNCHANGED <<queue, running, starting, broadcast, mpc, heard>>
    BY Zenon, <1>17 DEF Search, CallThrows, Add, Remove, WriteSize, WriteEntries, Commit, AddTogether
  <2> QED BY Zenon, <2>1
<1>18. CASE UNCHANGED vars
  BY Zenon, <1>18 DEF vars
<1> QED BY Zenon, <1>1, <1>2, <1>3, <1>4, <1>5, <1>6, <1>7, <1>8, <1>9, <1>10, <1>11, <1>12, <1>13, <1>14,
           <1>15, <1>16, <1>17, <1>18
        DEF Next, MainStep, CallStep, Killed, MainThrows, ReceiveThrows, AllThrows

-----------------------------------------------------------------------------
CallRecord == [op : {"add", "remove", "check"}, m : Module \cup {Null}]

\* A binder thread goes to where its call may be.
LEMMA CallMoves ==
  ASSUME Calling, NEW c \in Client, NEW w \in Where, NEW r \in CallRecord,
         pc' = [pc EXCEPT ![c] = w], call' = [call EXCEPT ![c] = r],
         w # "idle" => r.m \in Module, w = "current" => r.m \in added',
         added \subseteq added', added' \subseteq Module, mCurAddModule' \in Stock'
  PROVE  Calling'
<1>1. pc' \in [Client -> Where] /\ call' \in [Client -> CallRecord]
  BY Zenon DEF Calling, CallRecord
<1>2. ASSUME NEW d \in Client
      PROVE  (pc'[d] # "idle" => call'[d].m \in Module) /\ (pc'[d] = "current" => call'[d].m \in added')
  <2>1. CASE d = c
    <3>1. pc'[d] = w /\ call'[d] = r
      BY Zenon, <2>1 DEF Calling
    <3> QED BY Zenon, <3>1
  <2>2. CASE d # c
    <3>1. pc'[d] = pc[d] /\ call'[d] = call[d]
      BY Zenon, <2>2 DEF Calling
    <3> QED BY Zenon, <3>1 DEF Calling
  <2> QED BY Zenon, <2>1, <2>2
<1> QED BY Zenon, <1>1, <1>2 DEF Calling, CallRecord

\* A call that returns.
LEMMA CallReturns ==
  ASSUME Calling, NEW c \in Client, Return(c), UNCHANGED <<added, mCurAddModule>>
  PROVE  Calling'
<1>1. NoCall \in CallRecord /\ "idle" \in Where
  BY Zenon DEF NoCall, CallRecord, Where
<1>2. added' \subseteq Module /\ mCurAddModule' \in Stock'
  BY Zenon DEF Calling, Stock
<1> QED BY <1>1, <1>2, CallMoves, Zenon DEF Return, Goto

\* A call that goes on, with the arguments it has.
LEMMA CallGoes ==
  ASSUME Calling, NEW c \in Client, NEW w \in Where, pc[c] # "idle", pc' = [pc EXCEPT ![c] = w], call' = call,
         w = "current" => call[c].m \in added',
         added \subseteq added', added' \subseteq Module, mCurAddModule' \in Stock'
  PROVE  Calling'
<1>1. call[c] \in CallRecord /\ call' = [call EXCEPT ![c] = call[c]] /\ call[c].m \in Module
  BY Zenon DEF Calling, CallRecord
<1> QED BY Zenon, <1>1, CallMoves

\* What a call is about was listed before it becomes mCurAddModule.
LEMMA CallingStep ==
  ASSUME Calling, [Next]_vars
  PROVE  Calling' /\ added \subseteq added'
<1> DEFINE Kept == Calling' /\ added \subseteq added'
<1> USE DEF lists, binder, NotBinder, Goto
<1>0. added \subseteq Module /\ mCurAddModule \in Stock /\ \A c \in Client : pc[c] # "idle" => call[c].m \in Module
  BY Zenon DEF Calling
<1>1. CASE UNCHANGED <<pc, call, added, mCurAddModule>>
  BY Zenon, <1>1 DEF Calling, Stock
<1>2. CASE Gone
  <2>1. NoCall \in CallRecord /\ "idle" \in Where
    BY Zenon DEF NoCall, CallRecord, Where
  <2> QED BY Zenon, <1>2, <2>1 DEF Gone, Calling, Stock, CallRecord
<1>3. ASSUME NEW c \in Client, NEW m \in Module, NEW op \in {"add", "remove", "check"}, Call(c, op, m)
      PROVE  Kept
  <2>1. [op |-> op, m |-> m] \in CallRecord /\ [op |-> op, m |-> m].m \in Module /\ "search" \in Where
    BY Zenon DEF CallRecord, Where
  <2>2. /\ pc' = [pc EXCEPT ![c] = "search"] /\ call' = [call EXCEPT ![c] = [op |-> op, m |-> m]]
        /\ added' = added /\ mCurAddModule' \in Stock'
    BY Zenon, <1>0, <1>3 DEF Call, Stock
  <2> QED BY Zenon, <1>0, <2>1, <2>2, CallMoves
<1>4. ASSUME NEW c \in Client, Search(c) PROVE Kept
  <2>1. UNCHANGED <<added, mCurAddModule>> /\ mCurAddModule' \in Stock'
    BY Zenon, <1>0, <1>4 DEF Search, Stock
  <2>2. Return(c) \/ ((\E w \in {"add", "remove"} : pc' = [pc EXCEPT ![c] = w]) /\ call' = call /\ pc[c] # "idle")
    BY Zenon, <1>4 DEF Search
  <2>3. CASE Return(c)
    BY Zenon, <2>1, <2>3, CallReturns
  <2>4. ASSUME NEW w \in {"add", "remove"}, pc' = [pc EXCEPT ![c] = w], call' = call, pc[c] # "idle" PROVE Kept
    BY Zenon, <1>0, <2>1, <2>4, CallGoes DEF Where
  <2> QED BY Zenon, <2>2, <2>3, <2>4
<1>5. ASSUME NEW c \in Client, CallThrows(c) \/ Commit(c) PROVE Kept
  BY Zenon, <1>5, CallReturns DEF CallThrows, Commit
<1>6. ASSUME NEW c \in Client, Add(c) PROVE Kept
  <2>1. /\ pc[c] # "idle" /\ pc' = [pc EXCEPT ![c] = "current"] /\ call' = call
        /\ added' = added \cup {call[c].m} /\ mCurAddModule' = mCurAddModule
    BY Zenon, <1>6 DEF Add
  <2>2. added \subseteq added' /\ added' \subseteq Module /\ mCurAddModule' \in Stock' /\ call[c].m \in added'
    BY Zenon, <1>0, <2>1 DEF Stock
  <2> QED BY Zenon, <2>1, <2>2, CallGoes DEF Where
<1>7. ASSUME NEW c \in Client, SetCurrent(c) PROVE Kept
  <2>1. pc[c] # "idle" /\ pc' = [pc EXCEPT ![c] = "size"] /\ call' = call /\ added' = added /\ mCurAddModule' = call[c].m
    BY Zenon, <1>7 DEF SetCurrent
  <2>2. mCurAddModule' \in Stock'
    BY Zenon, <1>7, <2>1 DEF SetCurrent, Calling, Stock
  <2> QED BY Zenon, <1>0, <2>1, <2>2, CallGoes DEF Where
<1>8. ASSUME NEW c \in Client, Remove(c) \/ WriteSize(c) \/ WriteEntries(c) PROVE Kept
  <2>1. /\ pc[c] # "idle" /\ (\E w \in {"size", "entries", "commit"} : pc' = [pc EXCEPT ![c] = w])
        /\ UNCHANGED <<call, added, mCurAddModule>>
    BY Zenon, <1>8 DEF Remove, WriteSize, WriteEntries
  <2>2. mCurAddModule' \in Stock'
    BY Zenon, <1>0, <2>1 DEF Stock
  <2> QED BY Zenon, <1>0, <2>1, <2>2, CallGoes DEF Where
<1>9. ASSUME NEW c \in Client, NEW d \in Client, AddTogether(c, d) PROVE Kept
  <2>1. /\ pc[c] # "idle" /\ pc[d] # "idle" /\ call' = call /\ c # d
        /\ pc' = [pc EXCEPT ![c] = "current", ![d] = "current"]
        /\ added' = added \cup {call[c].m, call[d].m} /\ mCurAddModule' = mCurAddModule
    BY Zenon, <1>9 DEF AddTogether
  <2>2. added \subseteq added' /\ added' \subseteq Module /\ mCurAddModule' \in Stock'
    BY Zenon, <1>0, <2>1 DEF Stock
  <2>3. pc' \in [Client -> Where] /\ \A e \in Client : pc'[e] = IF e \in {c, d} THEN "current" ELSE pc[e]
    BY Zenon, <2>1 DEF Calling, Where
  <2> QED BY Zenon, <1>0, <2>1, <2>2, <2>3 DEF Calling
<1>10. CASE Start \/ Deliver \/ Received \/ SendAdded \/ NextAll \/ UNCHANGED vars
  BY Zenon, <1>1, <1>10 DEF Start, Deliver, Received, SendAdded, NextAll, vars
<1>11. ASSUME NEW k \in Key, StartProcess(k) \/ ProcessRuns(k) \/ ProcessDies(k) PROVE Kept
  BY Zenon, <1>1, <1>11 DEF StartProcess, ProcessRuns, ProcessDies
<1>12. ASSUME NEW j \in 1..Len(queue), Receive(j) \/ CheckPending(j) \/ LoadSystem(j) \/ QueryAdded(j) \/ BeginAll(j)
       PROVE  Kept
  BY Zenon, <1>1, <1>12 DEF Receive, CheckPending, LoadSystem, QueryAdded, BeginAll
<1> QED BY Zenon, <1>2, <1>3, <1>4, <1>5, <1>6, <1>7, <1>8, <1>9, <1>10, <1>11, <1>12
        DEF Next, MainStep, CallStep, Killed, MainThrows, ReceiveThrows, AllThrows

-----------------------------------------------------------------------------
\* readSharedPreferences(): what the file holds, and Null where it holds nothing.
LEMMA StoredIs ==
  ASSUME Lists
  PROVE  Stored \in Seq(Stock) /\ Len(Stored) = prefs.nums
<1>1. prefs.nums \in Nat /\ prefs.entries \in Seq(Stock) /\ Null \in Stock
  BY Zenon DEF Lists, Stock
<1>2. \A i \in 1..prefs.nums : (IF i <= Len(prefs.entries) THEN prefs.entries[i] ELSE Null) \in Stock
  BY <1>1
<1>3. Stored \in [1..prefs.nums -> Stock]
  BY Zenon, <1>2 DEF Stored
<1> QED BY <1>1, <1>3

\* What stays in a list when the list may hold more.
LEMMA ListsKept ==
  ASSUME Lists, added \subseteq added'
  PROVE  /\ Stock \subseteq Stock'
         /\ mModuleList \in Seq(Stock') /\ mit \in Seq(Stock') /\ it \in [Client -> Seq(Stock')]
         /\ prefs.entries \in Seq(Stock') /\ prefs.nums \in Nat
<1>1. Stock \subseteq Stock'
  BY Zenon DEF Stock
<1>2. \A s \in Seq(Stock) : s \in Seq(Stock')
  BY Zenon, <1>1, SeqGrows
<1> QED BY Zenon, <1>1, <1>2 DEF Lists

\* The list, its copies and its file hold only modules that were added.
LEMMA ListsStep ==
  ASSUME Calling, Lists, num \in [Client -> Nat], added \subseteq added', [Next]_vars
  PROVE  Lists'
<1> USE DEF lists, main, binder, NotBinder
<1>0. /\ Stock \subseteq Stock'
      /\ mModuleList \in Seq(Stock') /\ mit \in Seq(Stock') /\ it \in [Client -> Seq(Stock')]
      /\ prefs.entries \in Seq(Stock') /\ prefs.nums \in Nat
  BY Zenon, ListsKept
<1>e. <<>> \in Seq(Stock')
  OBVIOUS
<1>1. CASE UNCHANGED <<mModuleList, mit, it, prefs>>
  BY Zenon, <1>0, <1>1 DEF Lists
<1>2. CASE Start
  <2>1. mModuleList' \in Seq(Stock')
    BY Zenon, <1>0, <1>2, StoredIs, SeqGrows DEF Start
  <2> QED BY Zenon, <1>0, <1>2, <2>1 DEF Start, Lists
<1>3. CASE Gone
  BY Zenon, <1>0, <1>e, <1>3 DEF Gone, Lists
<1>4. ASSUME NEW j \in 1..Len(queue), Receive(j) \/ BeginAll(j) PROVE Lists'
  BY Zenon, <1>0, <1>4 DEF Receive, BeginAll, Lists
<1>5. ASSUME NEW j \in 1..Len(queue), QueryAdded(j) PROVE Lists'
  <2>1. mCurAddModule \in Stock'
    BY Zenon, <1>0 DEF Calling
  <2>2. <<mCurAddModule>> \in Seq(Stock')
    BY <2>1
  <2>3. mit' \in Seq(Stock')
    BY Zenon, <1>0, <1>5, <2>2 DEF QueryAdded
  <2> QED BY Zenon, <1>0, <1>5, <2>3 DEF QueryAdded, Lists
<1>6. CASE Received \/ SendAdded
  BY Zenon, <1>0, <1>e, <1>6 DEF Received, SendAdded, Lists
<1>7. CASE NextAll
  <2>1. mit # <<>> => Tail(mit) \in Seq(Stock')
    BY <1>0
  <2>2. mit' \in Seq(Stock')
    BY Zenon, <1>0, <1>7, <2>1 DEF NextAll
  <2> QED BY Zenon, <1>0, <1>7, <2>2 DEF NextAll, Lists
<1>8. ASSUME NEW c \in Client, NEW m \in Module, NEW op \in {"add", "remove", "check"}, Call(c, op, m)
      PROVE  Lists'
  BY Zenon, <1>0, <1>8 DEF Call, Lists
<1>9. ASSUME NEW c \in Client, Search(c) \/ CallThrows(c) PROVE Lists'
  <2>1. it' = it \/ it' = [it EXCEPT ![c] = <<>>]
    BY Zenon, <1>9 DEF Search, CallThrows, Return
  <2>2. UNCHANGED <<mModuleList, mit, prefs>>
    BY Zenon, <1>9 DEF Search, CallThrows
  <2> QED BY Zenon, <1>0, <1>e, <2>1, <2>2 DEF Lists
<1>10. ASSUME NEW c \in Client, Add(c) \/ \E d \in Client : AddTogether(c, d) PROVE Lists'
  <2>1. call[c].m \in Stock' /\ mModuleList' = Append(mModuleList, call[c].m) /\ UNCHANGED <<mit, it, prefs>>
    BY Zenon, <1>10 DEF Add, AddTogether, Stock
  <2> QED BY <1>0, <2>1 DEF Lists
<1>11. ASSUME NEW c \in Client, Remove(c) PROVE Lists'
  <2> DEFINE there == {i \in 1..Len(mModuleList) : mModuleList[i] = First(it[c], call[c].m.key)}
  <2>1. /\ mModuleList' = IF there = {} THEN mModuleList
                          ELSE Without(mModuleList, CHOOSE i \in there : \A j \in there : i <= j)
        /\ UNCHANGED <<mit, it, prefs>>
    BY Zenon, <1>11 DEF Remove
  <2>2. mModuleList' \in Seq(Stock')
    <3>1. CASE there = {}
      BY Zenon, <1>0, <2>1, <3>1
    <3>2. CASE there # {}
      <4>1. there \in SUBSET Nat /\ there \subseteq 1..Len(mModuleList)
        OBVIOUS
      <4> HIDE DEF there
      <4>2. \E i \in there : \A j \in there : i <= j
        BY Zenon, <3>2, <4>1, LeastIndex
      <4>3. (CHOOSE i \in there : \A j \in there : i <= j) \in 1..Len(mModuleList)
        BY Zenon, <4>1, <4>2
      <4> QED BY Zenon, <1>0, <2>1, <3>2, <4>3, WithoutKeeps
    <3> QED BY Zenon, <3>1, <3>2
  <2> QED BY Zenon, <1>0, <2>1, <2>2 DEF Lists
<1>12. ASSUME NEW c \in Client, SetCurrent(c) \/ WriteSize(c) PROVE Lists'
  BY Zenon, <1>1, <1>12 DEF SetCurrent, WriteSize
<1>13. ASSUME NEW c \in Client, WriteEntries(c) PROVE Lists'
  BY Zenon, <1>0, <1>13 DEF WriteEntries, Lists
<1>14. ASSUME NEW c \in Client, Commit(c) PROVE Lists'
  <2>1. /\ prefs'.nums = num[c] /\ UNCHANGED <<mModuleList, mit>> /\ it' = [it EXCEPT ![c] = <<>>]
        /\ prefs'.entries = it[c] \o SubSeq(prefs.entries, Len(it[c]) + 1, Len(prefs.entries))
    BY Zenon, <1>14 DEF Commit, Return
  <2>2. it[c] \in Seq(Stock') /\ Len(it[c]) + 1 \in Nat /\ Len(prefs.entries) \in Nat /\ Len(it[c]) + 1 >= 1
    BY <1>0
  <2>3. SubSeq(prefs.entries, Len(it[c]) + 1, Len(prefs.entries)) \in Seq(Stock')
    BY <1>0, <2>2
  <2>4. prefs'.entries \in Seq(Stock')
    BY <2>1, <2>2, <2>3
  <2> QED BY Zenon, <1>0, <1>e, <2>1, <2>4 DEF Lists
<1>15. CASE Deliver \/ UNCHANGED vars
  BY Zenon, <1>1, <1>15 DEF Deliver, vars
<1>16. ASSUME NEW k \in Key, StartProcess(k) \/ ProcessRuns(k) \/ ProcessDies(k) PROVE Lists'
  BY Zenon, <1>1, <1>16 DEF StartProcess, ProcessRuns, ProcessDies
<1>17. ASSUME NEW j \in 1..Len(queue), CheckPending(j) \/ LoadSystem(j) PROVE Lists'
  BY Zenon, <1>1, <1>17 DEF CheckPending, LoadSystem
<1> QED BY Zenon, <1>2, <1>3, <1>4, <1>5, <1>6, <1>7, <1>8, <1>9, <1>10, <1>11, <1>12, <1>13, <1>14, <1>15, <1>16, <1>17
        DEF Next, MainStep, CallStep, Killed, MainThrows, ReceiveThrows, AllThrows

-----------------------------------------------------------------------------
\* num is the size of a list.
LEMMA NumStep ==
  ASSUME Lists, num \in [Client -> Nat], [Next]_vars
  PROVE  num' \in [Client -> Nat]
<1> USE DEF binder, NotBinder
<1>0. Len(mModuleList) \in Nat /\ 0 \in Nat
  BY DEF Lists
<1>1. CASE Gone
  BY Zenon, <1>1 DEF Gone
<1>2. ASSUME NEW c \in Client, CallStep(c) PROVE num' \in [Client -> Nat]
  <2>1. \E n \in {num[c], 0, Len(mModuleList)} : num' = [num EXCEPT ![c] = n]
    BY Zenon, <1>2 DEF CallStep, Search, CallThrows, Commit, Return, Add, AddTogether, SetCurrent, Remove, WriteSize, WriteEntries
  <2> QED BY Zenon, <1>0, <2>1
<1>3. ASSUME NEW c \in Client, NEW m \in Module, NEW op \in {"add", "remove", "check"}, Call(c, op, m)
      PROVE  num' = num
  BY Zenon, <1>3 DEF Call
<1>4. ASSUME NEW k \in Key, StartProcess(k) \/ ProcessRuns(k) \/ ProcessDies(k) PROVE num' = num
  BY Zenon, <1>4 DEF StartProcess, ProcessRuns, ProcessDies
<1>5. ASSUME NEW j \in 1..Len(queue), Receive(j) \/ CheckPending(j) \/ LoadSystem(j) \/ QueryAdded(j) \/ BeginAll(j)
      PROVE  num' = num
  BY Zenon, <1>5 DEF Receive, CheckPending, LoadSystem, QueryAdded, BeginAll
<1>6. CASE Start \/ Deliver \/ Received \/ SendAdded \/ NextAll \/ UNCHANGED vars
  BY Zenon, <1>6 DEF Start, Deliver, Received, SendAdded, NextAll, vars
<1> QED BY Zenon, <1>1, <1>2, <1>3, <1>4, <1>5, <1>6
        DEF Next, MainStep, Killed, MainThrows, ReceiveThrows, AllThrows

\* A listed module whose key is one is a module that was added, not Null.
LEMMA Real ==
  ASSUME NEW m \in Stock, m.key \in Key
  PROVE  m \in added
  BY Zenon, NullIs DEF Stock

\* Modules become pending, and mCurAddModule is looked at, only for a key.
LEMMA ChosenStep ==
  ASSUME Announced, Calling, Lists, Chosen, added \subseteq added', [Next]_vars
  PROVE  Chosen'
<1> USE DEF lists, main, binder, NotBinder
<1>1. CASE UNCHANGED <<mPendingModuleList, mpc, mit, mCurAddModule, raced>>
  BY Zenon, <1>1 DEF Chosen
<1>2. CASE Gone
  BY Zenon, <1>2 DEF Gone, Chosen
<1>3. ASSUME NEW j \in 1..Len(queue), Receive(j) \/ BeginAll(j) PROVE Chosen'
  <2>1. mpc' # "added" /\ mPendingModuleList' = mPendingModuleList
    BY Zenon, <1>3 DEF Receive, BeginAll
  <2> QED BY Zenon, <2>1 DEF Chosen
<1>4. CASE Received
  <2>1. mpc' # "added" /\ mPendingModuleList \subseteq added
    BY Zenon, <1>4 DEF Received, Chosen
  <2>2. CASE heard \in Keys(mit)
    <3>1. First(mit, heard) \in Stock /\ First(mit, heard).key = heard
      BY Zenon, <2>2, FirstIs DEF Lists
    <3>2. heard \in Key
      BY Zenon, <1>4 DEF Received, Announced
    <3>3. First(mit, heard) \in added
      BY Zenon, <3>1, <3>2, Real
    <3>4. mPendingModuleList' = mPendingModuleList \cup {First(mit, heard)}
      BY Zenon, <1>4, <2>2 DEF Received
    <3> QED BY Zenon, <2>1, <3>3, <3>4 DEF Chosen
  <2>3. CASE heard \notin Keys(mit)
    BY Zenon, <1>4, <2>1, <2>3 DEF Received, Chosen
  <2> QED BY Zenon, <2>2, <2>3
<1>5. ASSUME NEW j \in 1..Len(queue), CheckPending(j) PROVE Chosen'
  <2>1. mPendingModuleList' \subseteq mPendingModuleList /\ UNCHANGED <<mpc, mit, mCurAddModule, raced>>
    BY Zenon, <1>5 DEF CheckPending
  <2> QED BY Zenon, <2>1 DEF Chosen
<1>6. ASSUME NEW j \in 1..Len(queue), QueryAdded(j) PROVE Chosen'
  <2>1. mpc # "added" /\ UNCHANGED <<mPendingModuleList, mCurAddModule, raced>>
    BY Zenon, <1>6 DEF QueryAdded, Handles
  <2>2. CASE mCurAddModule.key \in running
    <3>1. mCurAddModule \in added
      BY Zenon, <2>2, Real DEF Calling, Announced
    <3>2. mit' = <<mCurAddModule>>
      BY Zenon, <1>6, <2>2 DEF QueryAdded
    <3>3. mit' # <<>> /\ mit'[1] = mCurAddModule
      BY Zenon, <3>2
    <3> QED BY Zenon, <2>1, <3>1, <3>3 DEF Chosen
  <2>3. CASE mCurAddModule.key \notin running
    BY Zenon, <1>1, <1>6, <2>1, <2>3 DEF QueryAdded
  <2> QED BY Zenon, <2>2, <2>3
<1>7. CASE SendAdded
  <2>1. mpc' # "added" /\ mPendingModuleList' = mPendingModuleList
    BY Zenon, <1>7 DEF SendAdded
  <2> QED BY Zenon, <2>1 DEF Chosen
<1>8. CASE NextAll
  <2>1. mpc' # "added" /\ mPendingModuleList' = mPendingModuleList
    BY Zenon, <1>8 DEF NextAll
  <2> QED BY Zenon, <2>1 DEF Chosen
<1>9. ASSUME NEW c \in Client, SetCurrent(c) PROVE Chosen'
  <2>1. UNCHANGED <<mPendingModuleList, mpc, mit>> /\ (mpc = "added" => "current" \in raced')
    BY Zenon, <1>9 DEF SetCurrent
  <2> QED BY Zenon, <2>1 DEF Chosen
<1>10. ASSUME NEW c \in Client, NEW m \in Module, NEW op \in {"add", "remove", "check"}, Call(c, op, m)
       PROVE  Chosen'
  <2>1. UNCHANGED <<mPendingModuleList, mpc, mit, mCurAddModule>> /\ ("current" \notin raced' => "current" \notin raced)
    BY Zenon, <1>10 DEF Call
  <2> QED BY Zenon, <2>1 DEF Chosen
<1>11. ASSUME NEW c \in Client, Search(c) \/ CallThrows(c) \/ Add(c) \/ Remove(c) \/ WriteSize(c)
                                \/ WriteEntries(c) \/ Commit(c) \/ \E d \in Client : AddTogether(c, d)
       PROVE  Chosen'
  BY Zenon, <1>1, <1>11 DEF Search, CallThrows, Add, Remove, WriteSize, WriteEntries, Commit, AddTogether
<1>12. CASE Start \/ Deliver \/ UNCHANGED vars
  BY Zenon, <1>1, <1>12 DEF Start, Deliver, vars
<1>13. ASSUME NEW k \in Key, StartProcess(k) \/ ProcessRuns(k) \/ ProcessDies(k) PROVE Chosen'
  BY Zenon, <1>1, <1>13 DEF StartProcess, ProcessRuns, ProcessDies
<1>14. ASSUME NEW j \in 1..Len(queue), LoadSystem(j) PROVE Chosen'
  BY Zenon, <1>1, <1>14 DEF LoadSystem
<1> QED BY Zenon, <1>2, <1>3, <1>4, <1>5, <1>6, <1>7, <1>8, <1>9, <1>10, <1>11, <1>12, <1>13, <1>14
        DEF Next, MainStep, CallStep, Killed, MainThrows, ReceiveThrows, AllThrows

\* Every command is one for a module that was added.
LEMMA SentStep ==
  ASSUME Announced, Calling, Lists, Chosen, SentWasAdded, added \subseteq added', [Next]_vars
  PROVE  SentWasAdded'
<1> USE DEF lists, binder, NotBinder
<1>1. CASE sent' \subseteq sent /\ raced \subseteq raced'
  BY Zenon, <1>1 DEF SentWasAdded
<1>2. CASE Gone
  BY Zenon, <1>1, <1>2 DEF Gone
<1>3. ASSUME NEW j \in 1..Len(queue), CheckPending(j) PROVE SentWasAdded'
  <2>1. sent' \subseteq sent \cup mPendingModuleList /\ raced' = raced
    BY Zenon, <1>3 DEF CheckPending
  <2> QED BY Zenon, <2>1 DEF SentWasAdded, Chosen
<1>4. CASE SendAdded
  <2> SUFFICES ASSUME "current" \notin raced PROVE sent' \subseteq added'
    BY Zenon, <1>4 DEF SendAdded, SentWasAdded
  <2>1. mCurAddModule = mit[1] /\ mit[1] \in added
    BY Zenon, <1>4 DEF SendAdded, Chosen
  <2>2. [key |-> mCurAddModule.key, path |-> mCurAddModule.path] = mCurAddModule
    BY Zenon, <2>1, NullIs DEF Calling
  <2>3. sent' = sent \cup {[key |-> mCurAddModule.key, path |-> mCurAddModule.path]}
    BY Zenon, <1>4, <2>1 DEF SendAdded
  <2> QED BY Zenon, <2>1, <2>2, <2>3 DEF SentWasAdded
<1>5. CASE NextAll
  <2>1. raced' = raced
    BY Zenon, <1>5 DEF NextAll
  <2>2. CASE sent' = sent
    BY Zenon, <1>1, <2>1, <2>2
  <2>3. CASE mit # <<>> /\ Head(mit).key \in running /\ sent' = sent \cup {Head(mit)}
    <3>1. Head(mit) \in Stock /\ Head(mit).key \in Key
      BY <2>3 DEF Lists, Announced
    <3>2. Head(mit) \in added
      BY Zenon, <3>1, Real
    <3> QED BY Zenon, <2>1, <2>3, <3>2 DEF SentWasAdded
  <2> QED BY Zenon, <1>5, <2>2, <2>3 DEF NextAll
<1>6. ASSUME NEW k \in Key, StartProcess(k) \/ ProcessRuns(k) \/ ProcessDies(k) PROVE SentWasAdded'
  BY Zenon, <1>1, <1>6 DEF StartProcess, ProcessRuns, ProcessDies
<1>7. ASSUME NEW c \in Client, CallStep(c) PROVE SentWasAdded'
  BY Zenon, <1>1, <1>7 DEF CallStep, Search, CallThrows, Add, SetCurrent, Remove, WriteSize, WriteEntries, Commit, AddTogether
<1>8. ASSUME NEW c \in Client, NEW m \in Module, NEW op \in {"add", "remove", "check"}, Call(c, op, m)
      PROVE  SentWasAdded'
  BY Zenon, <1>1, <1>8 DEF Call
<1>9. ASSUME NEW j \in 1..Len(queue), Receive(j) \/ LoadSystem(j) \/ QueryAdded(j) \/ BeginAll(j)
      PROVE  SentWasAdded'
  BY Zenon, <1>1, <1>9 DEF Receive, LoadSystem, QueryAdded, BeginAll
<1>10. CASE Start \/ Deliver \/ Received \/ UNCHANGED vars
  BY Zenon, <1>1, <1>10 DEF Start, Deliver, Received, vars
<1> QED BY Zenon, <1>2, <1>3, <1>4, <1>5, <1>6, <1>7, <1>8, <1>9, <1>10
        DEF Next, MainStep, Killed, MainThrows, ReceiveThrows, AllThrows

\* Over any interleaving and any restarts, what the service works with comes
\* from calls of addModule().
THEOREM SourcesAreAdded == Spec => []Sourced
<1>1. Init => Sourced
  <2> SUFFICES ASSUME Init PROVE Sourced
    BY Zenon
  <2> USE DEF Init
  <2>1. Announced
    BY DEF Announced
  <2>2. Calling
    BY Zenon DEF Calling, Stock, Where, NoCall
  <2>3. Lists /\ num \in [Client -> Nat]
    BY DEF Lists
  <2> QED BY Zenon, <2>1, <2>2, <2>3 DEF Sourced, Chosen, SentWasAdded
<1>2. Sourced /\ [Next]_vars => Sourced'
  <2> SUFFICES ASSUME Sourced, [Next]_vars PROVE Sourced'
    BY Zenon
  <2>1. Announced /\ Calling /\ Lists /\ num \in [Client -> Nat] /\ Chosen /\ SentWasAdded
    BY Zenon DEF Sourced
  <2>2. Calling' /\ added \subseteq added'
    BY Zenon, <2>1, CallingStep
  <2>3. Announced' /\ Lists' /\ num' \in [Client -> Nat]
    BY Zenon, <2>1, <2>2, AnnouncedStep, ListsStep, NumStep
  <2>4. Chosen' /\ SentWasAdded'
    BY Zenon, <2>1, <2>2, ChosenStep, SentStep
  <2> QED BY Zenon, <2>2, <2>3, <2>4 DEF Sourced
<1> QED BY <1>1, <1>2, PTL DEF Spec

\* DynXloaderServiceImpl sends an xload command only for a module that was
\* added for that process, unless mCurAddModule was set between two reads.
THEOREM CommandsWereAdded == Spec => []SentWasAdded
<1>1. Sourced => SentWasAdded
  BY Zenon DEF Sourced
<1> QED BY <1>1, SourcesAreAdded, PTL

-----------------------------------------------------------------------------
(* The list and its file: CrashAtomic.                                     *)

\* The places of a call between its change of the list and its commit().
Written == {"current", "size", "entries", "commit"}
Changing == Written \cup {"add", "remove"}

\* While calls that change the list have not overlapped: at most one is under
\* way, the file is that of the last call, and so is the list unless that one
\* has changed it; what that one is about to write is the list as it is.
Orderly ==
  /\ \A c, d \in Client : Mutates(c) /\ Mutates(d) => c = d
  /\ Stored = acked
  /\ (\A c \in Client : pc[c] \notin Written) => mModuleList = acked
  /\ \A c \in Client : /\ pc[c] \in {"entries", "commit"} => num[c] = Len(mModuleList)
                       /\ pc[c] = "commit" => it[c] = mModuleList /\ c \notin stale

\* Inductive with Sourced.
Saved ==
  /\ up \in {"up", "down"} /\ (up = "down" => \A c \in Client : pc[c] = "idle")
  /\ \A c \in Client : pc[c] \in Changing => call[c].op # "check"
  /\ up = "up" /\ "list" \notin raced => Orderly

\* A call that changes the list is alone in that.
LEMMA Alone ==
  ASSUME Saved, Orderly, NEW c \in Client, pc[c] \in Changing
  PROVE  Mutates(c) /\ \A d \in Client : d # c => ~Mutates(d) /\ pc[d] \notin Changing
<1>1. \A d \in Client : pc[d] \in Changing => Mutates(d)
  BY Zenon DEF Saved, Mutates, Changing, Written
<1> QED BY Zenon, <1>1 DEF Orderly

\* It goes on towards its commit().
LEMMA SoleMoves ==
  ASSUME Saved, Calling, NEW c \in Client, pc[c] \in Changing, NEW w \in Written, pc' = [pc EXCEPT ![c] = w],
         UNCHANGED <<call, up, prefs, acked>>, up = "up", "list" \notin raced' => "list" \notin raced,
         w \in {"entries", "commit"} /\ Orderly => num'[c] = Len(mModuleList'),
         w = "commit" => it'[c] = mModuleList' /\ c \notin stale'
  PROVE  Saved'
<1>1. pc'[c] = w /\ \A d \in Client : d # c => pc'[d] = pc[d]
  BY Zenon DEF Calling
<1>2. ASSUME NEW d \in Client, pc'[d] \in Changing PROVE call'[d].op # "check"
  BY Zenon, <1>1, <1>2 DEF Saved
<1>3. ASSUME Orderly PROVE Orderly'
  <2>1. \A d \in Client : d # c => ~Mutates(d) /\ pc[d] \notin Changing
    BY Zenon, <1>3, Alone
  <2>2. \A d \in Client : Mutates(d)' => d = c
    BY Zenon, <1>1, <2>1 DEF Mutates
  <2>3. Stored' = acked'
    BY Zenon, <1>3 DEF Orderly, Stored
  <2>4. \A d \in Client : d # c => pc'[d] \notin Written
    BY Zenon, <1>1, <2>1 DEF Changing
  <2>5. ASSUME NEW d \in Client
        PROVE  /\ pc'[d] \in {"entries", "commit"} => num'[d] = Len(mModuleList')
               /\ pc'[d] = "commit" => it'[d] = mModuleList' /\ d \notin stale'
    BY Zenon, <1>1, <1>3, <2>4 DEF Written
  <2> QED BY Zenon, <1>1, <2>2, <2>3, <2>5 DEF Orderly
<1> QED BY Zenon, <1>2, <1>3 DEF Saved

\* A call that has not touched the list goes on or returns.
LEMMA BystanderMoves ==
  ASSUME Saved, Calling, NEW c \in Client, pc[c] \notin Changing, NEW w \in Where \ Written, pc' = [pc EXCEPT ![c] = w],
         w \in Changing => call'[c].op # "check",
         \A d \in Client : d # c => call'[d] = call[d] /\ num'[d] = num[d] /\ it'[d] = it[d],
         UNCHANGED <<up, prefs, acked, mModuleList>>, up = "up", "list" \notin raced' => "list" \notin raced,
         "list" \notin raced' /\ Mutates(c)' => Mutates(c) \/ \A d \in Client : ~Mutates(d),
         stale' \subseteq stale
  PROVE  Saved'
<1>1. pc'[c] = w /\ \A d \in Client : d # c => pc'[d] = pc[d]
  BY Zenon DEF Calling
<1>2. ASSUME NEW d \in Client, pc'[d] \in Changing PROVE call'[d].op # "check"
  BY Zenon, <1>1, <1>2 DEF Saved
<1>3. ASSUME Orderly, "list" \notin raced' PROVE Orderly'
  <2>1. \A d \in Client : d # c => (Mutates(d)' <=> Mutates(d))
    BY Zenon, <1>1 DEF Mutates
  <2>2. \A d, e \in Client : Mutates(d)' /\ Mutates(e)' => d = e
    BY Zenon, <1>3, <2>1 DEF Orderly
  <2>3. Stored' = acked'
    BY Zenon, <1>3 DEF Orderly, Stored
  <2>4. \A d \in Client : pc'[d] \in Written <=> pc[d] \in Written
    BY Zenon, <1>1 DEF Changing
  <2>5. ASSUME NEW d \in Client
        PROVE  /\ pc'[d] \in {"entries", "commit"} => num'[d] = Len(mModuleList')
               /\ pc'[d] = "commit" => it'[d] = mModuleList' /\ d \notin stale'
    BY Zenon, <1>1, <1>3 DEF Orderly, Written
  <2>6. (\A d \in Client : pc'[d] \notin Written) => mModuleList' = acked'
    BY Zenon, <1>3, <2>4 DEF Orderly
  <2> QED BY Zenon, <2>2, <2>3, <2>5, <2>6 DEF Orderly
<1> QED BY Zenon, <1>2, <1>3 DEF Saved

\* A step that leaves the list, its file and the calls alone.
LEMMA ListAlone ==
  ASSUME Saved, UNCHANGED <<up, mModuleList, pc, call, it, num, prefs, acked, raced>>, \A c \in Client : c \in stale' => c \in stale
  PROVE  Saved'
<1>1. Stored' = Stored /\ \A c \in Client : Mutates(c)' = Mutates(c)
  BY Zenon DEF Stored, Mutates
<1>2. Orderly => Orderly'
  BY Zenon, <1>1 DEF Orderly
<1> QED BY Zenon, <1>2 DEF Saved

\* commit(): with the size and the elements of one and the same list, the
\* preferences hold that list, whatever they held before.
LEMMA CommitWrites ==
  ASSUME NEW S, NEW s \in Seq(S), NEW t \in Seq(S), prefs' = [nums |-> Len(s), entries |-> s \o t]
  PROVE  Stored' = s
<1>1. prefs'.nums = Len(s) /\ prefs'.entries = s \o t
  BY Zenon
<1>2. Len(s \o t) = Len(s) + Len(t) /\ Len(s) \in Nat /\ Len(t) \in Nat /\ \A i \in 1..Len(s) : (s \o t)[i] = s[i]
  OBVIOUS
<1>3. \A i \in 1..Len(s) : i <= Len(s \o t)
  BY <1>2
<1>4. Stored' = [i \in 1..Len(s) |-> IF i <= Len(s \o t) THEN (s \o t)[i] ELSE Null]
  BY Zenon, <1>1 DEF Stored
<1>5. Stored' = [i \in 1..Len(s) |-> s[i]]
  BY Zenon, <1>2, <1>3, <1>4
<1>6. s = [i \in 1..Len(s) |-> s[i]]
  OBVIOUS
<1> QED BY Zenon, <1>5, <1>6

\* commit() ends the call: the file is the list.
LEMMA CommitSaves ==
  ASSUME Saved, Calling, Lists, up = "up", NEW c \in Client, Commit(c)
  PROVE  Saved'
<1>1. /\ pc[c] = "commit" /\ pc' = [pc EXCEPT ![c] = "idle"] /\ call' = [call EXCEPT ![c] = NoCall]
      /\ UNCHANGED <<mModuleList, stale, up, raced>> /\ acked' = mModuleList
      /\ it' = [it EXCEPT ![c] = <<>>] /\ num' = [num EXCEPT ![c] = 0]
      /\ prefs' = [nums |-> num[c], entries |-> it[c] \o SubSeq(prefs.entries, Len(it[c]) + 1, Len(prefs.entries))]
  BY Zenon DEF Commit, Return, Goto, lists
<1>2. /\ pc'[c] = "idle"
      /\ \A d \in Client : d # c => pc'[d] = pc[d] /\ call'[d] = call[d]
  BY Zenon, <1>1 DEF Calling
<1>3. ASSUME NEW d \in Client, pc'[d] \in Changing PROVE call'[d].op # "check"
  BY Zenon, <1>2, <1>3 DEF Saved, Changing, Written
<1>4. ASSUME Orderly PROVE Orderly'
  <2>1. num[c] = Len(it[c]) /\ it[c] = mModuleList /\ it[c] \in Seq(Stock)
    BY Zenon, <1>1, <1>4 DEF Orderly, Lists
  <2>2. SubSeq(prefs.entries, Len(it[c]) + 1, Len(prefs.entries)) \in Seq(Stock)
    <3>1. prefs.entries \in Seq(Stock) /\ Len(prefs.entries) \in Nat /\ Len(it[c]) \in Nat
      BY <2>1 DEF Lists
    <3>2. Len(it[c]) + 1 \in Nat /\ Len(it[c]) + 1 >= 1
      BY <3>1
    <3> QED BY <3>1, <3>2
  <2>3. Stored' = it[c]
    BY Zenon, <1>1, <2>1, <2>2, CommitWrites
  <2>4. \A d \in Client : d # c => ~Mutates(d) /\ pc[d] \notin Changing
    BY Zenon, <1>1, <1>4, Alone DEF Changing, Written
  <2>5. \A d \in Client : ~Mutates(d)' /\ pc'[d] \notin Written
    BY Zenon, <1>2, <2>4 DEF Mutates, Changing, Written
  <2> QED BY Zenon, <1>1, <2>1, <2>3, <2>5 DEF Orderly, Written
<1> QED BY Zenon, <1>1, <1>3, <1>4 DEF Saved

\* The file follows the list, at most one call behind.
LEMMA SavedStep ==
  ASSUME Saved, Calling, Lists, num \in [Client -> Nat], [Next]_vars
  PROVE  Saved'
<1> USE DEF lists, binder, NotBinder, Goto
<1>1. CASE Start
  <2>1. \A c \in Client : pc[c] = "idle"
    BY Zenon, <1>1 DEF Start, Saved
  <2>2. pc' = pc /\ mModuleList' = Stored /\ acked' = Stored /\ Stored' = Stored
    BY Zenon, <1>1 DEF Start, Stored
  <2>3. Orderly'
    BY Zenon, <2>1, <2>2 DEF Orderly, Mutates, Written
  <2> QED BY Zenon, <1>1, <2>1, <2>2, <2>3 DEF Start, Saved, Changing, Written
<1>2. CASE Gone
  BY Zenon, <1>2 DEF Gone, Saved, Changing, Written
<1>3. ASSUME NEW c \in Client, NEW m \in Module, NEW op \in {"add", "remove", "check"}, Call(c, op, m)
      PROVE  Saved'
  <2>1. /\ up = "up" /\ pc[c] = "idle" /\ pc' = [pc EXCEPT ![c] = "search"]
        /\ call' = [call EXCEPT ![c] = [op |-> op, m |-> m]] /\ it' = [it EXCEPT ![c] = mModuleList]
        /\ UNCHANGED <<up, prefs, acked, mModuleList, num>> /\ stale' \subseteq stale /\ raced \subseteq raced'
    BY Zenon, <1>3 DEF Call
  <2>2. call'[c].op = op /\ \A d \in Client : d # c => call'[d] = call[d] /\ num'[d] = num[d] /\ it'[d] = it[d]
    BY Zenon, <2>1 DEF Calling, Lists
  <2>3. "list" \notin raced' /\ Mutates(c)' => \A d \in Client : ~Mutates(d)
    BY Zenon, <1>3, <2>2 DEF Call, Mutates
  <2>4. "search" \in Where \ Written /\ "search" \notin Changing /\ pc[c] \notin Changing
    BY Zenon, <2>1 DEF Where, Written, Changing
  <2> QED BY Zenon, <2>1, <2>2, <2>3, <2>4, BystanderMoves
<1>4. ASSUME NEW c \in Client, pc[c] = "search", Return(c),
             UNCHANGED <<up, prefs, acked, mModuleList, stale, raced>>, up = "up"
      PROVE  Saved'
  <2>1. /\ pc' = [pc EXCEPT ![c] = "idle"] /\ call' = [call EXCEPT ![c] = NoCall]
        /\ it' = [it EXCEPT ![c] = <<>>] /\ num' = [num EXCEPT ![c] = 0]
    BY Zenon, <1>4 DEF Return
  <2>2. pc'[c] = "idle" /\ \A d \in Client : d # c => call'[d] = call[d] /\ num'[d] = num[d] /\ it'[d] = it[d]
    BY Zenon, <2>1 DEF Calling, Lists
  <2>3. ~Mutates(c)'
    BY Zenon, <2>2 DEF Mutates
  <2>4. "idle" \in Where \ Written /\ "idle" \notin Changing /\ pc[c] \notin Changing
    BY Zenon, <1>4 DEF Where, Written, Changing
  <2> QED BY Zenon, <1>4, <2>1, <2>2, <2>3, <2>4, BystanderMoves
<1>5. ASSUME NEW c \in Client, pc[c] # "idle" PROVE up = "up"
  BY Zenon, <1>5 DEF Saved
<1>6. ASSUME NEW c \in Client, Search(c) PROVE Saved'
  <2>1. /\ pc[c] = "search" /\ up = "up" /\ UNCHANGED <<up, prefs, acked, mModuleList, stale, raced>>
    BY Zenon, <1>5, <1>6 DEF Search
  <2>2. CASE Return(c)
    BY Zenon, <1>4, <2>1, <2>2
  <2>3. ASSUME NEW w \in {"add", "remove"}, pc' = [pc EXCEPT ![c] = w], UNCHANGED <<call, it, num>>, call[c].op # "check"
        PROVE  Saved'
    <3>1. Mutates(c)
      BY Zenon, <2>1, <2>3 DEF Mutates
    <3>2. w \in Where \ Written /\ pc[c] \notin Changing
      BY Zenon, <2>1 DEF Where, Written, Changing
    <3> QED BY Zenon, <2>1, <2>3, <3>1, <3>2, BystanderMoves
  <2>4. Return(c) \/ ((\E w \in {"add", "remove"} : pc' = [pc EXCEPT ![c] = w] /\ call[c].op # "check") /\ UNCHANGED <<call, it, num>>)
    BY Zenon, <1>6 DEF Search
  <2> QED BY Zenon, <2>2, <2>3, <2>4
<1>7. ASSUME NEW c \in Client, CallThrows(c) PROVE Saved'
  <2>1. /\ Return(c) /\ pc[c] \in {"search", "commit"} /\ c \in stale /\ up = "up"
        /\ UNCHANGED <<up, prefs, acked, mModuleList, stale, raced>>
    BY Zenon, <1>5, <1>7 DEF CallThrows
  <2>2. CASE pc[c] = "search"
    BY Zenon, <1>4, <2>1, <2>2
  <2>3. CASE pc[c] = "commit"
    <3>1. "list" \in raced
      BY Zenon, <2>1, <2>3 DEF Saved, Orderly
    <3>2. \A d \in Client : pc'[d] \in Changing => pc[d] \in Changing /\ call'[d] = call[d]
      BY Zenon, <2>1 DEF Return, Changing, Written, Calling
    <3> QED BY Zenon, <2>1, <3>1, <3>2 DEF Saved
  <2> QED BY Zenon, <2>1, <2>2, <2>3
<1>8. ASSUME NEW c \in Client, Add(c) PROVE Saved'
  <2>1. /\ pc[c] = "add" /\ pc' = [pc EXCEPT ![c] = "current"] /\ up = "up"
        /\ UNCHANGED <<call, up, prefs, acked, raced>>
    BY Zenon, <1>5, <1>8 DEF Add
  <2> QED BY Zenon, <2>1, SoleMoves DEF Changing, Written
<1>9. ASSUME NEW c \in Client, NEW d \in Client, AddTogether(c, d) PROVE Saved'
  <2>1. /\ c # d /\ pc[c] = "add" /\ pc[d] = "add" /\ up = "up" /\ UNCHANGED <<call, up, raced>>
        /\ pc' = [pc EXCEPT ![c] = "current", ![d] = "current"]
    BY Zenon, <1>5, <1>9 DEF AddTogether
  <2>2. pc[c] \in Changing /\ pc[d] \in Changing
    BY Zenon, <2>1 DEF Changing
  <2>3. "list" \in raced
    BY Zenon, <2>1, <2>2, Alone DEF Saved
  <2>4. \A e \in Client : pc'[e] \in Changing => pc[e] \in Changing
    BY Zenon, <2>1, <2>2 DEF Calling
  <2> QED BY Zenon, <2>1, <2>3, <2>4 DEF Saved
<1>10. ASSUME NEW c \in Client, SetCurrent(c) PROVE Saved'
  <2>1. /\ pc[c] = "current" /\ pc' = [pc EXCEPT ![c] = "size"] /\ up = "up"
        /\ UNCHANGED <<call, up, prefs, acked>> /\ raced \subseteq raced'
    BY Zenon, <1>5, <1>10 DEF SetCurrent
  <2> QED BY Zenon, <2>1, SoleMoves DEF Changing, Written
<1>11. ASSUME NEW c \in Client, Remove(c) PROVE Saved'
  <2>1. /\ pc[c] = "remove" /\ pc' = [pc EXCEPT ![c] = "size"] /\ up = "up"
        /\ UNCHANGED <<call, up, prefs, acked, raced>>
    BY Zenon, <1>5, <1>11 DEF Remove
  <2> QED BY Zenon, <2>1, SoleMoves DEF Changing, Written
<1>12. ASSUME NEW c \in Client, WriteSize(c) PROVE Saved'
  <2>1. /\ pc[c] = "size" /\ pc' = [pc EXCEPT ![c] = "entries"] /\ up = "up"
        /\ UNCHANGED <<call, up, prefs, acked, raced>> /\ num'[c] = Len(mModuleList')
    BY Zenon, <1>5, <1>12 DEF WriteSize
  <2> QED BY Zenon, <2>1, SoleMoves DEF Changing, Written
<1>13. ASSUME NEW c \in Client, WriteEntries(c) PROVE Saved'
  <2>1. /\ pc[c] = "entries" /\ pc' = [pc EXCEPT ![c] = "commit"] /\ up = "up"
        /\ UNCHANGED <<call, up, prefs, acked, raced, num, mModuleList>>
        /\ it'[c] = mModuleList' /\ c \notin stale'
    BY Zenon, <1>5, <1>13 DEF WriteEntries, Lists
  <2>2. Orderly => num'[c] = Len(mModuleList')
    BY Zenon, <2>1 DEF Orderly
  <2> QED BY Zenon, <2>1, <2>2, SoleMoves DEF Changing, Written
<1>14. ASSUME NEW c \in Client, Commit(c) PROVE Saved'
  BY Zenon, <1>5, <1>14, CommitSaves DEF Commit
<1>15. CASE Deliver \/ Received \/ SendAdded \/ NextAll \/ UNCHANGED vars
  BY Zenon, <1>15, ListAlone DEF Deliver, Received, SendAdded, NextAll, vars
<1>16. ASSUME NEW k \in Key, StartProcess(k) \/ ProcessRuns(k) \/ ProcessDies(k) PROVE Saved'
  BY Zenon, <1>16, ListAlone DEF StartProcess, ProcessRuns, ProcessDies
<1>17. ASSUME NEW j \in 1..Len(queue), Receive(j) \/ CheckPending(j) \/ LoadSystem(j) \/ QueryAdded(j) \/ BeginAll(j)
       PROVE  Saved'
  BY Zenon, <1>17, ListAlone DEF Receive, CheckPending, LoadSystem, QueryAdded, BeginAll
<1> QED BY Zenon, <1>1, <1>2, <1>3, <1>6, <1>7, <1>8, <1>9, <1>10, <1>11, <1>12, <1>13, <1>14, <1>15, <1>16, <1>17
        DEF Next, MainStep, CallStep, Killed, MainThrows, ReceiveThrows, AllThrows

\* Wherever the process of the service is killed, what readSharedPreferences()
\* finds is the list, or the list before the one call under way, as long as no
\* two calls that change the list have overlapped.
THEOREM RestartsFindTheList == Spec => []CrashAtomic
<1>1. Init => Saved
  BY Zenon DEF Init, Saved, Changing, Written
<1>2. Sourced /\ Saved /\ [Next]_vars => Saved'
  BY Zenon, SavedStep DEF Sourced
<1>3. Saved => CrashAtomic
  <2> SUFFICES ASSUME Saved, up = "up", "list" \notin raced
               PROVE  Stored = mModuleList \/ (Stored = acked /\ \E c \in Client : Mutates(c))
    BY Zenon DEF CrashAtomic
  <2>1. Orderly
    BY Zenon DEF Saved
  <2>2. CASE \A c \in Client : pc[c] \notin Written
    BY Zenon, <2>1, <2>2 DEF Orderly
  <2>3. ASSUME NEW c \in Client, pc[c] \in Written PROVE Mutates(c)
    BY Zenon, <2>1, <2>3, Alone DEF Changing
  <2> QED BY Zenon, <2>1, <2>2, <2>3 DEF Orderly
<1> QED BY <1>1, <1>2, <1>3, SourcesAreAdded, PTL DEF Spec

-----------------------------------------------------------------------------
(* ClientProxy: what the caller is told.                                   *)

\* The job in hand of a call that went to the service directly is the last one.
InHand == lastJob > 0 /\ JobAt(lastJob, "use") /\ Direct(lastJob)
\* How many of the calls are over.
Over == IF InHand THEN lastJob - 1 ELSE lastJob

\* The first n calls were all told that they took effect.
AllTold(n) == \A i \in 1..n : JobAt(i, "done") /\ jobs[i].ret = 0 /\ jobs[i].op # "check"

\* The additions after the last removal among the first n calls, and the module
\* they leave behind.
Kept(n) == {i \in 1..n : \A j \in i..n : jobs[j].op = "add"}
StoredBy(n) == IF Kept(n) = {} THEN NoModule ELSE jobs[CHOOSE i \in Kept(n) : \A j \in Kept(n) : i <= j].apk

\* How often a job has reached the service, by where it is.
Reached(i) ==
  LET j == jobs[i] IN
  /\ j.at = "none" => j = NoJob
  /\ j.at \in {"retry", "slept"} => j.ret = 2 /\ j.left > 0 /\ j.applied <= proxyDeaths
  /\ j.at = "use" => \/ j.left = 0 /\ j.ret = 0 /\ j.applied = 0
                     \/ j.left > 0 /\ j.ret = 2 /\ j.applied <= proxyDeaths
  /\ j.at = "done" => j.applied >= 1 /\ (\/ j.ret = 0 /\ j.applied = 1
                                         \/ j.ret = 2 /\ j.applied <= proxyDeaths + 1)
  /\ j.at = "failed" => j.ret = -1 /\ j.applied <= 1
  /\ j.at = "threw" => j.applied = 0
  /\ j.at = "lost" => j.ret = 2 /\ j.applied <= proxyDeaths

\* Inductive.
Proxied ==
  /\ ProxyTypeOK /\ proxyDeaths \in 0..MaxDeaths
  /\ \A i \in Job : Reached(i) /\ (JobAt(i, "none") <=> i > lastJob) /\ (jobs[i].op = "add" => jobs[i].apk \in Apk)
  /\ \A i \in Job : JobAt(i, "use") /\ Direct(i) => i = lastJob
  /\ AllTold(Over) => module = StoredBy(Over)

\* The additions kept among n + 1 calls are those among n and the last one, or
\* none if that is a removal.
LEMMA KeptNext ==
  ASSUME NEW n \in Nat
  PROVE  /\ jobs[n + 1].op = "add" => Kept(n + 1) = Kept(n) \cup {n + 1}
         /\ jobs[n + 1].op # "add" => Kept(n + 1) = {}
<1>1. ASSUME jobs[n + 1].op = "add" PROVE Kept(n + 1) = Kept(n) \cup {n + 1}
  <2>1. ASSUME NEW i \in Kept(n + 1) PROVE i \in Kept(n) \cup {n + 1}
    BY <2>1 DEF Kept
  <2>2. ASSUME NEW i \in Kept(n) PROVE i \in Kept(n + 1)
    <3>1. i \in 1..n + 1
      BY DEF Kept
    <3>2. ASSUME NEW j \in i..n + 1 PROVE jobs[j].op = "add"
      BY <1>1, <2>2 DEF Kept
    <3> QED BY Zenon, <3>1, <3>2 DEF Kept
  <2>3. n + 1 \in Kept(n + 1)
    <3>1. \A j \in n + 1..n + 1 : j = n + 1
      OBVIOUS
    <3> QED BY <1>1, <3>1 DEF Kept
  <2> QED BY Zenon, <2>1, <2>2, <2>3
<1>2. ASSUME jobs[n + 1].op # "add" PROVE Kept(n + 1) = {}
  <2> SUFFICES ASSUME NEW i \in Kept(n + 1) PROVE FALSE
    BY Zenon
  <2>1. n + 1 \in i..n + 1
    BY DEF Kept
  <2> QED BY Zenon, <1>2, <2>1 DEF Kept
<1> QED BY Zenon, <1>1, <1>2

\* One more addition changes the stored module only if there was none; one more
\* removal takes it away.
LEMMA StoredNext ==
  ASSUME NEW n \in Nat, \A i \in 1..n + 1 : jobs[i].op = "add" => jobs[i].apk \in Apk
  PROVE  /\ jobs[n + 1].op = "add" =>
              StoredBy(n + 1) = IF StoredBy(n) = NoModule THEN jobs[n + 1].apk ELSE StoredBy(n)
         /\ jobs[n + 1].op # "add" => StoredBy(n + 1) = NoModule
<1>1. CASE jobs[n + 1].op # "add"
  BY Zenon, <1>1, KeptNext DEF StoredBy
<1>2. CASE jobs[n + 1].op = "add" /\ Kept(n) = {}
  <2>1. Kept(n + 1) = {n + 1}
    BY Zenon, <1>2, KeptNext
  <2>2. (CHOOSE i \in {n + 1} : \A j \in {n + 1} : i <= j) = n + 1
    OBVIOUS
  <2> QED BY <1>2, <2>1, <2>2 DEF StoredBy
<1>3. CASE jobs[n + 1].op = "add" /\ Kept(n) # {}
  <2>1. PICK k \in Kept(n) : \A j \in Kept(n) : k <= j
    <3>1. Kept(n) \in SUBSET Nat
      BY DEF Kept
    <3> QED BY Zenon, <1>3, <3>1, LeastIndex
  <2>2. Kept(n) \subseteq 1..n /\ Kept(n + 1) = Kept(n) \cup {n + 1}
    BY Zenon, <1>3, KeptNext DEF Kept
  <2>3. (CHOOSE i \in Kept(n) : \A j \in Kept(n) : i <= j) = k
    BY <2>1, <2>2
  <2>4. (CHOOSE i \in Kept(n + 1) : \A j \in Kept(n + 1) : i <= j) = k
    <3>1. k \in Kept(n + 1) /\ \A j \in Kept(n + 1) : k <= j
      BY <2>1, <2>2
    <3>2. \A i \in Kept(n + 1) : (\A j \in Kept(n + 1) : i <= j) => i = k
      BY <2>2, <3>1
    <3> QED BY Zenon, <3>1, <3>2
  <2>5. StoredBy(n) = jobs[k].apk /\ StoredBy(n + 1) = jobs[k].apk
    BY Zenon, <1>3, <2>2, <2>3, <2>4 DEF StoredBy
  <2>6. jobs[k].op = "add" /\ k \in 1..n + 1
    BY <2>1 DEF Kept
  <2> QED BY Zenon, <1>3, <2>5, <2>6, ProxyAssumption
<1> QED BY Zenon, <1>1, <1>2, <1>3

\* The stored module depends on the operations only.
LEMMA StoredSame ==
  ASSUME NEW n \in Nat, \A i \in 1..n : jobs'[i].op = jobs[i].op /\ jobs'[i].apk = jobs[i].apk
  PROVE  StoredBy(n)' = StoredBy(n)
<1>1. Kept(n)' = Kept(n)
  <2>1. ASSUME NEW i \in 1..n PROVE (\A j \in i..n : jobs'[j].op = "add") <=> (\A j \in i..n : jobs[j].op = "add")
    <3>1. \A j \in i..n : j \in 1..n
      OBVIOUS
    <3> QED BY Zenon, <3>1
  <2> QED BY Zenon, <2>1 DEF Kept
<1>2. CASE Kept(n) = {}
  BY Zenon, <1>1, <1>2 DEF StoredBy
<1>3. CASE Kept(n) # {}
  <2>1. PICK k \in Kept(n) : \A j \in Kept(n) : k <= j
    <3>1. Kept(n) \in SUBSET Nat
      BY DEF Kept
    <3> QED BY Zenon, <1>3, <3>1, LeastIndex
  <2>2. Kept(n) \subseteq 1..n
    BY Zenon DEF Kept
  <2>3. (CHOOSE i \in Kept(n) : \A j \in Kept(n) : i <= j) = k
    BY <2>1, <2>2
  <2>4. StoredBy(n) = jobs[k].apk
    BY Zenon, <1>3, <2>3 DEF StoredBy
  <2>5. StoredBy(n)' = jobs'[k].apk
    BY Zenon, <1>1, <1>3, <2>3 DEF StoredBy
  <2> QED BY Zenon, <2>1, <2>2, <2>4, <2>5
<1> QED BY Zenon, <1>2, <1>3

\* As long as a job was left to a retry thread, not all calls were told 0.
LEMMA RetryNotTold ==
  ASSUME Proxied, NEW i \in Job, jobs[i].at # "none", jobs'[i].ret = 2, lastJob' = lastJob,
         ~(JobAt(i, "use")' /\ Direct(i)')
  PROVE  ~AllTold(Over)'
<1>1. lastJob \in Nat /\ i \in 1..lastJob
  BY ProxyAssumption DEF Proxied, ProxyTypeOK, JobAt, Job
<1>2. i \in 1..Over'
  <2>1. CASE InHand'
    <3>1. i # lastJob
      BY Zenon, <2>1 DEF InHand, JobAt, Direct
    <3> QED BY <1>1, <2>1, <3>1 DEF Over
  <2>2. CASE ~InHand'
    BY Zenon, <1>1, <2>2 DEF Over
  <2> QED BY Zenon, <2>1, <2>2
<1> QED BY <1>2 DEF AllTold

\* The constructor has been called.
LEMMA ProxyBegins == ProxyInit => Proxied
<1> SUFFICES ASSUME ProxyInit PROVE Proxied
  BY Zenon
<1> USE ProxyAssumption DEF ProxyInit
<1>1. bound \in BOOLEAN
  BY Zenon
<1>2. ProxyTypeOK
  BY <1>1 DEF ProxyTypeOK, NoJob, Operation
<1>3. Over = 0 /\ Kept(0) = {}
  BY DEF Over, InHand, Kept
<1>4. module = StoredBy(Over)
  BY Zenon, <1>3 DEF StoredBy
<1> QED BY <1>2, <1>4 DEF Proxied, Reached, JobAt, Job, NoJob

\* A step of the service, or of the activity manager, leaves the jobs alone.
LEMMA ProxyServiceStep ==
  ASSUME Proxied, ServiceStarts \/ OnServiceConnected \/ OnServiceDisconnected \/ ServiceDies \/ Release \/ UNCHANGED proxyVars
  PROVE  Proxied'
<1> USE ProxyAssumption
<1>1. UNCHANGED <<jobs, lastJob, module>>
  BY Zenon DEF ServiceStarts, OnServiceConnected, OnServiceDisconnected, ServiceDies, Dies, Release, proxyVars
<1>2. proxyDeaths' \in 0..MaxDeaths /\ proxyDeaths' >= proxyDeaths
  BY DEF ServiceStarts, OnServiceConnected, OnServiceDisconnected, ServiceDies, Dies, Release, proxyVars, Proxied
<1>3. bound' \in BOOLEAN
  <2>1. bound' = bound \/ bound' = FALSE
    BY Zenon DEF ServiceStarts, OnServiceConnected, OnServiceDisconnected, ServiceDies, Dies, Release, proxyVars
  <2> QED BY Zenon, <2>1 DEF Proxied, ProxyTypeOK
<1>4. mService' \in {"null", "live", "dead"} /\ service' \in {"down", "up"}
  BY Zenon DEF ServiceStarts, OnServiceConnected, OnServiceDisconnected, ServiceDies, Dies, Release, proxyVars, Proxied, ProxyTypeOK
<1>5. ProxyTypeOK'
  BY Zenon, <1>1, <1>3, <1>4 DEF Proxied, ProxyTypeOK
<1>6. ASSUME NEW i \in Job PROVE Reached(i)'
  <2>1. jobs[i].applied \in Nat /\ proxyDeaths \in Nat /\ Reached(i)
    BY DEF Proxied, ProxyTypeOK
  <2> QED BY <1>1, <1>2, <2>1 DEF Reached
<1>7. (AllTold(Over) => module = StoredBy(Over))'
  BY <1>1 DEF AllTold, Over, StoredBy, Kept, InHand, JobAt, Direct, Proxied
<1> QED BY Zenon, <1>1, <1>2, <1>5, <1>6, <1>7 DEF Proxied, JobAt, Direct

\* A new call: told 2 and left to a thread, or in hand.
LEMMA ProxyCallStep ==
  ASSUME Proxied, NEW op \in Operation, NEW apk \in Apk \cup {NoModule}, op = "add" => apk \in Apk, CallModule(op, apk)
  PROVE  Proxied'
<1> USE ProxyAssumption
<1>1. PICK n \in Nat : n = lastJob /\ n + 1 \in Job /\ lastJob' = n + 1
  BY DEF CallModule, Proxied, ProxyTypeOK, Job
<1> DEFINE fresh == IF mService = "null"
                    THEN [NoJob EXCEPT !.op = op, !.apk = apk, !.at = "retry", !.left = MaxRetryCount, !.ret = 2]
                    ELSE [NoJob EXCEPT !.op = op, !.apk = apk, !.at = "use"]
<1>2. jobs' = [jobs EXCEPT ![n + 1] = fresh] /\ UNCHANGED <<bound, mService, service, module, proxyDeaths>>
  BY Zenon, <1>1 DEF CallModule
<1>3. /\ fresh.op = op /\ fresh.apk = apk /\ fresh.applied = 0
      /\ \/ fresh.at = "retry" /\ fresh.left = MaxRetryCount /\ fresh.ret = 2
         \/ fresh.at = "use" /\ fresh.left = 0 /\ fresh.ret = 0
      /\ fresh \in [op : Operation, apk : Apk \cup {NoModule}, left : 0..MaxRetryCount,
                    at : {"none", "retry", "slept", "use", "done", "failed", "threw", "lost"},
                    applied : 0..MaxDeaths + 1, ret : {-1, 0, 2}]
  <2>1. CASE mService = "null"
    <3>1. fresh = [op |-> op, apk |-> apk, at |-> "retry", left |-> MaxRetryCount, applied |-> 0, ret |-> 2]
      BY Zenon, <2>1 DEF NoJob
    <3> HIDE DEF fresh
    <3> QED BY <3>1
  <2>2. CASE mService # "null"
    <3>1. fresh = [op |-> op, apk |-> apk, at |-> "use", left |-> 0, applied |-> 0, ret |-> 0]
      BY Zenon, <2>2 DEF NoJob
    <3> HIDE DEF fresh
    <3> QED BY <3>1
  <2> QED BY Zenon, <2>1, <2>2
<1> HIDE DEF fresh
<1>4. jobs'[n + 1] = fresh /\ \A i \in Job \ {n + 1} : jobs'[i] = jobs[i]
  BY Zenon, <1>1, <1>2 DEF Proxied, ProxyTypeOK
<1>5. ProxyTypeOK'
  BY <1>1, <1>2, <1>3 DEF Proxied, ProxyTypeOK, Job
<1>6. ASSUME NEW i \in Job
      PROVE  /\ Reached(i)' /\ (JobAt(i, "none")' <=> i > lastJob')
             /\ jobs'[i].op = "add" => jobs'[i].apk \in Apk
             /\ JobAt(i, "use")' /\ Direct(i)' => i = lastJob'
  <2>1. CASE i = n + 1
    <3>1. proxyDeaths \in Nat
      BY SMTT(20) DEF Proxied
    <3> QED BY <1>1, <1>2, <1>3, <1>4, <2>1, <3>1 DEF Reached, JobAt
  <2>2. CASE i # n + 1
    <3>1. jobs'[i] = jobs[i] /\ Reached(i) /\ (JobAt(i, "none") <=> i > n) /\ ~(JobAt(i, "use") /\ Direct(i))
      BY Zenon, <1>1, <1>4, <2>2 DEF Proxied, CallModule
    <3> QED BY <1>1, <1>2, <2>2, <3>1 DEF Reached, JobAt, Direct, Job, Proxied
  <2> QED BY Zenon, <2>1, <2>2
<1>7. (AllTold(Over) => module = StoredBy(Over))'
  <2>1. CASE fresh.at = "retry"
    <3>1. Over' = n + 1
      BY Zenon, <1>1, <1>3, <1>4, <2>1 DEF Over, InHand, JobAt
    <3>2. jobs'[n + 1].ret = 2
      BY Zenon, <1>3, <1>4, <2>1
    <3> QED BY <1>1, <3>1, <3>2 DEF AllTold
  <2>2. CASE fresh.at = "use"
    <3>1. Over' = n
      BY <1>1, <1>3, <1>4, <2>2 DEF Over, InHand, JobAt, Direct
    <3>2. ~InHand
      <4>1. n > 0 => n \in Job
        BY <1>1 DEF Job
      <4> QED BY Zenon, <1>1, <4>1 DEF InHand, CallModule
    <3>3. Over = n
      BY Zenon, <1>1, <3>2 DEF Over
    <3>4. \A i \in 1..n : i \in Job \ {n + 1}
      BY <1>1 DEF Job
    <3>5. StoredBy(n)' = StoredBy(n)
      BY Zenon, <1>4, <3>4, StoredSame
    <3>6. AllTold(n)' => AllTold(n)
      BY Zenon, <1>4, <3>4 DEF AllTold, JobAt
    <3> QED BY Zenon, <1>2, <3>1, <3>3, <3>5, <3>6 DEF Proxied
  <2> QED BY Zenon, <1>3, <2>1, <2>2
<1> QED BY Zenon, <1>2, <1>5, <1>6, <1>7 DEF Proxied

JobRecord == [op : Operation, apk : Apk \cup {NoModule}, left : 0..MaxRetryCount,
              at : {"none", "retry", "slept", "use", "done", "failed", "threw", "lost"},
              applied : 0..MaxDeaths + 1, ret : {-1, 0, 2}]

\* A job goes on: it stays one of a retry thread; or it was in hand, and has
\* failed or has been done.
LEMMA JobMoves ==
  ASSUME Proxied, NEW i \in Job, jobs[i].at # "none",
         NEW r \in JobRecord, jobs' = [jobs EXCEPT ![i] = r], r.op = jobs[i].op, r.apk = jobs[i].apk,
         r.at # "none", lastJob' = lastJob, Reached(i)',
         proxyDeaths' \in 0..MaxDeaths, proxyDeaths' >= proxyDeaths,
         bound' \in BOOLEAN, mService' \in {"null", "live", "dead"}, service' \in {"down", "up"},
         module' \in Apk \cup {NoModule},
         ~(r.at = "use" /\ r.left = 0),
         \/ r.ret = 2
         \/ i = lastJob /\ r.at # "done"
         \/ i = lastJob /\ InHand /\ module' = StoredAfter(SentOp(i), jobs[i].apk)
  PROVE  Proxied'
<1> USE ProxyAssumption
<1>1. jobs'[i] = r /\ (\A k \in Job \ {i} : jobs'[k] = jobs[k]) /\ jobs' \in [Job -> JobRecord]
  BY Zenon DEF Proxied, ProxyTypeOK, JobRecord
<1>2. ProxyTypeOK'
  BY Zenon, <1>1 DEF Proxied, ProxyTypeOK, JobRecord
<1>3. ASSUME NEW k \in Job PROVE Reached(k)'
  <2>1. CASE k = i
    BY Zenon, <2>1
  <2>2. CASE k # i
    <3>1. jobs[k].applied \in Nat /\ proxyDeaths \in Nat /\ Reached(k) /\ jobs'[k] = jobs[k] /\ proxyDeaths' \in Nat
      BY <1>1, <2>2 DEF Proxied, ProxyTypeOK
    <3> QED BY <3>1 DEF Reached
  <2> QED BY Zenon, <2>1, <2>2
<1>4. ASSUME NEW k \in Job
      PROVE  /\ JobAt(k, "none")' <=> k > lastJob'
             /\ jobs'[k].op = "add" => jobs'[k].apk \in Apk
             /\ JobAt(k, "use")' /\ Direct(k)' => k = lastJob'
  <2>1. CASE k = i
    BY Zenon, <1>1, <2>1 DEF Proxied, JobAt, Direct
  <2>2. CASE k # i
    BY Zenon, <1>1, <2>2 DEF Proxied, JobAt, Direct
  <2> QED BY Zenon, <2>1, <2>2
<1>5. i \in 1..lastJob /\ lastJob \in Nat /\ \A k \in 1..lastJob : k \in Job
  BY DEF Proxied, ProxyTypeOK, JobAt, Job
<1>6. (AllTold(Over) => module = StoredBy(Over))'
  <2>1. CASE r.ret = 2
    <3>1. ~(JobAt(i, "use")' /\ Direct(i)')
      BY Zenon, <1>1 DEF JobAt, Direct
    <3> QED BY Zenon, <1>1, <2>1, <3>1, RetryNotTold
  <2>2. CASE i = lastJob /\ r.at # "done"
    <3>1. ~InHand'
      BY Zenon, <1>1, <2>2 DEF InHand, JobAt, Direct
    <3>2. Over' = lastJob
      BY Zenon, <3>1 DEF Over
    <3> QED BY Zenon, <1>1, <1>5, <2>2, <3>2 DEF AllTold, JobAt
  <2>3. CASE i = lastJob /\ InHand /\ module' = StoredAfter(SentOp(i), jobs[i].apk)
    <3>1. PICK n \in Nat : lastJob = n + 1
      BY <1>5
    <3>2. ~InHand'
      BY Zenon, <1>1, <2>3 DEF InHand, JobAt, Direct
    <3>3. Over' = n + 1 /\ Over = n
      BY <2>3, <3>1, <3>2 DEF Over
    <3> SUFFICES ASSUME AllTold(n + 1)' PROVE module' = StoredBy(n + 1)'
      BY Zenon, <3>3
    <3>4. \A k \in 1..n : jobs'[k] = jobs[k]
      BY <1>1, <1>5, <2>3, <3>1
    <3>5. AllTold(n)
      <4>1. \A k \in 1..n : k \in 1..n + 1
        OBVIOUS
      <4> QED BY <3>4, <4>1 DEF AllTold, JobAt
    <3>6. module = StoredBy(n)
      BY Zenon, <3>3, <3>5 DEF Proxied
    <3>7. \A k \in 1..n + 1 : jobs'[k].op = jobs[k].op /\ jobs'[k].apk = jobs[k].apk
      BY Zenon, <1>1, <1>5, <2>3, <3>1, <3>4
    <3>8. StoredBy(n + 1)' = StoredBy(n + 1)
      BY <3>7, StoredSame
    <3>9. \A k \in 1..n + 1 : jobs[k].op = "add" => jobs[k].apk \in Apk
      BY Zenon, <1>5, <3>1 DEF Proxied
    <3>10. jobs[n + 1].op \in {"add", "remove"} /\ SentOp(i) = jobs[n + 1].op
      <4>1. jobs'[n + 1].op # "check" /\ jobs[n + 1].op \in Operation
        BY <1>5, <3>1 DEF AllTold, Proxied, ProxyTypeOK
      <4> QED BY <2>3, <3>1, <3>7, <4>1 DEF Operation, SentOp
    <3>11. CASE jobs[n + 1].op = "add"
      <4>1. module' = IF module = NoModule THEN jobs[n + 1].apk ELSE module
        BY Zenon, <2>3, <3>1, <3>10, <3>11 DEF StoredAfter
      <4> QED BY Zenon, <3>6, <3>8, <3>9, <3>11, <4>1, StoredNext
    <3>12. CASE jobs[n + 1].op = "remove"
      <4>1. module' = NoModule
        BY Zenon, <2>3, <3>1, <3>10, <3>12 DEF StoredAfter
      <4> QED BY Zenon, <3>8, <3>9, <3>12, <4>1, StoredNext
    <3> QED BY Zenon, <3>10, <3>11, <3>12
  <2> QED BY Zenon, <2>1, <2>2, <2>3
<1> QED BY Zenon, <1>2, <1>3, <1>4, <1>6 DEF Proxied

\* A job that goes on, and a service that dies with its answer.
LEMMA ProxyJobStep ==
  ASSUME Proxied, NEW i \in Job, JobStep(i) \/ DiesAnswering(i)
  PROVE  Proxied'
<1> USE ProxyAssumption
<1> DEFINE j == jobs[i]
<1>1. /\ jobs \in [Job -> JobRecord] /\ j \in JobRecord /\ Reached(i) /\ proxyDeaths \in 0..MaxDeaths
      /\ bound \in BOOLEAN /\ mService \in {"null", "live", "dead"} /\ service \in {"down", "up"}
      /\ module \in Apk \cup {NoModule}
      /\ j.at = "use" /\ j.left = 0 => i = lastJob /\ InHand
  BY DEF Proxied, ProxyTypeOK, JobRecord, JobAt, Direct, InHand, Job
<1>2. ASSUME NEW op \in Operation, op = "add" => j.apk \in Apk PROVE StoredAfter(op, j.apk) \in Apk \cup {NoModule}
  BY Zenon, <1>1, <1>2 DEF StoredAfter, Operation
<1>3. SentOp(i) \in Operation /\ (SentOp(i) = "add" => j.apk \in Apk)
  BY Zenon, <1>1 DEF SentOp, Operation, JobRecord, Proxied
<1>4. ASSUME NEW r \in JobRecord, jobs' = [jobs EXCEPT ![i] = r], r.op = j.op, r.apk = j.apk,
             j.at # "none", r.at # "none", ~(r.at = "use" /\ r.left = 0), Reached(i)', lastJob' = lastJob,
             proxyDeaths' \in 0..MaxDeaths, proxyDeaths' >= proxyDeaths, bound' \in BOOLEAN,
             mService' \in {"null", "live", "dead"}, service' \in {"down", "up"}, module' \in Apk \cup {NoModule},
             \/ r.ret = 2
             \/ i = lastJob /\ r.at # "done"
             \/ i = lastJob /\ InHand /\ module' = StoredAfter(SentOp(i), j.apk)
      PROVE  Proxied'
  BY Zenon, <1>4, JobMoves
<1>f. j.left \in 0..MaxRetryCount /\ j.applied \in 0..MaxDeaths + 1 /\ proxyDeaths \in Int /\ proxyDeaths >= proxyDeaths
  BY <1>1 DEF JobRecord
<1>5. CASE Retry(i)
  <2>1. PICK r \in JobRecord : r = [j EXCEPT !.at = "slept"]
    BY Zenon, <1>1 DEF JobRecord
  <2>2. jobs' = [jobs EXCEPT ![i] = r] /\ j.at = "retry" /\ UNCHANGED <<mService, service, module, lastJob, proxyDeaths>>
    BY Zenon, <1>1, <1>5, <2>1 DEF Retry, JobAt
  <2>3. bound' \in BOOLEAN
    BY <1>5, Zenon DEF Retry
  <2>4. r.op = j.op /\ r.apk = j.apk /\ r.at = "slept" /\ r.ret = 2 /\ r.left = j.left /\ r.applied = j.applied
    BY Zenon, <1>1, <2>1, <2>2 DEF JobRecord, Reached
  <2>5. Reached(i)'
    BY Zenon, <1>1, <2>2, <2>4 DEF Reached
  <2> HIDE DEF j
  <2> QED BY Zenon, <1>1, <1>4, <1>f, <2>2, <2>3, <2>4, <2>5
<1>6. ASSUME j.at \in {"slept", "use"}, j.left > 0, j.ret = 2, NEW n \in {0, 1}, NEW r,
             proxyDeaths' = proxyDeaths + n, proxyDeaths' \in 0..MaxDeaths,
             jobs' = [jobs EXCEPT ![i] = r],
             r = [[j EXCEPT !.left = @ - 1, !.at = IF j.left > 1 THEN "retry" ELSE "lost"] EXCEPT !.applied = j.applied + n],
             bound' = bound, lastJob' = lastJob, mService' \in {"null", "live", "dead"}, service' \in {"down", "up"},
             module' \in Apk \cup {NoModule}
      PROVE  Proxied'
  <2>1. j.applied <= proxyDeaths
    BY <1>1, <1>6 DEF Reached
  <2>2. j.applied + n \in 0..MaxDeaths + 1 /\ j.left - 1 \in 0..MaxRetryCount
    BY <1>1, <1>f, <1>6, <2>1
  <2>3. r \in JobRecord
    BY Zenon, <1>1, <1>6, <2>2 DEF JobRecord
  <2>5. /\ proxyDeaths' >= proxyDeaths /\ r.op = j.op /\ r.apk = j.apk /\ r.ret = 2
        /\ r.at = (IF j.left > 1 THEN "retry" ELSE "lost") /\ r.left = j.left - 1 /\ r.applied = j.applied + n
    BY <1>1, <1>f, <1>6 DEF JobRecord
  <2>4. Reached(i)'
    BY <1>1, <1>f, <1>6, <2>1, <2>5 DEF Reached
  <2>6. r.at \in {"retry", "lost"} /\ j.at # "none" /\ r.at # "none" /\ r.at # "use"
    BY <1>6, <2>5
  <2> HIDE DEF j
  <2> QED BY Zenon, <1>1, <1>4, <1>6, <2>3, <2>4, <2>5, <2>6
<1>7. CASE Test(i)
  <2>1. /\ j.at = "slept" /\ j.left > 0 /\ j.ret = 2 /\ j.applied <= proxyDeaths
        /\ UNCHANGED <<bound, mService, service, module, lastJob, proxyDeaths>>
    BY Zenon, <1>1, <1>7 DEF Test, JobAt, Reached
  <2>2. CASE mService = "null"
    <3>1. PICK r : r = [[j EXCEPT !.left = @ - 1, !.at = IF j.left > 1 THEN "retry" ELSE "lost"] EXCEPT !.applied = j.applied + 0]
      BY Zenon
    <3>2. PICK f : f = [jobs EXCEPT ![i] = [j EXCEPT !.left = @ - 1, !.at = IF j.left > 1 THEN "retry" ELSE "lost"]]
      BY Zenon
    <3>a. f[i] = [j EXCEPT !.left = @ - 1, !.at = IF j.left > 1 THEN "retry" ELSE "lost"] /\ f[i].applied = j.applied
      BY Zenon, <1>1, <3>2 DEF JobRecord
    <3>b. jobs' = f
      BY Zenon, <1>1, <1>7, <2>2, <3>2 DEF Test, NextAttempt
    <3>c. r = f[i]
      <4>1. j.left - 1 \in 0..MaxRetryCount /\ j.applied + 0 = j.applied
        BY <1>f, <2>1
      <4>2. PICK g \in JobRecord : g = f[i]
        BY Zenon, <1>1, <3>a, <4>1 DEF JobRecord
      <4>3. g = [g EXCEPT !.applied = g.applied]
        BY Zenon, <4>2 DEF JobRecord
      <4> HIDE DEF j
      <4> QED BY Zenon, <3>1, <3>a, <4>1, <4>2, <4>3
    <3>3. jobs' = [jobs EXCEPT ![i] = r]
      BY Zenon, <1>1, <3>2, <3>a, <3>b, <3>c
    <3>4. proxyDeaths' = proxyDeaths + 0
      BY <1>f, <2>1
    <3> HIDE DEF j
    <3> QED BY Zenon, <1>1, <1>6, <2>1, <3>1, <3>3, <3>4
  <2>3. CASE mService # "null"
    <3>1. PICK r \in JobRecord : r = [j EXCEPT !.at = "use"]
      BY Zenon, <1>1 DEF JobRecord
    <3>2. jobs' = [jobs EXCEPT ![i] = r]
      BY Zenon, <1>1, <1>7, <2>3, <3>1 DEF Test
    <3>3. r.op = j.op /\ r.apk = j.apk /\ r.at = "use" /\ r.ret = 2 /\ r.left = j.left /\ r.applied = j.applied
      BY <1>1, <2>1, <3>1 DEF JobRecord
    <3>4. Reached(i)'
      BY Zenon, <1>1, <2>1, <3>2, <3>3 DEF Reached
    <3>5. ~(r.at = "use" /\ r.left = 0)
      BY <2>1, <3>3
    <3> HIDE DEF j
    <3> QED BY Zenon, <1>1, <1>4, <1>f, <2>1, <3>2, <3>3, <3>4, <3>5
  <2> QED BY Zenon, <2>2, <2>3
<1>8. CASE Use(i)
  <2>1. /\ j.at = "use" /\ module' = StoredAfter(SentOp(i), j.apk)
        /\ UNCHANGED <<bound, mService, service, lastJob, proxyDeaths>>
    BY Zenon, <1>8 DEF Use, JobAt
  <2>2. \/ j.left = 0 /\ j.ret = 0 /\ j.applied = 0
        \/ j.left > 0 /\ j.ret = 2 /\ j.applied <= proxyDeaths
    BY Zenon, <1>1, <2>1 DEF Reached
  <2>3. PICK r : r = [j EXCEPT !.at = "done", !.applied = j.applied + 1]
    BY Zenon
  <2>4. r.op = j.op /\ r.apk = j.apk /\ r.at = "done" /\ r.ret = j.ret /\ r.left = j.left /\ r.applied = j.applied + 1
    BY Zenon, <1>1, <2>3 DEF JobRecord
  <2>5. r \in JobRecord
    <3>1. j.applied + 1 \in 0..MaxDeaths + 1
      BY <1>1, <1>f, <2>2
    <3> QED BY Zenon, <1>1, <2>3, <3>1 DEF JobRecord
  <2>6. jobs' = [jobs EXCEPT ![i] = r]
    BY Zenon, <1>1, <1>8, <2>3 DEF Use, Applied, JobRecord
  <2>7. Reached(i)'
    <3>1. jobs'[i] = r /\ j.applied \in Nat
      BY <1>1, <2>6 DEF JobRecord
    <3> QED BY <1>1, <2>1, <2>2, <2>4, <3>1 DEF Reached
  <2>8. module' \in Apk \cup {NoModule}
    BY Zenon, <1>2, <1>3, <2>1
  <2>9. r.ret = 2 \/ (i = lastJob /\ InHand /\ module' = StoredAfter(SentOp(i), j.apk))
    BY Zenon, <1>1, <2>1, <2>2, <2>4
  <2> HIDE DEF j
  <2> QED BY Zenon, <1>1, <1>4, <1>f, <2>1, <2>4, <2>5, <2>6, <2>7, <2>8, <2>9
<1>9. ASSUME j.at = "use", j.left = 0, NEW n \in {0, 1}, NEW r,
             proxyDeaths' = proxyDeaths + n, proxyDeaths' \in 0..MaxDeaths,
             jobs' = [jobs EXCEPT ![i] = r],
             r = [[j EXCEPT !.at = "failed", !.ret = -1] EXCEPT !.applied = j.applied + n],
             bound' = bound, lastJob' = lastJob, mService' \in {"null", "live", "dead"}, service' \in {"down", "up"},
             module' \in Apk \cup {NoModule}
      PROVE  Proxied'
  <2>1. j.applied = 0 /\ i = lastJob
    BY <1>1, <1>9 DEF Reached
  <2>2. j.applied + n \in 0..MaxDeaths + 1
    BY <1>9, <2>1
  <2>3. r \in JobRecord
    BY Zenon, <1>1, <1>9, <2>2 DEF JobRecord
  <2>5. /\ proxyDeaths' >= proxyDeaths /\ r.op = j.op /\ r.apk = j.apk /\ r.at = "failed"
        /\ r.ret = -1 /\ r.applied = j.applied + n
    BY <1>1, <1>f, <1>9 DEF JobRecord
  <2>4. Reached(i)'
    BY <1>1, <1>9, <2>1, <2>5 DEF Reached
  <2> HIDE DEF j
  <2> QED BY Zenon, <1>1, <1>4, <1>9, <2>1, <2>3, <2>4, <2>5
<1>10. ASSUME j.at = "use", NEW n \in {0, 1}, NEW failed \in [Job -> JobRecord], failed = Failed(i),
              jobs' = [failed EXCEPT ![i] = [failed[i] EXCEPT !.applied = j.applied + n]],
              proxyDeaths' = proxyDeaths + n, proxyDeaths' \in 0..MaxDeaths,
              bound' = bound, lastJob' = lastJob, mService' \in {"null", "live", "dead"}, service' \in {"down", "up"},
              module' \in Apk \cup {NoModule}
       PROVE  Proxied'
  <2>1. CASE j.left = 0
    <3>1. PICK r : r = [[j EXCEPT !.at = "failed", !.ret = -1] EXCEPT !.applied = j.applied + n]
      BY Zenon
    <3>3. failed = [jobs EXCEPT ![i] = [j EXCEPT !.at = "failed", !.ret = -1]]
      BY Zenon, <1>1, <1>10, <2>1 DEF Failed, Direct
    <3>4. jobs' = [jobs EXCEPT ![i] = r]
      BY Zenon, <1>1, <1>10, <3>1, <3>3
    <3> HIDE DEF j
    <3> QED BY Zenon, <1>9, <1>10, <2>1, <3>1, <3>4
  <2>2. CASE j.left # 0
    <3>1. PICK r : r = [[j EXCEPT !.left = @ - 1, !.at = IF j.left > 1 THEN "retry" ELSE "lost"] EXCEPT !.applied = j.applied + n]
      BY Zenon
    <3>3. failed = [jobs EXCEPT ![i] = [j EXCEPT !.left = @ - 1, !.at = IF j.left > 1 THEN "retry" ELSE "lost"]]
      BY Zenon, <1>1, <1>10, <2>2 DEF Failed, NextAttempt, Direct
    <3>4. jobs' = [jobs EXCEPT ![i] = r]
      BY Zenon, <1>1, <1>10, <3>1, <3>3
    <3>5. j.left > 0 /\ j.ret = 2
      BY Zenon, <1>1, <1>f, <1>10, <2>2 DEF Reached
    <3> HIDE DEF j
    <3> QED BY Zenon, <1>6, <1>10, <3>1, <3>4, <3>5
  <2> QED BY Zenon, <2>1, <2>2
<1>11. Failed(i) \in [Job -> JobRecord] \/ j.at # "use"
  <2>1. CASE j.left = 0
    <3>1. [j EXCEPT !.at = "failed", !.ret = -1] \in JobRecord
      BY Zenon, <1>1 DEF JobRecord
    <3> QED BY Zenon, <1>1, <2>1, <3>1 DEF Failed, Direct
  <2>2. CASE j.left # 0
    <3>1. j.left - 1 \in 0..MaxRetryCount
      BY <1>f, <2>2
    <3>2. [j EXCEPT !.left = @ - 1, !.at = IF j.left > 1 THEN "retry" ELSE "lost"] \in JobRecord
      BY Zenon, <1>1, <3>1 DEF JobRecord
    <3> QED BY Zenon, <1>1, <2>2, <3>2 DEF Failed, NextAttempt, Direct
  <2> QED BY Zenon, <2>1, <2>2
<1>12. CASE UseDead(i)
  <2>1. j.at = "use" /\ jobs' = Failed(i) /\ UNCHANGED <<bound, mService, service, module, lastJob, proxyDeaths>>
    BY Zenon, <1>12 DEF UseDead, JobAt
  <2>2. PICK failed \in [Job -> JobRecord] : failed = Failed(i)
    BY Zenon, <1>11, <2>1
  <2>3. failed[i].applied = j.applied
    BY Zenon, <1>1, <2>2 DEF Failed, NextAttempt, JobRecord
  <2>4. jobs' = [failed EXCEPT ![i] = [failed[i] EXCEPT !.applied = j.applied + 0]]
    BY <1>f, <2>1, <2>2, <2>3 DEF JobRecord
  <2>5. proxyDeaths' = proxyDeaths + 0
    BY <1>f, <2>1
  <2> HIDE DEF j
  <2> QED BY Zenon, <1>1, <1>10, <2>1, <2>2, <2>4, <2>5
<1>13. CASE DiesAnswering(i)
  <2>1. /\ j.at = "use" /\ jobs' = [Failed(i) EXCEPT ![i].applied = @ + 1] /\ module' = StoredAfter(SentOp(i), j.apk)
        /\ bound' = bound /\ lastJob' = lastJob /\ proxyDeaths' = proxyDeaths + 1 /\ proxyDeaths < MaxDeaths
        /\ service' \in {"down", "up"} /\ mService' \in {"null", "live", "dead"}
    BY Zenon, <1>1, <1>13 DEF DiesAnswering, Dies, JobAt
  <2>2. proxyDeaths' \in 0..MaxDeaths /\ module' \in Apk \cup {NoModule}
    BY <1>1, <1>2, <1>3, <2>1
  <2>3. PICK failed \in [Job -> JobRecord] : failed = Failed(i)
    BY Zenon, <1>11, <2>1
  <2>4. failed[i].applied = j.applied
    BY Zenon, <1>1, <2>3 DEF Failed, NextAttempt, JobRecord
  <2>5. jobs' = [failed EXCEPT ![i] = [failed[i] EXCEPT !.applied = j.applied + 1]]
    BY Zenon, <2>1, <2>3, <2>4
  <2> HIDE DEF j
  <2> QED BY Zenon, <1>1, <1>10, <2>1, <2>2, <2>3, <2>5
<1>14. CASE UseNull(i)
  <2>1. j.at = "use" /\ UNCHANGED <<bound, mService, service, module, lastJob, proxyDeaths>>
    BY Zenon, <1>14 DEF UseNull, JobAt
  <2>2. PICK r : r = [j EXCEPT !.at = IF Direct(i) THEN "threw" ELSE "lost"]
    BY Zenon
  <2>3. /\ r.op = j.op /\ r.apk = j.apk /\ r.at = (IF j.left = 0 THEN "threw" ELSE "lost") /\ r.ret = j.ret
        /\ r.left = j.left /\ r.applied = j.applied /\ r \in JobRecord
    BY Zenon, <1>1, <2>2 DEF JobRecord, Direct
  <2>4. jobs' = [jobs EXCEPT ![i] = r]
    BY Zenon, <1>1, <1>14, <2>2 DEF UseNull, Direct
  <2>5. \/ j.left = 0 /\ j.ret = 0 /\ j.applied = 0
        \/ j.left > 0 /\ j.ret = 2 /\ j.applied <= proxyDeaths
    BY Zenon, <1>1, <2>1 DEF Reached
  <2>6. Reached(i)'
    BY <1>1, <2>1, <2>3, <2>4, <2>5 DEF Reached
  <2>7. (r.ret = 2 \/ i = lastJob) /\ r.at \in {"threw", "lost"}
    BY Zenon, <1>1, <2>1, <2>3, <2>5
  <2> HIDE DEF j
  <2> QED BY Zenon, <1>1, <1>4, <1>f, <2>1, <2>3, <2>4, <2>6, <2>7
<1> QED BY Zenon, <1>5, <1>7, <1>8, <1>12, <1>13, <1>14 DEF JobStep

\* Every step of the application, the proxy and the service.
LEMMA ProxyStep == Proxied /\ [ProxyNext]_proxyVars => Proxied'
<1> SUFFICES ASSUME Proxied, [ProxyNext]_proxyVars PROVE Proxied'
  BY Zenon
<1>1. ASSUME NEW apk \in Apk, CallModule("add", apk) PROVE Proxied'
  BY Zenon, <1>1, ProxyCallStep DEF Operation
<1>2. CASE CallModule("remove", NoModule)
  BY Zenon, <1>2, ProxyCallStep DEF Operation
<1>3. CASE CallModule("check", NoModule)
  BY Zenon, <1>3, ProxyCallStep DEF Operation
<1>4. ASSUME NEW i \in Job, JobStep(i) \/ DiesAnswering(i) PROVE Proxied'
  BY Zenon, <1>4, ProxyJobStep
<1> QED BY Zenon, <1>1, <1>2, <1>3, <1>4, ProxyServiceStep DEF ProxyNext

\* DynXloaderServiceProxy: its variables have their types.
THEOREM ProxyTypes == ProxySpec => []ProxyTypeOK
<1>1. Proxied => ProxyTypeOK
  BY Zenon DEF Proxied
<1> QED BY <1>1, ProxyBegins, ProxyStep, PTL DEF ProxySpec

\* addModule(), removeModule() and their retries: for any number of calls,
\* attempts and deaths, what a caller is told is true, and calls that were all
\* told 0 took effect in their order.
THEOREM CallersToldTruth == ProxySpec => []ToldIsTrue
<1>1. Proxied => ToldIsTrue
  <2> SUFFICES ASSUME Proxied PROVE ToldIsTrue
    BY Zenon
  <2>1. ASSUME NEW i \in Job
        PROVE  /\ JobAt(i, "done") => jobs[i].applied >= 1
               /\ jobs[i].applied > 1 => jobs[i].ret = 2 /\ jobs[i].applied <= proxyDeaths + 1
               /\ JobAt(i, "threw") => jobs[i].applied = 0
    <3>1. Reached(i) /\ jobs[i] \in JobRecord /\ proxyDeaths \in 0..MaxDeaths
      BY Zenon DEF Proxied, ProxyTypeOK, JobRecord
    <3> QED BY <3>1, ProxyAssumption DEF Reached, JobRecord, JobAt, NoJob
  <2>2. ASSUME AllTold(lastJob) PROVE module = StoredBy(lastJob)
    <3>1. ~InHand
      <4>1. lastJob > 0 => lastJob \in 1..lastJob
        BY ProxyAssumption DEF Proxied, ProxyTypeOK
      <4> QED BY Zenon, <2>2, <4>1 DEF AllTold, InHand, JobAt
    <3> QED BY Zenon, <2>2, <3>1 DEF Over, Proxied
  <2> QED BY Zenon, <2>1, <2>2 DEF ToldIsTrue, AllTold, StoredBy, Kept
<1> QED BY <1>1, ProxyBegins, ProxyStep, PTL DEF ProxySpec

=============================================================================
