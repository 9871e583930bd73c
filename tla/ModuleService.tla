---------------------------- MODULE ModuleService ---------------------------
(***************************************************************************)
(* DynXloaderServiceImpl: the list of modules that clients add and remove  *)
(* over binder, its copy in the shared preferences, and the main thread,   *)
(* which sends an xload command for the process of a module when that      *)
(* process starts, was running when the module was added, or was running   *)
(* when the service started.  The process starts are announced by the hook *)
(* of XandroidModule in system_server.                                     *)
(*                                                                         *)
(* Nothing guards mModuleList and mCurAddModule: binder threads and the    *)
(* main thread meet on them.  A key is a (package, process) pair.          *)
(***************************************************************************)
EXTENDS Integers, Sequences, FiniteSets

CONSTANTS Key, Path,
          Client,      \* the binder threads
          None,
          MaxCalls, MaxStarts, MaxKills   \* bounds on what the environment does

ASSUME ServiceAssumption ==
  /\ MaxCalls \in Nat /\ MaxStarts \in Nat /\ MaxKills \in Nat
  /\ None \notin Key \cup Path \cup Client

Module == [key : Key, path : Path]
\* What readSharedPreferences() makes of a missing index.
Null == [key |-> None, path |-> None]

VARIABLES
  mModuleList,
  mPendingModuleList, \* a set: its order and its duplicates make no difference
  mCurAddModule, mCheckNums,
  queue,        \* the messages of mHandler, in the order of their posting
  up,           \* whether the process of the service is there
  mpc, mit, heard, \* the main thread: where it is, what its loop has before it, the key received
  pc, call, it, \* a binder thread: where it is, its arguments, what its loop iterates over
  num,          \* num of writeSharedPreferences()
  stale,        \* the threads whose iterator has seen the list change
  prefs,        \* the file module_list
  hooked,       \* whether XandroidModule is in system_server
  broadcast,    \* the announcement that is under way
  starting, running,   \* the processes being started, and those on the activity manager's list
  sent,         \* the commands sent for the present incarnations of the processes
  raced,        \* history: which unsynchronised accesses have met
  acked, added, \* history: the list when a call last saved it; all that was ever listed
  calls, starts, kills

lists == <<mModuleList, stale, added>>
main == <<mPendingModuleList, mCheckNums, mpc, mit, heard>>
binder == <<pc, call, it, num>>
system == <<hooked, broadcast, starting, running, starts>>
vars == <<lists, mCurAddModule, queue, up, main, binder, prefs, system, sent, raced, acked, calls, kills>>

Main == "main"
Thread == Client \cup {Main}
Keys(s) == {s[i].key : i \in 1..Len(s)}
Elements(s) == {s[i] : i \in 1..Len(s)}
\* The element a loop over s stops at.
First(s, k) == s[CHOOSE i \in 1..Len(s) : s[i].key = k /\ \A j \in 1..i - 1 : s[j].key # k]

NoCall == [op |-> "check", m |-> Null]

\* readSharedPreferences(): indices up to AppNums, whatever was written there.
Stored == [i \in 1..prefs.nums |-> IF i <= Len(prefs.entries) THEN prefs.entries[i] ELSE Null]

Init ==
  /\ mModuleList = <<>> /\ mPendingModuleList = {} /\ mCurAddModule = Null /\ mCheckNums = 0
  /\ queue = <<>> /\ up = "down"
  /\ mpc = "looper" /\ mit = <<>> /\ heard = None
  /\ pc = [c \in Client |-> "idle"] /\ call = [c \in Client |-> NoCall]
  /\ it = [c \in Client |-> <<>>] /\ num = [c \in Client |-> 0] /\ stale = {}
  /\ prefs = [nums |-> 0, entries |-> <<>>]
  /\ hooked = "no" /\ broadcast = None /\ starting = {} /\ running = {}
  /\ sent = {} /\ raced = {} /\ acked = <<>> /\ added = {}
  /\ calls = 0 /\ starts = 0 /\ kills = 0

-----------------------------------------------------------------------------
(* mHandler: a queue ordered by due time.  A message overtakes an earlier  *)
(* one only if its delay is shorter.                                       *)

Message(what, delay) == [what |-> what, delay |-> delay, key |-> None]
CheckSoon == Message("CHECK_PROCESS_WHETHER_EXIST", 100)
CheckAgain == Message("CHECK_PROCESS_WHETHER_EXIST", 1000)
StartSystem == Message("XLOADER_SYSTEM_SERVER_STARTPROCESS", 3000)
CheckAdded == Message("CHECK_PROCESS_HAD_STARTED_BEFORE_ADDMODULE", 1000)
CheckAll == Message("CHECK_HAD_STARTED_BEFORE_XLOADERSERVICE", 1000)

Without(s, j) == [i \in 1..Len(s) - 1 |-> IF i < j THEN s[i] ELSE s[i + 1]]

\* The main thread is free and message j, the next one due, is a `what'.
Handles(j, what) ==
  /\ up = "up" /\ mpc = "looper" /\ j \in 1..Len(queue)
  /\ queue[j].what = what
  /\ \A i \in 1..j - 1 : queue[i].delay > queue[j].delay

-----------------------------------------------------------------------------
(* The process of the service.                                             *)

\* The constructor: the preferences are read, and the message that leads to
\* a look at every module is posted.
Start ==
  /\ up = "down" /\ up' = "up"
  /\ mModuleList' = Stored /\ acked' = Stored
  /\ queue' = <<StartSystem>>
  /\ UNCHANGED <<stale, added, mCurAddModule, main, binder, prefs, system, sent, raced, calls, kills>>

\* The process is gone: memory and calls with it.
Gone ==
  /\ up' = "down"
  /\ mModuleList' = <<>> /\ mPendingModuleList' = {} /\ mCurAddModule' = Null /\ mCheckNums' = 0
  /\ queue' = <<>> /\ mpc' = "looper" /\ mit' = <<>> /\ heard' = None /\ stale' = {}
  /\ pc' = [c \in Client |-> "idle"] /\ call' = [c \in Client |-> NoCall]
  /\ it' = [c \in Client |-> <<>>] /\ num' = [c \in Client |-> 0]
  /\ UNCHANGED <<added, prefs, system, sent, raced, acked, calls>>

Killed == up = "up" /\ kills < MaxKills /\ kills' = kills + 1 /\ Gone

\* An exception in the main thread ends the process.
MainThrows == Gone /\ UNCHANGED kills

-----------------------------------------------------------------------------
(* system_server and the processes.                                        *)

\* startProcessLocked() is entered: the broadcast replaces one that is still
\* under way (FLAG_RECEIVER_REPLACE_PENDING).
StartProcess(k) ==
  /\ starts < MaxStarts /\ starts' = starts + 1
  /\ k \notin starting /\ starting' = starting \cup {k}
  /\ broadcast' = IF hooked = "yes" THEN k ELSE broadcast
  /\ UNCHANGED <<lists, mCurAddModule, queue, up, main, binder, prefs, hooked, running, sent, raced, acked, calls, kills>>

ProcessRuns(k) ==
  /\ k \in starting /\ starting' = starting \ {k}
  /\ running' = running \cup {k}
  /\ UNCHANGED <<lists, mCurAddModule, queue, up, main, binder, prefs, hooked, broadcast, starts, sent, raced, acked, calls, kills>>

ProcessDies(k) ==
  /\ k \in running /\ running' = running \ {k}
  /\ sent' = {m \in sent : m.key # k}
  /\ UNCHANGED <<lists, mCurAddModule, queue, up, main, binder, prefs, hooked, broadcast, starting, starts, raced, acked, calls, kills>>

\* A broadcast reaches the receiver's thread, or nobody while none is registered.
Deliver ==
  /\ broadcast # None /\ broadcast' = None
  /\ queue' = IF up = "up" THEN Append(queue, [what |-> "onReceive", delay |-> 0, key |-> broadcast]) ELSE queue
  /\ UNCHANGED <<lists, mCurAddModule, up, main, binder, prefs, hooked, starting, running, starts, sent, raced, acked, calls, kills>>

-----------------------------------------------------------------------------
(* The main thread.                                                        *)

\* onReceive() starts its loop over mModuleList.
Receive(j) ==
  /\ Handles(j, "onReceive")
  /\ mpc' = "receive" /\ mit' = mModuleList /\ heard' = queue[j].key
  /\ queue' = Without(queue, j)
  /\ stale' = stale \ {Main}
  /\ UNCHANGED <<mModuleList, added, mPendingModuleList, mCheckNums, mCurAddModule, up,
                 binder, prefs, system, sent, raced, acked, calls, kills>>

\* Mutant: the watch is not started again while one is on.
ReceivedNoPost ==
  /\ mpc = "receive" /\ mpc' = "looper" /\ mit' = <<>> /\ heard' = None
  /\ IF heard \in Keys(mit)
     THEN /\ mPendingModuleList' = mPendingModuleList \cup {First(mit, heard)}
          /\ mCheckNums' = 0
          /\ queue' = IF mPendingModuleList = {} THEN Append(queue, CheckSoon) ELSE queue
     ELSE UNCHANGED <<mPendingModuleList, mCheckNums, queue>>
  /\ UNCHANGED <<lists, mCurAddModule, up, binder, prefs, system, sent, raced, acked, calls, kills>>

\* The first match becomes pending and is looked for in 100 ms; the counter is
\* that of all pending modules.
Received ==
  /\ mpc = "receive" /\ mpc' = "looper" /\ mit' = <<>> /\ heard' = None
  /\ IF heard \in Keys(mit)
     THEN /\ mPendingModuleList' = mPendingModuleList \cup {First(mit, heard)}
          /\ mCheckNums' = 0
          /\ queue' = Append(queue, CheckSoon)
     ELSE UNCHANGED <<mPendingModuleList, mCheckNums, queue>>
  /\ UNCHANGED <<lists, mCurAddModule, up, binder, prefs, system, sent, raced, acked, calls, kills>>

\* ... unless next() finds that the list has changed.
ReceiveThrows == mpc = "receive" /\ Main \in stale /\ mit # <<>> /\ MainThrows

\* Mutant: a module stays pending after its command.
CheckPendingKeeps(j) ==
  /\ Handles(j, "CHECK_PROCESS_WHETHER_EXIST")
  /\ sent' = sent \cup {m \in mPendingModuleList : m.key \in running}
  /\ IF mPendingModuleList # {} /\ mCheckNums < 5
     THEN mCheckNums' = mCheckNums + 1 /\ queue' = Append(Without(queue, j), CheckAgain)
     ELSE UNCHANGED mCheckNums /\ queue' = Without(queue, j)
  /\ UNCHANGED <<lists, mPendingModuleList, mCurAddModule, up, mpc, mit, heard, binder, prefs, system,
                 raced, acked, calls, kills>>

\* CHECK_PROCESS_WHETHER_EXIST: a command for every pending module whose
\* process runs by now; for the others one more look, up to the limit of 5.
CheckPending(j) ==
  /\ Handles(j, "CHECK_PROCESS_WHETHER_EXIST")
  /\ LET there == {m \in mPendingModuleList : m.key \in running}
         left == mPendingModuleList \ there IN
       /\ sent' = sent \cup there
       /\ mPendingModuleList' = left
       /\ IF left # {} /\ mCheckNums < 5
          THEN /\ mCheckNums' = mCheckNums + 1
               /\ queue' = Append(Without(queue, j), CheckAgain)
          ELSE /\ UNCHANGED mCheckNums
               /\ queue' = Without(queue, j)
  /\ UNCHANGED <<lists, mCurAddModule, up, mpc, mit, heard, binder, prefs, system, raced, acked, calls, kills>>

\* Mutant: the look at all modules waits for a successful command.
LoadSystemFirst(j) ==
  /\ Handles(j, "XLOADER_SYSTEM_SERVER_STARTPROCESS")
  /\ hooked' \in {hooked, "yes"}
  /\ queue' = IF hooked' = "yes" THEN Append(Without(queue, j), CheckAll) ELSE Without(queue, j)
  /\ UNCHANGED <<lists, mCurAddModule, up, main, binder, prefs, broadcast, starting, running, starts,
                 sent, raced, acked, calls, kills>>

\* XLOADER_SYSTEM_SERVER_STARTPROCESS: XandroidModule is sent to
\* system_server; whether that succeeded is not looked at.
LoadSystem(j) ==
  /\ Handles(j, "XLOADER_SYSTEM_SERVER_STARTPROCESS")
  /\ hooked' \in {hooked, "yes"}
  /\ queue' = Append(Without(queue, j), CheckAll)
  /\ UNCHANGED <<lists, mCurAddModule, up, main, binder, prefs, broadcast, starting, running, starts,
                 sent, raced, acked, calls, kills>>

\* Mutant: the last of the list is taken for the module just added.
QueryAddedLast(j) ==
  /\ Handles(j, "CHECK_PROCESS_HAD_STARTED_BEFORE_ADDMODULE")
  /\ queue' = Without(queue, j)
  /\ IF mModuleList # <<>> /\ mModuleList[Len(mModuleList)].key \in running
     THEN mpc' = "added" /\ mit' = <<mModuleList[Len(mModuleList)]>>
     ELSE UNCHANGED <<mpc, mit>>
  /\ UNCHANGED <<lists, mCurAddModule, up, mPendingModuleList, mCheckNums, heard, binder, prefs, system,
                 sent, raced, acked, calls, kills>>

\* CHECK_PROCESS_HAD_STARTED_BEFORE_ADDMODULE: the fields of mCurAddModule are
\* read one after the other, the process name first.
QueryAdded(j) ==
  /\ Handles(j, "CHECK_PROCESS_HAD_STARTED_BEFORE_ADDMODULE")
  /\ queue' = Without(queue, j)
  /\ IF mCurAddModule.key \in running
     THEN mpc' = "added" /\ mit' = <<mCurAddModule>>
     ELSE UNCHANGED <<mpc, mit>>
  /\ UNCHANGED <<lists, mCurAddModule, up, mPendingModuleList, mCheckNums, heard, binder, prefs, system,
                 sent, raced, acked, calls, kills>>

SendAdded ==
  /\ mpc = "added" /\ mpc' = "looper" /\ mit' = <<>>
  /\ \E m \in {mit[1], mCurAddModule} : sent' = sent \cup {[key |-> m.key, path |-> mCurAddModule.path]}
  /\ UNCHANGED <<lists, mCurAddModule, queue, up, mPendingModuleList, mCheckNums, heard, binder, prefs, system,
                 raced, acked, calls, kills>>

\* CHECK_HAD_STARTED_BEFORE_XLOADERSERVICE: a loop over mModuleList with an
\* exchange with the daemon in every round.
BeginAll(j) ==
  /\ Handles(j, "CHECK_HAD_STARTED_BEFORE_XLOADERSERVICE")
  /\ queue' = Without(queue, j)
  /\ mpc' = "all" /\ mit' = mModuleList /\ stale' = stale \ {Main}
  /\ UNCHANGED <<mModuleList, added, mCurAddModule, up, mPendingModuleList, mCheckNums, heard, binder, prefs,
                 system, sent, raced, acked, calls, kills>>

NextAll ==
  /\ mpc = "all"
  /\ IF mit = <<>>
     THEN mpc' = "looper" /\ UNCHANGED <<mit, sent>>
     ELSE /\ Main \notin stale
          /\ sent' = IF Head(mit).key \in running THEN sent \cup {Head(mit)} ELSE sent
          /\ mit' = Tail(mit)
          /\ UNCHANGED mpc
  /\ UNCHANGED <<lists, mCurAddModule, queue, up, mPendingModuleList, mCheckNums, heard, binder, prefs, system,
                 raced, acked, calls, kills>>

AllThrows == mpc = "all" /\ mit # <<>> /\ Main \in stale /\ MainThrows

MainStep ==
  \/ \E j \in 1..Len(queue) :
       Receive(j) \/ CheckPending(j) \/ LoadSystem(j) \/ QueryAdded(j) \/ BeginAll(j)
  \/ Received \/ ReceiveThrows \/ SendAdded \/ NextAll \/ AllThrows

-----------------------------------------------------------------------------
(* addModule(), removeModule() and checkModuleExist() on a binder thread.  *)

Goto(c, where) == pc' = [pc EXCEPT ![c] = where]
Mutates(c) == pc[c] # "idle" /\ call[c].op # "check"
\* What a binder thread leaves alone.
NotBinder == UNCHANGED <<up, main, prefs, system, sent, kills>>

\* A call starts its search through mModuleList.  One whose caller
\* verifyCallerPerm() turns away changes nothing and is left out.
Call(c, op, m) ==
  /\ up = "up" /\ pc[c] = "idle" /\ calls < MaxCalls
  /\ calls' = calls + 1
  /\ call' = [call EXCEPT ![c] = [op |-> op, m |-> m]]
  /\ it' = [it EXCEPT ![c] = mModuleList] /\ stale' = stale \ {c}
  /\ raced' = IF op # "check" /\ \E d \in Client : Mutates(d) THEN raced \cup {"list"} ELSE raced
  /\ Goto(c, "search")
  /\ NotBinder /\ UNCHANGED <<mModuleList, added, mCurAddModule, queue, num, acked>>

Return(c) ==
  /\ Goto(c, "idle")
  /\ call' = [call EXCEPT ![c] = NoCall] /\ it' = [it EXCEPT ![c] = <<>>] /\ num' = [num EXCEPT ![c] = 0]

\* The search ends.  A module that is there is not touched by addModule().
Search(c) ==
  /\ pc[c] = "search"
  /\ LET found == call[c].m.key \in Keys(it[c]) IN
     CASE call[c].op = "add" /\ ~found -> Goto(c, "add") /\ UNCHANGED <<call, it, num>>
       [] call[c].op = "remove" /\ found -> Goto(c, "remove") /\ UNCHANGED <<call, it, num>>
       [] OTHER -> Return(c)
  /\ NotBinder /\ UNCHANGED <<lists, mCurAddModule, queue, raced, acked, calls>>

\* next() finds that the list has changed: the caller gets an error.
CallThrows(c) ==
  /\ pc[c] \in {"search", "commit"} /\ c \in stale /\ it[c] # <<>>
  /\ Return(c)
  /\ NotBinder /\ UNCHANGED <<lists, mCurAddModule, queue, raced, acked, calls>>

Add(c) ==
  /\ pc[c] = "add"
  /\ mModuleList' = Append(mModuleList, call[c].m) /\ stale' = Thread
  /\ added' = added \cup {call[c].m}
  /\ Goto(c, "current")
  /\ NotBinder /\ UNCHANGED <<mCurAddModule, queue, call, it, num, raced, acked, calls>>

\* Two threads in ArrayList.add() at once: one element can be overwritten.
AddTogether(c, d) ==
  /\ c # d /\ pc[c] = "add" /\ pc[d] = "add"
  /\ mModuleList' = Append(mModuleList, call[c].m) /\ stale' = Thread
  /\ added' = added \cup {call[c].m, call[d].m}
  /\ pc' = [pc EXCEPT ![c] = "current", ![d] = "current"]
  /\ NotBinder /\ UNCHANGED <<mCurAddModule, queue, call, it, num, raced, acked, calls>>

\* Mutant: the object is reused and keeps its names.
SetCurrentPath(c) ==
  /\ pc[c] = "current"
  /\ mCurAddModule' = IF mCurAddModule = Null THEN call[c].m ELSE [mCurAddModule EXCEPT !.path = call[c].m.path]
  /\ raced' = IF mpc = "added" THEN raced \cup {"current"} ELSE raced
  /\ queue' = Append(queue, CheckAdded)
  /\ Goto(c, "size")
  /\ NotBinder /\ UNCHANGED <<lists, call, it, num, acked, calls>>

\* mCurAddModule is what the message of every addModule() looks at.
SetCurrent(c) ==
  /\ pc[c] = "current"
  /\ mCurAddModule' = call[c].m
  /\ raced' = IF mpc = "added" THEN raced \cup {"current"} ELSE raced
  /\ queue' = Append(queue, CheckAdded)
  /\ Goto(c, "size")
  /\ NotBinder /\ UNCHANGED <<lists, call, it, num, acked, calls>>

\* The element found is removed, by identity, if it is still there.
Remove(c) ==
  /\ pc[c] = "remove"
  /\ LET there == {i \in 1..Len(mModuleList) : mModuleList[i] = First(it[c], call[c].m.key)} IN
       IF there = {}
       THEN UNCHANGED lists
       ELSE /\ mModuleList' = Without(mModuleList, CHOOSE i \in there : \A j \in there : i <= j)
            /\ stale' = Thread
            /\ UNCHANGED added
  /\ Goto(c, "size")
  /\ NotBinder /\ UNCHANGED <<mCurAddModule, queue, call, it, num, raced, acked, calls>>

\* writeSharedPreferences(): the size, then the elements, then commit().
WriteSize(c) ==
  /\ pc[c] = "size"
  /\ num' = [num EXCEPT ![c] = Len(mModuleList)]
  /\ Goto(c, "entries")
  /\ NotBinder /\ UNCHANGED <<lists, mCurAddModule, queue, call, it, raced, acked, calls>>

WriteEntries(c) ==
  /\ pc[c] = "entries"
  /\ it' = [it EXCEPT ![c] = mModuleList] /\ stale' = stale \ {c}
  /\ Goto(c, "commit")
  /\ NotBinder /\ UNCHANGED <<mModuleList, added, mCurAddModule, queue, call, num, raced, acked, calls>>

\* Mutant: the number is only written when it grows.
CommitGrows(c) ==
  /\ pc[c] = "commit"
  /\ prefs' = [nums |-> IF num[c] > prefs.nums THEN num[c] ELSE prefs.nums,
               entries |-> it[c] \o SubSeq(prefs.entries, Len(it[c]) + 1, Len(prefs.entries))]
  /\ Return(c) /\ acked' = mModuleList
  /\ UNCHANGED <<lists, mCurAddModule, queue, up, main, system, sent, kills, raced, calls>>

\* The keys of higher indices keep what an earlier commit() gave them.
Commit(c) ==
  /\ pc[c] = "commit"
  /\ prefs' = [nums |-> num[c],
               entries |-> it[c] \o SubSeq(prefs.entries, Len(it[c]) + 1, Len(prefs.entries))]
  /\ Return(c) /\ acked' = mModuleList
  /\ UNCHANGED <<lists, mCurAddModule, queue, up, main, system, sent, kills, raced, calls>>

CallStep(c) ==
  \/ Search(c) \/ CallThrows(c) \/ Add(c) \/ SetCurrent(c) \/ Remove(c)
  \/ WriteSize(c) \/ WriteEntries(c) \/ Commit(c)
  \/ \E d \in Client : AddTogether(c, d)

-----------------------------------------------------------------------------
Next ==
  \/ Start \/ Killed \/ Deliver \/ MainStep
  \/ \E k \in Key : StartProcess(k) \/ ProcessRuns(k) \/ ProcessDies(k)
  \/ \E c \in Client, m \in Module : \E op \in {"add", "remove", "check"} : Call(c, op, m)
  \/ \E c \in Client : CallStep(c)

Spec == Init /\ [][Next]_vars

\* The system restarts a persistent process, and the main thread gets on with
\* its messages: the exchange with the daemon returns.
Fairness == WF_vars(Start) /\ WF_vars(MainStep)

-----------------------------------------------------------------------------
(* What is checked.                                                        *)

CheckQueued == \E i \in 1..Len(queue) : queue[i].what = "CHECK_PROCESS_WHETHER_EXIST"

\* A pending module is always on watch: the next look is posted, or all looks
\* the limit allows have been taken since the last process start.
PendingIsWatched == mPendingModuleList # {} => CheckQueued \/ mCheckNums = 5

\* A command pairs a process with a module that was added for it, unless
\* mCurAddModule was set between two reads of it.
SentWasAdded == "current" \notin raced => sent \subseteq added

\* Whenever the process of the service is killed, the list it finds when it is
\* back is that of the last call that returned or of the one in progress, as
\* long as no two calls that change the list have overlapped.
CrashAtomic ==
  up = "up" /\ "list" \notin raced =>
    \/ Stored = mModuleList
    \/ Stored = acked /\ \E c \in Client : Mutates(c)

Listed(k) == k \in Keys(mModuleList)
Sent(k) == \E m \in sent : m.key = k
Pending(k) == \E m \in mPendingModuleList : m.key = k
Posted(m) == m \in Elements(queue)

\* When the service (re)starts, every listed module whose process is already
\* running gets its command.
RestartCatchesUp ==
  \A k \in Key :
    (Posted(StartSystem) \/ Posted(CheckAll)) /\ Listed(k) /\ k \in running
      ~> Sent(k) \/ ~Listed(k) \/ k \notin running \/ up = "down"

\* A pending module whose process has appeared while a look is posted gets
\* its command at the next look.
PendingIsTried ==
  \A k \in Key :
    Pending(k) /\ k \in running /\ CheckQueued
      ~> ~Pending(k) \/ k \notin running \/ up = "down"

\* addModule() for a running process leads to a command, unless another
\* addModule() comes within the second.
AddedIsTried ==
  \A k \in Key :
    Posted(CheckAdded) /\ mCurAddModule.key = k /\ k \in running
      ~> Sent(k) \/ mCurAddModule.key # k \/ k \notin running \/ up = "down"

\* "Module exist, Just Update it": after addModule() returns 0 the module is
\* listed with the path it was given.
UpdateTakesEffect ==
  [][\A c \in Client :
       (pc[c] # "idle" /\ pc'[c] = "idle" /\ call[c].op = "add" /\ up' = "up" /\ c \notin stale)
         => call[c].m \in Elements(mModuleList')]_vars

=============================================================================
