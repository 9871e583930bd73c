# Dynamicloader: a verification development in TLA+

Dynamicloader loads code into running Android processes. An application asks a
service to add a module for a (package, process) pair. The service tells a
privileged daemon, over a local socket, to load a library into that process
once it runs. The daemon does so with ptrace. The library starts the hooking
framework and loads the module, and the framework runs the module's callbacks
around the methods the module names.

This directory models that path, the libraries around it, and the parts of the
vendored ART runtime whose correctness is a matter of threads. It checks small
instances with TLC, and proves the central properties for all sizes with TLAPS. Paths below are relative
to `src/`; `DynXloaderService/…` stands for
`DynXloaderService/src/com/tencent/qrom/dynxloader`.

## 1. The system

```
 application --binder--> DynXloaderService --local socket--> xloaderd
                               ^                                | ptrace
                      broadcast|                                v
   system_server (XandroidModule)                     target process: libclient.so
                                                      -> framework -> module callbacks
```

| part | source | state | operations |
| --- | --- | --- | --- |
| command channel | `DynXloaderService/…/Xloader.java`, `xloaderFramework/xloaderd/xloaderd.c` | the connections, what is in flight on them, the daemon's place in its loop | `transaction` (connect, write, read, one retry); accept, read, execute, reply; death and restart |
| remote loader | `xloaderFramework/xloaderd/xloader.c` | who traces the target, whose registers it has, whether the library is mapped | `xload`, `trace_remote_process`; also the stand-alone `xloader` binary |
| injected client | `xloaderFramework/libclient/client.c` | `g_already_Xloader` | `client_entry`, `load_java`, `load_native` |
| module service | `DynXloaderService/…/DynXloaderService.java` | module list, pending list, counter, message queue, preferences | `addModule`, `removeModule`, `checkModuleExist`; four handler messages; `onReceive`; restart |
| start-process hook | `DynXloaderService/…/XandroidModule.java` | none of its own | a broadcast for every process start |
| client proxy | `DynXloaderService/…/DynXloaderSDK/DynXloaderServiceProxy.java` | the connection, the retry threads | the three calls, each with up to ten retries |
| hook dispatch | `bridge/…/Bridge.java` (`handleHookedMethod`), `Bridge_MethodHook.java` | the param of one call | callbacks before, original, callbacks after |
| hook registry | `bridge/…/Bridge.java` (`hookMethod`, `unhookMethod`, `CopyOnWriteSortedSet`), `libbridge/bridge.cpp` | callback table, the arrays in it, the native method | hook, unhook, call |
| module loading | `bridge/…/Bridge.java`, `libbridge/bridge.cpp` | loaded packages and callbacks | `initXbridgeZygote`, `loadModule`, `hookLoadPackage` |
| resource replacements | `XposedBridge-art/…/XResources.java`, `bridge/src/android/content/res/` | replacements and the bit caches that lookups test | `setReplacement`, `isFirstLoad`, lookups |
| preferences reader | `bridge/…/BridgeSharedPreferences.java` | the map, the loading thread | `reload`, `hasFileChanged`, getters |
| safe mode | `Xposed-master/xposed_safemode.cpp`, `libbridge/bridge_safemode.cpp` | key sequence and times | polling of several devices |
| Xposed file services | `Xposed-master/xposed_service.cpp`, `XposedBridge-art/…/services` | a record in shared memory, its mutex and condition | client calls, the worker |
| Xposed start-up, log | `Xposed-master/` | little | start-up, log rotation |
| XposedBridge for ART | `XposedBridge-art/` | as `bridge/` | as `bridge/`, and `loadModuleFromJar` |
| ART: stopping threads | `runtime/thread_list.cc`, `thread.cc`, `thread-inl.h`, `barrier.cc` | states, suspend counts and checkpoints of threads, the mutator lock | transitions, stop all or one, checkpoints, attach, detach |
| ART: object monitors | `runtime/monitor.cc`, `lock_word.h`, `mirror/object.cc` | the lock word, the Monitor, its wait set | enter, exit, wait, notify, hash code, inflation, deflation |
| ART: class initialization | `runtime/class_linker.cc`, `mirror/class.cc` | the status of classes | `InitializeClass`, `VerifyClass`, waiting for both |
| ART: mutexes | `runtime/base/mutex.cc`, `mutex-inl.h` | the words two futexes are made of | lock, unlock, wait, signal, broadcast, shared and timed locks |
| ART: thread pool | `runtime/thread_pool.cc`, `barrier.cc` | queue, limit, workers that wait | `AddTask`, `GetTask`, `Wait`, start, stop, destruction |
| ART: references | `runtime/gc/reference_processor.cc`, `reference_queue.cc` | marks, queues, referents | `ProcessReferences`, `GetReferent` |
| examples, rest of ART | `helloClient/`, `helloModule/`, `android_art-xposed-lollipop-mr1/` | | demonstrations; compiler, interpreter, heap, … |

`libclient.so` as checked in starts the framework of `XposedBridge-art`
(`de.robv.android.xposed.XposedBridge`). `bridge/` is its Dalvik predecessor with
the same algorithms, and the one whose native half is in the repository, so the
hooking modules are translated from `bridge/` and `libbridge/`.

The checked-in `xloaderd/Android.mk` builds the `xloader` binary; with
`SETTING_XLOADER_BIN` off it builds the daemon the service talks to. The service
connects to the reserved socket name `xloaderd`, which init creates, so that is
the variant of the daemon's `main()` that is modelled. `DEBUG` is defined in the
build, so the `dlerror` branch of the loader is part of the code.

### What makes it hard

* Both ends of the channel may die at any point, the service keeps its
  connection between calls, a failed write is tried again on a new connection,
  and `transaction()` has no timeout.
* The remote loader changes the registers of a process that may die, fault or
  meet a second loader. It has a dozen ways out, and must undo its work on each.
* The service shares `mModuleList` and `mCurAddModule` between binder threads
  and the main thread without a lock, its messages carry no payload, its process
  is killed and restarted, and process starts are announced by a broadcast that
  replaces one still under way.
* Hooks are added and removed while other threads call the method. The callbacks
  come from modules and may do or throw anything.
* The runtime stops threads that change their state at that moment, replaces the
  lock of an object while others are taking it, and builds its mutexes from words
  that are read and written one at a time.

### What correctness means

| part | promise |
| --- | --- |
| command channel | the ends agree on where a command starts; a call gets its own answer; a command runs at most once; a restart between calls is not noticed; a call returns |
| remote loader, client | a target that is let go has its own registers; no return leaves it traced; it loads once; SUCCESS means loaded unless a called function faulted; `xload` returns |
| module service | a pending module is not forgotten; a command names a module added for that process; a kill leaves the old list or the new one; a restart catches up |
| hook dispatch | the last outcome set by a callback that did not throw wins; callbacks nest; the original runs once unless pre-empted |
| hook registry | a call runs exactly the callbacks hooked at its start and not touched since, in order; a hook that was accepted takes hold |
| proxy | direct calls take effect in their order; what the caller is told is true; a retry ends |
| resource replacements | a replacement that was set is found, one for an old file is not |
| preferences reader | settings match their stamp; a getter returns |
| safe mode | one key, pressed often enough in a row, triggers it; the detection ends |
| file services | a client gets the answer to its own request, and gets one |
| stopping threads | nobody runs in a stopped world; counts balance; a closure runs once per thread, on a stopped one; requests end |
| object monitors | one thread inside; the hash code never changes; nobody is forgotten |
| class initialization | `<clinit>` runs once; who is told "initialized" sees it; waiting ends |
| mutexes | exclusion; no lost wake-up; everybody gets in |
| thread pool | no task is overlooked; `Wait` returns when all have run, and does return |
| references | a mutator gets nothing that will be swept; no reference to what is swept; `GetReferent` returns |

## 2. The modules

| module | what it is |
| --- | --- |
| `RpcContract` | what callers of `transaction()` may rely on: the abstract specification of the channel |
| `XloaderTransport`, `MCTransport` | the channel |
| `RemoteLoader`, `MCRemoteLoader` | loader, target and client |
| `ModuleService`, `MCModuleService` | service, start-process hook, processes |
| `HookDispatch` | one call of a hooked method |
| `HookRegistry` | the callbacks of one method, and its patching |
| `ClientProxy` | the proxy of an application, its retry threads, the service's life |
| `FileService` | the memory-based file service of Xposed and the start of all services |
| `PreferencesReader` | the reader of another application's preferences |
| `ResourceReplacements` | replacements of resources and their caches |
| `SafeMode` | the detection of safe mode |
| `ArtThreads` | the threads of a process, shared by the modules below |
| `ThreadSuspension` | how the runtime stops its threads |
| `ObjectMonitor` | the lock of one object |
| `ClassInit` | verification and initialization of classes |
| `FutexMutex`, `ReaderWriterMutex` | the mutexes and the condition variable of the runtime |
| `ThreadPool` | the thread pool and the barrier its workers start at |
| `ReferenceProcessing` | soft, weak, finalizer and phantom references in a concurrent collection |
| `TransportProofs` | proofs about `XloaderTransport`, that it implements `RpcContract`, and about `FileService` |
| `NativeProofs` | proofs about `RemoteLoader` and `SafeMode` |
| `ModuleServiceProofs` | proofs about `ModuleService` and `ClientProxy` |
| `BridgeProofs` | proofs about `HookRegistry`, `HookDispatch`, `ResourceReplacements` and `PreferencesReader` |
| `SuspensionProofs` | proofs about `ThreadSuspension` |
| `MonitorProofs` | proofs about `ObjectMonitor` |
| `HeapProofs` | proofs about `ReferenceProcessing` and `ClassInit` |
| `RuntimeProofs` | proofs about `FutexMutex`, `ReaderWriterMutex` and `ThreadPool` |
| `MCSafety`, `MCRuntime`, `MCLibrary` | suites: several modules without common state in one run |

In a suite the variable `focus` is chosen in the initial state and says which part
moves. The others keep one of their initial states, so the states of a suite are
the sum of the states of its parts, and each part is explored as if alone.

Definitions whose comment begins with "Mutant:" are faulty variants of the
definition that follows them. No specification uses them; each shows that a
property notices the fault. `PROJECT.json` maps definitions to source lines.

### XloaderTransport

The client's `pc` walks through `transaction()`: `Connect`, `WriteSize`,
`WriteText`, `ReadReply`. The daemon's `dpc` walks through `main()`: `Accept`,
`ReadSize`, `ReadText`, `Execute`, `Reply`. `conn` holds every connection ever
made, with both streams and the ends still open; `mSocket` and `dconn` say which
one each end uses. A write to a closed connection fails, and the client then
disconnects and tries once more (`WriteFailed`). For the daemon it is a SIGPIPE:
`Reply` to a client that is gone ends the daemon (`Die`). `DaemonKilled`, `DaemonRestarts` and
`ServiceKilled` are the environment.

A command's text is the number of its call. Its length is one of three classes,
because the limits differ by one: `writeCommand()` refuses less than 1 and more
than 1024 bytes, the daemon refuses 1024 as well. The two parts of the reply are
one item, since a connection that breaks between them looks to the client like
one that breaks before them.

`Contract` is `RpcContract` with `called` and `runs` as they are; the outcome of
a call is "done" if its answer is its own.

### RemoteLoader

A `Proc` is one incarnation of the target. A `Loader` is the daemon or a run of
the binary. `lpc` names the remote function in progress; `ctx` says whether the
target has its own registers, `refs` counts handles on the library.
`ForbidReload` is the look at the target's maps, `Attach` fails when another
loader traces, `CallFailed` is every remote call whose target died, `ExitRegs`
and `ExitDetach` are the common way out. `ClientEntry` and `Load` run in the
target. `Wild` is a jump to the result of a `dlsym` that faulted.

Two facts about the machine are constants. `SameBase`: the loader passes its own
address of `dlclose`, which is the target's only where the linker has one
address in both. `MayFault`: a SIGSEGV of the called code has the same wait
status as its return to address 0.

### ModuleService

`Call`, `Search`, `Add`, `SetCurrent`, `Remove`, `WriteSize`, `WriteEntries` and
`Commit` are the steps of a binder call between which other threads may act.
`stale` records iterators that have seen the list change, whose `next()` throws:
in a binder call the caller gets an error (`CallThrows`), on the main thread the
process ends (`ReceiveThrows`, `AllThrows`). `AddTogether` is the lost element of
two `ArrayList.add()` at once. The handler's queue orders messages by delay:
`Handles(j, …)` lets a message overtake an earlier one only if its delay is
shorter. `Deliver` puts the announcement on the main thread, `Receive` and
`Received` are `onReceive()`. `CheckPending`, `LoadSystem`, `QueryAdded` with
`SendAdded`, and `BeginAll` with `NextAll` are the four messages. The list of
pending modules is a set: every look goes through all of it, so its order and its
duplicates make no difference to what is sent.

`sent` stands for the commands handed to the channel. A query of the daemon is
answered by `running`. The history variable `raced` notes that two changing calls
overlapped, or that `mCurAddModule` was set between two reads of it.

### HookDispatch

One call: `Begin` or `Bypass`, `Before` for each callback, `Original` (or
`OriginalRefused`), `After` in reverse. Each callback may set a result or a
throwable, change the arguments and throw, in every combination.

### HookRegistry

One method, its table entry, its sorted array, and its native state: `plain`,
`torn` between the two stores of `hookMethodNative()`, or `hooked`. Hooking
threads take the steps of `hookMethod()` and `unhookMethod()` between which the
locks are free; calling threads enter by the state of the method, and take their
snapshot. `due` and `barred` record what was hooked and unhooked when a call
began; an operation that starts on a callback takes it out of both.

### ClientProxy

`CallModule` is one of the three operations, sent at once or left to a retry
thread; the field is tested and read again, so the binder may be gone in between.
`Retry`, `Test`, `Use` and `NextAttempt` are the thread. `Dies`, `DiesAnswering`
and `ServiceStarts` are the service: it may apply an operation and die before it
answers. When connected, `checkModuleExist()` calls `removeModule()`, and so does
the model; no text says what it should do, so no property depends on it.

### FileService

One record in shared memory, one mutex, one condition variable. A client waits
until the record is idle, writes its request, signals and waits; the service
takes it, makes its system calls with the mutex held, and answers. Files may
change between the chunks of a read. `ForkSystem`, `ForkApp`, `SystemRegisters`,
`AppRegisters` and `CheckMembasedRunning` are the start of the services; the last is
the parent's look whether the memory-based one runs.

### PreferencesReader, ResourceReplacements, SafeMode

`Reload` takes the settings away and starts a loader; loaders enter the monitor in
any order, and only one that finds the settings not loaded reads the stamp
(`ReadStamp`) and then the content (`ReadContent`). `setReplacement()` is two
steps, `CacheReplacement` and `PutReplacement`, because cache and map have locks of
their own. `SafeMode` has one queue of presses per device; `Poll` reports some
devices, and one press is read from each.

### ThreadSuspension, ObjectMonitor, ClassInit

`run` is the state of a thread with its share of the mutator lock, `pc` a
requester's place in `SuspendAll`, `RunCheckpoint` or `SuspendThreadByThreadId`.
Transitions are one step per access: `LeaveRunnable`, `ReleaseShare`, `TakeShare`,
`BecomeRunnable`. `Register` and `Unregister` are attach and detach.

In `ObjectMonitor` the lock word is a record of its state; a thread that has read
it acts on what it has read. A contender stops the owner (`SuspendOwner`), reads the
word again (`CheckOwner`) and installs a Monitor; `Deflate` is the collector's, with
all threads at the places of `SafePoint`. `Unlock` signals one contender.

In `ClassInit` a thread is a stack of calls with the place reached in each.
Verification and `<clinit>` may fail.

### FutexMutex, ReaderWriterMutex

Every access to `state_`, the counts and `sequence_` is a step. The futex calls are
the kernel's: compare and sleep in one step (`FutexWait`, `CondSleep`,
`RwFutexWait`), early returns at any time (`SleepEnds`, `RwInterrupted`). `Requeue` moves
the waiters of the condition to the mutex, `Relocked` ends a wait. `TimedOut` is the
30 second limit of `SuspendAll`'s lock.

### ThreadPool, ReferenceProcessing

Code under `task_queue_lock_` is one step; `woken` is a worker that the condition
has let go and that has not got the lock back. Tasks may add tasks.

`ReferenceProcessing` begins where the pause ends: what mutators reach is marked, the
slow path is on. `ForwardSoftReference`, `EnqueueFinalizerReference`, `ScanObject`,
`ScanReference` and `ClearWhiteReference` are `ProcessReferences()`, object by object;
`ReadReferent`, `CheckSlowPath` and `LookSlowly` are `GetReferent()`;
`TakeFromField` is a mutator that moves an object out of one it holds.

## 3. The runs

`tlc -workers 2 -config X.cfg M` in this directory. Each takes under five minutes.

| run | module, config | checks | states |
| --- | --- | --- | --- |
| `transport` | `MCTransport`, `Transport.cfg` | `KeepsContract`, `TransactionReturns` | 634,819 |
| `loader` | `MCRemoteLoader`, `RemoteLoader.cfg` | `ContextRestored`, `LoadOnce`, `SuccessWithoutFault`, `XloadReturns` | 1,249,898 |
| `loader_reload` | `RemoteLoader`, `RemoteLoaderReload.cfg` | `LoadOnce`, violated | |
| `service` | `MCModuleService`, `ModuleService.cfg` | `PendingIsWatched`, `SentWasAdded`, `CrashAtomic` | 4,261,332 |
| `service_live` | `MCModuleService`, `ModuleServiceLive.cfg` | `RestartCatchesUp`, `AddedIsTried`, `PendingIsTried` | 542,854 |
| `service_update` | `ModuleService`, `ModuleServiceUpdate.cfg` | `UpdateTakesEffect`, violated | |
| `dispatch_args` | `HookDispatch`, `HookDispatchArgs.cfg` | `ThrowerIsIgnored`, violated | |
| `registry_race` | `HookRegistry`, `HookRegistryRace.cfg` | `EveryCallIntercepted`, violated | |
| `safety` | `MCSafety`, `Safety.cfg` | monitors: `LockWordKept`, `NobodyForgotten`; suspension: `WorldStops`, `CheckpointOnce`; classes: `ClinitOnce`, `ToldIsReady`; files: `ReplyIsOwn`; dispatch: `CallContract`; resources: `SetIsFound`; all: `SafetyTypeOK` | 2,467,947 |
| `runtime` | `MCRuntime`, `Runtime.cfg` | suspension: `RequestsFinish`; classes: `InitFinishes`; mutex: `OwnerIsInside`, `SignalReaches`, `LockReturns`; reader-writer mutex: `HoldersAgree`, `RwLockReturns`; pool: `WaitMeansDone`; references: `SweepIsSafe`; both: `ServicesAnswer`; all: `RuntimeTypeOK` | 635,235 |
| `library` | `MCLibrary`, `Library.cfg` | registry: `HandlerIsExact`, `SettledIsHooked`; preferences: `StampCoversMap`; proxy: `ToldIsTrue`; safe mode: `TriggeredByRow`; all, and files: `LibraryReturns`, `LibraryTypeOK` | 219,589 |
| `prefs_reload` | `PreferencesReader`, `PreferencesReload.cfg` | `ReloadSees`, violated | |

### What they show

* **transport.** The channel implements its contract. The retry of a failed write
  never runs a command twice, because `transaction()` retries only what the daemon
  cannot have read in full, and never after a failed read. A reply cannot be left
  over for the next call, because every error path disconnects. A command of 1024
  bytes is refused by the daemon and costs the call, not the framing.
* **loader.** All ways out of `trace_remote_process()` restore and detach. Two
  loaders may both pass the look at the maps; the second is then stopped by
  ptrace or by `g_already_Xloader`. The exception for a loader that was killed in
  the middle is real: nothing restores that target. A fault taken for a return
  does not disturb the registers or lead to a second load. It may lead to a false
  SUCCESS, so `SuccessWithoutFault` speaks of targets without such faults.
* **service.** The shared counter and the shared messages never leave a pending
  module without a look before the five looks since the last start are used up.
  A command names a module added for its process, except when `mCurAddModule` is
  set between the two reads of it. Without overlapping changes, a kill between any
  two steps leaves the list before or after the call, although the size and the
  entries are stored separately and old entries stay in the file. The model takes
  the steps of overlapping calls too; nothing is claimed about the list after them.
* **service_live.** A restarted service sends a command to every listed module
  whose process runs. A single added module whose process runs gets one; if
  another is added within the second, the first may not, because the message looks
  at `mCurAddModule`. A pending module whose process has appeared is taken at the
  next look.
* **safety.** An object has one lock and one hash code through every change of its
  lock word, and no thread that blocks on it is lost (`LockWordKept`,
  `NobodyForgotten`). Nobody runs in a stopped world, and a checkpoint runs once per
  thread although threads stop, go on, attach and detach meanwhile. `<clinit>` runs
  once, also when classes need each other in a circle. A client of the file service
  gets its own reply for files that end inside a chunk and at its end. A hooked call
  keeps its contract for all behaviours of up to three callbacks. A replacement is
  found although ids share bits.
* **runtime.** Requests to stop threads end, and so does class initialization
  without circles. The two mutexes exclude and let everybody in, a signal reaches a
  thread that was waiting, `Wait` of the pool returns when all tasks have run. What
  is swept is reachable neither from a mutator nor through a reference.
* **library.** A call that reaches the handler runs exactly the callbacks settled at
  its start, in order. If every `hookMethod()` has returned, the method is hooked
  natively or `hookMethodNative()` has thrown. Settings match their stamp although
  the owner writes during the load. What the proxy tells its caller is true. One key,
  pressed in a row, triggers safe mode. In all five parts nobody waits for ever.

`LockWordKept`, `NobodyForgotten`, `ReplyIsOwn`, `CallContract`, `SetIsFound`,
`SweepIsSafe`, `HandlerIsExact`, `ToldIsTrue`, `ServicesAnswer`, `LibraryReturns` and
the type invariants of the suites are conjunctions: each says in full what one
component, or the parts of a suite, promise. The mutant kept for each breaks one of
its conjuncts.

Deadlock is not checked in any run: the bounds on what the environment does, and
in a hooked call its end, are states where nothing is left to do.

### Bounds

| constant | value | why it is enough |
| --- | --- | --- |
| `MaxCalls` (transport) | 3 | a call, the one that meets its remains, and one after the recovery |
| `MaxDeaths`, `MaxKills` (transport) | 2, 1 | a death between calls and one during the retry; SIGPIPE deaths are not counted |
| `Loader`, `MaxXloads`, `MaxProcs`, `MaxKills` (loader) | 2, 3 (4 for one loader with faults), 2, 1 | two that meet and one that comes later; a target that dies and starts again |
| `Key`, `Path`, `Client` (service) | 2, 2 or 1, 1 or 2 | two modules that share counter and messages; two calls that overlap |
| `MaxCalls`, `MaxStarts`, `MaxKills` (service) | 2 or 4, 0 to 2, 0 or 1 | add and remove of both keys; two starts that replace each other's broadcast |
| `MaxCallbacks` | 3 | a first, an inner and a last callback |
| `Callback`, `Hooker`, `Caller`; `MaxOps`, `MaxCalls` | 2, 2, 1; 5, 2 | the thread that installs and the one that does not wait; hook and unhook of both callbacks and one more |
| `Thread` | 3 | one that acts, one it acts on, and a third that comes between |
| `MaxRequests`, `MaxCheckpoints`, `MaxDetaches` | 3 or 2, 2, 1 | each thread makes a request; two checkpoints pending on one thread |
| `MaxThin`, `MaxDepth`, `Hash` | 1, 3, 2 | a count that overflows into inflation, with one enter more; a hash code that could change |
| `Class`, `MaxInits` | 3, 1 | a superclass and two subclasses, with and without a circle |
| `MaxMutexOps`, `MaxRwOps` | 5, 4 | a wait, a signal and two locks around them; two readers, a writer and one more |
| `MaxTasks`, `MaxPoolCalls` | 2, 3 | a task that adds a task; start, limit or stop, and `Wait` |
| `Ref`, `Obj`, `Mutator`, `MaxGets` | 4, 2, 1, 2 | a reference of each kind, an object behind another, a mutator that gets both |
| `Client`, `Path`, `Chunk`, `Sizes` (files) | 2 or 1, 2 or 1, 2, {-1, 2, 3} | no file, one that ends with a chunk and one that ends inside; growth from one to the other |
| `Dir`, ids, `Setter`, `MaxSets`, `MaxMods` | 2, 3, 2, 2, 2 | ids that share a bit; two setters around a change of the file |
| `Reader`, `MaxReads`, `MaxChanges` | 2, 2, 3 | a reload and a getter of each; a write, its loss of permission and its return |
| `Apk`, `MaxJobs`, `MaxRetryCount`, `MaxDeaths` | 2, 2, 2, 1 | a retried and a direct operation; ten attempts in the code differ from two only in number |
| `Keys`, `Device`, `DetectionPresses`, `MaxPresses` | 2, 2, 3, 4 | two keys from two devices; five presses in the code |

Symmetry is used in `service` (`Client`, `Key`, `Path`) and `safety` (`Thread`), which
check no liveness, over sets of model values that the specification does not tell
apart. For the same reason `safety` starts with the smaller file under a fixed one of
the two paths. `service_live` has two scopes: one client with both keys and a kill, and
two clients whose calls overlap with one key and no kill; with all of it at once the
liveness check does not end in reasonable time. `SameBase`, under which `dlclose` does
drop the library, is true in `loader_reload` only.

### Fairness

All of it is weak fairness of something that the scheduler runs when it can go on.

* Channel: the calling thread, the daemon's loop, and the restart, which is init's.
* Loader: each loader. Its waits are `waitpid` calls that return when the target
  stops or dies. The functions called in the target are taken to end; a `dlopen` that
  never returns because the stopped thread holds the linker's lock is outside the
  model.
* Service: the restart and the main thread. `TransactionReturns` is why the main
  thread's exchange with the daemon ends. Binder threads and processes need none.
* Registry: each thread inside `hookMethod()` or `unhookMethod()`. Preferences: the
  loader and the readers that wait. Proxy: the retry threads; the service need not
  come back. Safe mode: the detection loop, whose poll has a time limit. File
  service: its looper and its client.
* Stopping threads: each thread gets on with a request and with a transition it must
  make, for managed code polls for suspension. A thread that is not asked to stop may
  stay as it is.
* Class initialization: threads in a call go on, and `<clinit>` ends.
* Mutexes: a thread in a call goes on, and a holder unlocks in the end. A condition
  need not be signalled. Pool: workers and owner run, and tasks end. References: the
  collector and the threads in `GetReferent`.

Liveness of the runtime has the form "again and again nobody waits". Since the
calls are finitely many and nobody who has returned waits again without a new call,
it says the same as "whoever waits stops waiting".

### Findings

| run | the text | the code |
| --- | --- | --- |
| `loader_reload` | "forbid reload" (`xloader.c:361`) | where the linker has one address in loader and target, `dlclose` at the end drops the only handle; library and flag go, and the next `xload()` loads again |
| `service_update` | "Module exist, Just Update it" (`DynXloaderService.java:283`) | a listed pair keeps its old path, in the list and in the preferences |
| `dispatch_args` | "reset result (ignoring what the unexpectedly exiting callback did)" (`Bridge.java:593`) | the arguments the callback has changed stay changed |
| `registry_race` | "Intercept every call to the specified method" (`Bridge.java:678`) | a thread that finds the table entry returns before the other has hooked the method |
| `prefs_reload` | "Reload the settings from file if they have changed." (`BridgeSharedPreferences.java:119`) | a load that fails empties the settings and keeps the old stamp; when the file can be read again, it counts as unchanged |

## 4. The proofs

`tlapm M.tla` for the eight modules below; all obligations are proved. The
theorems hold for every value of the constants that satisfies the module's
assumption: any number of calls, deaths, kills, loaders, processes, keys, threads,
callbacks, devices, files, classes. The assumptions say that bounds are naturals, that
`None` and `Nobody` are not among the real values, that threads, callbacks and devices
are finitely many (an input loop and a suspend count go through all of them), that
there is a client and a path, and that no class is its own superclass at any distance.

Every safety property that a passing run checks is stated by a theorem, with one
exception: the conjuncts of the suites' type invariants are proved component by
component. `LoadOnce` has two theorems, for the two kinds of target of its run.
Each component has an inductive invariant of its own.

| module | theorems | inductive invariant |
| --- | --- | --- |
| `TransportProofs` | `TypeCorrect`, `FramingIsKept`, `AnswersAreOwn`, `RunsAtMostOnce`, `Refinement`, `RestartsAreHidden`; `FileTypes`, `RepliesAreOwn` | `IInv`, with `Settled` and `Undisturbed`; `Filed` |
| `NativeProofs` | `LoaderTypeCorrect`, `ContextIsRestored`, `TargetIsReleased`, `LoadsOnce`, `LoadsOnceAlone`, `SuccessIsLoaded`, `SuccessIsTrusted`; `SafeTypes`, `TriggersAreRows` | `CInv`, `Once`, `Mapped`, `Truthful`; `Detecting` |
| `ModuleServiceProofs` | `NeverForgotten`, `CommandsWereAdded`, `RestartsFindTheList`; `ProxyTypes`, `CallersToldTruth` | `Watched`, `Sourced`, `Saved`; `Proxied` |
| `BridgeProofs` | `InstalledInTheEnd`, `HandlersAreExact`, `RegistryTypes`; `DispatchTypes`, `CallsAreNested`; `ResourceTypes`, `ReplacementsAreFound`; `PrefsTypeCorrect`, `LoaderIsPending`, `StampsCoverMaps` | `Promise`, `Registered`, `Roomy`; `Dispatched`; `Replaced`; `Typed`, `Waiting`, `Stamped` |
| `SuspensionProofs` | `SuspensionTypeCorrect`, `WorldIsStopped`, `CountsAreBalanced`, `ClosuresRunOnStopped`, `CheckpointsRunOnce` | `Suspension`, `CountedOnce` with `BarrierCounts` |
| `MonitorProofs` | `MonitorTypes`, `LockWordsAreKept`, `NobodyIsForgotten` | `Monitored` |
| `HeapProofs` | `ReferenceTypes`, `SweepSafe`; `ClassTypes`, `ClinitsRunOnce`, `TheToldAreReady` | `ReferenceInv`; `Initializing` |
| `RuntimeProofs` | `MutexTypes`, `MutexExcludes`, `SignalsReach`; `RwTypes`, `RwExcludes`; `PoolTypes`, `WaitIsComplete` | `MutexInv`; `RwInv`; `PoolInv` |

A leaf that first-order reasoning proves says `Zenon`, one that needs arithmetic or
records is left to the SMT solver. Libraries come before the components in EXTENDS. Both
keep each module's proof under a quarter of an hour: `tlapm` carries the definitions after a cited
one, and the types inferred for earlier SMT leaves, from obligation to obligation.

**TransportProofs.** `IInv` is inductive. None of the properties is inductive alone:
that an answer is one's own depends on the stream being empty when a call begins,
which depends on what both ends do on an error. `Ends` says which connections are open
and who holds them, `Shape` what a stream the daemon may still read looks like,
`OwnConnection` what is on the client's connection at each place of the client,
`Unrun` that a command that has not run is carried by one stream at most. From it
follow `TypeCorrect`, `FramingIsKept`, `AnswersAreOwn` and `RunsAtMostOnce`.
`Refinement`: the initial state maps to one of `RpcContract`, and under `IInv` and
`Settled` (a call that has returned has an outcome) every step maps to a step or a
stutter. `RestartsAreHidden` needs `Undisturbed`: in a call nobody has disturbed the
daemon is up, and the connection of the second attempt is open. Files: `Owned` says who
has the shared memory, `Served` what is in it for that client at each step of the
exchange; chunks add up to the file.

**NativeProofs.** `Ownership` shows `CInv` inductive. Its core is `Owned`:
a loader between attach and detach is the tracer of its live target, and every
tracer is such a loader. With it only the owner's steps concern a target, and
`Registers` (what the owner holds of them) carries `ContextIsRestored`.
`TargetIsReleased` and `LoaderTypeCorrect` follow. `LoadsOnce` assumes that
`SameBase` and `MayFault` are FALSE and rests on `Once`: a target that has been
loaded has its flag set, or is dead, or its owner is still in `load_java()`.
`LoadsOnceAlone` drops `MayFault` and assumes a single loader instead. A fault in
`load_java()` leaves the flag clear, so `Mapped` argues from the maps: a process that
entered `load_java()` has the library mapped, and a loader past the check on the maps
has a target that never entered it. With two loaders and faults `LoadOnce` is false:
both pass the check, the first one's load faults, and the second loads again.
`SuccessIsLoaded`, and its form for the specification the run checks,
`SuccessIsTrusted`, assume that `MayFault` is FALSE: the properties speak of targets
without faults. They rest on `Truthful`: no call goes to an address that is none, and
SUCCESS is set only by a load. Safe mode: in `Detecting` the count is the length of a
row of presses that ends with the last one read.

**ModuleServiceProofs.** `NeverForgotten`: `PendingIsWatched` is inductive with the
types of queue and counter and `Down` (nothing is pending while the service is down).
`CommandsWereAdded` follows a pair of process and module from the call that adds it to
the command that loads it. `Sourced` says of each place the pair passes that it was
added: the broadcast and the queue (`Announced`), the call in progress (`Calling`), the
lists in memory and in the preferences (`Lists`), the choice of the main thread
(`Chosen`). `RestartsFindTheList`: as long as calls that change the list have not
overlapped, `Alone` shows that at most one is inside, and `Saved` says that until its
commit the preferences hold the list of the call before, and that what it is about to
write is the list as it is; so a kill finds the list before or after it. Proxy:
in `Proxied`, `Reached` says how often a call has been applied at each of its places,
and once all callers have been told, the stored list is the one their calls make in
order (`StoredBy`).

**BridgeProofs.** `InstalledInTheEnd`: `Promise` is inductive. The table entry stands
for a promise: until the method is hooked, a thread is on its way to hook it or has
failed. `HandlersAreExact` rests on what the array operations compute: `AddedIs` and
`RemovedIs` show that adding and removing keep it ascending and change it by one
callback; the place of a new one is found as the least index of a greater element.
`Registered` then relates the array to the callbacks whose call has returned with no
other on the same callback. `RegistryTypes` adds, by counting, that no array outgrows
the set of the callbacks. `CallsAreNested`: in `Dispatched`, where the call is
determines what has been called (`Entering`, `Turning`, `Leaving`).
`ReplacementsAreFound`: in `Replaced`, every replacement in the map, or between the two
steps of a `setReplacement()`, is known to the caches that a lookup asks first.
Preferences: three predicates are inductive one upon the other. `Typed` adds the type of
the stamp being read. `Waiting` adds to `LoaderPending` that whoever loads does so
because the settings are not loaded; so a loader that finds them loaded may leave
without notifying anybody. `Stamped` says that a stamp is not later than the content
read after it, because versions only grow.

**SuspensionProofs.** `Suspension` is inductive:
types, `Shares` (the exclusive holder of the mutator lock is alone), `Books` (where a
requester is determines which threads it has raised), `Balance` (a count is the number
of requests behind it) and `Stopped` (a thread that a requester works on is not
Runnable). Its point is that every unit of a suspend count belongs to one request: a
count that a requester has raised is positive until that requester lowers it, so no
other's resumption lets the thread go. Counting the requests takes facts on cardinality,
stated as lemmas. From it follow `SuspensionTypeCorrect` (no count goes below zero,
which would abort), `WorldIsStopped`, `CountsAreBalanced` and `ClosuresRunOnStopped`.
`CheckpointsRunOnce` needs `CountedOnce`: a thread the requester has counted is done, or
has the closure in a slot, or was suspended and is still to be run for, and only one of
the three. With `BarrierCounts` a barrier at zero means that all are done.

**RuntimeProofs.** Mutexes: the state word, the counters of contenders and of waiters
are the sizes of sets of threads, and the one who holds the lock is the recorded owner
(`MutexInv`, `RwInv`). `SignalsReach` is an action property: while a signal is given
every waiter has read an older sequence number, so its futex wait does not block. Pool:
`TasksKept` says that a task is in the queue or with one thread, `BarrierCounts` that
the creation barrier counts the threads that have not passed it; `WaitIsComplete` is an
action property.

**MonitorProofs.** `Monitored` says which shapes lock word and Monitor take together
(`WordShape`), that a thread whose lock word is being inflated stays where it has been
stopped (`Stops`), where a thread inside `wait()` can be and which count it will restore
(`Waits`), and that the thread inside is recorded with its depth (`Owners`). From it
follow `LockWordsAreKept` and `NobodyIsForgotten`.

**HeapProofs.** References: `Tricolour` says that what is marked points to what is
marked or still to be scanned, and `Confines(B)` that the mutators see nothing outside a
set B of marked objects that is closed under fields and under the references
`GetReferent` lets through. B is what was marked when the collector last began to
preserve references, and everything marked when it does not preserve; `SweepSafe`
follows.
Class initialization: `Initializing` says how the calls of one thread
lie on each other (`Nested`) and what each of them has claimed (`CallOK`). A class is
verified or claimed by one call of one stack, and a superclass differs from the class at
every distance, so no call meets its own claim other than by using the class;
`ClinitsRunOnce` and `TheToldAreReady` follow.

Where a property is proved and in no run, as `FramingKept`, `AnswerIsOwn`,
`AtMostOnce`, `RestartIsHidden`, `TargetReleased`, `LoaderPending`, `CountsBalance` and
`RunsOnStopped`, the theorem says all that a run could.

Induction over the naturals is used in the form of a set: a set of naturals that is
not empty has a least element (`LeastNatural`, `LeastIndex`), from the well-foundedness
of `<`. That suffices for arrays and queues. The library's induction theorems, which
take a predicate as parameter, cannot be instantiated by the provers.

Only model-checked: all liveness properties and whatever needs ENABLED, which the
prover does not handle; and the properties of the runs that end in a violation,
which are false.

## 5. What is not modelled

* Parsing in `execute()`, option parsing of the binary, file extraction, dex
  preloading, the caller's permission: they decide whether an operation is
  reached, and hold no state of their own.
* `load_java()` beyond its entry and its result: calls into the virtual machine.
* The private-socket variant of the daemon: its announced name reaches
  `XloaderReceiver`, which only logs.
* Locks of the target's C library and linker: not determined by the code here.
* Module loading and native start-up: one thread, once, before application code.
* `XposedBridge-art/` apart from the resources: the successor of `bridge/`, with the
  same algorithms under other names. `bridge_safemode.cpp` is a copy as well.
* Reflection helpers, examples, logging: no state worth checking.
* Of the modelled parts of ART: suspensions by the debugger, shutdown, the mutexes'
  pthread variants and lock levels, `WorkStealingThreadPool` (nothing uses it), the
  hand-over of cleared references to Java, what the verifier decides.
* The rest of ART: compiler, interpreter, allocators, most of the collectors, dex and
  oat files, JNI, the debugger. It is a vendored copy of Android's runtime of 270,000
  lines, 96% of the repository, with a small patch for hooking. The six parts
  above were taken because their correctness is a matter of interleavings. For that
  reason the modules cover a small share of the lines in `src/`, though most of the
  code that is the project's own and has state.

Points that are known and that no property speaks of, because no text of the
repository says what is meant:

* When connected, `checkModuleExist()` calls `removeModule()`. Modelled as it is.
* `compareTo()` subtracts priorities in 32 bits; the registry's order assumes that
  this does not overflow.
* A method called between the two stores of `hookMethodNative()` (`bridge.cpp:516`)
  is `torn` in the model; what the virtual machine then does is left open.
* The result of `xload()` is not looked at by the service.
* Two quick starts of processes: with `FLAG_RECEIVER_REPLACE_PENDING`
  (`XandroidModule.java:49`) the second announcement replaces the first, as the flag
  is documented to do.
* `GetReferent()` reads the field before the flag (`reference_processor.cc:52`, `:55`):
  `SweepIsSafe` exempts a read that falls between.
* The error of a call to the file service is read after the unlock; with two clients
  it may be another's, and a wake-up may go to the wrong one. The zygote's one thread
  is the only client.

`PROJECT.json` has the complete list of components and of hazards.
