----------------------------- MODULE FileService -----------------------------
(***************************************************************************)
(* The start of the Xposed services and the memory-based file service of   *)
(* xposed_service.cpp: clients and the service share one record, one mutex *)
(* and one condition variable.  What a party does between two waits it     *)
(* does with the mutex, in one step; only the service, whose system calls  *)
(* others may overtake, holds it from one step to the next (locked).       *)
(* Bytes are counted in units of which Chunk fill the content array.       *)
(***************************************************************************)
EXTENDS Integers, Sequences, FiniteSets

CONSTANTS Client, Path, Service,
          Chunk,        \* sizeof(ReadFileData::content)
          Sizes,        \* bound: the sizes of a file, -1 for one that does not exist
          MaxFileCalls,  \* bound: calls of each client
          MaxWrites     \* bound: changes of files by others

ASSUME FileAssumption ==
  /\ Client # {} /\ Path # {} /\ Service \notin Client
  /\ Chunk \in Nat \ {0} /\ Sizes \subseteq Nat \cup {-1}

Exists(f) == f.size >= 0
Bytes(f, from, to) == [i \in 1..(to - from) |-> f.ver]
Least(m, n) == IF m < n THEN m ELSE n

VARIABLES
  mode,     \* "single" without SELinux, "selinux", "secondary" (startMembased)
  zygote, system, app,           \* how far the three processes have come
  state, error, data,            \* the shared record; data.by is a ghost: who wrote it
  looper, locked,
  asleep,   \* who waits for workerCond
  fpc, req, buf, total, fileAnswer, \* of each client
  touched,  \* ghost: the requested file changed since the call began
  file, fileCalls, writes

bootVars == <<mode, zygote, system, app>>
clientVars == <<fpc, req, buf, total, fileAnswer, touched, fileCalls>>
fileVars == <<bootVars, clientVars, state, error, data, looper, locked, asleep, file, writes>>

FileInit ==
  /\ mode \in {"single", "selinux", "secondary"}
  /\ zygote = "begin" /\ system = "unborn" /\ app = "unborn"
  /\ state = "not_running" /\ error = 0 /\ looper = "off" /\ locked = FALSE /\ asleep = {}
  /\ file \in [Path -> [size : Sizes, ver : {0}]]
  /\ LET p == CHOOSE p \in Path : TRUE IN
       /\ req = [d \in Client |-> [op |-> "stat", path |-> p]]
       /\ data = [by |-> CHOOSE c \in Client : TRUE, op |-> "stat", path |-> p, off |-> 0,
                  total |-> 0, content |-> <<>>, eof |-> FALSE]
  /\ fpc = [c \in Client |-> "idle"] /\ buf = [c \in Client |-> <<>>]
  /\ total = [c \in Client |-> 0] /\ fileAnswer = [c \in Client |-> 0]
  /\ touched = [c \in Client |-> FALSE] /\ fileCalls = [c \in Client |-> 0] /\ writes = 0

(* pthread_cond_signal wakes one of the waiting, if there is any.           *)
Signalled(S) == IF S = {} THEN {S} ELSE {S \ {x} : x \in S}
Signal == asleep' \in Signalled(asleep)

\* Mutant: the signal is forgotten.
WaitOnly(x) == asleep' = asleep \cup {x}

SignalThenWait(x) == \E S \in Signalled(asleep) : asleep' = S \cup {x}
Wait(x) == asleep' = asleep \cup {x}
Awake(x) == x \notin asleep /\ ~locked

-----------------------------------------------------------------------------
(* startAll and startMembased in the zygote, systemService and appService   *)
(* in the processes it forks.                                              *)
ForkSystem ==
  /\ zygote = "begin" /\ mode = "selinux"
  /\ \/ zygote' = "system" /\ system' = "born"
     \/ zygote' = "failed" /\ UNCHANGED system
  /\ UNCHANGED <<mode, app>>

ForkApp ==
  /\ zygote = (IF mode = "selinux" THEN "system" ELSE "begin")
  /\ \/ zygote' = (IF mode = "single" THEN "started" ELSE "waiting") /\ app' = "born"
     \/ zygote' = "failed" /\ UNCHANGED app
  /\ UNCHANGED <<mode, system>>

SystemRegisters ==
  /\ system = "born" /\ system' \in {"registered", "gone"}
  /\ UNCHANGED <<mode, zygote, app>>

(* The app service goes through the system service, where it has to find   *)
(* it; the child of startMembased registers nothing.                       *)
AppRegisters ==
  /\ app = "born" /\ mode # "secondary"
  /\ app' \in (IF mode = "selinux" /\ system # "registered" THEN {"gone"} ELSE {"registered", "gone"})
  /\ UNCHANGED <<mode, zygote, system>>

(* waitForRunning, woken or at the end of its five seconds                 *)
CheckMembasedRunning ==
  /\ zygote = "waiting"
  /\ zygote' \in (IF state = "not_running" THEN {"failed"} ELSE {"started", "failed"})
  /\ UNCHANGED <<mode, system, app>>

Boot ==
  /\ ForkSystem \/ ForkApp \/ SystemRegisters \/ AppRegisters \/ CheckMembasedRunning
  /\ UNCHANGED <<clientVars, state, error, data, looper, locked, asleep, file, writes>>

-----------------------------------------------------------------------------
(* looper(): it starts when appService has registered, or at once in the   *)
(* child of startMembased.                                                 *)
LooperStarts ==
  /\ looper = "off" /\ mode # "single"
  /\ app = (IF mode = "secondary" THEN "born" ELSE "registered")
  /\ looper' = "loop" /\ state' = "idle" /\ Signal
  /\ UNCHANGED <<bootVars, clientVars, error, data, locked, file, writes>>

ReadEnd(f) == Least(data.off + Chunk, f.size)

ErrorOf(good) == IF good THEN error ELSE 2

(* A request is taken with the stat() that gives readFile its totalSize,   *)
LooperTakes ==
  /\ looper = "loop" /\ Awake(Service)
  /\ IF state = "action"
     THEN /\ looper' = "work" /\ locked' = TRUE /\ UNCHANGED asleep
          /\ data' = [data EXCEPT !.total = file[data.path].size]
     ELSE Wait(Service) /\ UNCHANGED <<looper, locked, data>>
  /\ UNCHANGED <<bootVars, clientVars, state, error, file, writes>>

(* then access(), stat() or fopen() and fread() is done and answered.      *)
LooperAnswers ==
  LET f == file[data.path]
      good == Exists(f) /\ (data.op = "read" => data.total >= 0)
  IN
  /\ looper = "work"
  /\ looper' = "loop" /\ locked' = FALSE /\ state' = "response" /\ SignalThenWait(Service)
  /\ error' = ErrorOf(good)
  /\ data' = [data EXCEPT !.content = IF ~good \/ data.op = "access" THEN @
                                      ELSE IF data.op = "stat" THEN <<f>>
                                      ELSE Bytes(f, data.off, ReadEnd(f)),
                          !.eof = good /\ data.op = "read" /\ f.size - data.off < Chunk]
  /\ UNCHANGED <<bootVars, clientVars, file, writes>>

(* The service process dies, perhaps with the mutex; nothing restarts it.  *)
LooperDies ==
  /\ looper \in {"loop", "work"} /\ looper' = "dead" /\ asleep' = asleep \ {Service}
  /\ UNCHANGED <<bootVars, clientVars, state, error, data, locked, file, writes>>

-----------------------------------------------------------------------------
(* accessFile, statFile and readFile, called once startAll has returned.   *)
CallFile(c, op, p) ==
  /\ zygote = "started" /\ mode # "single" /\ fileCalls[c] < MaxFileCalls
  /\ fpc[c] \in {"idle", "returned"}
  /\ fpc' = [fpc EXCEPT ![c] = "want"] /\ req' = [req EXCEPT ![c] = [op |-> op, path |-> p]]
  /\ touched' = [touched EXCEPT ![c] = FALSE]
  /\ fileCalls' = [fileCalls EXCEPT ![c] = @ + 1]
  /\ UNCHANGED <<bootVars, buf, total, fileAnswer, state, error, data, looper, locked, asleep, file, writes>>

\* Mutant: the path of the last request stays.
CallLastPath(c, off) ==
  /\ data' = [data EXCEPT !.by = c, !.op = req[c].op, !.off = off]
  /\ state' = "action" /\ error' = 0 /\ SignalThenWait(c)

(* callService for the bytes from off on, up to its wait for the answer    *)
CallService(c, off) ==
  /\ data' = [data EXCEPT !.by = c, !.op = req[c].op, !.path = req[c].path, !.off = off]
  /\ state' = "action" /\ error' = 0 /\ SignalThenWait(c)

(* makeIdle, which unlocks the mutex                                       *)
MakeIdle(c) == state' = "idle" /\ Signal /\ fpc' = [fpc EXCEPT ![c] = "unlocked"] /\ UNCHANGED data

WaitForIdle(c) ==
  /\ fpc[c] = "want" /\ Awake(c)
  /\ IF state = "idle" THEN CallService(c, 0) /\ fpc' = [fpc EXCEPT ![c] = "called"]
     ELSE Wait(c) /\ UNCHANGED <<fpc, state, error, data>>
  /\ UNCHANGED <<bootVars, req, buf, total, fileAnswer, touched, fileCalls, looper, locked, file, writes>>

AwaitResponse(c) ==
  /\ fpc[c] = "called" /\ Awake(c) /\ state # "response" /\ Wait(c)
  /\ UNCHANGED <<bootVars, clientVars, state, error, data, looper, locked, file, writes>>

StatDone(c) ==
  /\ fpc[c] = "called" /\ Awake(c) /\ state = "response" /\ req[c].op \in {"access", "stat"}
  /\ buf' = [buf EXCEPT ![c] = IF req[c].op = "stat" THEN data.content ELSE @]
  /\ MakeIdle(c)
  /\ UNCHANGED <<bootVars, req, total, fileAnswer, touched, fileCalls, error, looper, locked, file, writes>>

Fits(c) == data.off = 0 \/ Len(buf[c]) + Len(data.content) <= total[c]

(* A chunk for readFile: the first one brings the size of the buffer, a    *)
(* later one has to fit.                                                   *)
ChunkRead(c) ==
  LET got == buf[c] \o data.content IN
  /\ fpc[c] = "called" /\ Awake(c) /\ state = "response" /\ req[c].op = "read"
  /\ \/ /\ error # 0
        /\ MakeIdle(c) /\ UNCHANGED <<error, buf, total>>
     \/ /\ error = 0 /\ ~Fits(c)
        /\ error' = 16 /\ MakeIdle(c) /\ UNCHANGED <<buf, total>>
     \/ /\ error = 0 /\ Fits(c)
        /\ buf' = [buf EXCEPT ![c] = got]
        /\ total' = [total EXCEPT ![c] = IF data.off = 0 THEN data.total ELSE @]
        /\ IF data.eof THEN MakeIdle(c) /\ UNCHANGED error
                       ELSE CallService(c, Len(got)) /\ UNCHANGED fpc
  /\ UNCHANGED <<bootVars, req, fileAnswer, touched, fileCalls, looper, locked, file, writes>>

(* The error is read, and the result decided by it, after the unlock; what *)
(* was copied goes to the caller or is freed.                              *)
ReadError(c) ==
  /\ fpc[c] = "unlocked"
  /\ fpc' = [fpc EXCEPT ![c] = "returned"] /\ fileAnswer' = [fileAnswer EXCEPT ![c] = error]
  /\ buf' = [buf EXCEPT ![c] = <<>>] /\ total' = [total EXCEPT ![c] = 0]
  /\ UNCHANGED <<bootVars, req, touched, fileCalls, state, error, data, looper, locked, asleep, file, writes>>

-----------------------------------------------------------------------------
WakesSpuriously ==
  /\ \E x \in asleep : asleep' = asleep \ {x}
  /\ UNCHANGED <<bootVars, clientVars, state, error, data, looper, locked, file, writes>>

FileChanges(p, size) ==
  /\ writes < MaxWrites /\ writes' = writes + 1
  /\ file' = [file EXCEPT ![p] = [size |-> size, ver |-> writes + 1]]
  /\ touched' = [c \in Client |-> touched[c] \/ req[c].path = p]
  /\ UNCHANGED <<bootVars, fpc, req, buf, total, fileAnswer, fileCalls, state, error, data, looper, locked, asleep>>

FileClientStep(c) == WaitForIdle(c) \/ AwaitResponse(c) \/ StatDone(c) \/ ChunkRead(c) \/ ReadError(c)

FileNext ==
  \/ Boot \/ LooperStarts \/ LooperTakes \/ LooperAnswers \/ LooperDies \/ WakesSpuriously
  \/ \E c \in Client : FileClientStep(c) \/ \E op \in {"access", "stat", "read"}, p \in Path : CallFile(c, op, p)
  \/ \E p \in Path, size \in Sizes : FileChanges(p, size)

(* The threads get their turns; a process that has begun to start goes on. *)
FileFairness ==
  /\ WF_fileVars(LooperTakes \/ LooperAnswers) /\ \A c \in Client : WF_fileVars(FileClientStep(c))

FileSpec == FileInit /\ [][FileNext]_fileVars /\ FileFairness

-----------------------------------------------------------------------------
(* Every variable has its type.                                           *)
FileTypeOK ==
  /\ mode \in {"single", "selinux", "secondary"}
  /\ zygote \in {"begin", "system", "waiting", "started", "failed"}
  /\ system \in {"unborn", "born", "registered", "gone"} /\ app \in {"unborn", "born", "registered", "gone"}
  /\ state \in {"not_running", "idle", "action", "response"} /\ error \in {0, 2, 16}
  /\ looper \in {"off", "loop", "work", "dead"} /\ locked \in BOOLEAN
  /\ asleep \subseteq Client \cup {Service}
  /\ fpc \in [Client -> {"idle", "want", "called", "unlocked", "returned"}]
  /\ req \in [Client -> [op : {"access", "stat", "read"}, path : Path]]
  /\ data.by \in Client /\ data.path \in Path /\ data.off \in Nat /\ Len(data.content) <= Chunk
  /\ fileAnswer \in [Client -> {0, 2, 16}] /\ total \in [Client -> Sizes \cup {0}]

(* What a call returns is its own, when the file did not change meanwhile: *)
(* with any number of clients, the stat record of its path, or the whole   *)
(* file, whatever its size is to the chunk; as long as there is one client *)
(* only, which the thread of the zygote is, also the error, which is read  *)
(* after the unlock.  And even when the file grows, nothing is written     *)
(* past the buffer, which has the size the file had at the first chunk.    *)
Alone(c) == \A d \in Client \ {c} : fileCalls[d] = 0
ReplyIsOwn ==
  \A c \in Client :
    LET f == file[req[c].path] IN
    /\ fpc[c] = "unlocked" /\ ~touched[c] /\ Exists(f) =>
         /\ req[c].op = "stat" => buf[c] = <<f>>
         /\ req[c].op = "read" => buf[c] = Bytes(f, 0, f.size)
    /\ fpc[c] = "returned" /\ ~touched[c] /\ Alone(c) => fileAnswer[c] = IF Exists(f) THEN 0 ELSE 2
    /\ req[c].op = "read" => Len(buf[c]) <= total[c] \/ Len(buf[c]) <= Chunk

(* Every call of the only client returns, unless the service dies: one     *)
(* condition variable is enough for the two.                               *)
RequestAnswered ==
  \A c \in Client : fpc[c] = "want" ~> (fpc[c] = "returned" \/ looper = "dead" \/ ~Alone(c))
=============================================================================
