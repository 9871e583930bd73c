--------------------------- MODULE TransportProofs ---------------------------
(***************************************************************************)
(* The two channels over which a client asks a service, for any number of  *)
(* calls: the memory shared with the file service (FileService), then the  *)
(* socket of the xloader daemon (XloaderTransport).                        *)
(***************************************************************************)
EXTENDS SequenceTheorems, TLAPS, XloaderTransport, FileService

-----------------------------------------------------------------------------
(* FileService: what a call of the memory-based file service returns.      *)
FileOp == {"access", "stat", "read"}
FileRecord == [size : Sizes, ver : Nat]
\* Contents are versions of files, or a stat record.
Content == Nat \cup FileRecord

DataRecord == [by : Client, op : FileOp, path : Path, off : Nat, total : Sizes \cup {0},
               content : Seq(Content), eof : BOOLEAN]

\* Types, with the shared record in full and what the clients copy.
FileTyped ==
  /\ FileTypeOK /\ file \in [Path -> FileRecord] /\ writes \in Nat
  /\ data \in DataRecord
  /\ buf \in [Client -> Seq(Content)]
  /\ touched \in [Client -> BOOLEAN] /\ fileCalls \in [Client -> Nat]

\* The record belongs to the one client that has called, from its request to
\* makeIdle; the others have nothing copied.
Owned ==
  /\ looper = "off" => state = "not_running"
  /\ looper = "work" => state = "action" /\ locked = TRUE
  /\ state \in {"action", "response"} => fpc[data.by] = "called"
  /\ state = "action" => error = 0
  /\ \A c \in Client :
       /\ fpc[c] = "called" =>
            /\ state \in {"action", "response"} /\ data.by = c /\ data.op = req[c].op /\ data.path = req[c].path
            /\ IF req[c].op = "read" THEN data.off = Len(buf[c]) ELSE buf[c] = <<>>
       /\ fpc[c] \in {"idle", "want", "returned"} => buf[c] = <<>>
       /\ fpc[c] # "idle" => fileCalls[c] > 0
       /\ req[c].op = "read" => Len(buf[c]) <= total[c] \/ Len(buf[c]) <= Chunk

\* A client that has called, about a file f that exists and does not change:
\* what it has copied is the beginning of f, and the answer is what follows.
Reading(c, f) ==
  /\ req[c].op = "read" =>
       /\ buf[c] = Bytes(f, 0, data.off) /\ data.off <= f.size /\ (data.off = 0 \/ total[c] = f.size)
  /\ looper = "work" => data.total = f.size
  /\ state = "response" =>
       /\ error = 0
       /\ req[c].op = "stat" => data.content = <<f>>
       /\ req[c].op = "read" => /\ data.content = Bytes(f, data.off, ReadEnd(f)) /\ data.total = f.size
                                /\ data.eof <=> f.size - data.off < Chunk

\* What a client has and will return, as long as its file does not change.
Served(c) ==
  LET f == file[req[c].path] IN
  ~touched[c] =>
    /\ fpc[c] = "called" /\ Exists(f) => Reading(c, f)
    /\ fpc[c] = "called" /\ ~Exists(f) /\ state = "response" => error = 2
    /\ fpc[c] = "unlocked" /\ Exists(f) =>
         /\ req[c].op = "stat" => buf[c] = <<f>>
         /\ req[c].op = "read" => buf[c] = Bytes(f, 0, f.size)
    /\ fpc[c] = "unlocked" /\ Alone(c) => error = IF Exists(f) THEN 0 ELSE 2
    /\ fpc[c] = "returned" /\ Alone(c) => fileAnswer[c] = IF Exists(f) THEN 0 ELSE 2

\* Inductive.
Filed == FileTyped /\ Owned /\ \A c \in Client : Served(c)

(* The bytes of a range are a sequence as long as the range; the service   *)
(* never writes more of them than the content array holds.                 *)
LEMMA BytesLength ==
  ASSUME NEW f \in FileRecord, NEW a \in Nat, NEW b \in Int
  PROVE  /\ Bytes(f, a, b) \in Seq(Content)
         /\ Len(Bytes(f, a, b)) = IF a < b THEN b - a ELSE 0
<1> DEFINE n == IF a < b THEN b - a ELSE 0
<1>1. n \in Nat /\ 1..(b - a) = 1..n
  OBVIOUS
<1>2. Bytes(f, a, b) = [i \in 1..n |-> f.ver] /\ f.ver \in Content
  BY Zenon, <1>1 DEF Bytes, FileRecord, Content
<1> HIDE DEF n
<1>3. [i \in 1..n |-> f.ver] \in Seq(Content)
  BY <1>1, <1>2, SeqDef
<1>4. Len([i \in 1..n |-> f.ver]) = n
  BY <1>1, <1>3
<1> QED
  BY Zenon, <1>2, <1>3, <1>4 DEF n

(* A chunk read behind what was copied continues it: readFile puts the     *)
(* file together from the chunks.                                          *)
LEMMA BytesContinue ==
  ASSUME NEW f \in FileRecord, NEW a \in Nat, NEW b \in Nat, a <= b
  PROVE  Bytes(f, 0, a) \o Bytes(f, a, b) = Bytes(f, 0, b)
<1> DEFINE s == Bytes(f, 0, a)  t == Bytes(f, a, b)  u == Bytes(f, 0, b)
<1>1. /\ s \in Seq(Content) /\ Len(s) = a
      /\ t \in Seq(Content) /\ Len(t) = b - a
      /\ u \in Seq(Content) /\ Len(u) = b
  <2>1. s \in Seq(Content) /\ Len(s) = IF 0 < a THEN a - 0 ELSE 0
    BY BytesLength
  <2>2. t \in Seq(Content) /\ Len(t) = IF a < b THEN b - a ELSE 0
    BY BytesLength
  <2>3. u \in Seq(Content) /\ Len(u) = IF 0 < b THEN b - 0 ELSE 0
    BY BytesLength
  <2> HIDE DEF s, t, u
  <2> QED BY <2>1, <2>2, <2>3
<1>2. /\ \A i \in 1..a : s[i] = f.ver
      /\ \A i \in 1..(b - a) : t[i] = f.ver
      /\ \A i \in 1..b : u[i] = f.ver
  BY DEF Bytes
<1> HIDE DEF s, t, u
<1>3. s \o t \in Seq(Content) /\ Len(s \o t) = b
  BY <1>1
<1>4. ASSUME NEW i \in 1..b PROVE (s \o t)[i] = u[i]
  <2>1. CASE i <= a
    BY <2>1, <1>1, <1>2
  <2>2. CASE i > a
    BY <2>2, <1>1, <1>2
  <2>3. i <= a \/ i > a
    OBVIOUS
  <2> QED BY Zenon, <2>1, <2>2, <2>3
<1>5. s \o t = u
  BY Zenon, <1>1, <1>3, <1>4, SeqEqual
<1> QED BY Zenon, <1>5 DEF s, t, u

LEMMA FileBegins == FileInit => Filed
<1> SUFFICES ASSUME FileInit PROVE Filed
  BY Zenon
<1>1. PICK p \in Path, c \in Client :
        /\ req = [d \in Client |-> [op |-> "stat", path |-> p]]
        /\ data = [by |-> c, op |-> "stat", path |-> p, off |-> 0,
                   total |-> 0, content |-> <<>>, eof |-> FALSE]
  BY Zenon, FileAssumption DEF FileInit
<1>2. FileTyped
  <2>1. file \in [Path -> FileRecord]
    BY DEF FileInit, FileRecord
  <2>2. <<>> \in Seq(Content) /\ Len(<<>>) <= Chunk
    BY FileAssumption
  <2>3. data \in DataRecord /\ req \in [Client -> [op : FileOp, path : Path]] /\ Len(data.content) <= Chunk
    BY Zenon, <1>1, <2>2 DEF DataRecord, FileOp
  <2> QED BY Zenon, <2>1, <2>2, <2>3 DEF FileInit, FileTyped, FileTypeOK, FileOp, DataRecord
<1>3. Owned
  <2>1. Len(<<>>) <= Chunk
    BY FileAssumption
  <2> QED BY Zenon, <1>1, <2>1 DEF FileInit, Owned
<1>4. \A d \in Client : Served(d)
  BY Zenon DEF FileInit, Served
<1> QED BY Zenon, <1>2, <1>3, <1>4 DEF Filed

(* A client that has called is not one that never calls.                   *)
LEMMA SomeCalls == \A n : n > 0 => n # 0
OBVIOUS

(* The fields of the shared record have their types.                       *)
LEMMA DataFields ==
  ASSUME NEW d \in DataRecord
  PROVE  /\ d.by \in Client /\ d.op \in FileOp /\ d.path \in Path /\ d.off \in Nat
         /\ d.total \in Sizes \cup {0} /\ d.content \in Seq(Content) /\ d.eof \in BOOLEAN
BY Zenon DEF DataRecord

(* A request written by callService, an answer by the service.             *)
LEMMA DataRequested ==
  ASSUME FileTyped, NEW c \in Client, NEW off \in Nat, CallService(c, off)
  PROVE  /\ data' \in DataRecord
         /\ data'.by = c /\ data'.op = req[c].op /\ data'.path = req[c].path /\ data'.off = off
         /\ data'.content = data.content
<1>1. PICK op \in FileOp, p \in Path : op = req[c].op /\ p = req[c].path
  BY Zenon DEF FileTyped, FileTypeOK, FileOp
<1>2. data' = [data EXCEPT !.by = c, !.op = op, !.path = p, !.off = off]
  BY Zenon, <1>1 DEF CallService
<1>3. data \in DataRecord
  BY Zenon DEF FileTyped
<1> QED BY Zenon, <1>1, <1>2, <1>3 DEF DataRecord
LEMMA DataAnswered ==
  ASSUME NEW d \in DataRecord, NEW c \in Seq(Content), NEW e \in BOOLEAN
  PROVE  /\ [d EXCEPT !.content = c, !.eof = e] \in DataRecord
         /\ [d EXCEPT !.content = c, !.eof = e].content = c
BY Zenon DEF DataRecord

(* Whoever is signalled, the sleepers are parties of the service.          *)
LEMMA SleepersAreParties ==
  ASSUME asleep \subseteq Client \cup {Service}
  PROVE  /\ Signal => asleep' \subseteq Client \cup {Service}
         /\ \A x \in Client \cup {Service} : SignalThenWait(x) => asleep' \subseteq Client \cup {Service}
         /\ \A x \in Client \cup {Service} : Wait(x) => asleep' \subseteq Client \cup {Service}
<1>1. \A S \in Signalled(asleep) : S \subseteq asleep
  BY Zenon DEF Signalled
<1> QED BY Zenon, <1>1 DEF Signal, SignalThenWait, Wait

LEMMA FileTypedStep == Filed /\ [FileNext]_fileVars => FileTyped'
<1> SUFFICES ASSUME Filed, [FileNext]_fileVars PROVE FileTyped'
  BY Zenon
<1> USE DEF FileOp
<1>0. FileTyped /\ FileTypeOK /\ Owned
  BY Zenon DEF Filed, FileTyped
<1>z. asleep \subseteq Client \cup {Service}
  BY Zenon, <1>0 DEF FileTypeOK
<1>1. CASE Boot
  BY <1>0, <1>1 DEF FileTyped, FileTypeOK, Boot, ForkSystem, ForkApp, SystemRegisters, AppRegisters,
                    CheckMembasedRunning, clientVars
<1>2. CASE LooperStarts
  <2>1. asleep' \subseteq Client \cup {Service}
    BY Zenon, <1>z, <1>2, SleepersAreParties DEF LooperStarts
  <2> QED BY <1>0, <1>2, <2>1 DEF FileTyped, FileTypeOK, LooperStarts, clientVars, bootVars
<1>3. CASE LooperTakes
  <2>1. asleep' \subseteq Client \cup {Service}
    BY Zenon, <1>z, <1>3, SleepersAreParties DEF LooperTakes
  <2>2. file[data.path].size \in Sizes
    BY Zenon, <1>0 DEF FileTyped, FileTypeOK, FileRecord
  <2>3. data' = data \/ data' = [data EXCEPT !.total = file[data.path].size]
    BY Zenon, <1>3 DEF LooperTakes
  <2>4. data' \in DataRecord /\ data'.content = data.content
    BY Zenon, <1>0, <2>2, <2>3 DEF FileTyped, DataRecord
  <2>5. Len(data'.content) <= Chunk
    BY Zenon, <1>0, <2>4 DEF FileTypeOK
  <2>6. data'.by \in Client /\ data'.path \in Path /\ data'.off \in Nat
    BY Zenon, <2>4, DataFields
  <2>7. looper' \in {"off", "loop", "work", "dead"} /\ locked' \in BOOLEAN
    BY Zenon, <1>0, <1>3 DEF LooperTakes, FileTypeOK
  <2>8. UNCHANGED <<bootVars, clientVars, state, error, file, writes>>
    BY Zenon, <1>3 DEF LooperTakes
  <2> QED BY <1>0, <2>1, <2>4, <2>5, <2>6, <2>7, <2>8 DEF FileTyped, FileTypeOK, clientVars, bootVars
<1>4. CASE LooperAnswers
  <2> DEFINE f == file[data.path]
             ok == Exists(f) /\ (data.op = "read" => data.total >= 0)
             c == IF ~ok \/ data.op = "access" THEN data.content
                  ELSE IF data.op = "stat" THEN <<f>>
                  ELSE Bytes(f, data.off, ReadEnd(f))
             e == ok /\ data.op = "read" /\ f.size - data.off < Chunk
  <2>1. asleep' \subseteq Client \cup {Service}
    BY Zenon, <1>z, <1>4, SleepersAreParties DEF LooperAnswers
  <2>a. data \in DataRecord /\ f \in FileRecord
    BY Zenon, <1>0 DEF FileTyped, FileTypeOK
  <2>b. f.size \in Sizes
    BY Zenon, <2>a DEF FileRecord
  <2>2. f \in FileRecord /\ f.size \in Int /\ data.off \in Nat
    <3>1. data.off \in Nat
      BY Zenon, <2>a, DataFields
    <3>2. \A z \in Sizes : z \in Int
      BY FileAssumption
    <3> HIDE DEF f
    <3> QED BY Zenon, <2>a, <2>b, <3>1, <3>2
  <2>3. data' = [data EXCEPT !.content = c, !.eof = e] /\ error' = ErrorOf(ok)
    BY Zenon, <1>4 DEF LooperAnswers
  <2>4. c \in Seq(Content) /\ Len(c) <= Chunk
    <3>1. CASE ~ok \/ data.op = "access"
      <4>1. c = data.content
        <5> HIDE DEF ok
        <5> QED BY Zenon, <3>1
      <4>2. data.content \in Seq(Content)
        BY Zenon, <2>a, DataFields
      <4> HIDE DEF c
      <4> QED BY Zenon, <4>1, <4>2, <1>0 DEF FileTypeOK
    <3>2. CASE ok /\ data.op = "stat"
      <4>1. c = <<f>> BY Zenon, <3>2
      <4>2. <<f>> \in Seq(Content) /\ Len(<<f>>) = 1 BY <2>2 DEF Content
      <4> HIDE DEF c
      <4> QED BY <4>1, <4>2, FileAssumption
    <3>3. CASE ok /\ data.op = "read"
      <4>1. c = Bytes(f, data.off, ReadEnd(f)) BY Zenon, <3>3
      <4>2. ReadEnd(f) \in Int /\ ReadEnd(f) - data.off <= Chunk
        BY <2>2, FileAssumption DEF ReadEnd, Least
      <4>3. c \in Seq(Content) /\ Len(c) = IF data.off < ReadEnd(f) THEN ReadEnd(f) - data.off ELSE 0
        <5> HIDE DEF f, c, ok
        <5> QED BY Zenon, <4>1, <4>2, <2>2, BytesLength
      <4> HIDE DEF c
      <4> QED BY <4>2, <4>3, <2>2, FileAssumption
    <3>4. data.op \in FileOp
      BY Zenon, <2>a, DataFields
    <3> HIDE DEF c, ok
    <3> QED BY Zenon, <3>1, <3>2, <3>3, <3>4
  <2>5. e \in BOOLEAN
    BY Zenon
  <2>6. error' \in {0, 2, 16}
    BY Zenon, <2>3, <1>0 DEF ErrorOf, FileTypeOK
  <2> HIDE DEF c, e, ok
  <2>7. data' \in DataRecord /\ data'.content = c
    BY Zenon, <2>a, <2>3, <2>4, <2>5, DataAnswered
  <2> QED BY Zenon, <1>0, <1>4, <2>1, <2>4, <2>6, <2>7, DataFields DEF FileTyped, FileTypeOK, LooperAnswers, clientVars, bootVars
<1>5. CASE LooperDies \/ WakesSpuriously
  BY <1>0, <1>5 DEF FileTyped, FileTypeOK, LooperDies, WakesSpuriously, clientVars, bootVars
<1>6. ASSUME NEW c \in Client, NEW op \in FileOp, NEW p \in Path, CallFile(c, op, p) PROVE FileTyped'
  BY <1>0, <1>6 DEF FileTyped, FileTypeOK, CallFile, bootVars
<1>7. ASSUME NEW c \in Client, WaitForIdle(c) PROVE FileTyped'
  <2>1. asleep' \subseteq Client \cup {Service}
    BY Zenon, <1>z, <1>7, SleepersAreParties DEF WaitForIdle, CallService
  <2>2. data' = data \/ CallService(c, 0)
    BY Zenon, <1>7 DEF WaitForIdle, CallService
  <2>3. data' \in DataRecord /\ data'.content = data.content
    BY Zenon, <1>0, <2>2, DataRequested DEF FileTyped
  <2>4. Len(data'.content) <= Chunk
    BY Zenon, <1>0, <2>3 DEF FileTypeOK
  <2>5. data'.by \in Client /\ data'.path \in Path /\ data'.off \in Nat
    BY Zenon, <2>3, DataFields
  <2>6. fpc' \in [Client -> {"idle", "want", "called", "unlocked", "returned"}]
    BY Zenon, <1>0, <1>7 DEF FileTypeOK, WaitForIdle
  <2>7. error' \in {0, 2, 16} /\ state' \in {"not_running", "idle", "action", "response"}
    BY Zenon, <1>0, <1>7 DEF FileTypeOK, WaitForIdle, CallService
  <2>8. UNCHANGED <<bootVars, req, buf, total, fileAnswer, touched, fileCalls, looper, locked, file, writes>>
    BY Zenon, <1>7 DEF WaitForIdle
  <2> QED BY <1>0, <2>1, <2>3, <2>4, <2>5, <2>6, <2>7, <2>8 DEF FileTyped, FileTypeOK, bootVars
<1>8. ASSUME NEW c \in Client, AwaitResponse(c) \/ StatDone(c) \/ ReadError(c) PROVE FileTyped'
  <2>1. asleep' \subseteq Client \cup {Service}
    BY Zenon, <1>z, <1>8, SleepersAreParties DEF AwaitResponse, StatDone, MakeIdle, ReadError
  <2>2. <<>> \in Seq(Content) /\ data.content \in Seq(Content)
    BY <1>0, DataFields DEF FileTyped
  <2>3. buf' \in [Client -> Seq(Content)]
    BY Zenon, <1>0, <1>8, <2>2 DEF FileTyped, AwaitResponse, StatDone, ReadError, clientVars
  <2>4. UNCHANGED <<bootVars, req, touched, fileCalls, error, data, looper, locked, file, writes>>
    BY Zenon, <1>8 DEF AwaitResponse, StatDone, MakeIdle, ReadError, clientVars
  <2>5. /\ fpc' \in [Client -> {"idle", "want", "called", "unlocked", "returned"}]
        /\ state' \in {"not_running", "idle", "action", "response"}
    BY Zenon, <1>0, <1>8 DEF FileTypeOK, AwaitResponse, StatDone, MakeIdle, ReadError, clientVars
  <2>6. fileAnswer' \in [Client -> {0, 2, 16}] /\ total' \in [Client -> Sizes \cup {0}]
    BY <1>0, <1>8 DEF FileTypeOK, AwaitResponse, StatDone, MakeIdle, ReadError, clientVars
  <2> QED BY <1>0, <2>1, <2>3, <2>4, <2>5, <2>6 DEF FileTyped, FileTypeOK, bootVars
<1>9. ASSUME NEW c \in Client, ChunkRead(c) PROVE FileTyped'
  <2>1. asleep' \subseteq Client \cup {Service}
    BY Zenon, <1>z, <1>9, SleepersAreParties DEF ChunkRead, CallService, MakeIdle
  <2>2. buf[c] \o data.content \in Seq(Content) /\ Len(buf[c] \o data.content) \in Nat
    BY <1>0, DataFields DEF FileTyped
  <2>3. PICK n \in Nat : data' = data \/ CallService(c, n)
    BY Zenon, <1>9, <2>2 DEF ChunkRead, MakeIdle
  <2>a. data' \in DataRecord /\ data'.content = data.content
    BY Zenon, <1>0, <2>3, DataRequested DEF FileTyped
  <2>4. Len(data'.content) <= Chunk
    BY Zenon, <1>0, <2>a DEF FileTypeOK
  <2>b. buf' = buf \/ buf' = [buf EXCEPT ![c] = buf[c] \o data.content]
    BY Zenon, <1>9 DEF ChunkRead
  <2>c. total' = total \/ total' = [total EXCEPT ![c] = data.total] \/ total' = [total EXCEPT ![c] = total[c]]
    BY Zenon, <1>9 DEF ChunkRead
  <2>d. data.total \in Sizes \cup {0}
    BY Zenon, <1>0, DataFields DEF FileTyped
  <2>5. buf' \in [Client -> Seq(Content)] /\ total' \in [Client -> Sizes \cup {0}]
    <3>1. buf \in [Client -> Seq(Content)] /\ total \in [Client -> Sizes \cup {0}]
      BY Zenon, <1>0 DEF FileTyped, FileTypeOK
    <3>2. buf' \in [Client -> Seq(Content)]
      BY Zenon, <2>2, <2>b, <3>1
    <3>3. total' \in [Client -> Sizes \cup {0}]
      BY Zenon, <2>c, <2>d, <3>1
    <3> QED BY Zenon, <3>2, <3>3
  <2>6. fpc' \in [Client -> {"idle", "want", "called", "unlocked", "returned"}]
    BY Zenon, <1>0, <1>9 DEF FileTypeOK, ChunkRead, CallService, MakeIdle
  <2>7. error' \in {0, 2, 16} /\ state' \in {"not_running", "idle", "action", "response"}
    BY Zenon, <1>0, <1>9 DEF FileTypeOK, ChunkRead, CallService, MakeIdle
  <2>8. UNCHANGED <<bootVars, req, fileAnswer, touched, fileCalls, looper, locked, file, writes>>
    BY Zenon, <1>9 DEF ChunkRead
  <2>9. data'.by \in Client /\ data'.path \in Path /\ data'.off \in Nat
    BY Zenon, <2>a, DataFields
  <2> QED BY SMTT(20), <1>0, <2>1, <2>a, <2>4, <2>5, <2>6, <2>7, <2>8, <2>9 DEF FileTyped, FileTypeOK, bootVars
<1>10. ASSUME NEW p \in Path, NEW size \in Sizes, FileChanges(p, size) PROVE FileTyped'
  <2>1. [size |-> size, ver |-> writes + 1] \in FileRecord /\ writes + 1 \in Nat
    BY <1>0 DEF FileTyped, FileRecord
  <2>2. file' \in [Path -> FileRecord]
    BY Zenon, <1>0, <1>10, <2>1 DEF FileTyped, FileChanges
  <2>3. touched' \in [Client -> BOOLEAN]
    BY <1>10, Zenon DEF FileChanges
  <2> QED BY <1>0, <1>10, <2>1, <2>2, <2>3 DEF FileTyped, FileTypeOK, FileChanges, bootVars
<1>11. CASE UNCHANGED fileVars
  BY <1>0, <1>11 DEF FileTyped, FileTypeOK, fileVars, bootVars, clientVars
<1> QED BY Zenon, <1>1, <1>2, <1>3, <1>4, <1>5, <1>6, <1>7, <1>8, <1>9, <1>10, <1>11 DEF FileNext, FileClientStep

LEMMA OwnedStep == Filed /\ [FileNext]_fileVars => Owned'
<1> SUFFICES ASSUME Filed, [FileNext]_fileVars PROVE Owned'
  BY Zenon
<1>0. FileTyped /\ Owned /\ FileTypeOK /\ data \in DataRecord
  BY Zenon DEF Filed, FileTyped
<1>a. Chunk \in Nat /\ Len(<<>>) <= Chunk
  BY FileAssumption
<1>1. CASE Boot \/ WakesSpuriously \/ LooperDies
  BY <1>0, <1>1 DEF Owned, Boot, WakesSpuriously, LooperDies, clientVars
<1>2. CASE LooperStarts
  BY Zenon, <1>0, <1>2 DEF Owned, LooperStarts, clientVars
<1>3. CASE LooperTakes
  <2>1. data' = data \/ data' = [data EXCEPT !.total = file[data.path].size]
    BY Zenon, <1>3 DEF LooperTakes
  <2>2. data'.by = data.by /\ data'.op = data.op /\ data'.path = data.path /\ data'.off = data.off
    BY Zenon, <1>0, <2>1 DEF DataRecord
  <2> QED BY Zenon, <1>0, <1>3, <2>2 DEF Owned, LooperTakes, clientVars
<1>4. CASE LooperAnswers
  <2>1. \E x, e : data' = [data EXCEPT !.content = x, !.eof = e]
    BY <1>4, Zenon DEF LooperAnswers
  <2>2. data'.by = data.by /\ data'.op = data.op /\ data'.path = data.path /\ data'.off = data.off
    BY Zenon, <1>0, <2>1 DEF DataRecord
  <2>3. looper' = "loop" /\ state' = "response" /\ looper = "work" /\ state = "action" /\ UNCHANGED clientVars
    BY Zenon, <1>0, <1>4 DEF Owned, LooperAnswers
  <2> QED BY Zenon, <1>0, <2>2, <2>3 DEF Owned, clientVars
<1>5. ASSUME NEW c \in Client, NEW op \in FileOp, NEW p \in Path, CallFile(c, op, p) PROVE Owned'
  <2>1. /\ fpc[c] \in {"idle", "returned"} /\ fpc' = [fpc EXCEPT ![c] = "want"]
        /\ fileCalls' = [fileCalls EXCEPT ![c] = @ + 1] /\ fileCalls[c] \in Nat
        /\ \A d \in Client : d # c => req'[d] = req[d]
        /\ UNCHANGED <<buf, total, state, error, data, looper, locked>>
    BY Zenon, <1>0, <1>5 DEF CallFile, FileTyped, FileTypeOK
  <2>2. fpc' \in [Client -> {"idle", "want", "called", "unlocked", "returned"}] /\ fileCalls \in [Client -> Nat]
    BY Zenon, <1>0, <2>1 DEF FileTyped, FileTypeOK
  <2>3. ASSUME NEW d \in Client, d # c
        PROVE  fpc'[d] = fpc[d] /\ fileCalls'[d] = fileCalls[d] /\ req'[d] = req[d]
    BY Zenon, <1>0, <2>1, <2>3 DEF FileTyped, FileTypeOK
  <2>4. fpc'[c] = "want" /\ buf[c] = <<>> /\ fileCalls'[c] > 0
    BY <1>0, <2>1 DEF FileTyped, FileTypeOK, Owned
  <2> QED BY <1>0, <1>a, <2>1, <2>3, <2>4 DEF Owned
<1>6. ASSUME NEW c \in Client, WaitForIdle(c) PROVE Owned'
  <2>1. CASE state = "idle"
    <3>1. CallService(c, 0) /\ fpc' = [fpc EXCEPT ![c] = "called"] /\ fpc[c] = "want"
      BY Zenon, <1>6, <2>1 DEF WaitForIdle
    <3>2. /\ data'.by = c /\ data'.op = req[c].op /\ data'.path = req[c].path /\ data'.off = 0
          /\ state' = "action" /\ error' = 0
      BY Zenon, <1>0, <3>1, DataRequested DEF CallService
    <3>3. UNCHANGED <<req, buf, total, fileCalls, looper, locked>>
      BY Zenon, <1>6 DEF WaitForIdle
    <3>4. fpc'[c] = "called" /\ \A d \in Client : d # c => fpc'[d] = fpc[d] /\ fpc[d] # "called"
      BY Zenon, <1>0, <2>1, <3>1 DEF FileTypeOK, Owned
    <3>5. looper # "work" /\ looper # "off" /\ buf[c] = <<>> /\ Len(buf[c]) = 0
      BY <1>0, <2>1, <3>1 DEF Owned
    <3> QED BY ZenonT(40), <1>0, <3>1, <3>2, <3>3, <3>4, <3>5 DEF Owned
  <2>2. CASE state # "idle"
    BY ZenonT(40), <1>0, <1>6, <2>2 DEF Owned, WaitForIdle
  <2> QED BY Zenon, <2>1, <2>2
<1>7. ASSUME NEW c \in Client, AwaitResponse(c) PROVE Owned'
  BY Zenon, <1>0, <1>7 DEF Owned, AwaitResponse, clientVars
<1>b. ASSUME NEW c \in Client, fpc[c] = "called", state = "response", MakeIdle(c),
             UNCHANGED <<req, fileCalls, looper, locked>>,
             \A d \in Client : d # c => buf'[d] = buf[d] /\ total'[d] = total[d],
             req[c].op = "read" => Len(buf'[c]) <= total'[c] \/ Len(buf'[c]) <= Chunk
      PROVE  Owned'
  <2>1. /\ state' = "idle" /\ fpc'[c] = "unlocked" /\ UNCHANGED data
        /\ \A d \in Client : d # c => fpc'[d] = fpc[d] /\ fpc[d] # "called"
    BY <1>0, <1>b DEF MakeIdle, FileTypeOK, Owned
  <2>2. looper # "work" /\ looper # "off" /\ fileCalls[c] > 0
    BY Zenon, <1>0, <1>b DEF Owned
  <2> QED BY <1>0, <1>b, <2>1, <2>2 DEF Owned
<1>8. ASSUME NEW c \in Client, StatDone(c) PROVE Owned'
  <2>1. \A d \in Client : d # c => buf'[d] = buf[d] /\ total'[d] = total[d]
    BY Zenon, <1>0, <1>8 DEF StatDone, FileTyped
  <2> QED BY Zenon, <1>8, <1>b, <2>1 DEF StatDone
<1>9. ASSUME NEW c \in Client, ChunkRead(c) PROVE Owned'
  <2> DEFINE got == buf[c] \o data.content
  <2>1. /\ buf[c] \in Seq(Content) /\ data.content \in Seq(Content) /\ Len(data.content) <= Chunk
        /\ data.off \in Nat
    BY Zenon, <1>0, DataFields DEF FileTyped, FileTypeOK
  <2>2. /\ got \in Seq(Content) /\ Len(got) = Len(buf[c]) + Len(data.content)
        /\ Len(got) \in Nat /\ Len(buf[c]) \in Nat /\ Len(data.content) \in Nat
    BY Zenon, <2>1, ConcatProperties, LenProperties
  <2>3. /\ fpc[c] = "called" /\ state = "response" /\ req[c].op = "read"
        /\ UNCHANGED <<req, fileCalls, looper, locked>>
    BY Zenon, <1>9 DEF ChunkRead
  <2>4. data.off = Len(buf[c]) /\ (Len(buf[c]) <= total[c] \/ Len(buf[c]) <= Chunk)
    BY Zenon, <1>0, <2>3 DEF Owned
  <2>5. CASE MakeIdle(c) /\ UNCHANGED <<buf, total>>
    BY Zenon, <1>b, <2>3, <2>4, <2>5
  <2>6. CASE error = 0 /\ Fits(c) /\ buf' = [buf EXCEPT ![c] = got]
             /\ total' = [total EXCEPT ![c] = IF data.off = 0 THEN data.total ELSE @]
    <3>1. /\ buf'[c] = got
          /\ \A d \in Client : d # c => buf'[d] = buf[d] /\ total'[d] = total[d]
          /\ data.off # 0 => total'[c] = total[c]
      BY Zenon, <1>0, <2>6 DEF FileTyped, FileTypeOK
    <3>2. Len(got) <= total'[c] \/ Len(got) <= Chunk
      <4> HIDE DEF got
      <4>1. CASE data.off = 0
        BY <2>1, <2>2, <2>4, <4>1
      <4>2. CASE data.off # 0
        BY Zenon, <2>2, <2>6, <3>1, <4>2 DEF Fits
      <4> QED BY Zenon, <4>1, <4>2
    <3> HIDE DEF got
    <3>3. CASE MakeIdle(c)
      BY Zenon, <1>b, <2>3, <3>1, <3>2, <3>3
    <3>4. CASE CallService(c, Len(got)) /\ UNCHANGED fpc
      <4>1. /\ data'.by = c /\ data'.op = req[c].op /\ data'.path = req[c].path /\ data'.off = Len(got)
        BY Zenon, <1>0, <2>2, <3>4, DataRequested
      <4>2. state' = "action" /\ error' = 0
        BY Zenon, <3>4 DEF CallService
      <4>3. looper # "work" /\ looper # "off" /\ \A d \in Client : d # c => fpc[d] # "called"
        BY Zenon, <1>0, <2>3 DEF Owned
      <4> QED BY <1>0, <2>3, <3>1, <3>2, <3>4, <4>1, <4>2, <4>3 DEF Owned
    <3> QED BY Zenon, <1>9, <2>6, <3>3, <3>4 DEF ChunkRead, got
  <2> QED BY Zenon, <1>9, <2>5, <2>6 DEF ChunkRead
<1>10. ASSUME NEW c \in Client, ReadError(c) PROVE Owned'
  <2>1. /\ fpc[c] = "unlocked" /\ fpc'[c] = "returned" /\ buf'[c] = <<>>
        /\ \A d \in Client : d # c => fpc'[d] = fpc[d] /\ buf'[d] = buf[d] /\ total'[d] = total[d]
        /\ UNCHANGED <<req, fileCalls, state, error, data, looper, locked>>
    BY Zenon, <1>0, <1>10 DEF ReadError, FileTyped, FileTypeOK
  <2>2. state \in {"action", "response"} => data.by # c /\ data.by \in Client
    BY Zenon, <1>0, <2>1 DEF Owned, FileTypeOK
  <2> QED BY <1>0, <1>a, <2>1, <2>2 DEF Owned
<1>11. ASSUME NEW p \in Path, NEW size \in Sizes, FileChanges(p, size) PROVE Owned'
  BY Zenon, <1>0, <1>11 DEF Owned, FileChanges
<1>12. CASE UNCHANGED fileVars
  BY Zenon, <1>0, <1>12 DEF Owned, fileVars, clientVars
<1> QED BY Zenon, <1>1, <1>2, <1>3, <1>4, <1>5, <1>6, <1>7, <1>8, <1>9, <1>10, <1>11, <1>12
     DEF FileNext, FileClientStep, FileOp

(* A step of another client c that has begun a call leaves d, which has    *)
(* not called, what it has; d is not alone.                                *)
LEMMA OthersServed ==
  ASSUME Filed, NEW c \in Client, NEW d \in Client, d # c, fpc[c] # "idle", fpc[d] # "called",
         fpc'[d] = fpc[d], buf'[d] = buf[d], UNCHANGED <<req, touched, file, fileCalls>>
  PROVE  Served(d)'
<1>1. fileCalls[c] # 0
  BY DEF Filed, FileTyped, Owned
<1>2. ~Alone(d)'
  BY Zenon, <1>1 DEF Alone
<1> QED BY Zenon, <1>2 DEF Filed, Served

LEMMA ServedByLooper ==
  ASSUME Filed, LooperTakes \/ LooperAnswers, NEW d \in Client
  PROVE  Served(d)'
<1> DEFINE f == file[req[d].path]
<1>0. FileTyped /\ Owned /\ FileTypeOK /\ data \in DataRecord /\ Served(d)
  BY Zenon DEF Filed, FileTyped
<1>1. f \in FileRecord /\ f.size \in Int /\ data.off \in Nat
  <2>1. f \in FileRecord /\ \A z \in Sizes : z \in Int
    BY <1>0, FileAssumption DEF FileTyped, FileTypeOK
  <2> QED BY Zenon, <1>0, <2>1, DataFields DEF FileRecord
<1>2. fpc[d] = "called" => data.op = req[d].op /\ data.path = req[d].path
  BY Zenon, <1>0 DEF Owned
<1>3. CASE LooperTakes /\ state # "action"
  BY Zenon, <1>0, <1>3 DEF LooperTakes, clientVars, Served, Reading, Alone, ReadEnd
<1>4. CASE LooperTakes /\ state = "action"
  <2>1. data' = [data EXCEPT !.total = file[data.path].size] /\ UNCHANGED <<clientVars, state, error, file>>
    BY Zenon, <1>4 DEF LooperTakes
  <2>2. data'.off = data.off /\ data'.total = file[data.path].size
    BY Zenon, <1>0, <2>1 DEF DataRecord
  <2> QED BY Zenon, <1>0, <1>2, <1>4, <2>1, <2>2 DEF Served, Reading, Alone, clientVars
<1>5. CASE LooperAnswers
  <2> DEFINE ok == Exists(f) /\ (data.op = "read" => data.total >= 0)
             x == IF ~ok \/ data.op = "access" THEN data.content
                  ELSE IF data.op = "stat" THEN <<f>>
                  ELSE Bytes(f, data.off, ReadEnd(f))
             e == ok /\ data.op = "read" /\ f.size - data.off < Chunk
  <2>1. looper = "work" /\ state = "action" /\ error = 0 /\ state' = "response" /\ looper' = "loop"
        /\ UNCHANGED <<clientVars, file>>
    BY Zenon, <1>0, <1>5 DEF LooperAnswers, Owned
  <2>2. CASE fpc[d] # "called"
    <3>0. PICK b \in Client : b = data.by
      BY Zenon, <1>0, DataFields
    <3>a. fpc[b] = "called"
      BY Zenon, <1>0, <2>1, <3>0 DEF Owned
    <3>b. fileCalls[b] > 0
      BY Zenon, <1>0, <3>a DEF Owned
    <3>1. b # d /\ fileCalls[b] # 0
      BY Zenon, <2>2, <3>a, <3>b, SomeCalls
    <3>2. ~Alone(d) /\ ~Alone(d)'
      BY Zenon, <2>1, <3>1 DEF Alone, clientVars
    <3> QED BY Zenon, <1>0, <2>1, <2>2, <3>2 DEF Served, clientVars
  <2>3. CASE fpc[d] = "called" /\ ~touched[d]
    <3>1. data' = [data EXCEPT !.content = x, !.eof = e] /\ error' = ErrorOf(ok)
      BY Zenon, <1>2, <1>5, <2>3 DEF LooperAnswers
    <3>2. data'.content = x /\ data'.eof = e /\ data'.off = data.off /\ data'.total = data.total
      <4> HIDE DEF x, e
      <4> QED BY Zenon, <1>0, <3>1 DEF DataRecord
    <3>3. CASE Exists(f)
      <4>1. Reading(d, f) /\ data.total = f.size
        BY Zenon, <1>0, <2>1, <2>3, <3>3 DEF Served, Reading
      <4>2. ok
        BY Zenon, <3>3, <4>1 DEF Exists
      <4>3. error' = 0
        BY Zenon, <2>1, <3>1, <4>2 DEF ErrorOf
      <4>4. req[d].op = "stat" => x = <<f>>
        BY Zenon, <1>2, <2>3, <4>2
      <4>5. req[d].op = "read" => x = Bytes(f, data.off, ReadEnd(f)) /\ (e <=> f.size - data.off < Chunk)
        BY Zenon, <1>2, <2>3, <4>2
      <4>6. ReadEnd(f)' = Least(data'.off + Chunk, f'.size)
        BY Zenon DEF ReadEnd
      <4>7. f' = f /\ Exists(f)'
        BY Zenon, <2>1, <3>3 DEF clientVars, Exists
      <4>8. ReadEnd(f)' = ReadEnd(f)
        BY Zenon, <3>2, <4>6, <4>7 DEF ReadEnd
      <4>9. Bytes(f, data.off, ReadEnd(f))' = Bytes(f, data.off, ReadEnd(f))
        BY Zenon, <3>2, <4>7, <4>8 DEF Bytes
      <4> HIDE DEF x, e, ok
      <4>10. Reading(d, f)'
        <5>1. (req[d].op = "read" =>
                /\ buf[d] = Bytes(f, 0, data.off) /\ data.off <= f.size /\ (data.off = 0 \/ total[d] = f.size))'
          BY Zenon, <2>1, <3>2, <4>1, <4>7 DEF Reading, clientVars, Bytes
        <5>2. (req[d].op = "stat" => data.content = <<f>>)'
          BY Zenon, <2>1, <3>2, <4>4, <4>7 DEF clientVars
        <5>3. (req[d].op = "read" => data.content = Bytes(f, data.off, ReadEnd(f)) /\ data.total = f.size)'
          BY Zenon, <2>1, <3>2, <4>1, <4>5, <4>7, <4>9 DEF clientVars
        <5>4. (req[d].op = "read" => (data.eof <=> f.size - data.off < Chunk))'
          BY Zenon, <2>1, <3>2, <4>5, <4>7 DEF clientVars
        <5> HIDE DEF f
        <5> QED BY Zenon, <2>1, <4>3, <5>1, <5>2, <5>3, <5>4 DEF Reading
      <4> QED BY Zenon, <2>1, <2>3, <4>7, <4>10 DEF Served, clientVars
    <3>4. CASE ~Exists(f)
      <4>1. error' = 2
        BY Zenon, <3>1, <3>4 DEF ErrorOf
      <4> QED BY Zenon, <2>1, <2>3, <3>4, <4>1 DEF Served, clientVars, Exists
    <3> QED BY Zenon, <3>3, <3>4
  <2>4. CASE touched[d]
    BY Zenon, <2>1, <2>4 DEF Served, clientVars
  <2> QED BY Zenon, <2>2, <2>3, <2>4
<1> QED BY Zenon, <1>3, <1>4, <1>5

(* A client copies its chunk, asks for the next one or has the whole file. *)
LEMMA ServedByChunk ==
  ASSUME Filed, NEW c \in Client, ChunkRead(c), ~touched[c]
  PROVE  Served(c)'
<1> DEFINE f == file[req[c].path]
           got == buf[c] \o data.content
<1>0. FileTyped /\ Owned /\ FileTypeOK /\ data \in DataRecord /\ Served(c)
  BY Zenon DEF Filed, FileTyped
<1>1. /\ fpc[c] = "called" /\ state = "response" /\ req[c].op = "read"
      /\ UNCHANGED <<req, fileAnswer, touched, fileCalls, looper, locked, file>>
  BY Zenon DEF ChunkRead
<1>2. f \in FileRecord /\ f.size \in Int /\ data.off \in Nat /\ data.off = Len(buf[c]) /\ Chunk \in Nat
  <2>1. f \in FileRecord /\ (\A z \in Sizes : z \in Int) /\ Chunk \in Nat
    BY <1>0, FileAssumption DEF FileTyped, FileTypeOK
  <2> QED BY Zenon, <1>0, <1>1, <2>1, DataFields DEF FileRecord, Owned
<1>3. f' = f /\ (Exists(f)' <=> Exists(f))
  BY Zenon, <1>1 DEF Exists
<1>4. CASE ~Exists(f)
  <2>1. error = 2
    BY Zenon, <1>0, <1>1, <1>4 DEF Served
  <2>2. fpc' = [fpc EXCEPT ![c] = "unlocked"] /\ error' = 2
    BY <2>1 DEF ChunkRead, MakeIdle
  <2>3. fpc'[c] = "unlocked"
    BY Zenon, <1>0, <2>2 DEF FileTypeOK
  <2> HIDE DEF f
  <2>4. Served(c)' <=> (~touched[c] => (Alone(c) => error = IF Exists(f) THEN 0 ELSE 2))'
    BY Zenon, <1>3, <1>4, <2>3 DEF Served, f
  <2> QED BY Zenon, <1>3, <1>4, <2>2, <2>4
<1>5. CASE Exists(f)
  <2>0. f.size \in Nat
    BY <1>2, <1>5 DEF Exists
  <2>1. Reading(c, f)
    BY Zenon, <1>0, <1>1, <1>5 DEF Served
  <2>2. /\ error = 0 /\ data.content = Bytes(f, data.off, ReadEnd(f)) /\ data.total = f.size
        /\ (data.eof <=> f.size - data.off < Chunk)
        /\ buf[c] = Bytes(f, 0, data.off) /\ data.off <= f.size /\ (data.off = 0 \/ total[c] = f.size)
    BY Zenon, <1>1, <2>1 DEF Reading
  <2>3. ReadEnd(f) \in Nat /\ data.off <= ReadEnd(f) /\ ReadEnd(f) <= f.size
    <3> HIDE DEF f
    <3> QED BY <1>2, <2>0, <2>2 DEF ReadEnd, Least
  <2> DEFINE n == ReadEnd(f)
  <2>4. n \in Nat /\ got = Bytes(f, 0, n)
    <3> HIDE DEF f
    <3> QED BY Zenon, <1>2, <2>2, <2>3, BytesContinue
  <2>5. Len(got) = n
    <3>1. Len(Bytes(f, 0, n)) = IF 0 < n THEN n - 0 ELSE 0
      <4> HIDE DEF f, n, got
      <4>1. f \in FileRecord /\ n \in Int /\ 0 \in Nat
        BY <1>2, <2>4
      <4> QED BY Zenon, <4>1, BytesLength
    <3> HIDE DEF n, f, got
    <3> QED BY <2>4, <3>1
  <2>6. Fits(c)
    <3>1. Len(got) = Len(buf[c]) + Len(data.content)
      BY <1>0, DataFields, ConcatProperties DEF FileTyped
    <3> HIDE DEF got
    <3> QED BY Zenon, <1>2, <2>0, <2>2, <2>3, <2>5, <3>1 DEF Fits
  <2>7. /\ buf' = [buf EXCEPT ![c] = got]
        /\ total' = [total EXCEPT ![c] = IF data.off = 0 THEN data.total ELSE @]
        /\ IF data.eof THEN MakeIdle(c) /\ UNCHANGED error
                       ELSE CallService(c, Len(got)) /\ UNCHANGED fpc
    BY Zenon, <2>2, <2>6 DEF ChunkRead
  <2>8. buf'[c] = got /\ total'[c] = f.size
    <3> HIDE DEF got, f
    <3> QED BY Zenon, <1>0, <2>2, <2>7 DEF FileTyped, FileTypeOK
  <2>9. CASE data.eof
    <3>1. n = f.size
      BY <1>2, <2>0, <2>2, <2>9 DEF ReadEnd, Least
    <3>2. fpc'[c] = "unlocked" /\ error' = 0
      BY Zenon, <1>0, <2>2, <2>7, <2>9 DEF MakeIdle, FileTypeOK
    <3>3. buf'[c] = Bytes(f, 0, f.size)'
      <4>1. Bytes(f, 0, f.size)' = Bytes(f, 0, f.size)
        BY Zenon, <1>3 DEF Bytes
      <4> HIDE DEF n, got, f
      <4> QED BY Zenon, <2>4, <2>8, <3>1, <4>1
    <3> QED BY Zenon, <1>1, <1>3, <1>5, <3>2, <3>3 DEF Served
  <2>10. CASE ~data.eof
    <3>1. CallService(c, Len(got)) /\ fpc'[c] = "called"
      BY Zenon, <1>1, <2>7, <2>10
    <3>2. data'.off = n /\ state' = "action"
      <4>1. Len(got) \in Nat
        BY Zenon, <2>4, <2>5
      <4> HIDE DEF n, got
      <4> QED BY Zenon, <1>0, <2>5, <3>1, <4>1, DataRequested DEF CallService
    <3>3. looper' # "work"
      BY Zenon, <1>0, <1>1 DEF Owned
    <3>4. buf'[c] = Bytes(f, 0, data.off)'
      <4>1. Bytes(f, 0, data.off)' = Bytes(f, 0, n)
        <5> HIDE DEF n
        <5> QED BY Zenon, <1>3, <3>2 DEF Bytes
      <4> HIDE DEF n, got
      <4> QED BY Zenon, <2>4, <2>8, <4>1
    <3>5. Reading(c, f)'
      BY Zenon, <1>1, <1>3, <2>3, <2>8, <3>2, <3>3, <3>4 DEF Reading
    <3> QED BY Zenon, <1>1, <1>3, <1>5, <3>1, <3>2, <3>5 DEF Served
  <2> QED BY Zenon, <2>9, <2>10
<1> QED BY Zenon, <1>4, <1>5

LEMMA ServedStep == Filed /\ [FileNext]_fileVars => \A d \in Client : Served(d)'
<1> SUFFICES ASSUME Filed, [FileNext]_fileVars, NEW d \in Client PROVE Served(d)'
  BY Zenon
<1>0. FileTyped /\ Owned /\ FileTypeOK /\ data \in DataRecord /\ Served(d)
  BY Zenon DEF Filed, FileTyped
<1>1. CASE Boot \/ WakesSpuriously \/ LooperDies \/ UNCHANGED fileVars
  BY Zenon, <1>0, <1>1 DEF Boot, WakesSpuriously, LooperDies, fileVars, clientVars, Served, Reading, Alone, ReadEnd
<1>2. CASE LooperStarts
  BY Zenon, <1>0, <1>2 DEF LooperStarts, clientVars, Owned, Served, Alone
<1>3. CASE LooperTakes \/ LooperAnswers
  BY Zenon, <1>3, ServedByLooper
<1>4. ASSUME NEW c \in Client, NEW op \in FileOp, NEW p \in Path, CallFile(c, op, p) PROVE Served(d)'
  <2>1. CASE d = c
    BY Zenon, <1>0, <1>4, <2>1 DEF CallFile, FileTypeOK, Served
  <2>2. CASE d # c
    <3>1. /\ fpc'[d] = fpc[d] /\ req'[d] = req[d] /\ touched'[d] = touched[d]
          /\ UNCHANGED <<buf, total, fileAnswer, state, error, data, looper, file>>
      BY Zenon, <1>0, <1>4, <2>2 DEF CallFile, FileTyped, FileTypeOK
    <3>a. fileCalls'[c] = fileCalls[c] + 1 /\ fileCalls[c] \in Nat
      BY Zenon, <1>0, <1>4 DEF CallFile, FileTyped
    <3>2. ~Alone(d)'
      BY <2>2, <3>a DEF Alone
    <3> QED BY Zenon, <1>0, <3>1, <3>2 DEF Served, Reading, ReadEnd
  <2> QED BY Zenon, <2>1, <2>2
<1>5. ASSUME NEW c \in Client, WaitForIdle(c) PROVE Served(d)'
  <2>1. CASE state # "idle"
    BY Zenon, <1>0, <1>5, <2>1 DEF WaitForIdle, Served, Reading, Alone, ReadEnd
  <2>2. CASE state = "idle" /\ d # c
    <3>1. fpc[d] # "called" /\ fpc[c] = "want"
      BY Zenon, <1>0, <1>5, <2>2 DEF Owned, WaitForIdle
    <3>2. fpc'[d] = fpc[d] /\ UNCHANGED <<buf, req, touched, file, fileCalls>>
      BY Zenon, <1>0, <1>5, <2>2 DEF WaitForIdle, FileTypeOK
    <3>3. fpc[c] # "idle" /\ buf'[d] = buf[d]
      BY Zenon, <3>1, <3>2
    <3> QED BY Zenon, <2>2, <3>1, <3>2, <3>3, OthersServed
  <2>3. CASE state = "idle" /\ d = c
    <3>1. /\ CallService(c, 0) /\ fpc'[c] = "called" /\ fpc[c] = "want" /\ state' = "action"
          /\ UNCHANGED <<buf, req, touched, file, looper, total>>
      BY Zenon, <1>0, <1>5, <2>3 DEF WaitForIdle, CallService, FileTypeOK
    <3>2. data'.off = 0
      BY Zenon, <1>0, <3>1, DataRequested
    <3>3. looper # "work" /\ buf[c] = <<>>
      BY Zenon, <1>0, <2>3, <3>1 DEF Owned
    <3>4. ASSUME NEW g PROVE Bytes(g, 0, 0) = <<>>
      BY DEF Bytes
    <3>5. ASSUME Exists(file[req[c].path]) PROVE Reading(c, file[req[c].path])'
      BY Zenon, <3>1, <3>2, <3>3, <3>4, <3>5 DEF Reading, Exists
    <3>6. Exists(file[req[c].path])' <=> Exists(file[req[c].path])
      BY Zenon, <3>1 DEF Exists
    <3> QED BY Zenon, <2>3, <3>1, <3>5, <3>6 DEF Served
  <2> QED BY Zenon, <2>1, <2>2, <2>3
<1>6. ASSUME NEW c \in Client, AwaitResponse(c) PROVE Served(d)'
  BY Zenon, <1>0, <1>6 DEF AwaitResponse, clientVars, Served, Reading, Alone, ReadEnd
<1>7. ASSUME NEW c \in Client, StatDone(c) \/ ChunkRead(c), d # c PROVE Served(d)'
  <2>1. fpc[d] # "called" /\ fpc[c] # "idle"
    BY Zenon, <1>0, <1>7 DEF Owned, StatDone, ChunkRead
  <2>2. UNCHANGED <<req, touched, file, fileCalls>>
    BY Zenon, <1>7 DEF StatDone, ChunkRead
  <2>3. fpc'[d] = fpc[d] /\ buf'[d] = buf[d]
    BY Zenon, <1>0, <1>7 DEF StatDone, ChunkRead, MakeIdle, FileTyped, FileTypeOK
  <2> QED BY Zenon, <1>7, <2>1, <2>2, <2>3, OthersServed
<1>8. ASSUME NEW c \in Client, StatDone(c), d = c PROVE Served(d)'
  <2>1. /\ fpc[c] = "called" /\ state = "response" /\ req[c].op \in {"access", "stat"} /\ fpc'[c] = "unlocked"
        /\ req[c].op = "stat" => buf'[c] = data.content
        /\ UNCHANGED <<req, touched, file, error, fileCalls>>
    BY Zenon, <1>0, <1>8 DEF StatDone, MakeIdle, FileTyped, FileTypeOK
  <2> QED BY Zenon, <1>0, <1>8, <2>1 DEF Served, Reading, Exists
<1>9. ASSUME NEW c \in Client, ChunkRead(c), d = c PROVE Served(d)'
  <2>1. CASE touched[c]
    BY Zenon, <1>9, <2>1 DEF ChunkRead, Served
  <2> QED BY Zenon, <1>9, <2>1, ServedByChunk
<1>10. ASSUME NEW c \in Client, ReadError(c) PROVE Served(d)'
  <2>1. CASE d = c
    <3>1. /\ fpc[c] = "unlocked" /\ fpc'[c] = "returned" /\ fileAnswer'[c] = error
          /\ UNCHANGED <<req, touched, fileCalls, file>>
      BY Zenon, <1>0, <1>10 DEF ReadError, FileTypeOK
    <3> QED BY Zenon, <1>0, <2>1, <3>1 DEF Served, Alone, Exists
  <2>2. CASE d # c
    <3>1. /\ fpc'[d] = fpc[d] /\ fileAnswer'[d] = fileAnswer[d] /\ buf'[d] = buf[d] /\ total'[d] = total[d]
          /\ UNCHANGED <<req, touched, fileCalls, file, state, error, data, looper>>
      BY Zenon, <1>0, <1>10, <2>2 DEF ReadError, FileTyped, FileTypeOK
    <3> QED BY Zenon, <1>0, <3>1 DEF Served, Reading, Alone, ReadEnd
  <2> QED BY Zenon, <2>1, <2>2
<1>11. ASSUME NEW p \in Path, NEW size \in Sizes, FileChanges(p, size) PROVE Served(d)'
  <2>1. CASE touched'[d]
    BY Zenon, <2>1 DEF Served
  <2>2. CASE ~touched'[d]
    <3>1. ~touched[d] /\ req[d].path # p
      BY Zenon, <1>11, <2>2 DEF FileChanges
    <3>2. file'[req[d].path] = file[req[d].path]
      BY Zenon, <1>0, <1>11, <3>1 DEF FileChanges, FileTyped, FileTypeOK
    <3>3. UNCHANGED <<fpc, req, buf, total, fileAnswer, fileCalls, state, error, data, looper>>
      BY Zenon, <1>11 DEF FileChanges
    <3> QED BY Zenon, <1>0, <3>1, <3>2, <3>3 DEF Served, Reading, Alone, ReadEnd
  <2> QED BY Zenon, <2>1, <2>2
<1> QED BY Zenon, <1>1, <1>2, <1>3, <1>4, <1>5, <1>6, <1>7, <1>8, <1>9, <1>10, <1>11 DEF FileNext, FileClientStep, FileOp

LEMMA FileStep == Filed /\ [FileNext]_fileVars => Filed'
BY Zenon, FileTypedStep, OwnedStep, ServedStep DEF Filed

(* Every variable of the service start and of the file service has its     *)
(* type; no answer is longer than the content array.                       *)
THEOREM FileTypes == FileSpec => []FileTypeOK
<1>1. Filed => FileTypeOK
  BY Zenon DEF Filed, FileTyped
<1> QED BY <1>1, FileBegins, FileStep, PTL DEF FileSpec

(* statFile and readFile return the record and the whole of the caller's   *)
(* own file, for any number of clients, files and sizes and any chunk, and *)
(* with one client the error too; nothing is written past the buffer.      *)
THEOREM RepliesAreOwn == FileSpec => []ReplyIsOwn
<1>1. Filed => ReplyIsOwn
  BY Zenon DEF Filed, Owned, Served, ReplyIsOwn
<1> QED BY <1>1, FileBegins, FileStep, PTL DEF FileSpec

-----------------------------------------------------------------------------
(* XloaderTransport, for any number of calls, deaths of the daemon and     *)
(* kills of the service: its inductive invariant with the steps of the     *)
(* client, then those of the daemon, the safety theorems, and on top of    *)
(* them that the channel implements RpcContract and that the second attempt *)
(* of transaction() hides a restart of the daemon.                         *)
(*                                                                         *)
(* None of the safety properties is inductive by itself: what a call is    *)
(* answered depends on what lies in the streams, and that depends on where *)
(* both ends are.  IInv says it all at once: the shape of every stream     *)
(* (Shape), what the client's own connection holds at each place of        *)
(* transaction() (OwnConnection), and which commands may still run         *)
(* (Unrun).                                                                *)

In(k) == conn[k].toDaemon
Out(k) == conn[k].toClient

OnlySize(k, c) == Len(In(k)) = 1 /\ In(k)[1] = <<"size", c>>
OnlyText(k, c) == Len(In(k)) = 1 /\ In(k)[1] = <<"text", c>>
SizeThenText(k, c) == Len(In(k)) = 2 /\ In(k)[1] = <<"size", c>> /\ In(k)[2] = <<"text", c>>
Nothing(k) == Len(In(k)) = 0

\* The text of c waits in the stream of k.
Carries(k, c) == \E i \in 1..Len(In(k)) : In(k)[i] = <<"text", c>>

\* Call c is in progress and its text has not been written on any connection.
Unwritten(c) == c > called \/ (c = called /\ pc \in {"connect", "size", "text"})

Serving(k) == k = dconn

\* The daemon serves a connection exactly between accept() and close(), and
\* the connections it has not closed are that one and those of the backlog.
Ends ==
  /\ (dconn = 0) <=> (dpc \in {"accept", "down"})
  /\ dconn # 0 => DaemonOpen(dconn)
  /\ \A i \in 1..Len(backlog) : backlog[i] # dconn /\ DaemonOpen(backlog[i])
  /\ \A i, j \in 1..Len(backlog) : i # j => backlog[i] # backlog[j]
  /\ \A k \in 1..Len(conn) : ClientOpen(k) <=> (k = mSocket)
  /\ pc \in {"size", "text", "reply"} => mSocket # 0
  /\ pc # "idle" => called \in Call

\* The shape of the streams the daemon may still read.
Shape ==
  \A k \in 1..Len(conn) : DaemonOpen(k) =>
    \/ Nothing(k)
    \/ Serving(k) /\ dpc = "text" /\ \E c \in Call : OnlyText(k, c) /\ length[c] = "fits"
    \/ (Serving(k) => dpc = "size") /\ \E c \in Call : OnlySize(k, c) \/ SizeThenText(k, c)

\* The client's own connection, by the place of the client.
OwnConnection ==
  mSocket # 0 =>
    /\ pc \in {"idle", "connect", "size"} =>
         Nothing(mSocket) /\ Len(Out(mSocket)) = 0 /\ (Serving(mSocket) => dpc = "size")
    /\ pc = "text" =>
         /\ Len(Out(mSocket)) = 0
         /\ \/ ~DaemonOpen(mSocket)
            \/ OnlySize(mSocket, called) /\ (Serving(mSocket) => dpc = "size")
            \/ Nothing(mSocket) /\ Serving(mSocket) /\ dpc = "text" /\ length[called] = "fits"
    /\ pc = "reply" =>
         \/ ~DaemonOpen(mSocket) /\ Len(Out(mSocket)) = 0
         \/ Len(Out(mSocket)) = 0 /\ SizeThenText(mSocket, called) /\ (Serving(mSocket) => dpc = "size")
         \/ Len(Out(mSocket)) = 0 /\ OnlyText(mSocket, called) /\ Serving(mSocket) /\ dpc = "text"
         \/ Len(Out(mSocket)) = 0 /\ Nothing(mSocket) /\ Serving(mSocket) /\ dpc \in {"execute", "reply"} /\ dcmd = called
         \/ /\ Len(Out(mSocket)) = 1 /\ Out(mSocket)[1] = called /\ runs[called] = 1
            /\ Nothing(mSocket) /\ (Serving(mSocket) => dpc = "size")

\* A command runs once: what has not run yet is carried by one stream at
\* most, or is the one the daemon is about to run.
Unrun ==
  /\ \A c \in Call : runs[c] \in 0..1
  /\ \A c \in Call : Unwritten(c) => runs[c] = 0 /\ result[c] = "none"
  /\ \A c \in Call : c = called /\ pc = "reply" => result[c] = "none"
  /\ \A c \in Call : \A k \in 1..Len(conn) : Carries(k, c) => runs[c] = 0 /\ ~Unwritten(c)
  /\ \A c \in Call : \A k, l \in 1..Len(conn) : Carries(k, c) /\ Carries(l, c) => k = l
  /\ dpc \in {"execute", "reply"} =>
       /\ dcmd \in Call /\ ~Unwritten(dcmd)
       /\ \A k \in 1..Len(conn) : ~Carries(k, dcmd)
       /\ runs[dcmd] = IF dpc = "execute" THEN 0 ELSE 1

IInv == TypeOK /\ Ends /\ Shape /\ OwnConnection /\ Unrun /\ AnswerIsOwn
-----------------------------------------------------------------------------
(* One lemma per field of a connection: assigning it keeps the connections *)
(* well formed and changes nothing else.                                   *)

\* The client writes to, or the daemon reads from, connection k.
PutIn(cs, k, d) == [cs EXCEPT ![k].toDaemon = d]

\* PutIn keeps the connections well formed and sets only its field.
LEMMA SetIn ==
  ASSUME NEW cs \in Seq(Connection), NEW k \in 1..Len(cs), NEW d \in Seq({"size", "text"} \X Call)
  PROVE  /\ PutIn(cs, k, d) \in Seq(Connection) /\ Len(PutIn(cs, k, d)) = Len(cs)
         /\ \A l \in 1..Len(cs) :
              /\ PutIn(cs, k, d)[l].toDaemon = IF l = k THEN d ELSE cs[l].toDaemon
              /\ PutIn(cs, k, d)[l].toClient = cs[l].toClient
              /\ PutIn(cs, k, d)[l].open = cs[l].open
<1>1. cs[k] \in Connection
  OBVIOUS
<1>2. [cs[k] EXCEPT !.toDaemon = d] \in Connection
  BY Zenon, <1>1 DEF Connection
<1>3. PutIn(cs, k, d) \in Seq(Connection) /\ Len(PutIn(cs, k, d)) = Len(cs)
  BY <1>2 DEF PutIn
<1>4. ASSUME NEW l \in 1..Len(cs)
      PROVE  /\ PutIn(cs, k, d)[l].toDaemon = IF l = k THEN d ELSE cs[l].toDaemon
             /\ PutIn(cs, k, d)[l].toClient = cs[l].toClient
             /\ PutIn(cs, k, d)[l].open = cs[l].open
  BY <1>1 DEF Connection, PutIn
<1> QED BY Zenon, <1>3, <1>4

\* The daemon replies on, or the client reads a reply from, connection k.
PutOut(cs, k, d) == [cs EXCEPT ![k].toClient = d]

\* PutOut keeps the connections well formed and sets only its field.
LEMMA SetOut ==
  ASSUME NEW cs \in Seq(Connection), NEW k \in 1..Len(cs), NEW d \in Seq(Call)
  PROVE  /\ PutOut(cs, k, d) \in Seq(Connection) /\ Len(PutOut(cs, k, d)) = Len(cs)
         /\ \A l \in 1..Len(cs) :
              /\ PutOut(cs, k, d)[l].toDaemon = cs[l].toDaemon
              /\ PutOut(cs, k, d)[l].toClient = IF l = k THEN d ELSE cs[l].toClient
              /\ PutOut(cs, k, d)[l].open = cs[l].open
<1>1. cs[k] \in Connection
  OBVIOUS
<1>2. [cs[k] EXCEPT !.toClient = d] \in Connection
  BY Zenon, <1>1 DEF Connection
<1>3. PutOut(cs, k, d) \in Seq(Connection) /\ Len(PutOut(cs, k, d)) = Len(cs)
  BY <1>2 DEF PutOut
<1>4. ASSUME NEW l \in 1..Len(cs)
      PROVE  /\ PutOut(cs, k, d)[l].toDaemon = cs[l].toDaemon
             /\ PutOut(cs, k, d)[l].toClient = IF l = k THEN d ELSE cs[l].toClient
             /\ PutOut(cs, k, d)[l].open = cs[l].open
  BY <1>1 DEF Connection, PutOut
<1> QED BY Zenon, <1>3, <1>4

\* The client or the daemon closes connection k.
PutOpen(cs, k, d) == [cs EXCEPT ![k].open = d]

\* PutOpen keeps the connections well formed and sets only its field.
LEMMA SetOpen ==
  ASSUME NEW cs \in Seq(Connection), NEW k \in 1..Len(cs), NEW d \in SUBSET {"client", "daemon"}
  PROVE  /\ PutOpen(cs, k, d) \in Seq(Connection) /\ Len(PutOpen(cs, k, d)) = Len(cs)
         /\ \A l \in 1..Len(cs) :
              /\ PutOpen(cs, k, d)[l].toDaemon = cs[l].toDaemon
              /\ PutOpen(cs, k, d)[l].toClient = cs[l].toClient
              /\ PutOpen(cs, k, d)[l].open = IF l = k THEN d ELSE cs[l].open
<1>1. cs[k] \in Connection
  OBVIOUS
<1>2. [cs[k] EXCEPT !.open = d] \in Connection
  BY Zenon, <1>1 DEF Connection
<1>3. PutOpen(cs, k, d) \in Seq(Connection) /\ Len(PutOpen(cs, k, d)) = Len(cs)
  BY <1>2 DEF PutOpen
<1>4. ASSUME NEW l \in 1..Len(cs)
      PROVE  /\ PutOpen(cs, k, d)[l].toDaemon = cs[l].toDaemon
             /\ PutOpen(cs, k, d)[l].toClient = cs[l].toClient
             /\ PutOpen(cs, k, d)[l].open = IF l = k THEN d ELSE cs[l].open
  BY SMTT(30), <1>1 DEF Connection, PutOpen
<1> QED BY Zenon, <1>3, <1>4

\* disconnect() closes the client's end of its socket, if it has one.
LEMMA Disconnect ==
  ASSUME TypeOK, NEW n, n = ClosedBy(conn, mSocket)
  PROVE  /\ n \in Seq(Connection) /\ Len(n) = Len(conn)
         /\ \A l \in 1..Len(conn) :
              /\ n[l].toDaemon = conn[l].toDaemon
              /\ n[l].toClient = conn[l].toClient
              /\ n[l].open = IF l = mSocket THEN conn[l].open \ {"client"} ELSE conn[l].open
<1>1. CASE mSocket = 0
  <2>1. n = conn
    BY Zenon, <1>1 DEF ClosedBy
  <2> QED BY <1>1, <2>1 DEF TypeOK
<1>2. CASE mSocket # 0
  <2>1. mSocket \in 1..Len(conn) /\ conn \in Seq(Connection)
    BY <1>2 DEF TypeOK
  <2> DEFINE d == conn[mSocket].open \ {"client"}
  <2>2. d \in SUBSET {"client", "daemon"}
    <3>1. conn[mSocket] \in Connection
      BY <2>1
    <3> QED BY Zenon, <3>1 DEF Connection
  <2>3. n = PutOpen(conn, mSocket, d)
    BY Zenon, <1>2 DEF ClosedBy, PutOpen
  <2>4. /\ n \in Seq(Connection) /\ Len(n) = Len(conn)
        /\ \A l \in 1..Len(conn) :
             /\ n[l].toDaemon = conn[l].toDaemon
             /\ n[l].toClient = conn[l].toClient
             /\ n[l].open = IF l = mSocket THEN d ELSE conn[l].open
    <3> HIDE DEF d
    <3> DEFINE m == PutOpen(conn, mSocket, d)
    <3>1. /\ m \in Seq(Connection) /\ Len(m) = Len(conn)
          /\ \A l \in 1..Len(conn) :
               /\ m[l].toDaemon = conn[l].toDaemon
               /\ m[l].toClient = conn[l].toClient
               /\ m[l].open = IF l = mSocket THEN d ELSE conn[l].open
      BY Zenon, <2>1, <2>2, SetOpen
    <3> QED BY Zenon, <3>1, <2>3
  <2> QED BY Zenon, <2>4
<1> QED BY Zenon, <1>1, <1>2

\* The death of the daemon closes its end of every connection.
LEMMA AllClosed ==
  ASSUME NEW cs \in Seq(Connection),
         NEW n, n = [k \in DOMAIN cs |-> [cs[k] EXCEPT !.open = @ \ {"daemon"}]]
  PROVE  /\ n \in Seq(Connection) /\ Len(n) = Len(cs)
         /\ \A l \in 1..Len(cs) :
              /\ n[l].toDaemon = cs[l].toDaemon
              /\ n[l].toClient = cs[l].toClient
              /\ n[l].open = cs[l].open \ {"daemon"}
<1>1. ASSUME NEW k \in 1..Len(cs)
      PROVE  [cs[k] EXCEPT !.open = @ \ {"daemon"}] \in Connection
  <2>1. cs[k] \in Connection
    OBVIOUS
  <2> QED BY Zenon, <2>1 DEF Connection
<1>2. n \in Seq(Connection) /\ Len(n) = Len(cs)
  <2>1. DOMAIN cs = 1..Len(cs) /\ Len(cs) \in Nat
    OBVIOUS
  <2>2. n \in [1..Len(cs) -> Connection]
    BY Zenon, <1>1, <2>1
  <2> QED BY <2>1, <2>2
<1>3. ASSUME NEW l \in 1..Len(cs)
      PROVE  /\ n[l].toDaemon = cs[l].toDaemon
             /\ n[l].toClient = cs[l].toClient
             /\ n[l].open = cs[l].open \ {"daemon"}
  BY DEF Connection
<1> QED BY Zenon, <1>2, <1>3

\* connect() adds a fresh connection.
LEMMA Opened ==
  ASSUME NEW cs \in Seq(Connection), NEW n, n = Append(cs, Fresh)
  PROVE  /\ n \in Seq(Connection) /\ Len(n) = Len(cs) + 1
         /\ \A l \in 1..Len(cs) : n[l] = cs[l]
         /\ n[Len(cs) + 1] = Fresh
<1>1. Fresh \in Connection
  BY DEF Fresh, Connection
<1> QED BY <1>1

-----------------------------------------------------------------------------
(* The inductive invariant.                                                *)

\* It holds of the initial state: no connection, no command.
LEMMA InitInv == Init => IInv
<1> SUFFICES ASSUME Init PROVE IInv
  BY Zenon
<1>1. TypeOK
  BY BoundsAssumption DEF Init, TypeOK, Call, Length
<1>2. Len(conn) = 0 /\ Len(backlog) = 0
  BY Zenon DEF Init
<1>3. Ends /\ Shape /\ OwnConnection /\ AnswerIsOwn
  BY <1>1, <1>2 DEF Init, Ends, Shape, OwnConnection, AnswerIsOwn
<1>4. Unrun
  BY <1>1, <1>2 DEF Init, Unrun
<1> QED BY Zenon, <1>1, <1>3, <1>4 DEF IInv

\* Nothing that IInv speaks of changes.
LEMMA StutterInv == IInv /\ UNCHANGED vars => IInv'
<1> SUFFICES ASSUME IInv, UNCHANGED vars PROVE IInv'
  BY Zenon
<1> USE DEF IInv, vars, client, daemon, budget
<1>1. TypeOK'
  BY Zenon DEF TypeOK
<1>2. Ends'
  BY Zenon DEF Ends, ClientOpen, DaemonOpen
<1>3. Shape'
  BY Zenon DEF Shape, DaemonOpen, In, OnlySize, OnlyText, SizeThenText, Nothing, Serving
<1>4. OwnConnection'
  BY Zenon DEF OwnConnection, DaemonOpen, In, Out, OnlySize, OnlyText, SizeThenText, Nothing, Serving
<1>5. Unrun'
  <2>1. \A c \in Call : Unwritten(c)' <=> Unwritten(c)
    BY Zenon DEF Unwritten
  <2>2. \A c \in Call, l \in 1..Len(conn) : Carries(l, c)' <=> Carries(l, c)
    BY Zenon DEF Carries, In
  <2> QED BY Zenon, <2>1, <2>2 DEF Unrun
<1>6. AnswerIsOwn'
  BY Zenon DEF AnswerIsOwn
<1> QED BY Zenon, <1>1, <1>2, <1>3, <1>4, <1>5, <1>6

\* transaction() is entered.
LEMMA TransactionInv == IInv /\ Transaction => IInv'
<1> SUFFICES ASSUME IInv, Transaction PROVE IInv'
  BY Zenon
<1> USE DEF IInv, Transaction, daemon, budget
<1>1. TypeOK'
  BY BoundsAssumption DEF TypeOK, Call
<1>2. Ends'
  BY BoundsAssumption DEF TypeOK, Call, Ends, ClientOpen, DaemonOpen
<1>3. Shape'
  BY Zenon DEF Shape, DaemonOpen, In, OnlySize, OnlyText, SizeThenText, Nothing, Serving
<1>4. OwnConnection'
  BY Zenon DEF OwnConnection, In, Out, Nothing, Serving
<1>5. Unrun'
  <2>1. ASSUME NEW c \in Call PROVE Unwritten(c)' => Unwritten(c)
    BY BoundsAssumption DEF TypeOK, Unwritten, Call
  <2>2. \A c \in Call, l \in 1..Len(conn) : Carries(l, c)' <=> Carries(l, c)
    BY Zenon DEF Carries, In
  <2> QED BY Zenon, <2>1, <2>2 DEF Unrun
<1>6. AnswerIsOwn'
  BY Zenon DEF AnswerIsOwn
<1> QED BY Zenon, <1>1, <1>2, <1>3, <1>4, <1>5, <1>6

\* The connection the daemon serves and those that wait are connections that
\* have been made.
LEMMA KnownEnds ==
  ASSUME TypeOK
  PROVE  /\ dconn # 0 => dconn \in 1..Len(conn)
         /\ \A i \in 1..Len(backlog) : backlog[i] \in 1..Len(conn)
<1>1. dconn \in 0..Len(conn) /\ backlog \in Seq(1..Len(conn)) /\ Len(conn) \in Nat
  BY DEF TypeOK
<1> QED BY <1>1

\* A stream that does not change keeps its shape.
LEMMA SameIn ==
  ASSUME NEW k, conn'[k].toDaemon = conn[k].toDaemon
  PROVE  /\ Nothing(k)' <=> Nothing(k)
         /\ \A c : OnlySize(k, c)' <=> OnlySize(k, c)
         /\ \A c : OnlyText(k, c)' <=> OnlyText(k, c)
         /\ \A c : SizeThenText(k, c)' <=> SizeThenText(k, c)
         /\ \A c : Carries(k, c)' <=> Carries(k, c)
  BY Zenon DEF In, Nothing, OnlySize, OnlyText, SizeThenText, Carries

\* connect() finds a socket, makes one, or gives the call up.
LEMMA ConnectInv == IInv /\ Connect => IInv'
<1> SUFFICES ASSUME IInv, Connect PROVE IInv'
  BY Zenon
<1> USE DEF IInv, Connect, daemon, budget
<1>1. CASE mSocket # 0 /\ pc' = "size" /\ UNCHANGED <<mSocket, conn, backlog, result>>
  <2>1. TypeOK'
    BY Zenon, <1>1 DEF TypeOK
  <2>2. Ends'
    BY Zenon, <1>1 DEF Ends, ClientOpen, DaemonOpen
  <2>3. Shape'
    BY Zenon, <1>1 DEF Shape, DaemonOpen, In, OnlySize, OnlyText, SizeThenText, Nothing, Serving
  <2>4. OwnConnection'
    BY Zenon, <1>1 DEF OwnConnection, In, Out, Nothing, Serving
  <2>5. Unrun'
    <3>1. \A c \in Call : Unwritten(c)' <=> Unwritten(c)
      BY Zenon, <1>1 DEF Unwritten
    <3>2. \A c \in Call, l \in 1..Len(conn) : Carries(l, c)' <=> Carries(l, c)
      BY Zenon, <1>1 DEF Carries, In
    <3> QED BY Zenon, <1>1, <3>1, <3>2 DEF Unrun
  <2>6. AnswerIsOwn'
    BY Zenon, <1>1 DEF AnswerIsOwn
  <2> QED BY Zenon, <2>1, <2>2, <2>3, <2>4, <2>5, <2>6
<1>2. CASE /\ mSocket = 0 /\ dpc # "down"
           /\ conn' = Append(conn, Fresh) /\ mSocket' = Len(conn) + 1
           /\ backlog' = Append(backlog, Len(conn) + 1)
           /\ pc' = "size" /\ UNCHANGED result
  <2> DEFINE new == Len(conn) + 1
  <2>0. /\ conn' \in Seq(Connection) /\ Len(conn') = new /\ Len(conn) \in Nat
        /\ \A l \in 1..Len(conn) : conn'[l] = conn[l]
        /\ conn'[new].toDaemon = <<>> /\ conn'[new].toClient = <<>>
        /\ conn'[new].open = {"client", "daemon"}
    <3>1. /\ conn' \in Seq(Connection) /\ Len(conn') = Len(conn) + 1
          /\ \A l \in 1..Len(conn) : conn'[l] = conn[l]
          /\ conn'[Len(conn) + 1] = Fresh
      BY Zenon, <1>2, Opened DEF TypeOK
    <3> QED BY <3>1 DEF TypeOK, Fresh
  <2>b. /\ backlog' \in Seq(1..new) /\ Len(backlog') = Len(backlog) + 1 /\ Len(backlog) \in Nat
        /\ \A i \in 1..Len(backlog) : backlog'[i] = backlog[i] /\ backlog[i] \in 1..Len(conn)
        /\ backlog'[Len(backlog) + 1] = new
    <3>1. backlog \in Seq(1..new) /\ new \in 1..new
      BY <2>0 DEF TypeOK
    <3> QED BY SMTT(30), <3>1, <1>2 DEF TypeOK
  <2>1. TypeOK'
    BY <1>2, <2>0, <2>b DEF TypeOK
  <2>2. Ends'
    <3>1. \A l \in 1..Len(conn) : (DaemonOpen(l)' <=> DaemonOpen(l)) /\ (ClientOpen(l)' <=> ClientOpen(l))
      BY Zenon, <2>0 DEF DaemonOpen, ClientOpen
    <3>2. ClientOpen(mSocket)' /\ DaemonOpen(mSocket)'
      BY Zenon, <1>2, <2>0 DEF DaemonOpen, ClientOpen
    <3>3. \A l \in 1..Len(conn') : l = mSocket' \/ l \in 1..Len(conn)
      BY <1>2, <2>0
    <3>4. /\ (dconn' = 0) <=> (dpc' \in {"accept", "down"})
          /\ dconn' # 0 => DaemonOpen(dconn)'
          /\ pc' \in {"size", "text", "reply"} => mSocket' # 0
          /\ pc' # "idle" => called' \in Call
      BY <1>2, <2>0, <3>1 DEF TypeOK, Ends
    <3>5. \A k \in 1..Len(conn') : ClientOpen(k)' <=> (k = mSocket')
      BY <1>2, <2>0, <3>1, <3>2, <3>3 DEF Ends
    <3>6. \A i \in 1..Len(backlog') : i = Len(backlog) + 1 \/ i \in 1..Len(backlog)
      BY <2>b
    <3>7. \A i \in 1..Len(backlog') : backlog'[i] # dconn' /\ DaemonOpen(backlog[i])'
      <4>1. new # dconn
        BY <2>0 DEF TypeOK
      <4>2. \A i \in 1..Len(backlog) : backlog[i] # dconn /\ DaemonOpen(backlog[i])
        BY Zenon DEF Ends
      <4>3. ASSUME NEW i \in 1..Len(backlog) PROVE backlog'[i] # dconn' /\ DaemonOpen(backlog[i])'
        BY Zenon, <4>2, <2>b, <3>1 DEF DaemonOpen
      <4>4. ASSUME NEW i, i = Len(backlog) + 1 PROVE backlog'[i] # dconn' /\ DaemonOpen(backlog[i])'
        BY Zenon, <1>2, <4>1, <4>4, <2>b, <3>2 DEF DaemonOpen
      <4> QED BY Zenon, <4>3, <4>4, <3>6
    <3>8. \A i, j \in 1..Len(backlog') : i # j => backlog'[i] # backlog'[j]
      <4>1. new \notin 1..Len(conn)
        BY <2>0
      <4>2. \A i, j \in 1..Len(backlog) : i # j => backlog[i] # backlog[j]
        BY Zenon DEF Ends
      <4> HIDE DEF new, Connect
      <4> QED BY Zenon, <4>1, <4>2, <2>b, <3>6
    <3> QED BY Zenon, <3>4, <3>5, <3>7, <3>8 DEF Ends
  <2>3. Shape'
    <3>1. Nothing(mSocket)'
      BY Zenon, <1>2, <2>0 DEF Nothing, In
    <3>2. \A l \in 1..Len(conn) : DaemonOpen(l)' <=> DaemonOpen(l)
      BY Zenon, <2>0 DEF DaemonOpen
    <3>3. \A l \in 1..Len(conn') : l = mSocket' \/ l \in 1..Len(conn)
      BY <1>2, <2>0
    <3> QED BY Zenon, <1>2, <2>0, <3>1, <3>2, <3>3, SameIn DEF Shape, Serving
  <2>4. OwnConnection'
    BY SMTT(30), <1>2, <2>0 DEF TypeOK, OwnConnection, In, Out, Nothing, Serving
  <2>5. Unrun'
    <3>1. \A c \in Call : \A l \in 1..Len(conn) : Carries(l, c)' <=> Carries(l, c)
      BY Zenon, <2>0, SameIn
    <3>2. \A c : ~Carries(mSocket, c)'
      BY <1>2, <2>0 DEF Carries, In
    <3>3. \A c \in Call : Unwritten(c)' <=> Unwritten(c)
      BY Zenon, <1>2 DEF Unwritten
    <3>4. \A l \in 1..Len(conn') : l = mSocket' \/ l \in 1..Len(conn)
      BY <1>2, <2>0
    <3> QED BY SMTT(30), <1>2, <3>1, <3>2, <3>3, <3>4 DEF Unrun
  <2>6. AnswerIsOwn'
    BY Zenon, <1>2 DEF AnswerIsOwn
  <2> QED BY Zenon, <2>1, <2>2, <2>3, <2>4, <2>5, <2>6
<1>3. CASE mSocket = 0 /\ Return("error") /\ UNCHANGED <<mSocket, conn, backlog>>
  <2>0. called \in Call
    BY Zenon DEF Ends
  <2>1. TypeOK'
    BY Zenon, <1>3, <2>0 DEF TypeOK, Return
  <2>2. Ends'
    BY Zenon, <1>3 DEF Ends, ClientOpen, DaemonOpen, Return
  <2>3. Shape'
    BY Zenon, <1>3 DEF Shape, DaemonOpen, In, OnlySize, OnlyText, SizeThenText, Nothing, Serving
  <2>4. OwnConnection'
    BY Zenon, <1>3 DEF OwnConnection
  <2>5. Unrun'
    <3>1. \A c \in Call : Unwritten(c)' => Unwritten(c) /\ result'[c] = result[c]
      BY <1>3, <2>0 DEF TypeOK, Unwritten, Return, Call
    <3>2. \A c \in Call : c = called => ~Unwritten(c)'
      BY <1>3, <2>0 DEF TypeOK, Unwritten, Return, Call
    <3>3. \A c \in Call : \A l \in 1..Len(conn) : Carries(l, c)' <=> Carries(l, c)
      BY Zenon, <1>3 DEF Carries, In
    <3> QED BY Zenon, <1>3, <3>1, <3>2, <3>3 DEF Unrun, Return
  <2>6. AnswerIsOwn'
    BY Zenon, <1>3, <2>0 DEF TypeOK, AnswerIsOwn, Return
  <2> QED BY Zenon, <2>1, <2>2, <2>3, <2>4, <2>5, <2>6
<1> QED BY Zenon, <1>1, <1>2, <1>3

\* Whenever the client drops its socket, on an error or because its process
\* is killed, and goes back to connect() or ends the call.
LEMMA DropInv ==
  ASSUME IInv, TypeOK',
         conn' = ClosedBy(conn, mSocket), mSocket' = 0,
         UNCHANGED <<called, length, answer, backlog, daemon>>,
         \/ pc' = "connect" /\ pc \in {"size", "text"} /\ UNCHANGED result
         \/ pc' = "idle" /\ pc = "idle" /\ UNCHANGED result
         \/ pc' = "idle" /\ pc # "idle" /\ result' = [result EXCEPT ![called] = "error"]
  PROVE  IInv'
<1> USE DEF IInv, daemon
<1>0. /\ Len(conn') = Len(conn)
      /\ \A l \in 1..Len(conn) :
           /\ conn'[l].toDaemon = conn[l].toDaemon
           /\ conn'[l].toClient = conn[l].toClient
           /\ conn'[l].open = IF l = mSocket THEN conn[l].open \ {"client"} ELSE conn[l].open
  BY Zenon, Disconnect
<1>1. \A l \in 1..Len(conn) : /\ ClientOpen(l)' <=> (l # mSocket /\ ClientOpen(l))
                              /\ DaemonOpen(l)' <=> DaemonOpen(l)
  BY Zenon, <1>0 DEF ClientOpen, DaemonOpen
<1>2. Ends'
  <2>1. \A k \in 1..Len(conn') : ClientOpen(k)' <=> (k = mSocket')
    BY <1>0, <1>1 DEF Ends
  <2>2. /\ dconn' # 0 => DaemonOpen(dconn)'
        /\ \A i \in 1..Len(backlog) : backlog[i] # dconn /\ DaemonOpen(backlog[i])'
    <3>1. /\ dconn # 0 => dconn \in 1..Len(conn)
          /\ \A i \in 1..Len(backlog) : backlog[i] \in 1..Len(conn)
      BY Zenon, KnownEnds
    <3> QED BY SMTT(30), <1>1, <3>1 DEF Ends, DaemonOpen
  <2> QED BY Zenon, <2>1, <2>2 DEF Ends
<1>3. Shape'
  BY Zenon, <1>0, <1>1, SameIn DEF Shape, Serving
<1>4. OwnConnection'
  BY SMTT(30) DEF OwnConnection
<1>5. Unrun'
  <2>1. \A c \in Call : Unwritten(c)' => Unwritten(c)
    BY Zenon DEF Unwritten
  <2>2. \A c \in Call : Unwritten(c)' => result'[c] = result[c]
    BY DEF TypeOK, Unwritten, Call
  <2>3. \A c \in Call : \A l \in 1..Len(conn) : Carries(l, c)' <=> Carries(l, c)
    BY Zenon, <1>0 DEF Carries, In
  <2> QED BY Zenon, <1>0, <2>1, <2>2, <2>3 DEF Unrun
<1>6. AnswerIsOwn'
  BY Zenon DEF TypeOK, AnswerIsOwn, Ends
<1> QED BY Zenon, <1>2, <1>3, <1>4, <1>5, <1>6

\* The client refuses the size of its command and keeps its socket.
LEMMA RefusedInv ==
  ASSUME IInv, pc = "size", WriteFailed, UNCHANGED <<mSocket, conn>>,
         UNCHANGED <<called, length, answer, backlog, daemon, disturbed, budget>>
  PROVE  IInv'
<1> USE DEF IInv, daemon, budget
<1>0. called \in Call
  BY Zenon DEF Ends
<1>1. \/ pc' = "connect" /\ attempt' = 2 /\ UNCHANGED result
      \/ pc' = "idle" /\ result' = [result EXCEPT ![called] = "error"] /\ UNCHANGED attempt
  BY Zenon DEF WriteFailed, Return
<1>2. TypeOK'
  <2>1. result' \in [Call -> {"none", "error", "reply"}]
    BY Zenon, <1>0, <1>1 DEF TypeOK
  <2>2. pc' \in {"idle", "connect"} /\ attempt' \in 1..2
    BY <1>1 DEF TypeOK
  <2> QED BY Zenon, <2>1, <2>2 DEF TypeOK
<1>3. Ends'
  BY Zenon, <1>1 DEF Ends, ClientOpen, DaemonOpen
<1>4. Shape'
  BY Zenon, SameIn DEF Shape, DaemonOpen, Serving
<1>5. OwnConnection'
  BY Zenon, <1>1 DEF OwnConnection, In, Out, Nothing, Serving
<1>6. Unrun'
  <2>1. \A c \in Call : Unwritten(c)' => Unwritten(c) /\ result'[c] = result[c]
    <3>1. CASE pc' = "connect" /\ UNCHANGED result
      BY Zenon, <3>1 DEF Unwritten
    <3>2. CASE pc' = "idle" /\ result' = [result EXCEPT ![called] = "error"]
      BY <3>2, <1>0 DEF TypeOK, Unwritten, Call
    <3> QED BY Zenon, <3>1, <3>2, <1>1
  <2>2. pc' # "reply"
    BY Zenon, <1>1
  <2> QED BY Zenon, <2>1, <2>2, SameIn DEF Unrun
<1>7. AnswerIsOwn'
  BY Zenon, <1>0, <1>1 DEF TypeOK, AnswerIsOwn
<1> QED BY Zenon, <1>2, <1>3, <1>4, <1>5, <1>6, <1>7

\* One write of writeCommand() reaches the stream.
LEMMA SentFacts ==
  ASSUME IInv, NEW what \in {"size", "text"}, mSocket # 0, called \in Call,
         conn' = [conn EXCEPT ![mSocket].toDaemon = Append(@, <<what, called>>)]
  PROVE  /\ conn' \in Seq(Connection) /\ Len(conn') = Len(conn)
         /\ mSocket \in 1..Len(conn)
         /\ In(mSocket) \in Seq({"size", "text"} \X Call)
         /\ \A l \in 1..Len(conn) :
              /\ conn'[l].toDaemon = IF l = mSocket THEN Append(In(mSocket), <<what, called>>)
                                     ELSE conn[l].toDaemon
              /\ conn'[l].toClient = conn[l].toClient
              /\ conn'[l].open = conn[l].open
<1> DEFINE d == Append(In(mSocket), <<what, called>>)
           m == PutIn(conn, mSocket, d)
<1>1. mSocket \in 1..Len(conn) /\ conn \in Seq(Connection)
  BY DEF IInv, TypeOK
<1>2. In(mSocket) \in Seq({"size", "text"} \X Call)
  <2>1. conn[mSocket] \in Connection
    BY <1>1
  <2> QED BY Zenon, <2>1 DEF Connection, In
<1>3. d \in Seq({"size", "text"} \X Call)
  BY <1>2
<1>4. conn' = m
  BY Zenon DEF PutIn, In
<1>5. /\ m \in Seq(Connection) /\ Len(m) = Len(conn)
      /\ \A l \in 1..Len(conn) :
           /\ m[l].toDaemon = IF l = mSocket THEN d ELSE conn[l].toDaemon
           /\ m[l].toClient = conn[l].toClient
           /\ m[l].open = conn[l].open
  <2> HIDE DEF d
  <2> QED BY <1>1, <1>3, SetIn
<1> HIDE DEF m
<1> QED BY Zenon, <1>1, <1>2, <1>4, <1>5

\* The size of a command is written.
LEMMA SentSizeInv ==
  ASSUME IInv, pc = "size", DaemonOpen(mSocket), pc' = "text",
         conn' = [conn EXCEPT ![mSocket].toDaemon = Append(@, <<"size", called>>)],
         UNCHANGED <<mSocket, attempt, result>>,
         UNCHANGED <<called, length, answer, backlog, daemon, disturbed, budget>>
  PROVE  IInv'
<1> USE DEF IInv, daemon, budget
<1>0. mSocket # 0 /\ called \in Call
  BY Zenon DEF Ends
<1>1. /\ conn' \in Seq(Connection) /\ Len(conn') = Len(conn)
      /\ mSocket \in 1..Len(conn)
      /\ In(mSocket) \in Seq({"size", "text"} \X Call)
      /\ \A l \in 1..Len(conn) :
           /\ conn'[l].toDaemon = IF l = mSocket THEN Append(In(mSocket), <<"size", called>>)
                                  ELSE conn[l].toDaemon
           /\ conn'[l].toClient = conn[l].toClient
           /\ conn'[l].open = conn[l].open
  BY Zenon, <1>0, SentFacts
<1>2. Nothing(mSocket) /\ Len(Out(mSocket)) = 0 /\ (Serving(mSocket) => dpc = "size")
  BY Zenon, <1>0 DEF OwnConnection
<1>3. OnlySize(mSocket, called)'
  BY <1>1, <1>2 DEF Nothing, OnlySize, In
<1>4. \A l \in 1..Len(conn) : (DaemonOpen(l)' <=> DaemonOpen(l)) /\ (ClientOpen(l)' <=> ClientOpen(l))
  BY Zenon, <1>1 DEF DaemonOpen, ClientOpen
<1>5. TypeOK'
  BY Zenon, <1>1 DEF TypeOK
<1>6. Ends'
  <2>1. (\A i \in 1..Len(backlog) : backlog[i] \in 1..Len(conn)) /\ dconn \in 0..Len(conn)
    BY DEF TypeOK
  <2> QED BY <1>0, <1>1, <1>4, <2>1 DEF Ends
<1>7. Shape'
  <2>1. ASSUME NEW l \in 1..Len(conn), l # mSocket, DaemonOpen(l)
        PROVE  \/ Nothing(l)'
               \/ Serving(l)' /\ dpc' = "text" /\ \E c \in Call : OnlyText(l, c)' /\ length'[c] = "fits"
               \/ (Serving(l)' => dpc' = "size") /\ \E c \in Call : OnlySize(l, c)' \/ SizeThenText(l, c)'
    BY Zenon, <1>1, <2>1, SameIn DEF Shape, Serving
  <2> QED BY Zenon, <1>0, <1>1, <1>2, <1>3, <1>4, <2>1 DEF Shape, Serving
<1>8. OwnConnection'
  BY Zenon, <1>1, <1>2, <1>3 DEF OwnConnection, Out, Serving
<1>9. Unrun'
  <2>1. \A c \in Call : Unwritten(c)' <=> Unwritten(c)
    BY Zenon DEF Unwritten
  <2>2. \A c \in Call : ~Carries(mSocket, c)'
    BY <1>3 DEF Carries, OnlySize
  <2>3. \A c \in Call, l \in 1..Len(conn) : Carries(l, c)' => Carries(l, c)
    BY Zenon, <1>1, <2>2, SameIn
  <2> QED BY Zenon, <1>1, <2>1, <2>3 DEF Unrun
<1>10. AnswerIsOwn'
  BY Zenon DEF AnswerIsOwn
<1> QED BY Zenon, <1>5, <1>6, <1>7, <1>8, <1>9, <1>10

\* The text of a command is written: from here on it may run.
LEMMA SentTextInv ==
  ASSUME IInv, pc = "text", DaemonOpen(mSocket), pc' = "reply",
         conn' = [conn EXCEPT ![mSocket].toDaemon = Append(@, <<"text", called>>)],
         UNCHANGED <<mSocket, attempt, result>>,
         UNCHANGED <<called, length, answer, backlog, daemon, disturbed, budget>>
  PROVE  IInv'
<1> USE DEF IInv, daemon, budget
<1>0. mSocket # 0 /\ called \in Call
  BY Zenon DEF Ends
<1>1. /\ conn' \in Seq(Connection) /\ Len(conn') = Len(conn)
      /\ mSocket \in 1..Len(conn)
      /\ In(mSocket) \in Seq({"size", "text"} \X Call)
      /\ \A l \in 1..Len(conn) :
           /\ conn'[l].toDaemon = IF l = mSocket THEN Append(In(mSocket), <<"text", called>>)
                                  ELSE conn[l].toDaemon
           /\ conn'[l].toClient = conn[l].toClient
           /\ conn'[l].open = conn[l].open
  BY Zenon, <1>0, SentFacts
<1>2. /\ Len(Out(mSocket)) = 0
      /\ \/ OnlySize(mSocket, called) /\ (Serving(mSocket) => dpc = "size")
         \/ Nothing(mSocket) /\ Serving(mSocket) /\ dpc = "text" /\ length[called] = "fits"
  BY Zenon, <1>0 DEF OwnConnection
<1>3. \/ SizeThenText(mSocket, called)' /\ (Serving(mSocket) => dpc = "size")
      \/ OnlyText(mSocket, called)' /\ Serving(mSocket) /\ dpc = "text" /\ length[called] = "fits"
  <2>1. CASE OnlySize(mSocket, called) /\ (Serving(mSocket) => dpc = "size")
    BY <1>1, <2>1 DEF OnlySize, SizeThenText, In
  <2>2. CASE Nothing(mSocket) /\ Serving(mSocket) /\ dpc = "text" /\ length[called] = "fits"
    BY <1>1, <2>2 DEF Nothing, OnlyText, In
  <2> QED BY Zenon, <1>2, <2>1, <2>2
<1>4. \A l \in 1..Len(conn) : (DaemonOpen(l)' <=> DaemonOpen(l)) /\ (ClientOpen(l)' <=> ClientOpen(l))
  BY Zenon, <1>1 DEF DaemonOpen, ClientOpen
<1>5. TypeOK'
  BY Zenon, <1>1 DEF TypeOK
<1>6. Ends'
  <2>1. (\A i \in 1..Len(backlog) : backlog[i] \in 1..Len(conn)) /\ dconn \in 0..Len(conn)
    BY Zenon, KnownEnds DEF TypeOK
  <2> QED BY <1>0, <1>1, <1>4, <2>1 DEF Ends
<1>7. Shape'
  <2>1. ASSUME NEW l \in 1..Len(conn), l # mSocket, DaemonOpen(l)
        PROVE  \/ Nothing(l)'
               \/ Serving(l)' /\ dpc' = "text" /\ \E c \in Call : OnlyText(l, c)' /\ length'[c] = "fits"
               \/ (Serving(l)' => dpc' = "size") /\ \E c \in Call : OnlySize(l, c)' \/ SizeThenText(l, c)'
    BY Zenon, <1>1, <2>1, SameIn DEF Shape, Serving
  <2> QED BY Zenon, <1>0, <1>1, <1>3, <1>4, <2>1 DEF Shape, Serving
<1>8. OwnConnection'
  BY Zenon, <1>1, <1>2, <1>3 DEF OwnConnection, Out, Serving
<1>9. Unrun'
  <2>1. Unwritten(called)
    BY Zenon DEF Unwritten
  <2>2. \A c \in Call : Unwritten(c)' <=> (Unwritten(c) /\ c # called)
    BY DEF Unwritten, TypeOK, Call
  <2>3. \A c \in Call : Carries(mSocket, c)' => c = called
    BY <1>3 DEF Carries, OnlyText, SizeThenText
  <2>4. \A c \in Call, l \in 1..Len(conn) : l # mSocket => (Carries(l, c)' <=> Carries(l, c))
    BY Zenon, <1>1, SameIn
  <2>5. \A l \in 1..Len(conn) : ~Carries(l, called)
    BY Zenon, <1>0, <2>1 DEF Unrun
  <2>6. /\ \A c \in Call : runs[c] \in 0..1
        /\ \A c \in Call : Unwritten(c)' => runs[c] = 0 /\ result[c] = "none"
        /\ runs[called] = 0 /\ result[called] = "none"
    BY Zenon, <1>0, <2>1, <2>2 DEF Unrun
  <2>7. \A c \in Call : \A k \in 1..Len(conn) : Carries(k, c)' => runs[c] = 0 /\ ~Unwritten(c)'
    BY <1>0, <2>2, <2>3, <2>4, <2>6 DEF Unrun
  <2>8. \A c \in Call : \A k, l \in 1..Len(conn) : Carries(k, c)' /\ Carries(l, c)' => k = l
    BY <2>3, <2>4, <2>5 DEF Unrun
  <2>9. dpc \in {"execute", "reply"} =>
          /\ dcmd \in Call /\ ~Unwritten(dcmd)'
          /\ \A k \in 1..Len(conn) : ~Carries(k, dcmd)'
          /\ runs[dcmd] = IF dpc = "execute" THEN 0 ELSE 1
    BY Zenon, <2>1, <2>2, <2>3, <2>4 DEF Unrun
  <2> QED BY <1>1, <2>6, <2>7, <2>8, <2>9 DEF Unrun
<1>10. AnswerIsOwn'
  BY Zenon DEF AnswerIsOwn
<1> QED BY Zenon, <1>5, <1>6, <1>7, <1>8, <1>9, <1>10

\* Every branch of a write of writeCommand().
LEMMA WriteInv ==
  ASSUME IInv, pc \in {"size", "text"},
         \/ pc = "size" /\ Write("size", "text")
         \/ pc = "text" /\ Write("text", "reply"),
         UNCHANGED <<called, length, answer, backlog, daemon, disturbed, budget>>
  PROVE  IInv'
<1>1. CASE ~DaemonOpen(mSocket)
  <2>1. /\ conn' = ClosedBy(conn, mSocket) /\ mSocket' = 0
        /\ \/ pc' = "connect" /\ attempt' = 2 /\ UNCHANGED result
           \/ pc' = "idle" /\ result' = [result EXCEPT ![called] = "error"] /\ UNCHANGED attempt
    BY Zenon, <1>1 DEF Write, WriteFailed, Return
  <2>2. conn' \in Seq(Connection) /\ Len(conn') = Len(conn) /\ called \in Call
    BY Zenon, <2>1, Disconnect DEF IInv, Ends
  <2>3. TypeOK'
    <3>1. pc' \in {"idle", "connect"} /\ attempt' \in 1..2
      BY SMTT(30), <2>1 DEF IInv, TypeOK
    <3>2. result' \in [Call -> {"none", "error", "reply"}]
      BY Zenon, <2>1, <2>2 DEF IInv, TypeOK
    <3>3. mSocket' \in 0..Len(conn') /\ dconn' \in 0..Len(conn') /\ backlog' \in Seq(1..Len(conn'))
      BY <2>1, <2>2 DEF IInv, TypeOK, daemon
    <3> QED BY Zenon, <2>2, <3>1, <3>2, <3>3 DEF IInv, TypeOK, daemon, budget
  <2> QED BY Zenon, <2>1, <2>3, DropInv
<1>2. CASE DaemonOpen(mSocket) /\ pc = "size"
  BY Zenon, <1>2, SentSizeInv DEF Write
<1>3. CASE DaemonOpen(mSocket) /\ pc = "text"
  BY Zenon, <1>3, SentTextInv DEF Write
<1> QED BY Zenon, <1>1, <1>2, <1>3

\* The first write of writeCommand().
LEMMA WriteSizeInv == IInv /\ WriteSize => IInv'
  BY Zenon, RefusedInv, WriteInv DEF WriteSize

\* The second write of writeCommand().
LEMMA WriteTextInv == IInv /\ WriteText => IInv'
  BY Zenon, WriteInv DEF WriteText

\* readReply() returns a reply, or finds the connection closed.
LEMMA ReadReplyInv == IInv /\ ReadReply => IInv'
<1> SUFFICES ASSUME IInv, ReadReply PROVE IInv'
  BY Zenon
<1> USE DEF IInv, daemon, budget
<1>0. mSocket # 0 /\ called \in Call /\ pc = "reply" /\ mSocket \in 1..Len(conn)
  BY DEF Ends, ReadReply, TypeOK
<1>c. conn \in Seq(Connection) /\ conn[mSocket] \in Connection /\ Out(mSocket) \in Seq(Call)
  <2>1. conn \in Seq(Connection) /\ conn[mSocket] \in Connection
    BY <1>0 DEF TypeOK
  <2> QED BY Zenon, <2>1 DEF Connection, Out
<1>1. CASE /\ Out(mSocket) # <<>>
           /\ answer' = [answer EXCEPT ![called] = Head(Out(mSocket))]
           /\ conn' = [conn EXCEPT ![mSocket].toClient = Tail(@)]
           /\ Return("reply")
           /\ UNCHANGED mSocket
  <2>1. Len(Out(mSocket)) = 1 /\ Out(mSocket)[1] = called /\ runs[called] = 1
        /\ Nothing(mSocket) /\ (Serving(mSocket) => dpc = "size")
    BY <1>0, <1>c, <1>1 DEF OwnConnection
  <2>2. Head(Out(mSocket)) = called /\ Tail(Out(mSocket)) \in Seq(Call) /\ Len(Tail(Out(mSocket))) = 0
    <3> DEFINE s == Out(mSocket)
    <3>1. s \in Seq(Call) /\ Len(s) = 1 /\ s[1] = called
      BY Zenon, <1>c, <2>1
    <3> HIDE DEF s
    <3>2. s # <<>>
      BY Zenon, <1>1 DEF s
    <3>3. Head(s) = called
      BY <3>1
    <3>4. Tail(s) \in Seq(Call) /\ Len(Tail(s)) = Len(s) - 1
      BY <3>1, <3>2
    <3> QED BY <3>1, <3>3, <3>4 DEF s
  <2> DEFINE d == Tail(Out(mSocket))
             m == PutOut(conn, mSocket, d)
  <2>3. conn' = m
    BY Zenon, <1>1 DEF PutOut, Out
  <2>4. /\ m \in Seq(Connection) /\ Len(m) = Len(conn)
        /\ \A l \in 1..Len(conn) :
             /\ m[l].toDaemon = conn[l].toDaemon
             /\ m[l].toClient = IF l = mSocket THEN d ELSE conn[l].toClient
             /\ m[l].open = conn[l].open
    <3>1. d \in Seq(Call)
      BY Zenon, <2>2
    <3> HIDE DEF d
    <3> QED BY Zenon, <1>0, <1>c, <3>1, SetOut
  <2> HIDE DEF m
  <2>5. \A l \in 1..Len(conn) : (DaemonOpen(l)' <=> DaemonOpen(l)) /\ (ClientOpen(l)' <=> ClientOpen(l))
    BY Zenon, <2>3, <2>4 DEF DaemonOpen, ClientOpen
  <2>6. /\ UNCHANGED <<called, length, attempt, backlog, dpc, dconn, dcmd, runs, disturbed, deaths, kills, mSocket>>
        /\ pc' = "idle" /\ result' = [result EXCEPT ![called] = "reply"]
        /\ answer' = [answer EXCEPT ![called] = called]
    BY Zenon, <1>1, <2>2 DEF ReadReply, Return
  <2>7. TypeOK'
    <3>1. called \in 0..MaxCalls
      BY Zenon DEF TypeOK
    <3> QED BY Zenon, <1>0, <2>3, <2>4, <2>6, <3>1 DEF TypeOK
  <2>8. Ends'
    <3>1. (\A i \in 1..Len(backlog) : backlog[i] \in 1..Len(conn)) /\ dconn \in 0..Len(conn)
      BY Zenon, KnownEnds DEF TypeOK
    <3> QED BY <2>3, <2>4, <2>5, <2>6, <3>1 DEF Ends
  <2>9. Shape'
    BY Zenon, <2>3, <2>4, <2>5, <2>6, SameIn DEF Shape, Serving
  <2>10. OwnConnection'
    BY Zenon, <1>0, <2>1, <2>2, <2>3, <2>4, <2>6, SameIn DEF OwnConnection, Out, Serving
  <2>11. Unrun'
    <3>1. \A c \in Call : Unwritten(c)' => Unwritten(c) /\ c # called
      BY SMTT(30), <1>0, <2>6 DEF Unwritten, TypeOK, Call
    <3>2. \A c \in Call, l \in 1..Len(conn) : Carries(l, c)' <=> Carries(l, c)
      BY Zenon, <2>3, <2>4, SameIn
    <3> QED BY Zenon, <2>3, <2>4, <2>6, <3>1, <3>2 DEF Unrun, TypeOK
  <2>12. AnswerIsOwn'
    BY Zenon, <1>0, <2>1, <2>6 DEF AnswerIsOwn, TypeOK
  <2> QED BY Zenon, <2>7, <2>8, <2>9, <2>10, <2>11, <2>12
<1>2. CASE conn' = ClosedBy(conn, mSocket) /\ mSocket' = 0 /\ Return("error") /\ UNCHANGED answer
  <2>1. conn' \in Seq(Connection) /\ Len(conn') = Len(conn)
    BY Zenon, <1>2, Disconnect
  <2>2. TypeOK'
    BY <1>0, <1>2, <2>1 DEF TypeOK, ReadReply, Return
  <2> QED BY Zenon, <1>0, <1>2, <2>2, DropInv DEF ReadReply, Return
<1> QED BY Zenon, <1>1, <1>2 DEF ReadReply, Out

\* The service process is killed wherever it is.
LEMMA ServiceKilledInv == IInv /\ ServiceKilled => IInv'
<1> SUFFICES ASSUME IInv, ServiceKilled PROVE IInv'
  BY Zenon
<1> USE DEF IInv, daemon, ServiceKilled
<1>1. conn' \in Seq(Connection) /\ Len(conn') = Len(conn)
  BY Zenon, Disconnect
<1>2. pc # "idle" => called \in Call
  BY Zenon DEF Ends
<1>3. TypeOK'
  <2>1. kills' \in 0..MaxKills
    BY BoundsAssumption DEF TypeOK
  <2>2. result' \in [Call -> {"none", "error", "reply"}] /\ disturbed' \subseteq Call
    BY Zenon, <1>2 DEF TypeOK
  <2> QED BY <1>1, <2>1, <2>2 DEF TypeOK
<1> QED BY Zenon, <1>2, <1>3, DropInv

-----------------------------------------------------------------------------
(* The steps of the daemon                                                 *)

\* accept() takes the first connection of the backlog.
LEMMA AcceptInv == IInv /\ Accept => IInv'
<1> SUFFICES ASSUME IInv, Accept PROVE IInv'
  BY Zenon
<1> USE DEF IInv, client, budget, Accept
<1>1. /\ Len(backlog) \in Nat \ {0} /\ dconn = 0
      /\ \A i \in 1..Len(backlog) : backlog[i] \in 1..Len(conn)
      /\ dconn' = backlog[1] /\ dconn' \in 1..Len(conn)
      /\ backlog' \in Seq(1..Len(conn)) /\ Len(backlog') = Len(backlog) - 1
      /\ \A i \in 1..Len(backlog') : backlog'[i] = backlog[i + 1]
  BY SMTT(30) DEF TypeOK, Ends
<1>2. TypeOK'
  BY <1>1 DEF TypeOK
<1>3. Ends'
  <2>1. \A l \in 1..Len(conn) : (DaemonOpen(l)' <=> DaemonOpen(l)) /\ (ClientOpen(l)' <=> ClientOpen(l))
    BY Zenon DEF DaemonOpen, ClientOpen
  <2>2. \A i \in 1..Len(backlog') : i + 1 \in 1..Len(backlog) /\ i + 1 # 1
    BY <1>1
  <2> QED BY <1>1, <2>1, <2>2 DEF Ends
<1>4. Shape'
  BY Zenon, <1>1, SameIn DEF Shape, DaemonOpen, Serving
<1>5. OwnConnection'
  BY Zenon, <1>1, SameIn DEF OwnConnection, Out, Serving, DaemonOpen
<1>6. Unrun'
  BY Zenon, SameIn DEF Unrun, Unwritten
<1>7. AnswerIsOwn'
  BY Zenon DEF AnswerIsOwn
<1> QED BY Zenon, <1>2, <1>3, <1>4, <1>5, <1>6, <1>7

\* The daemon closes the connection it serves, having found a size it does
\* not take or the end of the stream.
LEMMA CloseInv ==
  ASSUME IInv, dpc \in {"size", "text"}, dconn = mSocket => ~Nothing(dconn),
         CloseConnection, UNCHANGED <<client, backlog, runs, disturbed, budget>>
  PROVE  IInv'
<1> USE DEF IInv, client, budget, CloseConnection
<1>0. dconn \in 1..Len(conn) /\ conn \in Seq(Connection) /\ dconn # 0
  BY DEF Ends, TypeOK
<1> DEFINE d == conn[dconn].open \ {"daemon"}
           m == PutOpen(conn, dconn, d)
<1>1. conn' = m
  BY Zenon DEF PutOpen
<1>2. d \in SUBSET {"client", "daemon"}
  <2>1. conn[dconn] \in Connection
    BY <1>0
  <2> QED BY Zenon, <2>1 DEF Connection
<1>3. /\ m \in Seq(Connection) /\ Len(m) = Len(conn)
      /\ \A l \in 1..Len(conn) :
           /\ m[l].toDaemon = conn[l].toDaemon
           /\ m[l].toClient = conn[l].toClient
           /\ m[l].open = IF l = dconn THEN d ELSE conn[l].open
  <2> HIDE DEF d
  <2> QED BY <1>0, <1>2, SetOpen
<1> HIDE DEF m
<1>4. \A l \in 1..Len(conn) : /\ DaemonOpen(l)' <=> (l # dconn /\ DaemonOpen(l))
                              /\ ClientOpen(l)' <=> ClientOpen(l)
  BY Zenon, <1>1, <1>3 DEF DaemonOpen, ClientOpen
<1>5. TypeOK'
  <2>1. dconn' = 0 /\ dcmd' = 0 /\ dpc' = "accept"
    BY Zenon
  <2>2. 0 \in 0..MaxCalls /\ 0 \in 0..Len(conn')
    BY <1>1, <1>3, BoundsAssumption
  <2> HIDE DEF CloseConnection
  <2> QED BY Zenon, <1>1, <1>3, <2>1, <2>2 DEF TypeOK
<1>6. Ends'
  <2>1. \A i \in 1..Len(backlog) : backlog[i] \in 1..Len(conn)
    BY DEF TypeOK
  <2> QED BY <1>1, <1>3, <1>4, <2>1 DEF Ends
<1>7. Shape'
  BY <1>0, <1>1, <1>3, <1>4, SameIn DEF Shape, Serving
<1>8. OwnConnection'
  <2>1. mSocket # 0 => mSocket \in 1..Len(conn)
    BY DEF TypeOK
  <2>2. mSocket # 0 => ~Serving(mSocket)'
    BY Zenon DEF Serving
  <2> QED BY Zenon, <1>0, <1>1, <1>3, <1>4, <2>1, <2>2, SameIn DEF OwnConnection, Out, Serving
<1>9. Unrun'
  <2>1. \A c \in Call, l \in 1..Len(conn) : Carries(l, c)' <=> Carries(l, c)
    BY Zenon, <1>1, <1>3, SameIn
  <2> QED BY Zenon, <1>1, <1>3, <2>1 DEF Unrun, Unwritten
<1>10. AnswerIsOwn'
  BY Zenon DEF AnswerIsOwn
<1> QED BY Zenon, <1>5, <1>6, <1>7, <1>8, <1>9, <1>10

\* The end of the stream is never that of the client's own socket.
LEMMA EofIsForeign == ASSUME IInv, EndOfFile, dconn # 0 PROVE dconn # mSocket
  BY DEF IInv, EndOfFile, Ends, TypeOK

\* The daemon takes the first item of the stream it serves.
LEMMA TakenFacts ==
  ASSUME IInv, dconn # 0, conn[dconn].toDaemon # <<>>,
         conn' = [conn EXCEPT ![dconn].toDaemon = Tail(@)]
  PROVE  /\ conn' \in Seq(Connection) /\ Len(conn') = Len(conn)
         /\ dconn \in 1..Len(conn)
         /\ In(dconn) \in Seq({"size", "text"} \X Call) /\ Len(In(dconn)) > 0
         /\ \A l \in 1..Len(conn) :
              /\ conn'[l].toDaemon = IF l = dconn THEN Tail(In(dconn)) ELSE conn[l].toDaemon
              /\ conn'[l].toClient = conn[l].toClient
              /\ conn'[l].open = conn[l].open
<1> DEFINE d == Tail(In(dconn))
           m == PutIn(conn, dconn, d)
<1>1. dconn \in 1..Len(conn) /\ conn \in Seq(Connection)
  BY DEF IInv, TypeOK
<1>2. In(dconn) \in Seq({"size", "text"} \X Call) /\ Len(In(dconn)) > 0
  <2>1. conn[dconn] \in Connection
    BY <1>1
  <2>2. In(dconn) \in Seq({"size", "text"} \X Call) /\ In(dconn) # <<>>
    BY Zenon, <2>1 DEF Connection, In
  <2> QED BY <2>2
<1>3. d \in Seq({"size", "text"} \X Call)
  BY <1>2
<1>4. conn' = m
  BY Zenon DEF PutIn, In
<1>5. /\ m \in Seq(Connection) /\ Len(m) = Len(conn)
      /\ \A l \in 1..Len(conn) :
           /\ m[l].toDaemon = IF l = dconn THEN d ELSE conn[l].toDaemon
           /\ m[l].toClient = conn[l].toClient
           /\ m[l].open = conn[l].open
  <2> HIDE DEF d
  <2> QED BY <1>1, <1>3, SetIn
<1> HIDE DEF m
<1> QED BY Zenon, <1>1, <1>2, <1>4, <1>5

\* The daemon reads a size.
LEMMA ReadSizeInv == IInv /\ ReadSize => IInv'
<1> SUFFICES ASSUME IInv, ReadSize PROVE IInv'
  BY Zenon
<1>0. dconn # 0 /\ dpc = "size" /\ UNCHANGED <<client, backlog, runs, disturbed, budget>>
  BY Zenon DEF IInv, Ends, ReadSize
<1>1. CASE CloseConnection /\ EndOfFile
  BY Zenon, <1>0, <1>1, CloseInv, EofIsForeign
<1>2. CASE CloseConnection /\ conn[dconn].toDaemon # <<>>
  <2>1. ~Nothing(dconn)
    <3>1. conn[dconn] \in Connection
      BY <1>0 DEF IInv, TypeOK
    <3> QED BY <3>1, <1>2 DEF Nothing, In, Connection
  <2> QED BY Zenon, <1>0, <1>2, <2>1, CloseInv
<1>3. CASE /\ conn[dconn].toDaemon # <<>>
           /\ length[Head(conn[dconn].toDaemon)[2]] = "fits"
           /\ conn' = [conn EXCEPT ![dconn].toDaemon = Tail(@)]
           /\ dpc' = "text" /\ UNCHANGED <<dconn, dcmd>>
  <2> USE DEF IInv, client, budget
  <2>1. /\ conn' \in Seq(Connection) /\ Len(conn') = Len(conn)
        /\ dconn \in 1..Len(conn)
        /\ In(dconn) \in Seq({"size", "text"} \X Call) /\ Len(In(dconn)) > 0
        /\ \A l \in 1..Len(conn) :
             /\ conn'[l].toDaemon = IF l = dconn THEN Tail(In(dconn)) ELSE conn[l].toDaemon
             /\ conn'[l].toClient = conn[l].toClient
             /\ conn'[l].open = conn[l].open
    BY Zenon, <1>0, <1>3, TakenFacts
  <2>2. \A l \in 1..Len(conn) : (DaemonOpen(l)' <=> DaemonOpen(l)) /\ (ClientOpen(l)' <=> ClientOpen(l))
    BY Zenon, <2>1 DEF DaemonOpen, ClientOpen
  <2>3. PICK c \in Call : OnlySize(dconn, c) \/ SizeThenText(dconn, c)
    BY <1>0, <2>1 DEF Shape, Ends, Nothing, Serving
  <2>4. length[c] = "fits"
    <3>1. In(dconn)[1] = <<"size", c>>
      BY Zenon, <2>3 DEF OnlySize, SizeThenText
    <3>2. Head(In(dconn)) = <<"size", c>>
      BY <2>1, <3>1
    <3> QED BY <1>3, <3>2 DEF In
  <2>5. \/ OnlySize(dconn, c) /\ Nothing(dconn)'
        \/ SizeThenText(dconn, c) /\ OnlyText(dconn, c)'
    <3> DEFINE s == In(dconn)
    <3>1. s \in Seq({"size", "text"} \X Call) /\ Len(s) > 0 /\ In(dconn)' = Tail(s)
      BY Zenon, <1>3, <2>1 DEF In
    <3>2. Len(Tail(s)) = Len(s) - 1 /\ (Len(s) = 2 => Tail(s)[1] = s[2])
      <4> HIDE DEF s
      <4> QED BY <3>1
    <3> QED BY <2>3, <3>1, <3>2 DEF OnlySize, SizeThenText, OnlyText, Nothing
  <2>6. TypeOK'
    BY Zenon, <1>0, <1>3, <2>1 DEF TypeOK
  <2>7. Ends'
    <3>1. \A i \in 1..Len(backlog) : backlog[i] \in 1..Len(conn)
      BY SMTT(30) DEF TypeOK
    <3> QED BY Zenon, <1>0, <1>3, <2>1, <2>2, <3>1 DEF Ends
  <2>8. Shape'
    <3>1. ASSUME NEW l \in 1..Len(conn), l # dconn, DaemonOpen(l)
          PROVE  Nothing(l)' \/ \E e \in Call : OnlySize(l, e)' \/ SizeThenText(l, e)'
      BY Zenon, <2>1, <3>1, SameIn DEF Shape, Serving
    <3> QED BY Zenon, <1>0, <1>3, <2>1, <2>2, <2>4, <2>5, <3>1 DEF Shape, Serving
  <2>9. OwnConnection'
    <3>1. CASE mSocket # dconn
      <4>1. mSocket # 0 => mSocket \in 1..Len(conn)
        BY DEF TypeOK
      <4> QED BY Zenon, <1>0, <1>3, <2>1, <2>2, <3>1, <4>1, SameIn DEF OwnConnection, Out, Serving
    <3>2. CASE mSocket = dconn
      <4>1. pc \in {"text", "reply"} /\ c = called
        BY SMTT(30), <1>0, <2>1, <2>3, <3>2 DEF OwnConnection, TypeOK, OnlySize, SizeThenText, OnlyText, Nothing, Ends
      <4>2. pc = "text" => OnlySize(dconn, c)
        BY Zenon, <1>0, <2>1, <2>3, <3>2, <4>1 DEF OwnConnection, Nothing, OnlySize, SizeThenText, Ends
      <4>3. pc = "reply" => SizeThenText(dconn, c) /\ Len(Out(mSocket)) = 0
        BY <1>0, <2>1, <2>3, <3>2, <4>1 DEF OwnConnection, Nothing, OnlySize, SizeThenText, Ends
      <4>4. ~(OnlySize(dconn, c) /\ SizeThenText(dconn, c))
        BY DEF OnlySize, SizeThenText
      <4>5. pc = "text" => Len(Out(mSocket)) = 0
        BY Zenon, <3>2, <1>0 DEF OwnConnection
      <4> QED BY SMTT(30), <1>0, <1>3, <2>1, <2>4, <2>5, <3>2, <4>1, <4>2, <4>3, <4>4, <4>5 DEF OwnConnection, Out, Serving
    <3> QED BY Zenon, <3>1, <3>2
  <2>10. Unrun'
    <3>1. \A e \in Call : Carries(dconn, e)' => Carries(dconn, e)
      BY <2>5 DEF Nothing, OnlyText, SizeThenText, Carries
    <3>2. \A e \in Call, l \in 1..Len(conn) : Carries(l, e)' => Carries(l, e)
      BY Zenon, <2>1, <3>1, <1>3, SameIn
    <3> QED BY Zenon, <1>0, <1>3, <2>1, <3>2 DEF Unrun, Unwritten
  <2>11. AnswerIsOwn'
    BY Zenon, <1>0 DEF AnswerIsOwn
  <2> QED BY Zenon, <2>6, <2>7, <2>8, <2>9, <2>10, <2>11
<1> QED BY Zenon, <1>1, <1>2, <1>3 DEF ReadSize

\* The daemon reads the text that belongs to the size it accepted.
LEMMA ReadTextInv == IInv /\ ReadText => IInv'
<1> SUFFICES ASSUME IInv, ReadText PROVE IInv'
  BY Zenon
<1>0. dconn # 0 /\ dpc = "text" /\ UNCHANGED <<client, backlog, runs, disturbed, budget>>
  BY Zenon DEF IInv, Ends, ReadText
<1>1. CASE CloseConnection /\ EndOfFile
  BY Zenon, <1>0, <1>1, CloseInv, EofIsForeign
<1>2. CASE /\ conn[dconn].toDaemon # <<>>
           /\ dcmd' = Head(conn[dconn].toDaemon)[2]
           /\ conn' = [conn EXCEPT ![dconn].toDaemon = Tail(@)]
           /\ dpc' = "execute" /\ UNCHANGED dconn
  <2> USE DEF IInv, client, budget
  <2>1. /\ conn' \in Seq(Connection) /\ Len(conn') = Len(conn)
        /\ dconn \in 1..Len(conn)
        /\ In(dconn) \in Seq({"size", "text"} \X Call) /\ Len(In(dconn)) > 0
        /\ \A l \in 1..Len(conn) :
             /\ conn'[l].toDaemon = IF l = dconn THEN Tail(In(dconn)) ELSE conn[l].toDaemon
             /\ conn'[l].toClient = conn[l].toClient
             /\ conn'[l].open = conn[l].open
    BY Zenon, <1>0, <1>2, TakenFacts
  <2>2. \A l \in 1..Len(conn) : (DaemonOpen(l)' <=> DaemonOpen(l)) /\ (ClientOpen(l)' <=> ClientOpen(l))
    BY Zenon, <2>1 DEF DaemonOpen, ClientOpen
  <2>3. PICK c \in Call : OnlyText(dconn, c)
    BY <1>0, <2>1 DEF Shape, Ends, Nothing, Serving
  <2>4. dcmd' = c
    <3>1. Head(In(dconn)) = <<"text", c>>
      BY <2>1, <2>3 DEF OnlyText
    <3> QED BY <1>2, <3>1 DEF In
  <2>5. Nothing(dconn)'
    <3> DEFINE s == In(dconn)
    <3>1. s \in Seq({"size", "text"} \X Call) /\ Len(s) = 1 /\ In(dconn)' = Tail(s)
      BY Zenon, <1>2, <2>1, <2>3 DEF In, OnlyText
    <3>2. Len(Tail(s)) = 0
      <4>1. s # <<>>
        BY Zenon, <1>2 DEF In
      <4> HIDE DEF s
      <4> QED BY <3>1, <4>1
    <3> QED BY Zenon, <3>1, <3>2 DEF Nothing
  <2>6. TypeOK'
    <3>1. c \in 0..MaxCalls
      BY DEF Call
    <3> QED BY Zenon, <1>0, <1>2, <2>1, <2>4, <3>1 DEF TypeOK
  <2>7. Ends'
    <3>1. \A i \in 1..Len(backlog) : backlog[i] \in 1..Len(conn)
      BY SMTT(30) DEF TypeOK
    <3> QED BY Zenon, <1>0, <1>2, <2>1, <2>2, <3>1 DEF Ends
  <2>8. Shape'
    <3>1. ASSUME NEW l \in 1..Len(conn), l # dconn, DaemonOpen(l)
          PROVE  Nothing(l)' \/ \E e \in Call : OnlySize(l, e)' \/ SizeThenText(l, e)'
      BY Zenon, <2>1, <3>1, SameIn DEF Shape, Serving
    <3> QED BY Zenon, <1>0, <1>2, <2>1, <2>2, <2>5, <3>1 DEF Shape, Serving
  <2>9. OwnConnection'
    <3>1. CASE mSocket # dconn
      <4>1. mSocket # 0 => mSocket \in 1..Len(conn)
        BY DEF TypeOK
      <4> QED BY Zenon, <1>0, <1>2, <2>1, <2>2, <3>1, <4>1, SameIn DEF OwnConnection, Out, Serving
    <3>2. CASE mSocket = dconn
      <4>1. ~Nothing(dconn) /\ \A e : ~OnlySize(dconn, e) /\ ~SizeThenText(dconn, e)
        BY <2>3 DEF Nothing, OnlySize, OnlyText, SizeThenText
      <4>2. \A e : OnlyText(dconn, e) => e = c
        BY <2>3 DEF OnlyText
      <4>3. pc = "reply" /\ called = c /\ Len(Out(mSocket)) = 0
        BY Zenon, <1>0, <3>2, <4>1, <4>2 DEF OwnConnection, TypeOK, Ends
      <4> QED BY Zenon, <1>0, <1>2, <2>1, <2>4, <2>5, <3>2, <4>3 DEF OwnConnection, Out, Serving
    <3> QED BY Zenon, <3>1, <3>2
  <2>10. Unrun'
    <3>1. Carries(dconn, c)
      BY <2>3 DEF OnlyText, Carries
    <3>2. \A e : ~Carries(dconn, e)'
      BY <2>5 DEF Nothing, Carries
    <3>3. \A e \in Call, l \in 1..Len(conn) : Carries(l, e)' <=> (Carries(l, e) /\ l # dconn)
      BY Zenon, <2>1, <3>2, <1>2, SameIn
    <3>4. runs[c] = 0 /\ ~Unwritten(c) /\ \A l \in 1..Len(conn) : Carries(l, c) => l = dconn
      BY Zenon, <2>1, <3>1 DEF Unrun
    <3>5. \A e \in Call : Unwritten(e)' <=> Unwritten(e)
      BY Zenon, <1>0 DEF Unwritten
    <3> QED BY <1>0, <1>2, <2>1, <2>4, <3>3, <3>4, <3>5 DEF Unrun
  <2>11. AnswerIsOwn'
    BY Zenon, <1>0 DEF AnswerIsOwn
  <2> QED BY Zenon, <2>6, <2>7, <2>8, <2>9, <2>10, <2>11
<1> QED BY Zenon, <1>1, <1>2 DEF ReadText

\* The command runs.
LEMMA ExecuteInv == IInv /\ Execute => IInv'
<1> SUFFICES ASSUME IInv, Execute PROVE IInv'
  BY Zenon
<1> USE DEF IInv, client, budget
<1>0. /\ dcmd \in Call /\ runs[dcmd] = 0 /\ ~Unwritten(dcmd)
      /\ \A k \in 1..Len(conn) : ~Carries(k, dcmd)
  BY Zenon DEF Execute, Unrun
<1>1. /\ dpc = "execute" /\ dpc' = "reply" /\ dconn # 0
      /\ UNCHANGED <<called, length, pc, attempt, mSocket, result, answer>>
      /\ UNCHANGED <<conn, backlog, dconn, dcmd, disturbed, deaths, kills>>
      /\ runs' \in [Call -> Nat]
      /\ \A c \in Call : runs'[c] = IF c = dcmd THEN 1 ELSE runs[c]
  BY <1>0 DEF Execute, TypeOK, Ends
<1>2. TypeOK'
  BY Zenon, <1>1 DEF TypeOK
<1>3. Ends'
  BY Zenon, <1>1 DEF Ends, ClientOpen, DaemonOpen
<1>4. Shape'
  BY Zenon, <1>1, SameIn DEF Shape, DaemonOpen, Serving
<1>5. OwnConnection'
  BY Zenon, <1>0, <1>1, SameIn DEF OwnConnection, DaemonOpen, Out, Serving, Ends
<1>6. Unrun'
  <2>1. \A c \in Call : Unwritten(c)' <=> Unwritten(c)
    BY Zenon, <1>1 DEF Unwritten
  <2>2. \A c \in Call, l \in 1..Len(conn) : Carries(l, c)' <=> Carries(l, c)
    BY Zenon, <1>1, SameIn
  <2> QED BY <1>0, <1>1, <2>1, <2>2 DEF Unrun
<1>7. AnswerIsOwn'
  BY Zenon, <1>0, <1>1 DEF AnswerIsOwn
<1> QED BY Zenon, <1>2, <1>3, <1>4, <1>5, <1>6, <1>7

\* The daemon dies, whatever it was doing.
LEMMA DieInv ==
  ASSUME IInv, Die, UNCHANGED <<client, runs, kills>>, deaths' \in 0..MaxDeaths
  PROVE  IInv'
<1> USE DEF IInv, client
<1>1. /\ conn' \in Seq(Connection) /\ Len(conn') = Len(conn)
      /\ \A l \in 1..Len(conn) :
           /\ conn'[l].toDaemon = conn[l].toDaemon
           /\ conn'[l].toClient = conn[l].toClient
           /\ conn'[l].open = conn[l].open \ {"daemon"}
  <2>1. conn \in Seq(Connection)
    BY Zenon DEF TypeOK
  <2> QED BY <2>1, AllClosed DEF Die
<1>2. dpc' = "down" /\ dconn' = 0 /\ dcmd' = 0 /\ backlog' = <<>> /\ Len(backlog') = 0
  BY Zenon DEF Die
<1>3. \A l \in 1..Len(conn) : ~DaemonOpen(l)' /\ (ClientOpen(l)' <=> ClientOpen(l))
  BY Zenon, <1>1 DEF DaemonOpen, ClientOpen
<1>4. TypeOK'
  <2>1. disturbed' \subseteq Call
    BY Zenon DEF Die, TypeOK, Ends
  <2>2. 0 \in 0..MaxCalls /\ 0 \in 0..Len(conn')
    BY <1>1, BoundsAssumption
  <2>3. backlog' \in Seq(1..Len(conn'))
    BY <1>2
  <2> QED BY Zenon, <1>1, <1>2, <2>1, <2>2, <2>3 DEF TypeOK
<1>5. Ends'
  BY <1>1, <1>2, <1>3 DEF Ends
<1>6. Shape'
  BY Zenon, <1>1, <1>3 DEF Shape
<1>7. OwnConnection'
  <2>1. mSocket # 0 => mSocket \in 1..Len(conn)
    BY DEF TypeOK
  <2> QED BY Zenon, <1>1, <1>2, <1>3, <2>1, SameIn DEF OwnConnection, Out, Serving
<1>8. Unrun'
  <2>1. \A c \in Call, l \in 1..Len(conn) : Carries(l, c)' <=> Carries(l, c)
    BY Zenon, <1>1, SameIn
  <2> QED BY SMTT(30), <1>1, <1>2, <2>1 DEF Unrun, Unwritten
<1>9. AnswerIsOwn'
  BY Zenon DEF AnswerIsOwn
<1> QED BY Zenon, <1>4, <1>5, <1>6, <1>7, <1>8, <1>9

\* The reply is written, or its write kills the daemon.
LEMMA ReplyInv == IInv /\ Reply => IInv'
<1> SUFFICES ASSUME IInv, Reply PROVE IInv'
  BY Zenon
<1>1. CASE Die
  BY Zenon, <1>1, DieInv DEF Reply, IInv, TypeOK, budget
<1>2. CASE /\ ClientOpen(dconn)
           /\ conn' = [conn EXCEPT ![dconn].toClient = Append(@, dcmd)]
           /\ dpc' = "size" /\ dcmd' = 0 /\ UNCHANGED <<dconn, backlog, disturbed>>
  <2> USE DEF IInv
  <2>1. /\ dpc = "reply" /\ dconn # 0 /\ dconn \in 1..Len(conn) /\ mSocket = dconn /\ conn \in Seq(Connection)
        /\ UNCHANGED <<called, length, pc, attempt, mSocket, result, answer, runs, deaths, kills>>
    BY <1>2 DEF Reply, Ends, TypeOK, client, budget
  <2>2. /\ pc = "reply" /\ dcmd = called /\ called \in Call /\ runs[called] = 1
        /\ Nothing(mSocket) /\ Len(Out(mSocket)) = 0
    BY Zenon, <2>1 DEF OwnConnection, Ends, TypeOK, Serving, Unrun
  <2> DEFINE d == Append(Out(dconn), dcmd)
             m == PutOut(conn, dconn, d)
  <2>3. conn' = m
    BY Zenon, <1>2 DEF PutOut, Out
  <2>4. d \in Seq(Call) /\ Len(d) = 1 /\ d[1] = called
    <3>1. Out(dconn) \in Seq(Call)
      <4>1. conn[dconn] \in Connection
        BY <2>1
      <4> QED BY Zenon, <4>1 DEF Connection, Out
    <3> QED BY <2>1, <2>2, <3>1
  <2>5. /\ m \in Seq(Connection) /\ Len(m) = Len(conn)
        /\ \A l \in 1..Len(conn) :
             /\ m[l].toDaemon = conn[l].toDaemon
             /\ m[l].toClient = IF l = dconn THEN d ELSE conn[l].toClient
             /\ m[l].open = conn[l].open
    <3> HIDE DEF d
    <3> QED BY Zenon, <2>1, <2>4, SetOut
  <2> HIDE DEF m
  <2>6. \A l \in 1..Len(conn) : (DaemonOpen(l)' <=> DaemonOpen(l)) /\ (ClientOpen(l)' <=> ClientOpen(l))
    BY Zenon, <2>3, <2>5 DEF DaemonOpen, ClientOpen
  <2>7. TypeOK'
    <3>1. 0 \in 0..MaxCalls
      BY BoundsAssumption
    <3> HIDE DEF d
    <3> QED BY Zenon, <1>2, <2>1, <2>3, <2>5, <3>1 DEF TypeOK
  <2>8. Ends'
    <3>1. \A i \in 1..Len(backlog) : backlog[i] \in 1..Len(conn)
      BY DEF TypeOK
    <3> QED BY Zenon, <1>2, <2>1, <2>3, <2>5, <2>6, <3>1 DEF Ends
  <2>9. Shape'
    <3>1. Nothing(dconn)'
      BY Zenon, <2>1, <2>2, <2>3, <2>5, <1>2, SameIn
    <3> QED BY Zenon, <1>2, <2>1, <2>3, <2>5, <2>6, <3>1, SameIn DEF Shape, Serving
  <2>10. OwnConnection'
    <3>1. Nothing(mSocket)' /\ Len(Out(mSocket))' = 1 /\ Out(mSocket)'[1] = called
      BY Zenon, <2>1, <2>2, <2>3, <2>4, <2>5, SameIn DEF Out
    <3> QED BY Zenon, <1>2, <2>1, <2>2, <3>1 DEF OwnConnection
  <2>11. Unrun'
    <3>1. \A c \in Call, l \in 1..Len(conn) : Carries(l, c)' <=> Carries(l, c)
      BY Zenon, <2>3, <2>5, SameIn
    <3> QED BY Zenon, <1>2, <2>1, <2>3, <2>5, <3>1 DEF Unrun, Unwritten
  <2>12. AnswerIsOwn'
    BY Zenon, <2>1 DEF AnswerIsOwn
  <2> QED BY Zenon, <2>7, <2>8, <2>9, <2>10, <2>11, <2>12
<1> QED BY Zenon, <1>1, <1>2 DEF Reply

\* xloaderd is killed.
LEMMA DaemonKilledInv == IInv /\ DaemonKilled => IInv'
<1> SUFFICES ASSUME IInv, DaemonKilled PROVE IInv'
  BY Zenon
<1>1. deaths' \in 0..MaxDeaths
  BY BoundsAssumption DEF DaemonKilled, IInv, TypeOK
<1> QED BY Zenon, <1>1, DieInv DEF DaemonKilled

\* init starts xloaderd again.
LEMMA DaemonRestartsInv == IInv /\ DaemonRestarts => IInv'
<1> SUFFICES ASSUME IInv, DaemonRestarts PROVE IInv'
  BY Zenon
<1> USE DEF IInv, client, budget, DaemonRestarts
<1>1. TypeOK'
  BY SMTT(30) DEF TypeOK
<1>2. Ends'
  BY Zenon DEF Ends, ClientOpen, DaemonOpen
<1>3. Shape'
  BY Zenon, SameIn DEF Shape, DaemonOpen, Serving, Ends, TypeOK
<1>4. OwnConnection'
  BY Zenon, SameIn DEF OwnConnection, Out, DaemonOpen, Serving, Ends, TypeOK
<1>5. Unrun'
  BY Zenon, SameIn DEF Unrun, Unwritten
<1>6. AnswerIsOwn'
  BY Zenon DEF AnswerIsOwn
<1> QED BY Zenon, <1>1, <1>2, <1>3, <1>4, <1>5, <1>6

\* Every step of the channel preserves the invariant.
LEMMA NextInv == IInv /\ [Next]_vars => IInv'
  BY Zenon, StutterInv, TransactionInv, ConnectInv, WriteSizeInv, WriteTextInv, ReadReplyInv,
     ServiceKilledInv, AcceptInv, ReadSizeInv, ReadTextInv, ExecuteInv, ReplyInv,
     DaemonKilledInv, DaemonRestartsInv
  DEF Next

\* The inductive invariant holds in every reachable state.
THEOREM Invariant == Spec => []IInv
  BY InitInv, NextInv, PTL DEF Spec

\* Every variable of the channel keeps its type.
THEOREM TypeCorrect == Spec => []TypeOK
<1>1. IInv => TypeOK
  BY Zenon DEF IInv
<1> QED BY <1>1, Invariant, PTL

\* A call that returns a reply returns the reply to its own command.
THEOREM AnswersAreOwn == Spec => []AnswerIsOwn
<1>1. IInv => AnswerIsOwn
  BY Zenon DEF IInv
<1> QED BY <1>1, Invariant, PTL

\* No command runs twice, however the retry, the deaths and the kills fall.
THEOREM RunsAtMostOnce == Spec => []AtMostOnce
<1>1. IInv => AtMostOnce
  BY DEF IInv, Unrun, AtMostOnce
<1> QED BY <1>1, Invariant, PTL

\* The two ends never disagree about where a command starts.
THEOREM FramingIsKept == Spec => []FramingKept
<1>1. IInv => FramingKept
  <2> SUFFICES ASSUME IInv, dpc \in {"size", "text"}, conn[dconn].toDaemon # <<>>
               PROVE  /\ Head(conn[dconn].toDaemon)[1] = dpc
                      /\ dpc = "text" => length[Head(conn[dconn].toDaemon)[2]] = "fits"
    BY Zenon DEF FramingKept
  <2>1. dconn \in 1..Len(conn) /\ DaemonOpen(dconn) /\ conn[dconn] \in Connection
    BY DEF IInv, Ends, TypeOK
  <2>2. In(dconn) \in Seq({"size", "text"} \X Call) /\ Len(In(dconn)) > 0
    BY <2>1 DEF Connection, In
  <2>3. Head(In(dconn)) = In(dconn)[1]
    BY <2>2
  <2>4. CASE dpc = "size"
    <3>1. \E c \in Call : In(dconn)[1] = <<"size", c>>
      BY <2>1, <2>2, <2>4 DEF IInv, Shape, Nothing, OnlySize, SizeThenText
    <3> QED BY <2>3, <2>4, <3>1 DEF In
  <2>5. CASE dpc = "text"
    <3>1. \E c \in Call : In(dconn)[1] = <<"text", c>> /\ length[c] = "fits"
      BY <2>1, <2>2, <2>5 DEF IInv, Shape, Nothing, OnlyText, Serving
    <3> QED BY <2>3, <2>5, <3>1 DEF In
  <2> QED BY Zenon, <2>4, <2>5
<1> QED BY <1>1, Invariant, PTL

-----------------------------------------------------------------------------
(* The refinement of RpcContract, and the restarts that are hidden         *)

\* transaction() does not return without an outcome.
Settled == pc = "idle" /\ called # 0 => result[called] # "none"

\* A call whose command fits and during which nobody went down: the daemon
\* is up, and the connection the call has begun to write on, or has made
\* itself for its second attempt, is open.
Undisturbed ==
  (pc # "idle" /\ called \notin disturbed /\ length[called] = "fits") =>
    /\ dpc # "down"
    /\ pc \in {"text", "reply"} => DaemonOpen(mSocket)
    /\ attempt = 2 /\ pc = "connect" => mSocket = 0
    /\ attempt = 2 /\ pc = "size" => DaemonOpen(mSocket)

HInv == Undisturbed /\ RestartIsHidden

-----------------------------------------------------------------------------
\* Every return of transaction() records an outcome first.
LEMMA SettledStep == IInv /\ Settled /\ [Next]_vars => Settled'
<1> SUFFICES ASSUME IInv, Settled, [Next]_vars PROVE Settled'
  BY Zenon
<1>0. result \in [Call -> {"none", "error", "reply"}] /\ (pc # "idle" => called \in Call)
  BY Zenon DEF IInv, TypeOK, Ends
<1> USE DEF Settled
<1>1. CASE UNCHANGED <<pc, called, result>>
  BY Zenon, <1>1
<1>2. CASE Transaction
  BY Zenon, <1>2 DEF Transaction
<1>3. CASE Connect \/ WriteSize \/ WriteText \/ ReadReply
  <2>1. /\ UNCHANGED called /\ pc # "idle"
        /\ \/ pc' # "idle"
           \/ \E how \in {"error", "reply"} : result' = [result EXCEPT ![called] = how]
    BY Zenon, <1>3 DEF Connect, WriteSize, WriteText, ReadReply, Write, WriteFailed, Return
  <2> QED BY Zenon, <1>0, <2>1
<1>4. CASE ServiceKilled
  BY Zenon, <1>0, <1>4 DEF ServiceKilled
<1>5. CASE UNCHANGED client
  BY Zenon, <1>5 DEF client
<1> QED
  BY Zenon, <1>1, <1>2, <1>3, <1>4, <1>5
  DEF Next, vars, Accept, ReadSize, ReadText, Execute, Reply, DaemonKilled, DaemonRestarts

\* Once returned, always accounted for.
THEOREM CallsSettle == Spec => [](IInv /\ Settled)
<1>1. Init => Settled
  BY Zenon DEF Init, Settled
<1> QED BY <1>1, SettledStep, Invariant, PTL DEF Spec

-----------------------------------------------------------------------------
(* The channel implements its contract.                                    *)

\* outcome, as KeepsContract maps it.
Mapped == [c \in Call |-> IF result[c] # "reply" THEN result[c]
                          ELSE IF answer[c] = c THEN "done" ELSE "stale"]

\* A return with an error is a Fail of the contract, a return with a reply a
\* Succeed: the call had no outcome and gets one.
LEMMA OutcomeStep ==
  ASSUME IInv, pc # "idle", NEW how \in {"error", "reply"},
         result' = [result EXCEPT ![called] = how],
         how = "error" => UNCHANGED answer,
         how = "reply" => answer' = [answer EXCEPT ![called] = called] /\ runs[called] = 1
  PROVE  /\ called \in Call /\ Mapped[called] = "none"
         /\ Mapped' = [Mapped EXCEPT ![called] = IF how = "error" THEN "error" ELSE "done"]
<1>1. called \in Call
  BY Zenon DEF IInv, Ends
<1>2. result[called] = "none"
  <2>1. pc \in {"connect", "size", "text", "reply"}
    BY Zenon DEF IInv, TypeOK
  <2> QED BY Zenon, <1>1, <2>1 DEF IInv, Unrun, Unwritten
<1>3. result \in [Call -> {"none", "error", "reply"}] /\ answer \in [Call -> 0..MaxCalls]
  BY Zenon DEF IInv, TypeOK
<1>4. \A c \in Call : Mapped'[c] = IF c = called THEN IF how = "error" THEN "error" ELSE "done" ELSE Mapped[c]
  BY Zenon, <1>1, <1>3 DEF Mapped
<1>5. Mapped[called] = "none"
  BY Zenon, <1>1, <1>2 DEF Mapped
<1>6. Mapped' = [c \in Call |-> Mapped'[c]] /\ Mapped = [c \in Call |-> Mapped[c]]
  BY DEF Mapped
<1> QED BY Zenon, <1>1, <1>4, <1>5, <1>6

\* ReadReply returns the reply of the call itself.
LEMMA ReplyWaits ==
  ASSUME IInv, pc = "reply", conn[mSocket].toClient # <<>>
  PROVE  Head(conn[mSocket].toClient) = called /\ runs[called] = 1
<1>1. mSocket \in 1..Len(conn) /\ conn[mSocket] \in Connection
  BY DEF IInv, Ends, TypeOK
<1>2. Out(mSocket) \in Seq(Call) /\ Len(Out(mSocket)) # 0
  BY <1>1 DEF Connection, Out
<1>3. Len(Out(mSocket)) = 1 /\ Out(mSocket)[1] = called /\ runs[called] = 1
  BY <1>1, <1>2 DEF IInv, OwnConnection
<1> QED BY <1>2, <1>3 DEF Out

\* Every step is a step of the contract or leaves it alone.
LEMMA ContractStep == IInv /\ Settled /\ [Next]_vars => [Contract!Next]_(Contract!vars)
<1> SUFFICES ASSUME IInv, Settled, [Next]_vars
             PROVE  Contract!Next \/ UNCHANGED <<called, runs, Mapped>>
  BY Zenon DEF Contract!vars, Mapped
<1>1. ASSUME UNCHANGED <<called, runs, result, answer>>
      PROVE  UNCHANGED <<called, runs, Mapped>>
  BY Zenon, <1>1 DEF Mapped
<1>2. CASE Transaction
  <2>1. called + 1 \in Call
    BY <1>2, BoundsAssumption DEF IInv, TypeOK, Transaction, Call
  <2>2. called > 0 => Mapped[called] # "none"
    <3>1. called > 0 => called \in Call /\ result[called] # "none"
      BY <1>2 DEF Transaction, IInv, TypeOK, Call, Settled
    <3> QED BY Zenon, <3>1 DEF Mapped
  <2>3. called' = called + 1 /\ UNCHANGED <<runs, result, answer>>
    BY Zenon, <1>2 DEF Transaction, daemon
  <2> QED BY Zenon, <2>1, <2>2, <2>3 DEF Contract!Next, Contract!Invoke, Mapped
<1>3. ASSUME pc # "idle", UNCHANGED <<called, runs, answer>>,
             result' = [result EXCEPT ![called] = "error"]
      PROVE  Contract!Next
  <2>1. /\ called \in Call /\ Mapped[called] = "none"
        /\ Mapped' = [Mapped EXCEPT ![called] = "error"]
    BY Zenon, <1>3, OutcomeStep
  <2> QED BY Zenon, <1>3, <2>1 DEF Contract!Next, Contract!Fail, Mapped
<1>4. CASE Connect \/ WriteSize \/ WriteText
  <2>1. /\ pc # "idle" /\ UNCHANGED <<called, runs, answer>>
        /\ UNCHANGED result \/ result' = [result EXCEPT ![called] = "error"]
    BY Zenon, <1>4 DEF Connect, WriteSize, WriteText, Write, WriteFailed, Return, daemon
  <2> QED BY Zenon, <1>1, <1>3, <2>1
<1>5. CASE ReadReply
  <2>1. CASE result' = [result EXCEPT ![called] = "error"] /\ UNCHANGED answer
    BY Zenon, <1>3, <1>5, <2>1 DEF ReadReply, daemon
  <2>2. CASE /\ conn[mSocket].toClient # <<>>
             /\ answer' = [answer EXCEPT ![called] = Head(conn[mSocket].toClient)]
             /\ result' = [result EXCEPT ![called] = "reply"]
    <3>1. pc = "reply" /\ UNCHANGED <<called, runs>>
      BY Zenon, <1>5 DEF ReadReply, daemon
    <3>2. answer' = [answer EXCEPT ![called] = called] /\ runs[called] = 1
      BY Zenon, <2>2, <3>1, ReplyWaits
    <3>3. /\ called \in Call /\ Mapped[called] = "none"
          /\ Mapped' = [Mapped EXCEPT ![called] = "done"]
      BY Zenon, <2>2, <3>1, <3>2, OutcomeStep
    <3> QED BY Zenon, <3>1, <3>2, <3>3 DEF Contract!Next, Contract!Succeed, Mapped
  <2> QED BY Zenon, <1>5, <2>1, <2>2 DEF ReadReply, Return
<1>6. CASE ServiceKilled
  <2>1. CASE pc = "idle"
    BY Zenon, <1>1, <1>6, <2>1 DEF ServiceKilled, daemon
  <2>2. CASE pc # "idle"
    BY Zenon, <1>3, <1>6, <2>2 DEF ServiceKilled, daemon
  <2> QED BY Zenon, <2>1, <2>2
<1>7. CASE Execute
  <2>1. /\ dcmd \in Call /\ runs[dcmd] = 0 /\ ~Unwritten(dcmd)
        /\ runs' = [runs EXCEPT ![dcmd] = 1]
        /\ UNCHANGED <<called, result, answer>>
    <3>1. dcmd \in Call /\ runs[dcmd] = 0 /\ ~Unwritten(dcmd)
      BY Zenon, <1>7 DEF Execute, IInv, Unrun
    <3>2. runs' = [runs EXCEPT ![dcmd] = runs[dcmd] + 1] /\ UNCHANGED <<called, result, answer>>
      BY Zenon, <1>7 DEF Execute, client
    <3> QED BY <3>1, <3>2
  <2>2. dcmd <= called
    BY <2>1 DEF Unwritten, IInv, TypeOK, Call
  <2>3. UNCHANGED Mapped
    BY Zenon, <2>1 DEF Mapped
  <2> QED BY Zenon, <2>1, <2>2, <2>3 DEF Contract!Next, Contract!Run, Mapped
<1>8. CASE Accept \/ ReadSize \/ ReadText \/ Reply \/ DaemonKilled \/ DaemonRestarts
  BY Zenon, <1>1, <1>8 DEF Accept, ReadSize, ReadText, Reply, DaemonKilled, DaemonRestarts, client
<1>9. CASE UNCHANGED vars
  BY Zenon, <1>1, <1>9 DEF vars, client, daemon
<1> QED BY Zenon, <1>2, <1>4, <1>5, <1>6, <1>7, <1>8, <1>9 DEF Next

\* The channel implements RpcContract: the calls are made one at a time, a
\* command runs at most once, and success is only ever reported for a call
\* whose own command has run.
THEOREM Refinement == Spec => KeepsContract
<1>1. Init => Contract!Init
  BY Zenon DEF Init, Contract!Init
<1> QED BY <1>1, ContractStep, CallsSettle, PTL DEF Spec, KeepsContract, Contract!Spec

-----------------------------------------------------------------------------
(* A restart between two calls is hidden.                                  *)

\* The daemon never closes the connection of an undisturbed call: it holds
\* no size the daemon refuses, and its end is open.
LEMMA KeepsOpen ==
  ASSUME IInv, CloseConnection, dpc \in {"size", "text"},
         \/ EndOfFile
         \/ dpc = "size" /\ conn[dconn].toDaemon # <<>> /\ length[Head(conn[dconn].toDaemon)[2]] # "fits",
         pc # "idle", length[called] = "fits", mSocket # 0, DaemonOpen(mSocket)
  PROVE  DaemonOpen(mSocket) /\ "daemon" \in conn'[mSocket].open
<1>1. dconn \in 1..Len(conn) /\ mSocket \in 1..Len(conn) /\ conn \in Seq(Connection)
  BY DEF IInv, Ends, TypeOK
<1>2. dconn # mSocket
  <2>1. CASE EndOfFile
    BY Zenon, <1>1, <2>1, EofIsForeign
  <2>2. CASE dpc = "size" /\ conn[dconn].toDaemon # <<>> /\ length[Head(conn[dconn].toDaemon)[2]] # "fits"
    <3> SUFFICES ASSUME dconn = mSocket PROVE FALSE
      BY Zenon
    <3>1. conn[dconn] \in Connection
      BY <1>1
    <3>2. In(dconn) \in Seq({"size", "text"} \X Call) /\ Len(In(dconn)) > 0
      BY <2>2, <3>1 DEF In, Connection
    <3>3. OnlySize(mSocket, called) \/ SizeThenText(mSocket, called)
      BY <2>2, <3>2, <1>1 DEF IInv, OwnConnection, TypeOK, Nothing, Serving
    <3>4. Head(In(dconn)) = <<"size", called>>
      BY <3>2, <3>3 DEF OnlySize, SizeThenText
    <3> QED BY <2>2, <3>4 DEF In
  <2> QED BY Zenon, <2>1, <2>2
<1>3. conn'[mSocket] = conn[mSocket]
  BY <1>1, <1>2 DEF CloseConnection
<1> QED BY Zenon, <1>3 DEF DaemonOpen

\* HInv holds initially.
LEMMA InitHidden == Init => HInv
  BY Zenon DEF Init, HInv, Undisturbed, RestartIsHidden

\* Every step preserves it.
LEMMA HiddenStep == IInv /\ IInv' /\ HInv /\ [Next]_vars => HInv'
<1> SUFFICES ASSUME IInv, IInv', HInv, [Next]_vars PROVE HInv'
  BY Zenon
<1>0. /\ result \in [Call -> {"none", "error", "reply"}] /\ (pc # "idle" => called \in Call)
      /\ mSocket \in 0..Len(conn) /\ conn \in Seq(Connection) /\ attempt \in 1..2 /\ called \in 0..MaxCalls
      /\ pc \in {"size", "text", "reply"} => mSocket # 0
  BY Zenon DEF IInv, TypeOK, Ends
<1> USE DEF HInv
<1>1. CASE Transaction
  <2>1. RestartIsHidden'
    BY Zenon, <1>1 DEF Transaction, RestartIsHidden
  <2>2. Undisturbed'
    BY <1>1 DEF Transaction, Undisturbed, daemon
  <2> QED BY Zenon, <2>1, <2>2
<1>2. ASSUME NEW how, result' = [result EXCEPT ![called] = how], pc # "idle", pc' = "idle",
             how = "error" /\ length[called] = "fits" => called \in disturbed',
             UNCHANGED <<called, length>>, disturbed \subseteq disturbed'
      PROVE  HInv'
  BY Zenon, <1>0, <1>2 DEF RestartIsHidden, Undisturbed
<1>3. CASE Connect
  <2>1. CASE Return("error") /\ dpc = "down"
    BY Zenon, <1>2, <1>3, <2>1 DEF Connect, Return, Undisturbed
  <2>2. CASE pc' = "size" /\ UNCHANGED <<conn, result>> /\ mSocket # 0 /\ UNCHANGED mSocket
    BY Zenon, <1>3, <2>2 DEF Connect, RestartIsHidden, Undisturbed, daemon
  <2>3. CASE pc' = "size" /\ UNCHANGED result /\ conn' = Append(conn, Fresh) /\ mSocket' = Len(conn) + 1
    <3>1. DaemonOpen(mSocket)'
      BY <1>0, <2>3, Opened DEF DaemonOpen, Fresh
    <3> QED BY Zenon, <1>3, <2>3, <3>1 DEF Connect, RestartIsHidden, Undisturbed, daemon
  <2> QED BY Zenon, <1>3, <2>1, <2>2, <2>3 DEF Connect
<1>4. CASE WriteSize \/ WriteText
  <2>0. /\ UNCHANGED <<called, length, daemon, disturbed>> /\ pc \in {"size", "text"}
    BY Zenon, <1>4 DEF WriteSize, WriteText
  <2>1. CASE length[called] = "bad" /\ WriteFailed
    BY Zenon, <1>2, <2>0, <2>1 DEF WriteFailed, Return, RestartIsHidden, Undisturbed
  <2>2. CASE ~DaemonOpen(mSocket) /\ mSocket' = 0 /\ WriteFailed
    <3>1. CASE attempt = 1
      BY Zenon, <2>0, <2>2, <3>1 DEF WriteFailed, RestartIsHidden, Undisturbed, daemon
    <3>2. CASE attempt # 1
      BY <1>0, <1>2, <2>0, <2>2, <3>2 DEF WriteFailed, Return, Undisturbed
    <3> QED BY Zenon, <3>1, <3>2
  <2>3. ASSUME NEW what \in {"size", "text"}, DaemonOpen(mSocket), pc' \in {"text", "reply"},
               conn' = [conn EXCEPT ![mSocket].toDaemon = Append(@, <<what, called>>)],
               UNCHANGED <<mSocket, attempt, result>>
        PROVE  HInv'
    <3>1. DaemonOpen(mSocket)'
      BY Zenon, <1>0, <2>0, <2>3, SentFacts DEF DaemonOpen
    <3> QED BY Zenon, <2>0, <2>3, <3>1 DEF RestartIsHidden, Undisturbed, daemon
  <2> QED BY Zenon, <1>4, <2>1, <2>2, <2>3 DEF WriteSize, WriteText, Write
<1>5. CASE ReadReply
  <2>1. CASE Return("reply")
    BY Zenon, <1>2, <1>5, <2>1 DEF ReadReply, Return
  <2>2. CASE Return("error") /\ ~DaemonOpen(mSocket)
    BY Zenon, <1>2, <1>5, <2>2 DEF ReadReply, Return, Undisturbed
  <2> QED BY Zenon, <1>5, <2>1, <2>2 DEF ReadReply
<1>6. CASE ServiceKilled
  BY Zenon, <1>0, <1>6 DEF ServiceKilled, RestartIsHidden, Undisturbed
<1>7. CASE Die /\ UNCHANGED client
  <2>1. pc # "idle" => called \in disturbed'
    BY Zenon, <1>7 DEF Die
  <2>2. disturbed \subseteq disturbed'
    BY Zenon, <1>7 DEF Die
  <2> QED BY Zenon, <1>7, <2>1, <2>2 DEF client, RestartIsHidden, Undisturbed
<1>8. ASSUME UNCHANGED <<client, disturbed>>, dpc' # "down",
             (mSocket # 0 /\ DaemonOpen(mSocket) /\ pc # "idle" /\ length[called] = "fits") => DaemonOpen(mSocket)'
      PROVE  HInv'
  BY Zenon, <1>0, <1>8 DEF client, RestartIsHidden, Undisturbed
<1>9. CASE Accept \/ Execute \/ DaemonRestarts
  BY Zenon, <1>8, <1>9 DEF Accept, Execute, DaemonRestarts, DaemonOpen, client
<1>10. CASE ReadSize \/ ReadText
  <2>0. UNCHANGED <<client, disturbed>> /\ dpc \in {"size", "text"} /\ dconn # 0
    BY Zenon, <1>10 DEF ReadSize, ReadText, IInv, Ends
  <2>1. CASE /\ CloseConnection
             /\ \/ EndOfFile
                \/ dpc = "size" /\ conn[dconn].toDaemon # <<>> /\ length[Head(conn[dconn].toDaemon)[2]] # "fits"
    BY Zenon, <1>8, <2>0, <2>1, KeepsOpen DEF CloseConnection, DaemonOpen, client
  <2>2. CASE conn[dconn].toDaemon # <<>> /\ conn' = [conn EXCEPT ![dconn].toDaemon = Tail(@)] /\ dpc' \in {"text", "execute"}
    <3>1. \A l \in 1..Len(conn) : conn'[l].open = conn[l].open
      BY Zenon, <2>0, <2>2, TakenFacts
    <3> QED BY <1>0, <1>8, <2>0, <2>2, <3>1 DEF DaemonOpen, client
  <2> QED BY Zenon, <1>10, <2>1, <2>2 DEF ReadSize, ReadText
<1>11. CASE Reply
  <2>1. CASE Die
    BY Zenon, <1>7, <1>11, <2>1 DEF Reply
  <2>2. CASE conn' = [conn EXCEPT ![dconn].toClient = Append(@, dcmd)] /\ dpc' = "size" /\ UNCHANGED disturbed
    <3>1. dconn \in 1..Len(conn)
      BY SMTT(30), <1>11 DEF Reply, IInv, Ends, TypeOK
    <3>2. \A l \in 1..Len(conn) : conn'[l].open = conn[l].open
      BY <1>0, <2>2, <3>1 DEF Connection
    <3> QED BY <1>0, <1>8, <1>11, <2>2, <3>2 DEF DaemonOpen, client, Reply
  <2> QED BY Zenon, <1>11, <2>1, <2>2 DEF Reply
<1>12. CASE DaemonKilled
  BY Zenon, <1>7, <1>12 DEF DaemonKilled
<1>13. CASE UNCHANGED vars
  BY Zenon, <1>13 DEF vars, client, daemon, RestartIsHidden, Undisturbed, DaemonOpen
<1> QED BY Zenon, <1>1, <1>3, <1>4, <1>5, <1>6, <1>9, <1>10, <1>11, <1>12, <1>13 DEF Next

\* A command that fits fails only if the daemon or the service goes down
\* while its call is in progress.
THEOREM RestartsAreHidden == Spec => []RestartIsHidden
<1>1. HInv => RestartIsHidden
  BY Zenon DEF HInv
<1> QED BY <1>1, InitHidden, HiddenStep, Invariant, PTL DEF Spec
=============================================================================
