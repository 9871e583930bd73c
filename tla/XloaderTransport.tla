-------------------------- MODULE XloaderTransport --------------------------
(***************************************************************************)
(* The command channel between the service and the loader daemon: the      *)
(* client side is Xloader.java, the server side is main() and execute() of *)
(* xloaderd.c, and between them lie the connections of a local stream      *)
(* socket.  transaction() is synchronized, so the threads of the service   *)
(* make their calls one at a time; the calls are numbered in that order.   *)
(*                                                                         *)
(* A command is two writes, its size and its text, because the daemon      *)
(* rejects a size before it has read the text.  The reply is also two      *)
(* writes, but a connection that breaks between them looks to the client   *)
(* exactly like one that breaks before them, so it is one item here.       *)
(***************************************************************************)
EXTENDS Naturals, Sequences

CONSTANTS MaxCalls,      \* bound: the number of transactions of a behaviour
          MaxDeaths,     \* bound: how often the daemon is killed
          MaxKills       \* bound: how often the service process is killed

ASSUME BoundsAssumption == MaxCalls \in Nat /\ MaxDeaths \in Nat /\ MaxKills \in Nat

Call == 1..MaxCalls

(***************************************************************************)
(* The length of a command as the two ends tell lengths apart: "fits" is   *)
(* 1..1023 bytes, "full" is exactly 1024 and "bad" is 0 or above 1024.     *)
(***************************************************************************)
Length == {"fits", "full", "bad"}

VARIABLES
  called,      \* number of the latest call of transaction()
  length,      \* length[c]: the length of c's command
  pc,          \* where the client is in transaction()
  attempt,     \* 1 for the first writeCommand() of a call, 2 for the second
  mSocket,     \* the client's connection, 0 for null
  conn,        \* every connection made so far
  backlog,     \* connections the daemon has not accepted yet
  dpc,         \* where the daemon is in its main loop
  dconn,       \* the connection it serves
  dcmd,        \* the call whose command it has read
  runs,        \* runs[c]: how often c's command was executed
  result,      \* result[c]: how the call ended
  answer,      \* answer[c]: the call whose reply it was given
  disturbed,   \* the calls during which the daemon was down or died
  deaths, kills

client == <<called, length, pc, attempt, mSocket, result, answer>>
daemon == <<dpc, dconn, dcmd, runs>>
budget == <<deaths, kills>>
vars == <<client, conn, backlog, daemon, disturbed, budget>>

Connection ==
  [toDaemon : Seq({"size", "text"} \X Call), toClient : Seq(Call),
   open : SUBSET {"client", "daemon"}]

\* The ends of connection k that are still open.
ClientOpen(k) == "client" \in conn[k].open
DaemonOpen(k) == "daemon" \in conn[k].open

Fresh == [toDaemon |-> <<>>, toClient |-> <<>>, open |-> {"client", "daemon"}]

Init ==
  /\ called = 0 /\ length \in [Call -> Length]
  /\ pc = "idle" /\ attempt = 1 /\ mSocket = 0
  /\ conn = <<>> /\ backlog = <<>>
  /\ dpc = "accept" /\ dconn = 0 /\ dcmd = 0
  /\ runs = [c \in Call |-> 0]
  /\ result = [c \in Call |-> "none"]
  /\ answer = [c \in Call |-> 0]
  /\ disturbed = {}
  /\ deaths = 0 /\ kills = 0

-----------------------------------------------------------------------------
(* The client.                                                             *)

\* disconnect(): close the socket and forget it.
ClosedBy(cs, k) == IF k = 0 THEN cs ELSE [cs EXCEPT ![k].open = @ \ {"client"}]

Return(how) ==
  /\ result' = [result EXCEPT ![called] = how]
  /\ pc' = "idle"

Transaction ==
  /\ pc = "idle" /\ called < MaxCalls
  /\ called' = called + 1
  /\ pc' = "connect" /\ attempt' = 1
  /\ disturbed' = IF dpc = "down" THEN disturbed \cup {called + 1} ELSE disturbed
  /\ UNCHANGED <<length, mSocket, result, answer, conn, backlog, daemon, budget>>

\* connect(): keep an open socket, otherwise join the backlog of a daemon
\* that listens, otherwise give the call up.
Connect ==
  /\ pc = "connect"
  /\ \/ /\ mSocket # 0
        /\ pc' = "size"
        /\ UNCHANGED <<mSocket, conn, backlog, result>>
     \/ /\ mSocket = 0 /\ dpc # "down"
        /\ conn' = Append(conn, Fresh)
        /\ mSocket' = Len(conn) + 1
        /\ backlog' = Append(backlog, Len(conn) + 1)
        /\ pc' = "size"
        /\ UNCHANGED result
     \/ /\ mSocket = 0 /\ dpc = "down"
        /\ Return("error")
        /\ UNCHANGED <<mSocket, conn, backlog>>
  /\ UNCHANGED <<called, length, attempt, answer, daemon, disturbed, budget>>

\* writeCommand() returned false: once more from connect(), then give up.
WriteFailed ==
  IF attempt = 1
  THEN pc' = "connect" /\ attempt' = 2 /\ UNCHANGED result
  ELSE Return("error") /\ UNCHANGED attempt

Write(what, next) ==
  IF DaemonOpen(mSocket)
  THEN /\ conn' = [conn EXCEPT ![mSocket].toDaemon = Append(@, <<what, called>>)]
       /\ pc' = next
       /\ UNCHANGED <<mSocket, attempt, result>>
  ELSE /\ conn' = ClosedBy(conn, mSocket)
       /\ mSocket' = 0
       /\ WriteFailed

\* A length the client refuses fails before anything is written, and leaves
\* the connection as it is.
WriteSize ==
  /\ pc = "size"
  /\ \/ /\ length[called] = "bad"
        /\ WriteFailed
        /\ UNCHANGED <<mSocket, conn>>
     \/ /\ length[called] # "bad"
        /\ Write("size", "text")
  /\ UNCHANGED <<called, length, answer, backlog, daemon, disturbed, budget>>

WriteText ==
  /\ pc = "text"
  /\ Write("text", "reply")
  /\ UNCHANGED <<called, length, answer, backlog, daemon, disturbed, budget>>

\* readReply(): blocks until a reply is there or the daemon's end is closed.
ReadReply ==
  /\ pc = "reply"
  /\ \/ /\ conn[mSocket].toClient # <<>>
        /\ answer' = [answer EXCEPT ![called] = Head(conn[mSocket].toClient)]
        /\ conn' = [conn EXCEPT ![mSocket].toClient = Tail(@)]
        /\ Return("reply")
        /\ UNCHANGED mSocket
     \/ /\ conn[mSocket].toClient = <<>> /\ ~DaemonOpen(mSocket)
        /\ conn' = ClosedBy(conn, mSocket)
        /\ mSocket' = 0
        /\ Return("error")
        /\ UNCHANGED answer
  /\ UNCHANGED <<called, length, attempt, backlog, daemon, disturbed, budget>>

\* The service process is killed and restarted: its socket closes, the new
\* Xloader starts without one, and nobody waits for the call any more.
ServiceKilled ==
  /\ kills < MaxKills
  /\ kills' = kills + 1
  /\ conn' = ClosedBy(conn, mSocket)
  /\ mSocket' = 0 /\ pc' = "idle"
  /\ result' = IF pc = "idle" THEN result ELSE [result EXCEPT ![called] = "error"]
  /\ disturbed' = IF pc = "idle" THEN disturbed ELSE disturbed \cup {called}
  /\ UNCHANGED <<called, length, attempt, answer, backlog, daemon, deaths>>

ClientStep == Connect \/ WriteSize \/ WriteText \/ ReadReply

-----------------------------------------------------------------------------
(* The daemon.                                                             *)

Accept ==
  /\ dpc = "accept" /\ backlog # <<>>
  /\ dconn' = Head(backlog) /\ backlog' = Tail(backlog)
  /\ dpc' = "size"
  /\ UNCHANGED <<client, conn, dcmd, runs, disturbed, budget>>

\* Mutant: close(s) is missing.
CloseConnectionLeak ==
  /\ dpc' = "accept" /\ dconn' = 0 /\ dcmd' = 0
  /\ UNCHANGED conn

\* break out of the inner loop, close(s), and back to accept().
CloseConnection ==
  /\ conn' = [conn EXCEPT ![dconn].open = @ \ {"daemon"}]
  /\ dpc' = "accept" /\ dconn' = 0 /\ dcmd' = 0

EndOfFile == conn[dconn].toDaemon = <<>> /\ ~ClientOpen(dconn)

\* What execute() does with the next item of the stream: a size is checked
\* (count < 1 || count >= BUFFER_MAX), a text is the command to run.
ReadSize ==
  /\ dpc = "size"
  /\ \/ /\ conn[dconn].toDaemon # <<>>
        /\ IF length[Head(conn[dconn].toDaemon)[2]] = "fits"
           THEN /\ conn' = [conn EXCEPT ![dconn].toDaemon = Tail(@)]
                /\ dpc' = "text"
                /\ UNCHANGED <<dconn, dcmd>>
           ELSE CloseConnection
     \/ EndOfFile /\ CloseConnection
  /\ UNCHANGED <<client, backlog, runs, disturbed, budget>>

\* Mutant: the text stays in the buffer and is met again.
ReadTextPeeks ==
  /\ dpc = "text"
  /\ \/ /\ conn[dconn].toDaemon # <<>>
        /\ dcmd' = Head(conn[dconn].toDaemon)[2]
        /\ dpc' = "execute"
        /\ UNCHANGED <<dconn, conn>>
     \/ EndOfFile /\ CloseConnection
  /\ UNCHANGED <<client, backlog, runs, disturbed, budget>>

ReadText ==
  /\ dpc = "text"
  /\ \/ /\ conn[dconn].toDaemon # <<>>
        /\ dcmd' = Head(conn[dconn].toDaemon)[2]
        /\ conn' = [conn EXCEPT ![dconn].toDaemon = Tail(@)]
        /\ dpc' = "execute"
        /\ UNCHANGED dconn
     \/ EndOfFile /\ CloseConnection
  /\ UNCHANGED <<client, backlog, runs, disturbed, budget>>

Execute ==
  /\ dpc = "execute"
  /\ runs' = [runs EXCEPT ![dcmd] = @ + 1]
  /\ dpc' = "reply"
  /\ UNCHANGED <<client, conn, backlog, dconn, dcmd, disturbed, budget>>

\* The daemon dies: the connections it held and its backlog are reset.
Die ==
  /\ conn' = [k \in DOMAIN conn |-> [conn[k] EXCEPT !.open = @ \ {"daemon"}]]
  /\ backlog' = <<>>
  /\ dpc' = "down" /\ dconn' = 0 /\ dcmd' = 0
  /\ disturbed' = IF pc = "idle" THEN disturbed ELSE disturbed \cup {called}

\* writex() of the reply.  Writing to a connection the client has closed
\* raises SIGPIPE, which ends the daemon.
Reply ==
  /\ dpc = "reply"
  /\ \/ /\ ClientOpen(dconn)
        /\ conn' = [conn EXCEPT ![dconn].toClient = Append(@, dcmd)]
        /\ dpc' = "size" /\ dcmd' = 0
        /\ UNCHANGED <<dconn, backlog, disturbed>>
     \/ ~ClientOpen(dconn) /\ Die
  /\ UNCHANGED <<client, runs, budget>>

DaemonKilled ==
  /\ dpc # "down" /\ deaths < MaxDeaths
  /\ deaths' = deaths + 1
  /\ Die
  /\ UNCHANGED <<client, runs, kills>>

\* init restarts the service and hands it a new listening socket.
DaemonRestarts ==
  /\ dpc = "down"
  /\ dpc' = "accept"
  /\ UNCHANGED <<client, conn, backlog, dconn, dcmd, runs, disturbed, budget>>

DaemonStep == Accept \/ ReadSize \/ ReadText \/ Execute \/ Reply

-----------------------------------------------------------------------------
Next ==
  \/ Transaction \/ Connect \/ WriteSize \/ WriteText \/ ReadReply
  \/ ServiceKilled
  \/ Accept \/ ReadSize \/ ReadText \/ Execute \/ Reply
  \/ DaemonKilled \/ DaemonRestarts

Spec == Init /\ [][Next]_vars

\* A thread inside transaction() and the daemon's main loop keep running, and
\* init restarts a daemon that died.
FairSpec ==
  Spec /\ WF_vars(ClientStep) /\ WF_vars(DaemonStep) /\ WF_vars(DaemonRestarts)

-----------------------------------------------------------------------------
(* What is checked.                                                        *)

\* Every variable has its type; a socket or a served connection exists.
TypeOK ==
  /\ called \in 0..MaxCalls /\ length \in [Call -> Length]
  /\ pc \in {"idle", "connect", "size", "text", "reply"} /\ attempt \in 1..2
  /\ conn \in Seq(Connection)
  /\ mSocket \in 0..Len(conn) /\ dconn \in 0..Len(conn)
  /\ backlog \in Seq(1..Len(conn))
  /\ dpc \in {"down", "accept", "size", "text", "execute", "reply"}
  /\ dcmd \in 0..MaxCalls
  /\ runs \in [Call -> Nat]
  /\ result \in [Call -> {"none", "error", "reply"}]
  /\ answer \in [Call -> 0..MaxCalls]
  /\ disturbed \subseteq Call
  /\ deaths \in 0..MaxDeaths /\ kills \in 0..MaxKills

\* The two ends never lose the framing of the stream: where the daemon reads
\* a size the next item is a size, where it reads a text it is the text that
\* belongs to the size it has accepted (the inner loop of main()).
FramingKept ==
  (dpc \in {"size", "text"} /\ conn[dconn].toDaemon # <<>>)
    => /\ Head(conn[dconn].toDaemon)[1] = dpc
       /\ dpc = "text" => length[Head(conn[dconn].toDaemon)[2]] = "fits"

\* A call that returns a reply returns the reply to its own command, never
\* one left over from an earlier call (transaction() and disconnect()).
AnswerIsOwn ==
  \A c \in Call : result[c] = "reply" => answer[c] = c /\ runs[c] = 1

\* The retry of transaction() runs nothing twice, whoever dies in between.
AtMostOnce == \A c \in Call : runs[c] <= 1

\* The second writeCommand() of transaction() hides a daemon that died and
\* came back between two calls: a command that fits fails only if the daemon
\* or the service goes down while the call is in progress.
RestartIsHidden ==
  \A c \in Call : result[c] = "error" /\ length[c] = "fits" => c \in disturbed

\* transaction() has no timeout, yet it always returns: every way the daemon
\* can stop serving a connection also closes it.
TransactionReturns == (pc # "idle") ~> (pc = "idle")

\* The channel keeps the contract its callers rely on.
Contract ==
  INSTANCE RpcContract
    WITH outcome <- [c \in Call |-> IF result[c] # "reply" THEN result[c]
                                    ELSE IF answer[c] = c THEN "done" ELSE "stale"]

\* Every step of the channel is a step of RpcContract or changes nothing it
\* talks about: one call at a time, at most one run, only own answers.
KeepsContract == Contract!Spec

=============================================================================
