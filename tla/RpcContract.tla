---------------------------- MODULE RpcContract ----------------------------
(***************************************************************************)
(* What the service may rely on when it hands commands to the loader       *)
(* daemon through Xloader.transaction(): the calls are made one after the  *)
(* other, a command runs at most once, and a call that reports success     *)
(* reports the outcome of its own command.  A call that reports an error   *)
(* says nothing: its command may have run, or may still run later.         *)
(***************************************************************************)
EXTENDS Naturals

CONSTANT Call           \* the identities of the calls, in the order they are made

VARIABLES called,       \* the calls made so far
          runs,         \* runs[c]: how often the daemon ran the command of c
          outcome       \* "none", "error", or the call whose result was returned

vars == <<called, runs, outcome>>

Init ==
  /\ called = 0
  /\ runs = [c \in Call |-> 0]
  /\ outcome = [c \in Call |-> "none"]

Invoke ==
  /\ called + 1 \in Call
  /\ called > 0 => outcome[called] # "none"
  /\ called' = called + 1
  /\ UNCHANGED <<runs, outcome>>

Run(c) ==
  /\ c <= called
  /\ runs[c] = 0
  /\ runs' = [runs EXCEPT ![c] = 1]
  /\ UNCHANGED <<called, outcome>>

Succeed(c) ==
  /\ c = called
  /\ outcome[c] = "none"
  /\ runs[c] = 1
  /\ outcome' = [outcome EXCEPT ![c] = "done"]
  /\ UNCHANGED <<called, runs>>

Fail(c) ==
  /\ c = called
  /\ outcome[c] = "none"
  /\ outcome' = [outcome EXCEPT ![c] = "error"]
  /\ UNCHANGED <<called, runs>>

Next ==
  \/ Invoke
  \/ \E c \in Call : Run(c) \/ Succeed(c) \/ Fail(c)

Spec == Init /\ [][Next]_vars
=============================================================================
