--------------------------- MODULE MCRemoteLoader ---------------------------
(***************************************************************************)
(* RemoteLoader with the bounds of the .cfg files.  MixedSpec explores two *)
(* kinds of target in one run: one whose code never raises a SIGSEGV of    *)
(* its own, met by all loaders, and one whose code may, met by one loader. *)
(***************************************************************************)
EXTENDS RemoteLoader

CONSTANTS Single,          \* the loader that meets a faulting target
          MaxPairXloads    \* bound: calls of xload() on a target that does not fault

VARIABLE faulty            \* whether the target may fault, chosen once

F == INSTANCE RemoteLoader WITH MayFault <- TRUE

FaultNext ==
  \/ \E p \in Proc : F!ProcessStarts(p) \/ F!ProcessDies(p)
  \/ F!Xload(Single) \/ F!Step(Single) \/ F!LoaderKilled(Single)

PairNext == Next /\ xloads' <= MaxPairXloads

MixedInit == Init /\ faulty \in {"no", "yes"}

MixedNext ==
  /\ (faulty = "no" /\ PairNext) \/ (faulty = "yes" /\ FaultNext)
  /\ UNCHANGED faulty

MixedSpec ==
  /\ MixedInit /\ [][MixedNext]_<<vars, faulty>>
  /\ \A l \in Loader : WF_vars(faulty = "no" /\ Step(l))
  /\ WF_vars(faulty = "yes" /\ F!Step(Single))

\* Without faults that ptrace_call() takes for returns, SUCCESS is only
\* returned by a call that has loaded its module.
SuccessWithoutFault == faulty = "no" => SuccessMeansLoaded
=============================================================================
