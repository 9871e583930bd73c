----------------------------- MODULE ClientProxy -----------------------------
(***************************************************************************)
(* DynXloaderServiceProxy: an application adds, removes and looks up the   *)
(* module of one (package, process) pair, through a binder that comes and  *)
(* goes with the service.  Without one the operation is left to a retry    *)
(* thread and the caller is told 2.  The field is tested first and read    *)
(* again for the call; the service may apply an operation and die before   *)
(* it answers.                                                             *)
(***************************************************************************)
EXTENDS Integers

CONSTANTS NoModule, Apk,
          MaxJobs,        \* bound: calls of the application
          MaxRetryCount, \* MAX_RETRY_COUNT
          MaxDeaths      \* bound: deaths of the service

ASSUME ProxyAssumption ==
  NoModule \notin Apk /\ MaxJobs \in Nat /\ MaxRetryCount \in Nat \ {0} /\ MaxDeaths \in Nat

Operation == {"add", "remove", "check"}
Job == 1..MaxJobs

VARIABLES
  bound,       \* bindService() is in force
  mService,    \* mDynXloaderService: "null", "live", or "dead" when its process is gone
  service,     \* the process of the service: "down", "up"
  module,      \* the module the service has stored
  jobs,         \* jobs[i]: the application's i-th call: [op, apk, at, left, applied, ret]
  lastJob, proxyDeaths

proxyVars == <<bound, mService, service, module, jobs, lastJob, proxyDeaths>>

NoJob == [op |-> "check", apk |-> NoModule, at |-> "none", left |-> 0, applied |-> 0, ret |-> 0]

(* The constructor has called connect().                                   *)
ProxyInit ==
  /\ bound = TRUE /\ mService = "null" /\ service = "down" /\ module = NoModule
  /\ jobs = [i \in Job |-> NoJob] /\ lastJob = 0 /\ proxyDeaths = 0

(* What the service makes of an operation: a module that is stored is not  *)
(* replaced.                                                               *)
StoredAfter(op, apk) ==
  CASE op = "add" -> IF module = NoModule THEN apk ELSE module
    [] op = "remove" -> NoModule
    [] op = "check" -> module

Direct(i) == jobs[i].left = 0
JobAt(i, p) == jobs[i].at = p

-----------------------------------------------------------------------------
(* addModule, removeModule, checkModuleExist: the application calls one    *)
(* after the other; "use" is the call on the field after its test.         *)
CallModule(op, apk) ==
  LET i == lastJob + 1 IN
  /\ i <= MaxJobs /\ lastJob' = i
  /\ \A j \in Job : JobAt(j, "use") => ~Direct(j)
  /\ jobs' = [jobs EXCEPT ![i] =
       IF mService = "null"
       THEN [NoJob EXCEPT !.op = op, !.apk = apk, !.at = "retry", !.left = MaxRetryCount, !.ret = 2]
       ELSE [NoJob EXCEPT !.op = op, !.apk = apk, !.at = "use"]]
  /\ UNCHANGED <<bound, mService, service, module, proxyDeaths>>

(* RetryThread.run: connect(), the sleep and the test                      *)
Retry(i) ==
  /\ JobAt(i, "retry") /\ bound' = TRUE
  /\ jobs' = [jobs EXCEPT ![i].at = "slept"]
  /\ UNCHANGED <<mService, service, module, lastJob, proxyDeaths>>

\* Mutant: the attempts have no end.
NextAlways(i) == [jobs EXCEPT ![i].left = @ - 1, ![i].at = "retry"]

NextAttempt(i) == [jobs EXCEPT ![i].left = @ - 1, ![i].at = IF jobs[i].left > 1 THEN "retry" ELSE "lost"]

(* The operation is applied, or finds the service dead (RemoteException),  *)
(* or the field null: an exception for the caller, the end of a retry      *)
(* thread.  A connected checkModuleExist calls removeModule.               *)
SentOp(i) == IF Direct(i) /\ jobs[i].op = "check" THEN "remove" ELSE jobs[i].op

Applied(i) == [jobs EXCEPT ![i].applied = @ + 1]

Use(i) ==
  /\ JobAt(i, "use") /\ mService = "live"
  /\ module' = StoredAfter(SentOp(i), jobs[i].apk)
  /\ jobs' = [Applied(i) EXCEPT ![i].at = "done"]
  /\ UNCHANGED <<bound, mService, service, lastJob, proxyDeaths>>

Failed(i) == IF Direct(i) THEN [jobs EXCEPT ![i].at = "failed", ![i].ret = -1] ELSE NextAttempt(i)

\* Mutant: the RemoteException is ignored.
UseDeadAnyway(i) ==
  /\ JobAt(i, "use") /\ mService = "dead" /\ jobs' = [jobs EXCEPT ![i].at = "done"]
  /\ UNCHANGED <<bound, mService, service, module, lastJob, proxyDeaths>>

UseDead(i) ==
  /\ JobAt(i, "use") /\ mService = "dead" /\ jobs' = Failed(i)
  /\ UNCHANGED <<bound, mService, service, module, lastJob, proxyDeaths>>

UseNull(i) ==
  /\ JobAt(i, "use") /\ mService = "null"
  /\ jobs' = [jobs EXCEPT ![i].at = IF Direct(i) THEN "threw" ELSE "lost"]
  /\ UNCHANGED <<bound, mService, service, module, lastJob, proxyDeaths>>

Test(i) ==
  /\ JobAt(i, "slept")
  /\ jobs' = IF mService = "null" THEN NextAttempt(i) ELSE [jobs EXCEPT ![i].at = "use"]
  /\ UNCHANGED <<bound, mService, service, module, lastJob, proxyDeaths>>

-----------------------------------------------------------------------------
(* The service and the activity manager, external                          *)
ServiceStarts ==
  /\ bound /\ service = "down" /\ service' = "up"
  /\ UNCHANGED <<bound, mService, module, jobs, lastJob, proxyDeaths>>

OnServiceConnected ==
  /\ bound /\ service = "up" /\ mService # "live" /\ mService' = "live"
  /\ UNCHANGED <<bound, service, module, jobs, lastJob, proxyDeaths>>

OnServiceDisconnected ==
  /\ bound /\ mService = "dead" /\ mService' = "null"
  /\ UNCHANGED <<bound, service, module, jobs, lastJob, proxyDeaths>>

Dies ==
  /\ service = "up" /\ proxyDeaths < MaxDeaths /\ proxyDeaths' = proxyDeaths + 1
  /\ service' = "down" /\ mService' = IF mService = "live" THEN "dead" ELSE mService
  /\ UNCHANGED <<bound, lastJob>>

ServiceDies == Dies /\ UNCHANGED <<module, jobs>>

(* It dies with the operation applied and the answer not sent.             *)
DiesAnswering(i) ==
  /\ JobAt(i, "use") /\ mService = "live" /\ Dies
  /\ module' = StoredAfter(SentOp(i), jobs[i].apk)
  /\ jobs' = [Failed(i) EXCEPT ![i].applied = @ + 1]

Release ==
  /\ bound /\ bound' = FALSE
  /\ UNCHANGED <<mService, service, module, jobs, lastJob, proxyDeaths>>

JobStep(i) == Retry(i) \/ Test(i) \/ Use(i) \/ UseDead(i) \/ UseNull(i)

ProxyNext ==
  \/ ServiceStarts \/ OnServiceConnected \/ OnServiceDisconnected \/ ServiceDies \/ Release
  \/ \E apk \in Apk : CallModule("add", apk)
  \/ CallModule("remove", NoModule) \/ CallModule("check", NoModule)
  \/ \E i \in Job : JobStep(i) \/ DiesAnswering(i)

(* The threads of the application get their turns.                         *)
ProxyFairness == \A i \in Job : WF_proxyVars(JobStep(i))

ProxySpec == ProxyInit /\ [][ProxyNext]_proxyVars /\ ProxyFairness

-----------------------------------------------------------------------------
(* Every variable has its type.                                           *)
ProxyTypeOK ==
  /\ bound \in BOOLEAN /\ mService \in {"null", "live", "dead"} /\ service \in {"down", "up"}
  /\ module \in Apk \cup {NoModule} /\ lastJob \in 0..MaxJobs
  /\ jobs \in [Job -> [op : Operation, apk : Apk \cup {NoModule}, left : 0..MaxRetryCount,
                       at : {"none", "retry", "slept", "use", "done", "failed", "threw", "lost"},
                       applied : 0..MaxDeaths + 1, ret : {-1, 0, 2}]]

(* What the caller is told is true of the service: 0 means that the        *)
(* operation reached it once, and an operation reaches it more than once   *)
(* only by retries whose answers a death of the service has cut off.  When *)
(* every call was told 0, the calls took effect in their order: the stored *)
(* module is what the last removal and the first addition after it make it.*)
ToldIsTrue ==
  /\ \A i \in Job :
       /\ JobAt(i, "done") => jobs[i].applied >= 1
       /\ jobs[i].applied > 1 => jobs[i].ret = 2 /\ jobs[i].applied <= proxyDeaths + 1
       /\ JobAt(i, "threw") => jobs[i].applied = 0
  /\ (\A i \in 1..lastJob : JobAt(i, "done") /\ jobs[i].ret = 0 /\ jobs[i].op # "check") =>
       LET kept == {i \in 1..lastJob : \A j \in i..lastJob : jobs[j].op = "add"}
       IN module = IF kept = {} THEN NoModule ELSE jobs[CHOOSE i \in kept : \A j \in kept : i <= j].apk

(* A retry thread ends, with its operation applied or its attempts used    *)
(* up, whatever the service does.                                          *)
RetryEnds == \A i \in Job : JobAt(i, "retry") ~> jobs[i].at \in {"done", "lost"}
=============================================================================
