------------------------------ MODULE ClassInit ------------------------------
(***************************************************************************)
(* Verification and initialization of linked classes: InitializeClass,     *)
(* WaitForInitializeClass and VerifyClass of class_linker.cc, SetStatus of *)
(* mirror/class.cc.  A thread is a stack of calls, since a class brings in *)
(* its superclass and its <clinit> brings in the classes it uses.  The     *)
(* lock of a class is the monitor of ObjectMonitor; code that holds it     *)
(* without taking another lock is one step.                                *)
(***************************************************************************)
EXTENDS ArtThreads, Sequences

CONSTANTS Class,
          Super,        \* Super[c]: the superclass of c, or NoClass
          Uses,         \* Uses[c]: the classes <clinit> of c touches
          NoClass,
          MaxInits      \* bound: calls of EnsureInitialized by each thread

(* No class is its own ancestor (EnsureResolved throws                     *)
(* ClassCircularityError).                                                 *)
ASSUME ClassAssumption ==
  /\ NoClass \notin Class /\ Super \in [Class -> Class \cup {NoClass}]
  /\ \A S \in SUBSET Class : S # {} => \E c \in S : Super[c] \notin S
  /\ Uses \in [Class -> SUBSET Class] /\ MaxInits \in Nat

VARIABLES
  status,     \* status[c]: status_, from "resolved" on
  clinitBy,   \* clinitBy[c]: the thread that set kStatusInitializing
  lockOf,     \* lockOf[c]: the owner of the class's monitor
  stack,      \* stack[t]: its calls, the current one first
  ret,        \* ret[t]: what the last call returned
  clinits,    \* clinits[c]: how often <clinit> of c was invoked
  got,        \* got[t]: the classes t was told to be initialized
  checkFailed, \* a CHECK failed
  inits

classVars == <<status, clinitBy, lockOf, stack, ret, clinits, got, checkFailed, inits>>

ClassInitInit ==
  /\ status = [c \in Class |-> "resolved"] /\ clinitBy = [c \in Class |-> Nobody]
  /\ lockOf = [c \in Class |-> Nobody] /\ stack = [t \in Thread |-> <<>>]
  /\ ret = [t \in Thread |-> TRUE] /\ clinits = [c \in Class |-> 0]
  /\ got = [t \in Thread |-> {}] /\ checkFailed = FALSE /\ inits = [t \in Thread |-> 0]

Frame(c, at) == [c |-> c, at |-> at, todo |-> {}]
Active(t) == stack[t] # <<>>
Top(t) == Head(stack[t])
At(t, p) == Active(t) /\ Top(t).at = p
Jump(t, p) == [stack EXCEPT ![t] = <<[Head(@) EXCEPT !.at = p]>> \o Tail(@)]
Push(t, p, c, at) == stack' = [Jump(t, p) EXCEPT ![t] = <<Frame(c, at)>> \o @]
IsVerified(c) == status[c] \in {"verified", "initializing", "initialized"}

Free(t, c) == lockOf[c] \in {Nobody, t}

(* The call on c that is at the top of t's stack returns r.                *)
Return(t, r) ==
  /\ ret' = [ret EXCEPT ![t] = r] /\ stack' = [stack EXCEPT ![t] = Tail(@)]
  /\ got' = [got EXCEPT ![t] = IF r THEN @ \cup {Top(t).c} ELSE @]

\* Mutant: nobody is notified.
SetStatusQuietly(t, c, s, r, check) ==
  /\ status' = [status EXCEPT ![c] = s] /\ lockOf' = [lockOf EXCEPT ![c] = Nobody]
  /\ checkFailed' = (checkFailed \/ ~check \/ status[c] \in {s, "error"})
  /\ Return(t, r)

(* SetStatus notifies the threads that wait for c; t returns r.            *)
SetStatusAndReturn(t, c, s, r, check) ==
  /\ status' = [status EXCEPT ![c] = s] /\ lockOf' = [lockOf EXCEPT ![c] = Nobody]
  /\ checkFailed' = (checkFailed \/ ~check \/ status[c] \in {s, "error"})
  /\ stack' = [u \in Thread |->
                 IF u = t THEN Tail(stack[u])
                 ELSE IF At(u, "wait") /\ Top(u).c = c THEN Jump(u, "woken")[u] ELSE stack[u]]
  /\ ret' = [ret EXCEPT ![t] = r]
  /\ got' = [got EXCEPT ![t] = IF r THEN @ \cup {c} ELSE @]

-----------------------------------------------------------------------------
EnsureInitialized(t, c) ==
  /\ ~Active(t) /\ inits[t] < MaxInits
  /\ stack' = [stack EXCEPT ![t] = <<Frame(c, "begin")>>]
  /\ inits' = [inits EXCEPT ![t] = @ + 1]
  /\ UNCHANGED <<status, clinitBy, lockOf, ret, clinits, got, checkFailed>>

(* InitializeClass looks without the lock first,                           *)
LookUnlocked(t) ==
  /\ At(t, "begin")
  /\ IF status[Top(t).c] = "initialized" THEN Return(t, TRUE)
     ELSE stack' = Jump(t, "lock") /\ UNCHANGED <<ret, got>>
  /\ UNCHANGED <<status, clinitBy, lockOf, clinits, checkFailed, inits>>

(* then with it, and again after VerifyClass.                              *)
LookLocked(t) ==
  LET c == Top(t).c IN
  /\ At(t, "lock") /\ Free(t, c)
  /\ \/ /\ status[c] = "initialized" \/ (status[c] = "initializing" /\ clinitBy[c] = t)
        /\ Return(t, TRUE) /\ lockOf' = [lockOf EXCEPT ![c] = Nobody] /\ UNCHANGED status
     \/ /\ status[c] = "error"
        /\ Return(t, FALSE) /\ lockOf' = [lockOf EXCEPT ![c] = Nobody] /\ UNCHANGED status
     \/ /\ status[c] = "initializing" /\ clinitBy[c] # t
        /\ stack' = Jump(t, "wait") /\ lockOf' = [lockOf EXCEPT ![c] = Nobody]
        /\ UNCHANGED <<status, ret, got>>
     \/ /\ status[c] = "resolved"
        /\ status' = [status EXCEPT ![c] = "verifying"] /\ stack' = Jump(t, "verify")
        /\ lockOf' = [lockOf EXCEPT ![c] = t] /\ UNCHANGED <<ret, got>>
  /\ UNCHANGED <<clinitBy, clinits, checkFailed, inits>>

(* A verified class is claimed, unless it does not fit its superclass      *)
(* (ValidateSuperClassDescriptors).                                        *)
Claim(t) ==
  LET c == Top(t).c IN
  /\ At(t, "lock") /\ Free(t, c) /\ status[c] = "verified"
  /\ status' = [status EXCEPT ![c] = "initializing"]
  /\ clinitBy' = [clinitBy EXCEPT ![c] = t] /\ lockOf' = [lockOf EXCEPT ![c] = Nobody]
  /\ stack' = Jump(t, "super")
  /\ UNCHANGED <<ret, clinits, got, checkFailed, inits>>

Misfit(t) ==
  LET c == Top(t).c IN
  /\ At(t, "lock") /\ Free(t, c) /\ status[c] = "verified" /\ Super[c] # NoClass
  /\ SetStatusAndReturn(t, c, "error", FALSE, TRUE)
  /\ UNCHANGED <<clinitBy, clinits, inits>>

(* WaitForInitializeClass                                                  *)
WakeSpuriously(t) ==
  /\ At(t, "wait") /\ stack' = Jump(t, "woken")
  /\ UNCHANGED <<status, clinitBy, lockOf, ret, clinits, got, checkFailed, inits>>

\* Mutant: a thread that has waited does not look for an error.
WokenTrusts(t) ==
  LET c == Top(t).c IN
  /\ At(t, "woken") /\ Free(t, c)
  /\ IF status[c] = "initializing" THEN stack' = Jump(t, "wait") /\ UNCHANGED <<ret, got>>
                                    ELSE Return(t, TRUE)
  /\ UNCHANGED <<status, clinitBy, lockOf, clinits, checkFailed, inits>>

Woken(t) ==
  LET c == Top(t).c IN
  /\ At(t, "woken") /\ Free(t, c)
  /\ IF status[c] = "initializing" THEN stack' = Jump(t, "wait") /\ UNCHANGED <<ret, got>>
                                    ELSE Return(t, status[c] = "initialized")
  /\ checkFailed' = (checkFailed \/ status[c] \notin {"initializing", "error", "initialized"})
  /\ UNCHANGED <<status, clinitBy, lockOf, clinits, inits>>

-----------------------------------------------------------------------------
(* VerifyClass(c), with the lock of c held.  The superclass is locked while *)
(* it is looked at and, if need be, verified,                              *)
VerifySuper(t) ==
  LET s == Super[Top(t).c] IN
  /\ At(t, "verify") /\ s # NoClass /\ Free(t, s) /\ status[s] = "resolved"
  /\ status' = [status EXCEPT ![s] = "verifying"] /\ lockOf' = [lockOf EXCEPT ![s] = t]
  /\ Push(t, "verify", s, "verify")
  /\ UNCHANGED <<clinitBy, ret, clinits, got, checkFailed, inits>>

SuperVerified(t) ==
  LET s == Super[Top(t).c] IN
  /\ At(t, "verify") /\ (s # NoClass => Free(t, s) /\ IsVerified(s))
  /\ stack' = Jump(t, "methods")
  /\ lockOf' = [x \in Class |-> IF x = s THEN Nobody ELSE lockOf[x]]
  /\ UNCHANGED <<status, clinitBy, ret, clinits, got, checkFailed, inits>>

(* then the methods of c are checked and c gets its status.  A call from   *)
(* InitializeClass goes on there, one from VerifyClass returns.            *)
Verdict(t, s) ==
  LET c == Top(t).c
      nested == Len(stack[t]) > 1 /\ stack[t][2].at = "verify"
  IN
  /\ status' = [status EXCEPT ![c] = s]
  /\ stack' = IF nested THEN [stack EXCEPT ![t] = Tail(@)] ELSE Jump(t, "lock")
  /\ checkFailed' = (checkFailed \/ status[c] # "verifying" \/ lockOf[c] # t)
  /\ UNCHANGED <<clinitBy, ret, clinits, got, inits>>

SuperRejected(t) ==
  LET s == Super[Top(t).c] IN
  /\ At(t, "verify") /\ s # NoClass /\ Free(t, s) /\ status[s] # "resolved" /\ ~IsVerified(s)
  /\ lockOf' = [lockOf EXCEPT ![s] = Nobody]
  /\ Verdict(t, "error")

MethodsVerified(t) == At(t, "methods") /\ Verdict(t, "verified") /\ UNCHANGED lockOf
MethodsRejected(t) == At(t, "methods") /\ Verdict(t, "error") /\ UNCHANGED lockOf

-----------------------------------------------------------------------------

(* The rest of InitializeClass: the superclass, which is skipped when it   *)
(* is initialized, then <clinit>, which may throw, then the new status.    *)
InitSuper(t) ==
  LET s == Super[Top(t).c] IN
  /\ At(t, "super") /\ s # NoClass /\ status[s] # "initialized"
  /\ Push(t, "super_back", s, "begin")
  /\ UNCHANGED <<status, clinitBy, lockOf, ret, clinits, got, checkFailed, inits>>

SuperFailed(t) ==
  LET c == Top(t).c IN
  /\ At(t, "super_back") /\ ~ret[t] /\ Free(t, c)
  /\ SetStatusAndReturn(t, c, "error", FALSE, status[Super[c]] = "error")
  /\ UNCHANGED <<clinitBy, clinits, inits>>

\* Mutant: the superclass may have failed.
BeginClinitAnyway(t) ==
  LET c == Top(t).c
      s == Super[c]
  IN
  /\ \/ At(t, "super") /\ (s # NoClass => status[s] = "initialized")
     \/ At(t, "super_back")
  /\ stack' = [stack EXCEPT ![t] = <<[c |-> c, at |-> "clinit", todo |-> Uses[c]]>> \o Tail(@)]
  /\ clinits' = [clinits EXCEPT ![c] = @ + 1]
  /\ UNCHANGED <<status, clinitBy, lockOf, ret, got, checkFailed, inits>>

BeginClinit(t) ==
  LET c == Top(t).c
      s == Super[c]
  IN
  /\ \/ At(t, "super") /\ (s # NoClass => status[s] = "initialized")
     \/ At(t, "super_back") /\ ret[t]
  /\ stack' = [stack EXCEPT ![t] = <<[c |-> c, at |-> "clinit", todo |-> Uses[c]]>> \o Tail(@)]
  /\ clinits' = [clinits EXCEPT ![c] = @ + 1]
  /\ UNCHANGED <<status, clinitBy, lockOf, ret, got, checkFailed, inits>>

ClinitUses(t, c) ==
  /\ At(t, "clinit") /\ c \in Top(t).todo
  /\ stack' = [stack EXCEPT ![t] = <<Frame(c, "begin")>>
                                   \o (<<[Top(t) EXCEPT !.todo = @ \ {c}]>> \o Tail(@))]
  /\ UNCHANGED <<status, clinitBy, lockOf, ret, clinits, got, checkFailed, inits>>

Finish(t, good) ==
  LET c == Top(t).c IN
  /\ At(t, "clinit") /\ Free(t, c)
  /\ good => Top(t).todo = {}
  /\ SetStatusAndReturn(t, c, IF good THEN "initialized" ELSE "error", good, TRUE)
  /\ UNCHANGED <<clinitBy, clinits, inits>>

ClinitDone(t) == Finish(t, TRUE)
ClinitThrows(t) == Finish(t, FALSE)

-----------------------------------------------------------------------------
ClassStep(t) ==
  \/ LookUnlocked(t) \/ LookLocked(t) \/ Claim(t) \/ Misfit(t) \/ Woken(t)
  \/ VerifySuper(t) \/ SuperVerified(t) \/ SuperRejected(t) \/ MethodsVerified(t) \/ MethodsRejected(t)
  \/ InitSuper(t) \/ SuperFailed(t) \/ BeginClinit(t)
  \/ (\E c \in Class : ClinitUses(t, c)) \/ ClinitDone(t) \/ ClinitThrows(t)

ClassNext ==
  \E t \in Thread : ClassStep(t) \/ WakeSpuriously(t) \/ \E c \in Class : EnsureInitialized(t, c)

(* Every thread gets its turns; an initializer ends.                       *)
ClassFairness == \A t \in Thread : WF_classVars(ClassStep(t))

ClassSpec == ClassInitInit /\ [][ClassNext]_classVars /\ ClassFairness

-----------------------------------------------------------------------------
(* Every variable has its type.                                           *)
ClassTypeOK ==
  /\ status \in [Class -> {"resolved", "verifying", "verified", "initializing",
                           "initialized", "error"}]
  /\ clinitBy \in [Class -> Thread \cup {Nobody}] /\ lockOf \in [Class -> Thread \cup {Nobody}]
  /\ \A t \in Thread : \A i \in DOMAIN stack[t] :
        stack[t][i] \in [c : Class, todo : SUBSET Class,
                         at : {"begin", "lock", "wait", "woken", "verify", "methods", "super",
                               "super_back", "clinit"}]
  /\ ret \in [Thread -> BOOLEAN] /\ clinits \in [Class -> Nat]
  /\ got \in [Thread -> SUBSET Class] /\ checkFailed \in BOOLEAN

(* <clinit> of a class runs at most once, and only when its superclass is  *)
(* initialized, or is being initialized further up the same thread.  No    *)
(* CHECK fails on the way: a class becomes erroneous once, and no thread   *)
(* enters the verification of a class that another is verifying.           *)
ClinitOnce ==
  /\ ~checkFailed
  /\ \A c \in Class :
       /\ clinits[c] <= 1
       /\ clinits[c] = 1 /\ Super[c] # NoClass =>
            \/ status[Super[c]] = "initialized"
            \/ clinitBy[Super[c]] = clinitBy[c] /\ clinitBy[c] # Nobody

(* A thread that was told that a class is initialized sees it initialized, *)
(* whatever the other threads do, unless the thread is the one that        *)
(* initializes it.                                                         *)
ToldIsReady ==
  \A t \in Thread : \A c \in got[t] : status[c] = "initialized" \/ clinitBy[c] = t

(* Initialization comes to an end when the initializers depend on each     *)
(* other in no circle.                                                     *)
InitFinishes == \A t \in Thread : []<>~Active(t)
=============================================================================
