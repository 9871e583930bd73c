---------------------------- MODULE HookRegistry ----------------------------
(***************************************************************************)
(* hookMethod() and unhookMethod() of Bridge.java with hookMethodNative()  *)
(* of bridge.cpp, for one method, while other threads call the method.     *)
(*                                                                         *)
(* A callback is its rank in the order of BridgeCallback.compareTo().      *)
(***************************************************************************)
EXTENDS Integers, Sequences, FiniteSets

CONSTANTS Callback,     \* the callbacks, by rank
          Hooker,       \* the threads that call hookMethod() and unhookMethod()
          Caller,       \* the threads that call the method
          None,
          MaxOps, MaxCalls   \* bounds: calls of the former, and of the latter

ASSUME RegistryAssumption ==
  /\ Callback \subseteq Nat /\ IsFiniteSet(Callback)
  /\ MaxOps \in Nat /\ MaxCalls \in Nat
  /\ None \notin Callback

VARIABLES
  known,       \* whether sHookedMethodCallbacks has the method: "no" or "yes"
  elements,    \* the array of its CopyOnWriteSortedSet
  method,      \* the Method struct: "plain", "torn" while it is patched, or "hooked"
  hpc, hcb,    \* a hooking thread: where it is, its callback
  cpc, snap,   \* a calling thread: where it is, callbacksSnapshot
  hooked,      \* history: the callbacks whose hookMethod() has returned
  unhooked,    \* history: the callbacks whose unhookMethod() has returned
  clash,       \* history: the threads whose operation met another on its callback
  due, barred, \* history: hooked and unhooked when a call began, less what is open again
  failed,      \* history: whether hookMethodNative() has thrown: "no" or "yes"
  ops, calls

registry == <<known, elements, method>>
caller == <<cpc, snap, due, barred>>
vars == <<registry, hpc, hcb, caller, hooked, unhooked, clash, failed, ops, calls>>

Init ==
  /\ known = "no" /\ elements = <<>> /\ method = "plain"
  /\ hpc = [t \in Hooker |-> "idle"] /\ hcb = [t \in Hooker |-> None]
  /\ cpc = [c \in Caller |-> "idle"] /\ snap = [c \in Caller |-> <<>>]
  /\ due = [c \in Caller |-> {}] /\ barred = [c \in Caller |-> {}]
  /\ hooked = {} /\ unhooked = {} /\ clash = {} /\ failed = "no"
  /\ ops = 0 /\ calls = 0

Goto(t, where) == hpc' = [hpc EXCEPT ![t] = where]

\* Thread t takes up an operation on callback cb: what was settled about cb is
\* open again, and nothing is settled by operations that overlap.
Begin(t, cb, where) ==
  LET rivals == {u \in Hooker \ {t} : hpc[u] # "idle" /\ hcb[u] = cb} IN
  /\ hpc[t] = "idle" /\ ops < MaxOps /\ ops' = ops + 1
  /\ hcb' = [hcb EXCEPT ![t] = cb]
  /\ Goto(t, where)
  /\ clash' = IF rivals = {} THEN clash \ {t} ELSE clash \cup rivals \cup {t}
  /\ hooked' = hooked \ {cb} /\ unhooked' = unhooked \ {cb}
  /\ due' = [c \in Caller |-> due[c] \ {cb}] /\ barred' = [c \in Caller |-> barred[c] \ {cb}]
  /\ UNCHANGED <<registry, cpc, snap, failed, calls>>

Settled(t) == IF t \in clash THEN {} ELSE {hcb[t]}

\* hookMethod() or unhookMethod() returns.
HookReturns(t) == Goto(t, "idle") /\ hooked' = hooked \cup Settled(t)
UnhookReturns(t) == Goto(t, "idle") /\ unhooked' = unhooked \cup Settled(t)

-----------------------------------------------------------------------------
(* CopyOnWriteSortedSet: each operation makes a new array under the lock.  *)

Member(s, e) == \E i \in DOMAIN s : s[i] = e

Ascending(s) == \A i, j \in DOMAIN s : i < j => s[i] < s[j]

\* Arrays.sort() of an array in which nothing is twice.
Sorted(s) ==
  CHOOSE q \in [DOMAIN s -> {s[i] : i \in DOMAIN s}] :
    Ascending(q) /\ \A i \in DOMAIN s : Member(q, s[i])

Added(s, e) == IF Member(s, e) THEN s ELSE Sorted(Append(s, e))

IndexOf(s, e) == CHOOSE i \in DOMAIN s : s[i] = e
Without(s, j) == [i \in 1..Len(s) - 1 |-> IF i < j THEN s[i] ELSE s[i + 1]]

\* Mutant: the last element is never removed.
RemovedBefore(s, e) ==
  IF Member(s, e) /\ IndexOf(s, e) < Len(s) THEN Without(s, IndexOf(s, e)) ELSE s

Removed(s, e) == IF Member(s, e) THEN Without(s, IndexOf(s, e)) ELSE s

-----------------------------------------------------------------------------
(* hookMethod().                                                           *)

HookMethod(t, cb) == Begin(t, cb, "lookup")

\* Under the lock of the table.  The thread that makes the entry is to hook
\* the method natively.
Lookup(t) ==
  /\ hpc[t] = "lookup"
  /\ Goto(t, IF known = "yes" THEN "add" ELSE "add_new") /\ known' = "yes"
  /\ UNCHANGED <<elements, method, hcb, caller, hooked, unhooked, clash, failed, ops, calls>>

\* The callback of a thread that found the entry: hookMethod() is done, though
\* the method may not be hooked natively yet.
AddCallback(t) ==
  /\ hpc[t] = "add"
  /\ elements' = Added(elements, hcb[t])
  /\ HookReturns(t)
  /\ UNCHANGED <<known, method, hcb, caller, unhooked, clash, failed, ops, calls>>

AddFirstCallback(t) ==
  /\ hpc[t] = "add_new"
  /\ elements' = Added(elements, hcb[t])
  /\ Goto(t, "native")
  /\ UNCHANGED <<known, method, hcb, caller, hooked, unhooked, clash, failed, ops, calls>>

\* The method has no internal representation: an exception leaves hookMethod(),
\* and the table and the array as they are.
NativeFails(t) ==
  /\ hpc[t] = "native"
  /\ failed' = "yes"
  /\ Goto(t, "idle")
  /\ UNCHANGED <<registry, hcb, caller, hooked, unhooked, clash, ops, calls>>

\* Of nativeFunc and insns one is set.  The method cannot be hooked already:
\* only the thread that made the entry gets here, and only once.
PatchMethod(t) ==
  /\ hpc[t] = "native" /\ method = "plain"
  /\ method' = "torn"
  /\ Goto(t, "patched")
  /\ UNCHANGED <<known, elements, hcb, caller, hooked, unhooked, clash, failed, ops, calls>>

\* Mutant: the thread returns without the second store.
PatchDoneEarly(t) ==
  /\ hpc[t] = "patched"
  /\ HookReturns(t)
  /\ UNCHANGED <<registry, hcb, caller, unhooked, clash, failed, ops, calls>>

\* Both are set: the handler and the hook info it reads.
PatchDone(t) ==
  /\ hpc[t] = "patched"
  /\ method' = "hooked"
  /\ HookReturns(t)
  /\ UNCHANGED <<known, elements, hcb, caller, unhooked, clash, failed, ops, calls>>

-----------------------------------------------------------------------------
(* unhookMethod().                                                         *)

UnhookMethod(t, cb) == Begin(t, cb, "unhook")

\* The method may have no callbacks at all.
UnhookLookup(t) ==
  /\ hpc[t] = "unhook"
  /\ IF known = "yes" THEN Goto(t, "remove") /\ UNCHANGED unhooked ELSE UnhookReturns(t)
  /\ UNCHANGED <<registry, hcb, caller, hooked, clash, failed, ops, calls>>

RemoveCallback(t) ==
  /\ hpc[t] = "remove"
  /\ elements' = Removed(elements, hcb[t])
  /\ UnhookReturns(t)
  /\ UNCHANGED <<known, method, hcb, caller, hooked, clash, failed, ops, calls>>

HookerStep(t) ==
  \/ Lookup(t) \/ AddCallback(t) \/ AddFirstCallback(t) \/ NativeFails(t)
  \/ PatchMethod(t) \/ PatchDone(t) \/ UnhookLookup(t) \/ RemoveCallback(t)

-----------------------------------------------------------------------------
(* A call of the method.                                                   *)

\* It runs the original code or the handler.  While the method is torn, the
\* handler has no hook info or the interpreter no instructions: the end of
\* such a call is all that is kept of it.
Call(c) ==
  /\ cpc[c] = "idle" /\ calls < MaxCalls /\ calls' = calls + 1
  /\ cpc' = [cpc EXCEPT ![c] = method]
  /\ due' = [due EXCEPT ![c] = hooked] /\ barred' = [barred EXCEPT ![c] = unhooked]
  /\ UNCHANGED <<registry, hpc, hcb, snap, hooked, unhooked, clash, failed, ops>>

\* handleHookedMethod() takes its snapshot; HookDispatch is what follows.
Snapshot(c) ==
  /\ cpc[c] = "hooked"
  /\ cpc' = [cpc EXCEPT ![c] = "callbacks"]
  /\ snap' = [snap EXCEPT ![c] = elements]
  /\ UNCHANGED <<registry, hpc, hcb, due, barred, hooked, unhooked, clash, failed, ops, calls>>

CallReturns(c) ==
  /\ cpc[c] \in {"plain", "torn", "callbacks"}
  /\ cpc' = [cpc EXCEPT ![c] = "idle"] /\ snap' = [snap EXCEPT ![c] = <<>>]
  /\ due' = [due EXCEPT ![c] = {}] /\ barred' = [barred EXCEPT ![c] = {}]
  /\ UNCHANGED <<registry, hpc, hcb, hooked, unhooked, clash, failed, ops, calls>>

Next ==
  \/ \E t \in Hooker : HookerStep(t)
  \/ \E t \in Hooker, cb \in Callback : HookMethod(t, cb) \/ UnhookMethod(t, cb)
  \/ \E c \in Caller : Call(c) \/ Snapshot(c) \/ CallReturns(c)

Spec == Init /\ [][Next]_vars

\* A thread inside hookMethod() or unhookMethod() goes on.
FairSpec == Spec /\ \A t \in Hooker : WF_vars(HookerStep(t))

-----------------------------------------------------------------------------
(* What is checked.                                                        *)

Arrays == UNION {[1..n -> Callback] : n \in 0..Cardinality(Callback)}

\* Every variable has its type; the array has room for each callback once.
TypeOK ==
  /\ known \in {"no", "yes"} /\ failed \in {"no", "yes"}
  /\ elements \in Arrays /\ method \in {"plain", "torn", "hooked"}
  /\ hpc \in [Hooker -> {"idle", "lookup", "add", "add_new", "native", "patched", "unhook", "remove"}]
  /\ hcb \in [Hooker -> Callback \cup {None}] /\ clash \subseteq Hooker
  /\ cpc \in [Caller -> {"idle", "plain", "torn", "hooked", "callbacks"}]
  /\ snap \in [Caller -> Arrays]
  /\ due \in [Caller -> SUBSET Callback] /\ barred \in [Caller -> SUBSET Callback]
  /\ hooked \subseteq Callback /\ unhooked \subseteq Callback
  /\ ops \in 0..MaxOps /\ calls \in 0..MaxCalls

\* A call that reaches the handler runs every callback that was hooked when it
\* began, and none whose unhookMethod() had returned by then, whatever is
\* hooked and unhooked meanwhile, each once and in the order of compareTo().
HandlerIsExact ==
  \A c \in Caller : cpc[c] = "callbacks" =>
    /\ \A cb \in due[c] : Member(snap[c], cb)
    /\ \A cb \in barred[c] : ~Member(snap[c], cb)
    /\ Ascending(snap[c])

\* Once every hookMethod() has returned, the calls of a method with hooked
\* callbacks are intercepted, unless hookMethodNative() threw.
SettledIsHooked ==
  hooked # {} /\ (\A t \in Hooker : hpc[t] = "idle") => method = "hooked" \/ failed = "yes"

\* A callback whose hookMethod() returned before the method was hooked by
\* another thread gets its calls in the end, with the same exception.
HookTakesHold ==
  \A cb \in Callback : (cb \in hooked) ~> (cb \notin hooked \/ method = "hooked" \/ failed = "yes")

\* "Intercept every call to the specified method and call a handler function
\* instead": no call that begins after a hookMethod() has returned, without an
\* exception, runs the original code alone.
EveryCallIntercepted ==
  failed = "no" => \A c \in Caller : cpc[c] = "plain" => due[c] = {}

=============================================================================
