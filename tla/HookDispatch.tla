---------------------------- MODULE HookDispatch ----------------------------
(***************************************************************************)
(* handleHookedMethod() of Bridge.java: one call of a hooked method, with  *)
(* the callbacks of a snapshot around the original method.  What a         *)
(* callback does is open: it may set a result or a throwable in the param, *)
(* replace arguments, and throw at any time.                               *)
(*                                                                         *)
(* An outcome is what the param holds: who set it, and whether it is a     *)
(* result or a throwable.                                                  *)
(***************************************************************************)
EXTENDS Integers, Sequences

CONSTANT MaxCallbacks      \* bound: the length of the snapshot

ASSUME DispatchAssumption == MaxCallbacks \in Nat

VARIABLES
  disableHooks,
  length,       \* callbacksLength
  phase, idx,      \* the phase of the call, and beforeIdx or afterIdx, counted from 1
  outcome,      \* result and throwable of the param
  returnEarly,
  args,         \* who changed param.args last, 0 for nobody
  invoked,      \* the args of every invocation of the original method
  log           \* history: everything that was called, and what it did

dispatchVars == <<disableHooks, length, phase, idx, outcome, returnEarly, args, invoked, log>>

Effect == {"nothing", "result", "throwable"}
NoOutcome == [by |-> "nobody", at |-> 0, is |-> "result"]

DispatchInit ==
  /\ disableHooks \in BOOLEAN /\ length \in 0..MaxCallbacks
  /\ phase = "start" /\ idx = 1
  /\ outcome = NoOutcome /\ returnEarly = FALSE
  /\ args = 0 /\ invoked = <<>> /\ log = <<>>

\* invokeOriginalMethodNative() with the arguments as they are.
Invoke(is) ==
  /\ outcome' = [by |-> "original", at |-> 0, is |-> is]
  /\ invoked' = Append(invoked, args)
  /\ log' = Append(log, [who |-> "original", at |-> 0, did |-> is, threw |-> FALSE])

\* Hooks are disabled or there are no callbacks: only the original is called.
Bypass ==
  /\ phase = "start" /\ (disableHooks \/ length = 0)
  /\ \E is \in {"result", "throwable"} : Invoke(is)
  /\ phase' = "done"
  /\ UNCHANGED <<disableHooks, length, idx, returnEarly, args>>

BeginDispatch ==
  /\ phase = "start" /\ ~disableHooks /\ length > 0
  /\ phase' = "before"
  /\ UNCHANGED <<disableHooks, length, idx, outcome, returnEarly, args, invoked, log>>

Called(who, did, threw) == log' = Append(log, [who |-> who, at |-> idx, did |-> did, threw |-> threw])
Advance(more, where) == idx' = idx + 1 /\ phase' = IF more /\ idx < length THEN "before" ELSE where

\* A callback before the method.  One that throws leaves no outcome behind;
\* one that sets an outcome ends the loop.
Before ==
  /\ phase = "before"
  /\ \E did \in Effect, threw \in BOOLEAN, changes \in {args, idx} :
       /\ Called("before", did, threw)
       /\ args' = changes
       /\ outcome' = IF threw THEN NoOutcome
                     ELSE IF did = "nothing" THEN outcome ELSE [by |-> "before", at |-> idx, is |-> did]
       /\ returnEarly' = (~threw /\ did # "nothing")
       /\ Advance(~returnEarly', "original")
  /\ UNCHANGED <<disableHooks, length, invoked>>

\* Mutant: the callback that returned early gets no call afterwards.
OriginalSkipsOne ==
  /\ phase = "original"
  /\ idx' = IF returnEarly THEN idx - 2 ELSE idx - 1
  /\ phase' = IF idx' > 0 THEN "after" ELSE "done"
  /\ IF returnEarly
     THEN UNCHANGED <<outcome, returnEarly, invoked, log>>
     ELSE (\E is \in {"result", "throwable"} : Invoke(is)) /\ returnEarly' = TRUE
  /\ UNCHANGED <<disableHooks, length, args>>

\* The original, unless a callback has given an outcome.
Original ==
  /\ phase = "original"
  /\ idx' = idx - 1
  /\ phase' = "after"
  /\ IF returnEarly
     THEN UNCHANGED <<outcome, returnEarly, invoked, log>>
     ELSE (\E is \in {"result", "throwable"} : Invoke(is)) /\ returnEarly' = TRUE
  /\ UNCHANGED <<disableHooks, length, args>>

\* The arguments do not fit the method: the exception of the invocation itself
\* ends the call at once.
OriginalRefused ==
  /\ phase = "original" /\ ~returnEarly
  /\ phase' = "refused"
  /\ UNCHANGED <<disableHooks, length, idx, outcome, returnEarly, args, invoked, log>>

\* A callback after the method; the outcome is put back if it throws.
After ==
  /\ phase = "after"
  /\ \E did \in Effect, threw \in BOOLEAN, changes \in {args, idx} :
       /\ Called("after", did, threw)
       /\ args' = changes
       /\ outcome' = IF threw \/ did = "nothing" THEN outcome ELSE [by |-> "after", at |-> idx, is |-> did]
  /\ idx' = idx - 1 /\ phase' = IF idx > 1 THEN "after" ELSE "done"
  /\ UNCHANGED <<disableHooks, length, returnEarly, invoked>>

DispatchNext == Bypass \/ BeginDispatch \/ Before \/ Original \/ OriginalRefused \/ After

DispatchSpec == DispatchInit /\ [][DispatchNext]_dispatchVars

-----------------------------------------------------------------------------
(* What is checked.                                                        *)

Entry == [who : {"before", "original", "after"}, at : 0..MaxCallbacks, did : Effect, threw : BOOLEAN]

\* Every variable has its type.
DispatchTypeOK ==
  /\ disableHooks \in BOOLEAN /\ returnEarly \in BOOLEAN
  /\ length \in 0..MaxCallbacks /\ idx \in 0..MaxCallbacks + 1
  /\ phase \in {"start", "before", "original", "after", "done", "refused"}
  /\ outcome \in [by : {"nobody", "before", "original", "after"}, at : 0..MaxCallbacks, is : {"result", "throwable"}]
  /\ args \in 0..MaxCallbacks /\ invoked \in Seq(0..MaxCallbacks) /\ log \in Seq(Entry)

\* An entry that counts: of the original, or of a callback that set something
\* and did not throw.
Sets(e) == e.did # "nothing" /\ ~e.threw
Early == \E i \in DOMAIN log : log[i].who = "before" /\ Sets(log[i])

\* The call consists of the first halves of callbacks 1 to n, the original
\* unless one of them set an outcome, and the second halves of n, n - 1, ..., m of them.
Nested(n, m) ==
  LET first == IF Early THEN 0 ELSE 1 IN
  /\ Len(log) = n + first + m
  /\ \A i \in 1..n : log[i].who = "before" /\ log[i].at = i
  /\ first = 1 => log[n + 1].who = "original"
  /\ \A i \in 1..m : log[n + first + i].who = "after" /\ log[n + first + i].at = n + 1 - i

\* The param holds what was set last.
HoldsLast ==
  \E i \in DOMAIN log :
    /\ Sets(log[i]) /\ \A j \in DOMAIN log : j > i => ~Sets(log[j])
    /\ outcome = [by |-> log[i].who, at |-> log[i].at, is |-> log[i].did]

\* What handleHookedMethod() promises, whatever the callbacks do.  The caller
\* gets what was set last, by the original or by a callback that did not
\* throw.  Callbacks nest: those whose first half ran, and only those, have
\* their second half run, in the opposite order.  The original runs once, and
\* not at all when a callback has set an outcome before it; all callbacks run
\* unless one has.
CallContract ==
  phase = "done" =>
    /\ HoldsLast
    /\ \E n \in 0..length : Nested(n, n) /\ (~disableHooks /\ ~Early => n = length)

\* "ignoring what the unexpectedly exiting callback did": the original is
\* called with arguments no callback that threw has changed.
ThrowerIsIgnored ==
  \A i \in 1..Len(invoked) : \A j \in 1..Len(log) :
    log[j].who = "before" /\ log[j].threw => invoked[i] # log[j].at
=============================================================================
