---------------------------- MODULE BridgeProofs ----------------------------
(***************************************************************************)
(* Proofs about the bridge, for any callbacks, resources, readers and      *)
(* threads: the hooking of a method (HookRegistry), the dispatch of a      *)
(* hooked call (HookDispatch), the replacements of resources               *)
(* (ResourceReplacements) and the preferences of a module                  *)
(* (PreferencesReader).                                                    *)
(***************************************************************************)
EXTENDS SequenceTheorems, FiniteSetTheorems, TLAPS,
        HookRegistry, HookDispatch, ResourceReplacements, PreferencesReader

-----------------------------------------------------------------------------
(* HookRegistry: the method is hooked in the end.                          *)

Installing == {"add_new", "native", "patched"}

\* Inductive.  The entry of the table stands for a promise: as long as the
\* method is not hooked, a thread is on its way to hook it, or has failed.  No
\* callback counts as hooked, and no thread adds one, without the entry.
Promise ==
  /\ hpc \in [Hooker -> {"idle", "lookup", "add", "unhook", "remove"} \cup Installing]
  /\ known \in {"no", "yes"}
  /\ hooked # {} => known = "yes"
  /\ \A t \in Hooker : hpc[t] \in {"add"} \cup Installing => known = "yes"
  /\ known = "yes" => failed = "yes" \/ method = "hooked" \/ \E t \in Hooker : hpc[t] \in Installing

\* The table is empty at first.
LEMMA InitPromise == Init => Promise
BY Zenon DEF Init, Promise, Installing

\* The step of a thread inside hookMethod() or unhookMethod(): the one that
\* installs the hook stays on its way until it is there or has failed.
LEMMA HookerPromise ==
  ASSUME Promise, NEW t \in Hooker, HookerStep(t)
  PROVE  Promise'
<1>1. CASE Lookup(t)
  <2>1. known' = "yes" /\ hpc' \in [Hooker -> {"idle", "lookup", "add", "unhook", "remove"} \cup Installing]
    BY Zenon, <1>1 DEF Lookup, Goto, Promise, Installing
  <2>2. CASE known = "yes"
    <3>1. \A u \in Hooker : hpc[u] \in Installing => hpc'[u] \in Installing
      BY Zenon, <1>1, <2>2 DEF Lookup, Goto, Promise, Installing
    <3>2. QED BY Zenon, <1>1, <2>1, <2>2, <3>1 DEF Lookup, Promise
  <2>3. CASE known # "yes"
    <3>1. hpc'[t] \in Installing
      BY Zenon, <1>1, <2>3 DEF Lookup, Goto, Promise, Installing
    <3>2. QED BY Zenon, <1>1, <2>1, <3>1 DEF Lookup, Promise
  <2>4. QED BY Zenon, <2>2, <2>3
<1>2. CASE AddCallback(t)
  <2>1. \A u \in Hooker : hpc[u] \in Installing => hpc'[u] = hpc[u]
    BY Zenon, <1>2 DEF AddCallback, HookReturns, Goto, Promise, Installing
  <2>2. known = "yes"
    BY Zenon, <1>2 DEF AddCallback, Promise
  <2>3. QED BY Zenon, <1>2, <2>1, <2>2 DEF AddCallback, HookReturns, Goto, Promise, Installing
<1>3. CASE AddFirstCallback(t) \/ PatchMethod(t)
  <2>1. hpc'[t] \in Installing /\ hpc[t] \in Installing
    BY Zenon, <1>3 DEF AddFirstCallback, PatchMethod, Goto, Promise, Installing
  <2>2. hpc' \in [Hooker -> {"idle", "lookup", "add", "unhook", "remove"} \cup Installing]
    BY Zenon, <1>3 DEF AddFirstCallback, PatchMethod, Goto, Promise, Installing
  <2>3. known = "yes" /\ known' = known
    BY Zenon, <1>3, <2>1 DEF AddFirstCallback, PatchMethod, Promise
  <2>4. QED BY Zenon, <1>3, <2>1, <2>2, <2>3 DEF AddFirstCallback, PatchMethod, Promise
<1>4. CASE NativeFails(t)
  BY Zenon, <1>4 DEF NativeFails, registry, Goto, Promise, Installing
<1>5. CASE PatchDone(t)
  <2>1. known = "yes" /\ known' = known
    BY Zenon, <1>5 DEF PatchDone, Promise, Installing
  <2>2. QED BY Zenon, <1>5, <2>1 DEF PatchDone, HookReturns, Goto, Promise, Installing
<1>6. CASE UnhookLookup(t) \/ RemoveCallback(t)
  <2>1. \A u \in Hooker : hpc[u] \in Installing => hpc'[u] = hpc[u]
    BY Zenon, <1>6 DEF UnhookLookup, RemoveCallback, UnhookReturns, Goto, Promise, Installing
  <2>2. /\ hpc' \in [Hooker -> {"idle", "lookup", "add", "unhook", "remove"} \cup Installing]
        /\ \A u \in Hooker : hpc'[u] = hpc[u] \/ hpc'[u] \in {"idle", "remove"}
    BY Zenon, <1>6 DEF UnhookLookup, RemoveCallback, UnhookReturns, Goto, Promise, Installing
  <2>3. known' = known /\ method' = method /\ failed' = failed /\ hooked' = hooked
    BY Zenon, <1>6 DEF UnhookLookup, RemoveCallback, registry
  <2>4. QED BY Zenon, <2>1, <2>2, <2>3 DEF Promise, Installing
<1>7. QED BY Zenon, <1>1, <1>2, <1>3, <1>4, <1>5, <1>6 DEF HookerStep

\* A new operation, and the calls of the method, leave the promise alone.
LEMMA NextPromise == Promise /\ [Next]_vars => Promise'
<1> SUFFICES ASSUME Promise, [Next]_vars PROVE Promise'
  BY Zenon
<1>1. ASSUME NEW t \in Hooker, HookerStep(t) PROVE Promise'
  BY Zenon, <1>1, HookerPromise
<1>2. ASSUME NEW t \in Hooker, NEW cb \in Callback, HookMethod(t, cb) \/ UnhookMethod(t, cb) PROVE Promise'
  <2>1. PICK where \in {"lookup", "unhook"} : Begin(t, cb, where)
    BY Zenon, <1>2 DEF HookMethod, UnhookMethod
  <2>2. \A u \in Hooker : hpc'[u] = IF u = t THEN where ELSE hpc[u]
    BY Zenon, <2>1 DEF Begin, Goto, Promise
  <2>3. hpc[t] = "idle" /\ hpc' \in [Hooker -> {"idle", "lookup", "add", "unhook", "remove"} \cup Installing]
    BY Zenon, <2>1 DEF Begin, Goto, Promise
  <2>4. hooked' \subseteq hooked /\ known' = known /\ method' = method /\ failed' = failed
    BY Zenon, <2>1 DEF Begin, registry
  <2>5. QED BY Zenon, <2>2, <2>3, <2>4 DEF Promise, Installing
<1>3. ASSUME NEW c \in Caller, Call(c) \/ Snapshot(c) \/ CallReturns(c) PROVE Promise'
  BY Zenon, <1>3 DEF Call, Snapshot, CallReturns, registry, Promise
<1>4. CASE UNCHANGED vars
  BY Zenon, <1>4 DEF vars, registry, Promise
<1>5. QED BY Zenon, <1>1, <1>2, <1>3, <1>4 DEF Next

\* hookMethod(): when every thread has returned, a method with hooked callbacks
\* is hooked natively, unless hookMethodNative() threw.
THEOREM InstalledInTheEnd == Spec => []SettledIsHooked
<1>1. Promise => SettledIsHooked
  BY Zenon DEF Promise, SettledIsHooked, Installing
<1>2. QED BY InitPromise, NextPromise, <1>1, PTL DEF Spec

-----------------------------------------------------------------------------
(* HookRegistry: the array of callbacks.                                   *)

Below == {p \in Nat \X Nat : p[1] < p[2]}

\* The order of the natural numbers is well-founded.
LEMMA BelowWellFounded == IsWellFoundedOn(Below, Nat)
<1>1. OpToRel(<, Nat) = Below
  BY Zenon DEF OpToRel, Below
<1> QED BY Zenon, <1>1, NatLessThanWellFounded

\* A set of natural numbers has a least member.
LEMMA LeastNatural ==
  ASSUME NEW S \in SUBSET Nat, S # {}
  PROVE  \E n \in S : \A m \in S : n <= m
<1>1. PICK x \in S : \A y \in S : ~(<<y, x>> \in Below)
  BY Zenon, BelowWellFounded, WFMin
<1>2. \A m \in Nat : ~(<<m, x>> \in Below) => x <= m
  BY DEF Below
<1>3. \A m \in S : x <= m
  BY Zenon, <1>1, <1>2
<1> QED BY Zenon, <1>3

\* CopyOnWriteSortedSet.add(): an ascending array stays ascending, and has the
\* new callback besides those it had.
LEMMA AddedIs ==
  ASSUME NEW s \in Seq(Nat), Ascending(s), NEW e \in Nat
  PROVE  /\ Added(s, e) \in Seq(Nat) /\ Ascending(Added(s, e))
         /\ \A x : Member(Added(s, e), x) <=> Member(s, x) \/ x = e
<1>1. CASE Member(s, e)
  BY Zenon, <1>1 DEF Added, Member
<1>2. CASE ~Member(s, e)
  <2> DEFINE n == Len(s)
             a == Append(s, e)
  <2>1. n \in Nat /\ s \in [1..n -> Nat] /\ DOMAIN s = 1..n
    BY Zenon, LenProperties
  <2>3. PICK k \in {i \in 1..n : s[i] > e} \cup {n + 1} :
          \A m \in {i \in 1..n : s[i] > e} \cup {n + 1} : k <= m
    <3>1. {i \in 1..n : s[i] > e} \cup {n + 1} \in SUBSET Nat
      BY <2>1
    <3> QED BY Zenon, <3>1, LeastNatural
  <2>4. k \in 1..n + 1 /\ (\A i \in 1..n : i < k => s[i] < e) /\ (\A i \in 1..n : k <= i => e < s[i])
    <3>1. k \in 1..n + 1
      BY <2>1, <2>3
    <3>2. \A i \in 1..n : i < k => s[i] < e
      BY <2>1, <2>3, <1>2, <3>1 DEF Member
    <3>3. ASSUME NEW i \in 1..n, k <= i PROVE e < s[i]
      BY SMTT(20), <2>1, <2>3, <3>1, <3>3 DEF Ascending
    <3> QED BY Zenon, <3>1, <3>2, <3>3
  <2> DEFINE q == [i \in 1..n + 1 |-> IF i < k THEN s[i] ELSE IF i = k THEN e ELSE s[i - 1]]
             R == {a[i] : i \in DOMAIN a}
  <2>5. DOMAIN a = 1..n + 1 /\ (\A i \in 1..n : a[i] = s[i]) /\ a[n + 1] = e
    BY <2>1, AppendProperties
  <2>6. q \in [DOMAIN a -> R]
    BY <2>1, <2>4, <2>5
  <2>7. Ascending(q)
    <3> SUFFICES ASSUME NEW i \in 1..n + 1, NEW j \in 1..n + 1, i < j PROVE q[i] < q[j]
      BY Zenon DEF Ascending
    <3>1. CASE j < k
      BY SMTT(20), <3>1, <2>1, <2>4 DEF Ascending
    <3>2. CASE j = k
      BY <3>2, <2>1, <2>4 DEF Ascending
    <3>3. CASE j > k /\ i < k
      BY <3>3, <2>1, <2>4 DEF Ascending
    <3>4. CASE j > k /\ i = k
      BY <3>4, <2>1, <2>4 DEF Ascending
    <3>5. CASE i > k
      <4>1. q[i] = s[i - 1] /\ q[j] = s[j - 1]
        BY <3>5, <2>1, <2>4
      <4>2. i - 1 \in DOMAIN s /\ j - 1 \in DOMAIN s /\ i - 1 < j - 1
        BY <3>5, <2>1, <2>4
      <4> QED BY Zenon, <4>1, <4>2 DEF Ascending
    <3> QED BY <2>1, <2>4, <3>1, <3>2, <3>3, <3>4, <3>5
  <2>8. \A i \in DOMAIN a : Member(q, a[i])
    <3>1. ASSUME NEW i \in 1..n, i < k PROVE Member(q, s[i])
      BY <3>1, <2>1, <2>4 DEF Member
    <3>2. ASSUME NEW i \in 1..n, k <= i PROVE Member(q, s[i])
      <4>1. i + 1 \in 1..n + 1 /\ q[i + 1] = s[i]
        BY <3>2, <2>1, <2>4
      <4> QED BY Zenon, <4>1 DEF Member
    <3>3. Member(q, e)
      <4>1. k \in DOMAIN q /\ q[k] = e
        BY <2>4, <2>1
      <4> QED BY Zenon, <4>1 DEF Member
    <3> QED BY <2>1, <2>4, <2>5, <3>1, <3>2, <3>3
  <2>9. /\ Sorted(a) \in [DOMAIN a -> R] /\ Ascending(Sorted(a))
        /\ \A i \in DOMAIN a : Member(Sorted(a), a[i])
    <3> HIDE DEF q, a
    <3> QED BY Zenon, <2>6, <2>7, <2>8 DEF Sorted
  <2>10. Added(s, e) = Sorted(a)
    BY Zenon, <1>2 DEF Added
  <2>11. \A r \in R : Member(s, r) \/ r = e
    <3> HIDE DEF a
    <3>1. \A i \in DOMAIN a : Member(s, a[i]) \/ a[i] = e
      BY <2>1, <2>5 DEF Member
    <3> QED BY Zenon, <3>1
  <2>12. Sorted(a) \in Seq(Nat)
    <3>1. R \subseteq Nat
      BY Zenon, <2>1, <2>11 DEF Member
    <3>2. Sorted(a) \in [1..n + 1 -> Nat]
      BY Zenon, <2>5, <2>9, <3>1
    <3> QED BY <3>2, <2>1
  <2>13. ASSUME NEW x PROVE Member(Sorted(a), x) <=> Member(s, x) \/ x = e
    <3> HIDE DEF a
    <3>1. ASSUME Member(Sorted(a), x) PROVE Member(s, x) \/ x = e
      BY Zenon, <3>1, <2>1, <2>9, <2>11 DEF Member
    <3>2. ASSUME Member(s, x) PROVE Member(Sorted(a), x)
      <4>1. PICK i \in 1..n : s[i] = x
        BY Zenon, <3>2, <2>1 DEF Member
      <4>2. i \in DOMAIN a /\ a[i] = x
        BY <4>1, <2>1, <2>5
      <4> QED BY Zenon, <4>2, <2>9
    <3>3. Member(Sorted(a), e)
      BY <2>1, <2>5, <2>9
    <3> QED BY Zenon, <3>1, <3>2, <3>3
  <2> QED BY Zenon, <2>9, <2>10, <2>12, <2>13
<1> QED BY Zenon, <1>1, <1>2

\* CopyOnWriteSortedSet.remove(): an ascending array stays ascending, and loses
\* the callback only.
LEMMA RemovedIs ==
  ASSUME NEW s \in Seq(Nat), Ascending(s), NEW e
  PROVE  /\ Removed(s, e) \in Seq(Nat) /\ Ascending(Removed(s, e))
         /\ \A x : Member(Removed(s, e), x) <=> Member(s, x) /\ x # e
<1>1. CASE ~Member(s, e)
  BY Zenon, <1>1 DEF Removed, Member
<1>2. CASE Member(s, e)
  <2> DEFINE n == Len(s)
             k == IndexOf(s, e)
             q == [i \in 1..n - 1 |-> IF i < k THEN s[i] ELSE s[i + 1]]
  <2>1. n \in Nat /\ s \in [1..n -> Nat] /\ DOMAIN s = 1..n
    BY Zenon, LenProperties
  <2>2. k \in 1..n /\ s[k] = e
    BY Zenon, <1>2, <2>1 DEF Member, IndexOf
  <2>3. Removed(s, e) = q
    BY Zenon, <1>2 DEF Removed, Without
  <2> HIDE DEF k
  <2>4. q \in Seq(Nat)
    <3>1. q \in [1..n - 1 -> Nat] /\ n - 1 \in Nat
      BY <2>1, <2>2
    <3> QED BY <3>1
  <2>5. Ascending(q)
    <3> SUFFICES ASSUME NEW i \in 1..n - 1, NEW j \in 1..n - 1, i < j PROVE q[i] < q[j]
      BY Zenon DEF Ascending
    <3>1. CASE j < k
      <4>1. q[i] = s[i] /\ q[j] = s[j]
        BY <3>1, <2>1, <2>2
      <4>2. i \in DOMAIN s /\ j \in DOMAIN s
        BY <3>1, <2>1, <2>2
      <4> QED BY Zenon, <4>1, <4>2 DEF Ascending
    <3>2. CASE i < k /\ k <= j
      <4>1. q[i] = s[i] /\ q[j] = s[j + 1]
        BY <3>2, <2>1, <2>2
      <4>2. i \in DOMAIN s /\ j + 1 \in DOMAIN s /\ i < j + 1
        BY <3>2, <2>1, <2>2
      <4> QED BY Zenon, <4>1, <4>2 DEF Ascending
    <3>3. CASE k <= i
      <4>1. q[i] = s[i + 1] /\ q[j] = s[j + 1]
        BY <3>3, <2>1, <2>2
      <4>2. i + 1 \in DOMAIN s /\ j + 1 \in DOMAIN s /\ i + 1 < j + 1
        BY <3>3, <2>1, <2>2
      <4> QED BY Zenon, <4>1, <4>2 DEF Ascending
    <3> QED BY <2>1, <2>2, <3>1, <3>2, <3>3
  <2>6. ASSUME NEW x PROVE Member(q, x) <=> Member(s, x) /\ x # e
    <3>1. ASSUME Member(q, x) PROVE Member(s, x) /\ x # e
      <4>1. PICK i \in 1..n - 1 : q[i] = x
        BY Zenon, <3>1 DEF Member
      <4>2. CASE i < k
        BY <4>1, <4>2, <2>1, <2>2 DEF Member, Ascending
      <4>3. CASE k <= i
        <5>1. i + 1 \in 1..n /\ s[i + 1] = x
          BY <4>1, <4>3, <2>1, <2>2
        <5>2. e < x
          BY <5>1, <4>3, <2>1, <2>2 DEF Ascending
        <5> QED BY <5>1, <5>2, <2>1, <2>2 DEF Member
      <4> QED BY <4>1, <4>2, <4>3, <2>1, <2>2
    <3>2. ASSUME Member(s, x), x # e PROVE Member(q, x)
      <4>1. PICK i \in 1..n : s[i] = x
        BY Zenon, <3>2, <2>1 DEF Member
      <4>2. i # k
        BY Zenon, <4>1, <3>2, <2>2
      <4>3. CASE i < k
        BY <4>1, <4>3, <2>1, <2>2 DEF Member
      <4>4. CASE k < i
        <5>1. i - 1 \in 1..n - 1 /\ q[i - 1] = x
          BY <4>1, <4>4, <2>1, <2>2
        <5> QED BY Zenon, <5>1 DEF Member
      <4> QED BY <4>2, <4>3, <4>4, <2>1, <2>2
    <3> QED BY Zenon, <3>1, <3>2
  <2> HIDE DEF q
  <2> QED BY Zenon, <2>3, <2>4, <2>5, <2>6
<1> QED BY Zenon, <1>1, <1>2

-----------------------------------------------------------------------------
(* HookRegistry: the handler runs the callbacks it should.                 *)

\* Inductive.  The array is ascending, and empty without an entry.  A callback
\* some thread is working on is not settled, and threads that work on the same
\* one know it; so a callback that is settled is in the array or out of it, and
\* so is the one of a thread about to return.  What is due or barred in a call
\* is settled, since new work on it takes it out.
Registered ==
  /\ elements \in Seq(Nat) /\ Ascending(elements) /\ (known = "no" => elements = <<>>)
  /\ hcb \in [Hooker -> Callback \cup {None}] 
  /\ method \in {"plain", "torn", "hooked"} /\ cpc \in [Caller -> {"idle", "plain", "torn", "hooked", "callbacks"}]
  /\ hooked \subseteq Callback /\ unhooked \subseteq Callback
  /\ snap \in [Caller -> Seq(Nat)] /\ due \in [Caller -> SUBSET Callback] /\ barred \in [Caller -> SUBSET Callback]
  /\ \A t \in Hooker : hpc[t] # "idle" =>
       /\ hcb[t] \in Callback /\ hcb[t] \notin hooked /\ hcb[t] \notin unhooked
       /\ \A u \in Hooker \ {t} : hpc[u] # "idle" /\ hcb[u] = hcb[t] => t \in clash
       /\ hpc[t] \in {"native", "patched"} /\ t \notin clash => Member(elements, hcb[t])
  /\ (\A cb \in hooked : Member(elements, cb)) /\ (\A cb \in unhooked : ~Member(elements, cb))
  /\ \A c \in Caller : due[c] \subseteq hooked /\ barred[c] \subseteq unhooked
  /\ HandlerIsExact

\* Nothing is hooked at first.
LEMMA InitRegistered == Init => Registered
<1> SUFFICES ASSUME Init PROVE Registered
  BY Zenon
<1>1. elements = <<>> /\ <<>> \in Seq(Nat) /\ Ascending(elements)
  BY DEF Init, Ascending
<1>2. snap \in [Caller -> Seq(Nat)]
  BY Zenon, <1>1 DEF Init
<1>3. due \in [Caller -> SUBSET Callback] /\ barred \in [Caller -> SUBSET Callback]
  BY Zenon DEF Init
<1> QED BY Zenon, <1>1, <1>2, <1>3 DEF Init, Registered, HandlerIsExact

\* A thread that goes on inside hookMethod() or unhookMethod(): the array
\* changes by its callback only, and what it settles is so.
LEMMA HookerRegistered ==
  ASSUME Promise, Registered, NEW t \in Hooker, HookerStep(t)
  PROVE  Registered'
<1> USE DEF Registered, Promise, Installing, HandlerIsExact, Goto, caller, registry
<1>0. Callback \subseteq Nat
  BY Zenon, RegistryAssumption
<1>1. CASE Lookup(t)
  BY Zenon, <1>1 DEF Lookup
<1>2. CASE AddCallback(t)
  <2>1. hcb[t] \in Nat /\ hcb[t] \in Callback
    BY Zenon, <1>0, <1>2 DEF AddCallback
  <2>2. /\ elements' \in Seq(Nat) /\ Ascending(elements')
        /\ \A x : Member(elements', x) <=> Member(elements, x) \/ x = hcb[t]
    <3>1. elements' = Added(elements, hcb[t])
      BY Zenon, <1>2 DEF AddCallback
    <3>2. elements \in Seq(Nat) /\ Ascending(elements)
      BY Zenon
    <3> HIDE DEF Registered, Promise
    <3> QED BY Zenon, <2>1, <3>1, <3>2, AddedIs
  <2> QED BY Zenon, <1>2, <2>1, <2>2 DEF AddCallback, HookReturns, Settled
<1>3. CASE AddFirstCallback(t)
  <2>1. hcb[t] \in Nat /\ hcb[t] \in Callback
    BY Zenon, <1>0, <1>3 DEF AddFirstCallback
  <2>2. /\ elements' \in Seq(Nat) /\ Ascending(elements')
        /\ \A x : Member(elements', x) <=> Member(elements, x) \/ x = hcb[t]
    <3>1. elements' = Added(elements, hcb[t])
      BY Zenon, <1>3 DEF AddFirstCallback
    <3>2. elements \in Seq(Nat) /\ Ascending(elements)
      BY Zenon
    <3> HIDE DEF Registered, Promise
    <3> QED BY Zenon, <2>1, <3>1, <3>2, AddedIs
  <2> QED BY Zenon, <1>3, <2>1, <2>2 DEF AddFirstCallback
<1>4. CASE NativeFails(t)
  BY Zenon, <1>4 DEF NativeFails
<1>5. CASE PatchMethod(t)
  BY <1>5 DEF PatchMethod
<1>6. CASE PatchDone(t)
  BY Zenon, <1>6 DEF PatchDone, HookReturns, Settled
<1>7. CASE UnhookLookup(t)
  <2>1. known # "yes" => \A x : ~Member(elements, x)
    BY DEF Member
  <2> QED BY <1>7, <2>1 DEF UnhookLookup, UnhookReturns, Settled
<1>8. CASE RemoveCallback(t)
  <2>1. hcb[t] \in Callback
    BY Zenon, <1>8 DEF RemoveCallback
  <2>2. /\ elements' \in Seq(Nat) /\ Ascending(elements')
        /\ \A x : Member(elements', x) <=> Member(elements, x) /\ x # hcb[t]
    BY <1>8, RemovedIs DEF RemoveCallback
  <2>3. known = "no" => elements' = <<>>
    BY <1>8 DEF RemoveCallback, Removed, Member
  <2> QED BY <1>8, <2>1, <2>2, <2>3 DEF RemoveCallback, UnhookReturns, Settled
<1> QED BY Zenon, <1>1, <1>2, <1>3, <1>4, <1>5, <1>6, <1>7, <1>8 DEF HookerStep

\* A new operation takes its callback out of what is settled, and a call takes
\* the array as it is.
LEMMA NextRegistered == Promise /\ Registered /\ [Next]_vars => Registered'
<1> SUFFICES ASSUME Promise, Registered, [Next]_vars PROVE Registered'
  BY Zenon
<1>1. ASSUME NEW t \in Hooker, HookerStep(t) PROVE Registered'
  BY Zenon, <1>1, HookerRegistered
<1> USE DEF Registered, Promise, Installing, HandlerIsExact, Goto, caller, registry
<1>2. ASSUME NEW t \in Hooker, NEW cb \in Callback, HookMethod(t, cb) \/ UnhookMethod(t, cb) PROVE Registered'
  <2>1. PICK where \in {"lookup", "unhook"} : Begin(t, cb, where)
    BY Zenon, <1>2 DEF HookMethod, UnhookMethod
  <2>2. \A u \in Hooker : hpc'[u] = (IF u = t THEN where ELSE hpc[u]) /\ hcb'[u] = (IF u = t THEN cb ELSE hcb[u])
    BY Zenon, <2>1 DEF Begin
  <2>3. \A u \in Hooker : u # t =>
          /\ u \in clash => u \in clash'
          /\ hpc[u] # "idle" /\ hcb[u] = cb => u \in clash' /\ t \in clash'
    BY Zenon, <2>1 DEF Begin
  <2>4. /\ hooked' = hooked \ {cb} /\ unhooked' = unhooked \ {cb} /\ UNCHANGED <<registry, cpc, snap>>
        /\ due' = [c \in Caller |-> due[c] \ {cb}] /\ barred' = [c \in Caller |-> barred[c] \ {cb}]
        /\ hcb' \in [Hooker -> Callback \cup {None}]
    BY Zenon, <2>1 DEF Begin
  <2> QED BY <2>2, <2>3, <2>4
<1>3. ASSUME NEW c \in Caller, Call(c) PROVE Registered'
  BY Zenon, <1>3 DEF Call
<1>4. ASSUME NEW c \in Caller, Snapshot(c) PROVE Registered'
  BY Zenon, <1>4 DEF Snapshot
<1>5. ASSUME NEW c \in Caller, CallReturns(c) PROVE Registered'
  BY <1>5 DEF CallReturns
<1>6. CASE UNCHANGED vars
  BY Zenon, <1>6 DEF vars
<1> QED BY Zenon, <1>1, <1>2, <1>3, <1>4, <1>5, <1>6 DEF Next

\* handleHookedMethod() on the snapshot of a CopyOnWriteSortedSet: for any
\* threads and callbacks, a call that reaches the handler runs what was hooked
\* before it, nothing that was unhooked before it, once each and in order.
THEOREM HandlersAreExact == Spec => []HandlerIsExact
<1>1. Registered => HandlerIsExact
  BY Zenon DEF Registered
<1> QED BY <1>1, InitPromise, NextPromise, InitRegistered, NextRegistered, PTL DEF Spec

-----------------------------------------------------------------------------
(* HookRegistry: every variable has its type.                              *)

\* An array of callbacks in which nothing is twice.
Compact(s) == s \in Seq(Nat) /\ Ascending(s) /\ \A i \in DOMAIN s : s[i] \in Callback

\* Inductive.  The array and every snapshot of it are compact; the rest is types.
Roomy ==
  /\ failed \in {"no", "yes"} /\ clash \subseteq Hooker
  /\ ops \in 0..MaxOps /\ calls \in 0..MaxCalls
  /\ Compact(elements) /\ \A c \in Caller : Compact(snap[c])

\* CopyOnWriteSortedSet: a compact array is no longer than there are callbacks.
LEMMA CompactFits ==
  ASSUME NEW s, Compact(s)
  PROVE  s \in Arrays
<1>1. s \in Seq(Nat) /\ Len(s) \in Nat /\ DOMAIN s = 1..Len(s) /\ s \in [1..Len(s) -> Callback]
  BY DEF Compact
<1>2. s \in Injection(1..Len(s), Callback)
  <2>1. ASSUME NEW i \in 1..Len(s), NEW j \in 1..Len(s), s[i] = s[j] PROVE i = j
    <3>1. s[i] \in Nat /\ s[j] \in Nat
      BY <1>1
    <3>2. ~(i < j) /\ ~(j < i)
      BY <2>1, <3>1, <1>1 DEF Compact, Ascending
    <3> QED BY <3>2, <1>1
  <2> QED BY Zenon, <1>1, <2>1 DEF Injection, IsInjective
<1>3. Cardinality(1..Len(s)) <= Cardinality(Callback) /\ Cardinality(Callback) \in Nat
  BY Zenon, <1>2, FS_Injection, FS_CardinalityType, RegistryAssumption
<1>4. Cardinality(1..Len(s)) = Len(s)
  BY <1>1, FS_Interval
<1>5. Len(s) \in 0..Cardinality(Callback)
  BY <1>1, <1>3, <1>4
<1> QED BY Zenon, <1>1, <1>5 DEF Arrays

\* The array stays compact when a thread adds its callback or takes it out.
LEMMA CompactKept ==
  ASSUME NEW s, Compact(s), NEW e \in Callback
  PROVE  Compact(Added(s, e)) /\ Compact(Removed(s, e))
<1>1. e \in Nat /\ s \in Seq(Nat) /\ Ascending(s) /\ \A x : Member(s, x) => x \in Callback
  BY Zenon, RegistryAssumption DEF Compact, Member
<1>2. /\ Added(s, e) \in Seq(Nat) /\ Ascending(Added(s, e))
      /\ \A x : Member(Added(s, e), x) <=> Member(s, x) \/ x = e
  BY Zenon, <1>1, AddedIs
<1>3. /\ Removed(s, e) \in Seq(Nat) /\ Ascending(Removed(s, e))
      /\ \A x : Member(Removed(s, e), x) <=> Member(s, x) /\ x # e
  BY Zenon, <1>1, RemovedIs
<1>4. \A q : (\A x : Member(q, x) => x \in Callback) => \A i \in DOMAIN q : q[i] \in Callback
  BY Zenon DEF Member
<1> QED BY Zenon, <1>1, <1>2, <1>3, <1>4 DEF Compact

\* Every step keeps the array and the snapshots compact.
LEMMA NextRoomy == Promise /\ Registered /\ Roomy /\ [Next]_vars => Roomy'
<1> SUFFICES ASSUME Promise, Registered, Roomy, [Next]_vars PROVE Roomy'
  BY Zenon
<1>0. Compact(<<>>) /\ MaxOps \in Nat /\ MaxCalls \in Nat
  BY RegistryAssumption DEF Compact, Ascending
<1> USE DEF Roomy, Goto, registry, caller
<1>1. ASSUME NEW t \in Hooker, HookerStep(t) PROVE Roomy'
  <2>1. hpc[t] # "idle" /\ hcb[t] \in Callback
    BY Zenon, <1>1 DEF HookerStep, Lookup, AddCallback, AddFirstCallback, NativeFails, PatchMethod, PatchDone,
                UnhookLookup, RemoveCallback, Registered
  <2>2. Compact(elements')
    <3>1. elements' \in {elements, Added(elements, hcb[t]), Removed(elements, hcb[t])}
      BY Zenon, <1>1 DEF HookerStep, Lookup, AddCallback, AddFirstCallback, NativeFails, PatchMethod, PatchDone,
                  UnhookLookup, RemoveCallback
    <3> QED BY Zenon, <2>1, <3>1, CompactKept
  <2>3. failed' \in {"no", "yes"} /\ UNCHANGED <<clash, ops, calls, snap>>
    BY Zenon, <1>1 DEF HookerStep, Lookup, AddCallback, AddFirstCallback, NativeFails, PatchMethod, PatchDone,
                UnhookLookup, RemoveCallback
  <2> QED BY Zenon, <2>2, <2>3
<1>2. ASSUME NEW t \in Hooker, NEW cb \in Callback, HookMethod(t, cb) \/ UnhookMethod(t, cb) PROVE Roomy'
  <2>1. PICK where \in {"lookup", "unhook"} : Begin(t, cb, where)
    BY Zenon, <1>2 DEF HookMethod, UnhookMethod
  <2> QED BY <1>0, <2>1 DEF Begin
<1>3. ASSUME NEW c \in Caller, Call(c) PROVE Roomy'
  BY <1>0, <1>3 DEF Call
<1>4. ASSUME NEW c \in Caller, Snapshot(c) PROVE Roomy'
  BY Zenon, <1>4 DEF Snapshot, Registered
<1>5. ASSUME NEW c \in Caller, CallReturns(c) PROVE Roomy'
  BY Zenon, <1>0, <1>5 DEF CallReturns, Registered
<1>6. CASE UNCHANGED vars
  BY Zenon, <1>6 DEF vars
<1> QED BY Zenon, <1>1, <1>2, <1>3, <1>4, <1>5, <1>6 DEF Next

\* CopyOnWriteSortedSet and its users: for any threads and callbacks every
\* variable keeps its type, and no array outgrows the set of the callbacks.
THEOREM RegistryTypes == Spec => []TypeOK
<1>1. Init => Roomy
  BY RegistryAssumption DEF Init, Roomy, Compact, Ascending
<1>2. Promise /\ Registered /\ Roomy => TypeOK
  <2> SUFFICES ASSUME Promise, Registered, Roomy PROVE TypeOK
    BY Zenon
  <2>1. elements \in Arrays /\ \A c \in Caller : snap[c] \in Arrays
    BY Zenon, CompactFits DEF Roomy
  <2>2. snap \in [Caller -> Arrays]
    BY Zenon, <2>1 DEF Registered
  <2> QED BY Zenon, <2>1, <2>2 DEF Promise, Registered, Roomy, TypeOK, Installing
<1> QED BY <1>1, <1>2, InitPromise, NextPromise, InitRegistered, NextRegistered, NextRoomy, PTL DEF Spec

-----------------------------------------------------------------------------
(* HookDispatch: one call of a hooked method.                              *)

\* Before the original: callbacks 1, 2, ... have run, and have set nothing.
Entering ==
  /\ ~disableHooks /\ idx \in 1..length /\ Len(log) = idx - 1 /\ ~Early
  /\ \A i \in 1..idx - 1 : log[i].who = "before" /\ log[i].at = i

\* At the original: the last of them may have set the outcome.
Turning ==
  /\ ~disableHooks /\ idx \in 2..length + 1 /\ Len(log) = idx - 1
  /\ returnEarly <=> Early
  /\ \A i \in 1..idx - 1 : log[i].who = "before" /\ log[i].at = i
  /\ (Early => HoldsLast) /\ (~Early => idx = length + 1)

\* After it: the callbacks above idx have had both halves.
Leaving ==
  /\ ~disableHooks /\ HoldsLast
  /\ \E n \in 1..length : idx \in 1..n /\ Nested(n, n - idx) /\ (~Early => n = length)

\* Inductive: where the call is determines what has been called.
Dispatched ==
  /\ DispatchTypeOK
  /\ phase = "start" => log = <<>> /\ idx = 1
  /\ phase = "before" => Entering
  /\ phase = "original" => Turning
  /\ phase = "after" => Leaving
  /\ CallContract

\* What one more entry does to the log.
LEMMA Logged ==
  ASSUME log \in Seq(Entry), NEW e \in Entry, log' = Append(log, e)
  PROVE  /\ Len(log) \in Nat /\ DOMAIN log = 1..Len(log)
         /\ log' \in Seq(Entry) /\ Len(log') = Len(log) + 1 /\ DOMAIN log' = 1..Len(log) + 1
         /\ (\A i \in 1..Len(log) : log'[i] = log[i]) /\ log'[Len(log) + 1] = e
<1>1. log' \in Seq(Entry) /\ Len(log') = Len(log) + 1
  BY Zenon, AppendProperties
<1>2. (\A i \in 1..Len(log) : log'[i] = log[i]) /\ log'[Len(log) + 1] = e
  BY AppendProperties
<1>3. Len(log) \in Nat /\ DOMAIN log = 1..Len(log) /\ DOMAIN log' = 1..Len(log')
  BY Zenon, <1>1, LenProperties
<1> QED BY Zenon, <1>1, <1>2, <1>3

\* An outcome is set before the original by the first half of a callback only.
LEMMA LoggedEarly ==
  ASSUME log \in Seq(Entry), NEW e \in Entry, log' = Append(log, e)
  PROVE  Early' <=> Early \/ (e.who = "before" /\ Sets(e))
<1> USE Logged
<1>1. ASSUME Early PROVE Early'
  <2>1. PICK i \in DOMAIN log : log[i].who = "before" /\ Sets(log[i])
    BY Zenon, <1>1 DEF Early
  <2>2. i \in DOMAIN log' /\ log'[i] = log[i]
    OBVIOUS
  <2> QED BY Zenon, <2>1, <2>2 DEF Early, Sets
<1>2. ASSUME e.who = "before", Sets(e) PROVE Early'
  <2>1. Len(log) + 1 \in DOMAIN log' /\ log'[Len(log) + 1] = e
    OBVIOUS
  <2> QED BY Zenon, <1>2, <2>1 DEF Early, Sets
<1>3. ASSUME Early', ~Early PROVE e.who = "before" /\ Sets(e)
  <2>1. PICK i \in DOMAIN log' : log'[i].who = "before" /\ Sets(log'[i])
    BY Zenon, <1>3 DEF Early, Sets
  <2>2. i \notin DOMAIN log
    BY <1>3, <2>1 DEF Early, Sets
  <2>3. i = Len(log) + 1
    BY <2>2
  <2> QED BY Zenon, <2>1, <2>3
<1> QED BY Zenon, <1>1, <1>2, <1>3

\* The param holds what was set last, if whatever sets something leaves it there.
LEMMA LoggedHolds ==
  ASSUME log \in Seq(Entry), NEW e \in Entry, log' = Append(log, e),
         Sets(e) => outcome' = [by |-> e.who, at |-> e.at, is |-> e.did],
         ~Sets(e) => HoldsLast /\ outcome' = outcome
  PROVE  HoldsLast'
<1> USE Logged
<1>1. CASE Sets(e)
  <2>1. Len(log) + 1 \in DOMAIN log' /\ log'[Len(log) + 1] = e /\ \A j \in DOMAIN log' : ~(j > Len(log) + 1)
    OBVIOUS
  <2> QED BY <1>1, <2>1 DEF HoldsLast, Sets
<1>2. CASE ~Sets(e)
  <2>1. PICK i \in DOMAIN log :
          /\ Sets(log[i]) /\ \A j \in DOMAIN log : j > i => ~Sets(log[j])
          /\ outcome = [by |-> log[i].who, at |-> log[i].at, is |-> log[i].did]
    BY Zenon, <1>2 DEF HoldsLast
  <2>2. i \in DOMAIN log' /\ log'[i] = log[i]
    OBVIOUS
  <2>3. ASSUME NEW j \in DOMAIN log', j > i PROVE ~Sets(log'[j])
    BY <2>1, <2>3, <1>2
  <2> QED BY <1>2, <2>1, <2>2, <2>3 DEF HoldsLast, Sets
<1> QED BY Zenon, <1>1, <1>2

\* Nothing has been called at first.
LEMMA DispatchBegins == DispatchInit => Dispatched
<1> SUFFICES ASSUME DispatchInit PROVE Dispatched
  BY Zenon
<1>1. disableHooks \in BOOLEAN /\ returnEarly \in BOOLEAN
  BY Zenon DEF DispatchInit
<1>2. DispatchTypeOK
  BY <1>1, DispatchAssumption DEF DispatchInit, DispatchTypeOK, NoOutcome
<1> QED BY Zenon, <1>2 DEF DispatchInit, Dispatched, CallContract

\* Every variable keeps its type.
LEMMA DispatchTypeStep == Dispatched /\ [DispatchNext]_dispatchVars => DispatchTypeOK'
<1> SUFFICES ASSUME Dispatched, [DispatchNext]_dispatchVars PROVE DispatchTypeOK'
  BY Zenon
<1> USE DispatchAssumption DEF Dispatched, DispatchTypeOK, Entering, Turning, Leaving
<1>1. CASE Bypass
  <2>1. PICK is \in {"result", "throwable"} : Invoke(is)
    BY Zenon, <1>1 DEF Bypass
  <2>2. [who |-> "original", at |-> 0, did |-> is, threw |-> FALSE] \in Entry
    BY DEF Entry, Effect
  <2>3. log' \in Seq(Entry) /\ invoked' \in Seq(0..MaxCallbacks)
    BY Zenon, <2>1, <2>2, AppendProperties DEF Invoke
  <2>4. outcome' \in [by : {"nobody", "before", "original", "after"}, at : 0..MaxCallbacks, is : {"result", "throwable"}]
    BY <2>1 DEF Invoke
  <2> QED BY Zenon, <1>1, <2>3, <2>4 DEF Bypass
<1>2. CASE BeginDispatch
  BY Zenon, <1>2 DEF BeginDispatch
<1>3. CASE Before
  <2>1. PICK did \in Effect, threw \in BOOLEAN, arg \in {args, idx} :
          /\ Called("before", did, threw) /\ args' = arg
          /\ outcome' = IF threw THEN NoOutcome
                        ELSE IF did = "nothing" THEN outcome ELSE [by |-> "before", at |-> idx, is |-> did]
          /\ returnEarly' = (~threw /\ did # "nothing")
          /\ Advance(~returnEarly', "original")
    BY <1>3 DEF Before
  <2>2. [who |-> "before", at |-> idx, did |-> did, threw |-> threw] \in Entry
    BY <1>3 DEF Before, Entry
  <2>3. returnEarly' \in BOOLEAN
    BY <2>1, Zenon
  <2>4. outcome' \in [by : {"nobody", "before", "original", "after"}, at : 0..MaxCallbacks, is : {"result", "throwable"}]
    BY <1>3, <2>1 DEF Before, NoOutcome, Effect
  <2> QED BY SMTT(20), <1>3, <2>1, <2>2, <2>3, <2>4, AppendProperties DEF Before, Called, Advance
<1>4. CASE Original
  <2>1. CASE returnEarly
    BY <1>4, <2>1 DEF Original
  <2>2. CASE ~returnEarly
    <3>1. PICK is \in {"result", "throwable"} : Invoke(is)
      BY Zenon, <1>4, <2>2 DEF Original
    <3>2. [who |-> "original", at |-> 0, did |-> is, threw |-> FALSE] \in Entry
      BY DEF Entry, Effect
    <3>3. returnEarly' \in BOOLEAN
      BY <1>4, <2>2, Zenon DEF Original
    <3> QED BY <1>4, <3>1, <3>2, <3>3, AppendProperties DEF Original, Invoke
  <2> QED BY Zenon, <2>1, <2>2
<1>5. CASE OriginalRefused
  BY Zenon, <1>5 DEF OriginalRefused
<1>6. CASE After
  <2>1. PICK did \in Effect, threw \in BOOLEAN, arg \in {args, idx} :
          /\ Called("after", did, threw) /\ args' = arg
          /\ outcome' = IF threw \/ did = "nothing" THEN outcome ELSE [by |-> "after", at |-> idx, is |-> did]
    BY <1>6 DEF After
  <2>2. [who |-> "after", at |-> idx, did |-> did, threw |-> threw] \in Entry
    BY <1>6 DEF After, Entry
  <2>3. outcome' \in [by : {"nobody", "before", "original", "after"}, at : 0..MaxCallbacks, is : {"result", "throwable"}]
    BY <1>6, <2>1 DEF After, Effect
  <2> QED BY <1>6, <2>1, <2>2, <2>3, AppendProperties DEF After, Called
<1>7. CASE UNCHANGED dispatchVars
  BY Zenon, <1>7 DEF dispatchVars
<1> QED BY Zenon, <1>1, <1>2, <1>3, <1>4, <1>5, <1>6, <1>7 DEF DispatchNext

\* Every step keeps the call well nested, and the param up to date.
LEMMA DispatchStep == Dispatched /\ [DispatchNext]_dispatchVars => Dispatched'
<1> SUFFICES ASSUME Dispatched, [DispatchNext]_dispatchVars PROVE Dispatched'
  BY Zenon
<1>0. DispatchTypeOK' /\ DispatchTypeOK
  BY Zenon, DispatchTypeStep DEF Dispatched
<1>a. length \in Nat /\ log \in Seq(Entry) /\ Len(log) \in Nat
  BY <1>0, LenProperties, DispatchAssumption DEF DispatchTypeOK
<1>1. CASE Bypass
  <2>1. PICK is \in {"result", "throwable"} : Invoke(is)
    BY Zenon, <1>1 DEF Bypass
  <2> DEFINE e == [who |-> "original", at |-> 0, did |-> is, threw |-> FALSE]
  <2>2. e \in Entry /\ log' = Append(log, e) /\ Sets(e)
    BY <2>1, DispatchAssumption DEF Entry, Effect, Invoke, Sets
  <2>3. log = <<>> /\ Len(log) = 0 /\ ~Early
    BY <1>1 DEF Bypass, Dispatched, Early
  <2>4. HoldsLast'
    BY Zenon, <1>a, <2>1, <2>2, LoggedHolds DEF Invoke
  <2>5. ~Early'
    BY Zenon, <1>a, <2>2, <2>3, LoggedEarly
  <2>6. Len(log') = 1 /\ log'[1].who = "original"
    BY <1>a, <2>2, <2>3, Logged
  <2>7. Nested(0, 0)'
    BY <2>5, <2>6 DEF Nested
  <2>8. disableHooks' \/ length' = 0
    BY Zenon, <1>1 DEF Bypass
  <2>9. CallContract'
    BY <1>1, <1>a, <2>4, <2>7, <2>8 DEF CallContract, Bypass
  <2> QED BY Zenon, <1>0, <1>1, <2>9 DEF Dispatched, Bypass
<1>2. CASE BeginDispatch
  <2>1. log = <<>> /\ idx = 1 /\ Len(log) = 0 /\ ~Early
    BY <1>2 DEF BeginDispatch, Dispatched, Early
  <2>2. Entering'
    BY <1>2, <1>a, <2>1 DEF BeginDispatch, Entering, Early
  <2> QED BY Zenon, <1>0, <1>2, <2>2 DEF BeginDispatch, Dispatched, CallContract
<1>3. CASE Before
  <2>1. PICK did \in Effect, threw \in BOOLEAN :
          /\ Called("before", did, threw)
          /\ outcome' = IF threw THEN NoOutcome
                        ELSE IF did = "nothing" THEN outcome ELSE [by |-> "before", at |-> idx, is |-> did]
          /\ returnEarly' = (~threw /\ did # "nothing")
          /\ Advance(~returnEarly', "original")
    BY Zenon, <1>3 DEF Before
  <2> DEFINE e == [who |-> "before", at |-> idx, did |-> did, threw |-> threw]
  <2>2. Entering
    BY Zenon, <1>3 DEF Before, Dispatched
  <2>3. idx \in 1..length /\ idx \in 0..MaxCallbacks
    BY <2>2, <1>0, DispatchAssumption DEF Entering, DispatchTypeOK
  <2>4. e \in Entry /\ log' = Append(log, e)
    BY Zenon, <2>1, <2>3 DEF Called, Entry
  <2>5. (Sets(e) <=> returnEarly') /\ e.who = "before" /\ e.at = idx
    BY Zenon, <2>1 DEF Sets
  <2> HIDE DEF e
  <2>6. Early' <=> returnEarly'
    BY Zenon, <1>a, <2>2, <2>4, <2>5, LoggedEarly DEF Entering
  <2>7. Len(log') = idx /\ (\A i \in 1..idx - 1 : log'[i] = log[i]) /\ log'[idx] = e
    BY <1>a, <2>2, <2>3, <2>4, Logged DEF Entering
  <2>8. \A i \in 1..idx : log'[i].who = "before" /\ log'[i].at = i
    BY <2>2, <2>3, <2>5, <2>7 DEF Entering
  <2>9. returnEarly' => HoldsLast'
    <3> SUFFICES ASSUME returnEarly' PROVE HoldsLast'
      BY Zenon
    <3>1. outcome' = [by |-> e.who, at |-> e.at, is |-> e.did]
      BY Zenon, <2>1 DEF e
    <3> QED BY Zenon, <1>a, <2>4, <2>5, <3>1, LoggedHolds
  <2>10. idx' = idx + 1 /\ length' = length /\ (disableHooks' <=> disableHooks)
    BY Zenon, <1>3, <2>1 DEF Before, Advance
  <2>11. CASE ~returnEarly' /\ idx < length
    <3>1. phase' = "before"
      BY Zenon, <2>1, <2>11 DEF Advance
    <3>2. Entering'
      BY <1>a, <2>2, <2>3, <2>6, <2>7, <2>8, <2>10, <2>11 DEF Entering
    <3> QED BY Zenon, <1>0, <3>1, <3>2 DEF Dispatched, CallContract
  <2>12. CASE returnEarly' \/ ~(idx < length)
    <3>1. phase' = "original"
      BY Zenon, <2>1, <2>12 DEF Advance
    <3>2. Turning'
      BY <1>a, <2>2, <2>3, <2>6, <2>7, <2>8, <2>9, <2>10, <2>12 DEF Entering, Turning
    <3> QED BY Zenon, <1>0, <3>1, <3>2 DEF Dispatched, CallContract
  <2> QED BY Zenon, <2>11, <2>12
<1>4. CASE Original
  <2>1. Turning
    BY Zenon, <1>4 DEF Original, Dispatched
  <2>0. PICK n \in 1..length : n = idx - 1
    BY <1>a, <2>1 DEF Turning
  <2>2. Len(log) = n /\ \A i \in 1..n : log[i].who = "before" /\ log[i].at = i
    BY Zenon, <1>a, <2>0, <2>1 DEF Turning
  <2>3. idx' = n /\ length' = length /\ (disableHooks' <=> disableHooks) /\ phase' = "after" /\ ~disableHooks
    BY Zenon, <1>4, <2>0, <2>1 DEF Original, Turning
  <2>4. HoldsLast' /\ Nested(n, 0)' /\ (~Early' => n = length)
    <3>1. CASE returnEarly
      <4>1. UNCHANGED <<log, outcome>> /\ Early /\ HoldsLast
        BY Zenon, <1>4, <2>1, <3>1 DEF Original, Turning
      <4>2. (Early' <=> Early) /\ (HoldsLast' <=> HoldsLast)
        BY Zenon, <4>1 DEF Early, HoldsLast
      <4>3. Nested(n, 0)'
        BY <2>2, <4>1, <4>2 DEF Nested
      <4> QED BY Zenon, <4>1, <4>2, <4>3
    <3>2. CASE ~returnEarly
      <4>1. PICK is \in {"result", "throwable"} : Invoke(is)
        BY Zenon, <1>4, <3>2 DEF Original
      <4> DEFINE e == [who |-> "original", at |-> 0, did |-> is, threw |-> FALSE]
      <4>2. e \in Entry /\ log' = Append(log, e) /\ Sets(e)
        BY <4>1, DispatchAssumption DEF Entry, Effect, Invoke, Sets
      <4>3. HoldsLast'
        BY Zenon, <1>a, <4>1, <4>2, LoggedHolds DEF Invoke
      <4>4. ~Early /\ ~Early'
        BY Zenon, <1>a, <2>1, <3>2, <4>2, LoggedEarly DEF Turning
      <4>5. Len(log') = n + 1 /\ (\A i \in 1..n : log'[i] = log[i]) /\ log'[n + 1].who = "original"
        BY <1>a, <2>2, <4>2, Logged
      <4>6. Nested(n, 0)'
        BY <2>2, <4>4, <4>5 DEF Nested
      <4> QED BY <1>a, <2>0, <2>1, <4>3, <4>4, <4>6 DEF Turning
    <3> QED BY Zenon, <3>1, <3>2
  <2>5. Nested(n, n - n)'
    BY <1>a, <2>4
  <2>6. Leaving'
    BY <1>a, <2>3, <2>4, <2>5 DEF Leaving
  <2> QED BY Zenon, <1>0, <2>3, <2>6 DEF Dispatched, CallContract
<1>5. CASE OriginalRefused
  BY Zenon, <1>0, <1>5 DEF OriginalRefused, Dispatched, CallContract
<1>6. CASE After
  <2>1. PICK did \in Effect, threw \in BOOLEAN :
          /\ Called("after", did, threw)
          /\ outcome' = IF threw \/ did = "nothing" THEN outcome ELSE [by |-> "after", at |-> idx, is |-> did]
    BY Zenon, <1>6 DEF After
  <2> DEFINE e == [who |-> "after", at |-> idx, did |-> did, threw |-> threw]
  <2>2. Leaving
    BY Zenon, <1>6 DEF After, Dispatched
  <2>3. PICK n \in 1..length : idx \in 1..n /\ Nested(n, n - idx) /\ (~Early => n = length)
    BY Zenon, <2>2 DEF Leaving
  <2>0. PICK k \in 1..n : k = idx
    BY Zenon, <2>3
  <2>4. e \in Entry /\ log' = Append(log, e) /\ e.who = "after" /\ e.at = idx
    BY <1>0, <1>a, <2>1, <2>3, DispatchAssumption DEF Called, Entry, DispatchTypeOK
  <2>5. HoldsLast'
    <3>1. Sets(e) => outcome' = [by |-> e.who, at |-> e.at, is |-> e.did]
      BY Zenon, <2>1 DEF Sets
    <3>2. ~Sets(e) => HoldsLast /\ outcome' = outcome
      BY Zenon, <2>1, <2>2 DEF Sets, Leaving
    <3> HIDE DEF e
    <3> QED BY Zenon, <1>a, <2>4, <3>1, <3>2, LoggedHolds
  <2> HIDE DEF e
  <2>6. Early' <=> Early
    BY Zenon, <1>a, <2>4, LoggedEarly
  <2>7. Nested(n, n - (k - 1))'
    <3> DEFINE f == IF Early THEN 0 ELSE 1
               p == n + f + (n - k)
    <3>1. /\ Len(log) = p /\ p \in Nat /\ f \in {0, 1}
          /\ \A i \in 1..n : log[i].who = "before" /\ log[i].at = i
          /\ f = 1 => log[n + 1].who = "original"
          /\ \A i \in 1..n - k : log[n + f + i].who = "after" /\ log[n + f + i].at = n + 1 - i
      BY SMTT(20), <1>a, <2>0, <2>3 DEF Nested
    <3>2. Len(log') = p + 1 /\ (\A i \in 1..p : log'[i] = log[i]) /\ log'[p + 1] = e
      BY <1>a, <2>4, <3>1, Logged
    <3>3. f = IF Early' THEN 0 ELSE 1
      BY Zenon, <2>6
    <3> HIDE DEF f
    <3>4. \A i \in 1..n : i \in 1..p
      BY <1>a, <2>3, <3>1
    <3>5. f = 1 => n + 1 \in 1..p
      BY <1>a, <2>3, <3>1
    <3>6. ASSUME NEW i \in 1..n - (k - 1)
          PROVE  log'[n + f + i].who = "after" /\ log'[n + f + i].at = n + 1 - i
      <4>1. CASE i = n - (k - 1)
        <5>1. n + f + i = p + 1 /\ n + 1 - i = k
          BY <4>1, <1>a, <2>3, <3>1
        <5> QED BY Zenon, <5>1, <3>2, <2>0, <2>4
      <4>2. CASE i # n - (k - 1)
        <5>1. i \in 1..n - k
          BY <4>2, <1>a
        <5>2. n + f + i \in 1..p
          BY <5>1, <1>a, <3>1
        <5> QED BY Zenon, <5>1, <5>2, <3>1, <3>2
      <4> QED BY Zenon, <4>1, <4>2
    <3>7. Len(log') = n + f + (n - (k - 1))
      BY <1>a, <2>3, <3>1, <3>2
    <3> HIDE DEF p
    <3>8. /\ \A i \in 1..n : log'[i].who = "before" /\ log'[i].at = i
          /\ f = 1 => log'[n + 1].who = "original"
      BY <3>1, <3>2, <3>4, <3>5
    <3> QED BY Zenon, <3>3, <3>6, <3>7, <3>8 DEF Nested
  <2>8. /\ idx' = idx - 1 /\ length' = length /\ disableHooks' = disableHooks /\ ~disableHooks
        /\ phase' = IF idx > 1 THEN "after" ELSE "done"
    BY Zenon, <1>6, <2>2 DEF After, Leaving
  <2>9. CASE idx > 1
    <3>1. Leaving'
      BY <1>a, <2>0, <2>3, <2>5, <2>6, <2>7, <2>8, <2>9 DEF Leaving
    <3> QED BY Zenon, <1>0, <2>8, <2>9, <3>1 DEF Dispatched, CallContract
  <2>10. CASE idx = 1
    <3>1. Nested(n, n)'
      <4>1. n - (k - 1) = n
        BY <1>a, <2>0, <2>3, <2>10
      <4> QED BY Zenon, <2>7, <4>1
    <3>2. CallContract'
      BY <1>a, <2>3, <2>5, <2>6, <2>8, <3>1 DEF CallContract
    <3> QED BY <1>0, <2>8, <2>10, <3>2 DEF Dispatched
  <2> QED BY <2>3, <2>9, <2>10
<1>7. CASE UNCHANGED dispatchVars
  <2>1. /\ disableHooks' = disableHooks /\ length' = length /\ phase' = phase /\ idx' = idx
        /\ outcome' = outcome /\ returnEarly' = returnEarly /\ args' = args
        /\ invoked' = invoked /\ log' = log
    BY Zenon, <1>7 DEF dispatchVars
  <2>2. Early' = Early /\ HoldsLast' = HoldsLast /\ DispatchTypeOK'
    BY Zenon, <1>0, <2>1 DEF Dispatched, DispatchTypeOK, Early, HoldsLast
  <2>3. \A n, m : Nested(n, m)' <=> Nested(n, m)
    BY Zenon, <2>1, <2>2 DEF Nested
  <2>4. (Entering => Entering') /\ (Turning => Turning')
    BY Zenon, <2>1, <2>2 DEF Entering, Turning
  <2>5. (Leaving => Leaving') /\ (CallContract => CallContract')
    BY Zenon, <2>1, <2>2, <2>3 DEF Leaving, CallContract
  <2> QED BY Zenon, <1>0, <2>1, <2>2, <2>4, <2>5 DEF Dispatched
<1> QED BY Zenon, <1>1, <1>2, <1>3, <1>4, <1>5, <1>6, <1>7 DEF DispatchNext

\* handleHookedMethod(): its variables have their types.
THEOREM DispatchTypes == DispatchSpec => []DispatchTypeOK
<1>1. Dispatched => DispatchTypeOK
  BY Zenon DEF Dispatched
<1> QED BY <1>1, DispatchBegins, DispatchStep, PTL DEF DispatchSpec

\* handleHookedMethod(): for any number of callbacks and whatever they do, the
\* halves of the callbacks nest around at most one call of the original, and
\* the caller gets what was set last.
THEOREM CallsAreNested == DispatchSpec => []CallContract
<1>1. Dispatched => CallContract
  BY Zenon DEF Dispatched
<1> QED BY <1>1, DispatchBegins, DispatchStep, PTL DEF DispatchSpec

-----------------------------------------------------------------------------
(* ResourceReplacements: what is set is found.                             *)

\* The caches and the generation know of a replacement for d, set or about to
\* be set.
Recorded(id, d, gen) == Bit[id] \in bitCache[CacheOf(id, d)] /\ gen = generation[d] + 1

\* A setReplacement between its two steps, and an entry of the map.
SetterRecorded(t) ==
  LET s == setter[t] IN
  /\ s.id \in Ids /\ s.gen # Nothing /\ (s.dir = Framework => s.id \in SysId)
  /\ s.dir \notin raced => Recorded(s.id, s.dir, s.gen)
EntryRecorded(id, d) ==
  /\ d = Framework => id \in SysId
  /\ d \notin raced => Recorded(id, d, sReplacements[id][d])

\* Inductive: a replacement that is in the map or between the two steps of
\* setReplacement is recorded, unless its directory was dropped in between.
Replaced ==
  /\ ResourceTypeOK /\ generation \in [Owner -> Nat]
  /\ \A t \in Setter : Setting(t) => SetterRecorded(t)
  /\ \A id \in Ids, d \in Owner : sReplacements[id][d] # Nothing => EntryRecorded(id, d)

\* Nothing is replaced at first.
LEMMA ResourcesBegin == ResourceInit => Replaced
<1> SUFFICES ASSUME ResourceInit PROVE Replaced
  BY Zenon
<1>1. ResourceTypeOK
  BY Zenon DEF ResourceInit, ResourceTypeOK, NotSetting, Owner, Ids, Nothing
<1> QED BY Zenon, <1>1 DEF ResourceInit, Replaced, Setting, Owner, Nothing

\* The first step of setReplacement records the replacement, the second puts
\* it in the map; isFirstLoad drops the records of a directory with its
\* replacements.
LEMMA ResourcesStep == Replaced /\ [ResourceNext]_resourceVars => Replaced'
<1> SUFFICES ASSUME Replaced, [ResourceNext]_resourceVars PROVE Replaced'
  BY Zenon
<1> USE ResourceAssumption DEF Replaced, ResourceTypeOK, SetterRecorded, EntryRecorded, Recorded, Setting, Owner, Nothing, CacheOf
<1>1. ASSUME NEW t \in Setter, NEW id \in Ids, NEW d \in Owner, CacheReplacement(t, id, d) PROVE Replaced'
  <2>1. CacheOf(id, d) \in Owner
    BY Zenon DEF CacheOf
  <2>2. \A o \in Owner : bitCache[o] \subseteq bitCache'[o]
    BY Zenon, <1>1, <2>1 DEF CacheReplacement
  <2>3. Bit[id] \in bitCache'[CacheOf(id, d)]
    BY Zenon, <1>1, <2>1 DEF CacheReplacement
  <2>4. bitCache' \in [Owner -> SUBSET {Bit[i] : i \in Ids}]
    BY SMTT(20), <1>1, <2>1 DEF CacheReplacement
  <2>5. /\ setter'[t] = [id |-> id, dir |-> d, gen |-> generation[d] + 1]
        /\ \A u \in Setter \ {t} : setter'[u] = setter[u]
        /\ setter' \in [Setter -> [id : Ids \cup {Nothing}, dir : Owner, gen : Nat]]
    BY <1>1 DEF CacheReplacement
  <2>6. UNCHANGED <<sReplacements, modified, sResDirLastModified, generation, raced>> /\ (d = Framework => id \in SysId)
    BY Zenon, <1>1 DEF CacheReplacement
  <2>7. ResourceTypeOK'
    BY Zenon, <2>4, <2>5, <2>6
  <2>8. ASSUME NEW i \in Ids, NEW o \in Owner, NEW g, Recorded(i, o, g) PROVE Recorded(i, o, g)'
    BY Zenon, <2>2, <2>6, <2>8
  <2> HIDE DEF Recorded, ResourceTypeOK
  <2>9. Recorded(id, d, generation[d] + 1)'
    BY Zenon, <2>3, <2>6 DEF Recorded
  <2>10. SetterRecorded(t)'
    <3>1. generation[d] + 1 # Nothing
      <4>1. \A n \in Nat : n + 1 # Nothing
        BY SMTT(20)
      <4> QED BY Zenon, <4>1 DEF ResourceTypeOK
    <3> HIDE DEF Replaced, EntryRecorded, Setting, CacheOf, Owner
    <3>2. setter'[t].id = id /\ setter'[t].dir = d /\ setter'[t].gen = generation[d] + 1
      BY <2>5
    <3>3. Recorded(setter[t].id, setter[t].dir, setter[t].gen)'
      BY Zenon, <2>6, <2>9, <3>2
    <3> QED BY Zenon, <2>6, <3>1, <3>2, <3>3
  <2>11. ASSUME NEW u \in Setter \ {t}, Setting(u)' PROVE SetterRecorded(u)'
    <3>1. PICK s \in [id : Ids \cup {Nothing}, dir : Owner, gen : Nat] : s = setter[u] /\ s = setter'[u]
      BY Zenon, <2>5 DEF ResourceTypeOK
    <3>2. SetterRecorded(u)
      BY Zenon, <2>11, <3>1
    <3>3. s.dir \notin raced' => Recorded(s.id, s.dir, s.gen)'
      BY Zenon, <2>6, <2>8, <3>1, <3>2
    <3> QED BY Zenon, <2>6, <3>1, <3>2, <3>3
  <2>12. ASSUME NEW i \in Ids, NEW o \in Owner, sReplacements'[i][o] # Nothing PROVE EntryRecorded(i, o)'
    <3>1. PICK g \in Nat : g = sReplacements[i][o] /\ g = sReplacements'[i][o]
      BY <2>6 DEF ResourceTypeOK
    <3>2. EntryRecorded(i, o)
      BY Zenon, <2>12, <3>1
    <3>3. o \notin raced' => Recorded(i, o, g)'
      BY Zenon, <2>6, <2>8, <3>1, <3>2
    <3> QED BY Zenon, <3>1, <3>2, <3>3
  <2> QED BY Zenon, <2>6, <2>7, <2>10, <2>11, <2>12
<1>2. ASSUME NEW t \in Setter, PutReplacement(t) PROVE Replaced'
  <2> DEFINE s == setter[t]
  <2>1. s \in [id : Ids \cup {Nothing}, dir : Owner, gen : Nat] /\ s.id \in Ids
    BY Zenon, <1>2 DEF PutReplacement
  <2>2. \A id \in Ids, d \in Owner :
          sReplacements'[id][d] = IF id = s.id /\ d = s.dir THEN s.gen ELSE sReplacements[id][d]
    BY Zenon, <1>2, <2>1 DEF PutReplacement
  <2>3. sReplacements' \in [Ids -> [Owner -> Nat]]
    BY Zenon, <1>2, <2>1 DEF PutReplacement
  <2>4. UNCHANGED <<bitCache, modified, sResDirLastModified, generation, raced, sets>>
    BY Zenon, <1>2 DEF PutReplacement
  <2>5. /\ \A u \in Setter : setter'[u] = IF u = t THEN NotSetting ELSE setter[u]
        /\ setter' \in [Setter -> [id : Ids \cup {Nothing}, dir : Owner, gen : Nat]]
    BY Zenon, <1>2 DEF PutReplacement, NotSetting
  <2>6. ResourceTypeOK'
    BY <1>2, <2>1, <2>2, <2>3, <2>4, <2>5 DEF Ids, PutReplacement
  <2> HIDE DEF Recorded, ResourceTypeOK
  <2>7. \A i, o, g : Recorded(i, o, g)' <=> Recorded(i, o, g)
    BY Zenon, <2>4 DEF Recorded
  <2>8. ASSUME NEW u \in Setter, Setting(u)' PROVE setter'[u] = setter[u] /\ Setting(u)
    BY Zenon, <2>5, <2>8
  <2> QED BY <1>2, <2>1, <2>2, <2>4, <2>5, <2>6, <2>7, <2>8 DEF PutReplacement
<1>3. ASSUME NEW d \in Dir, IsFirstLoad(d) PROVE Replaced'
  <2>1. CASE sResDirLastModified[d] = 0
    BY <1>3, <2>1 DEF IsFirstLoad
  <2>2. CASE sResDirLastModified[d] # 0
    <3>1. \A id \in Ids, o \in Owner : sReplacements'[id][o] = IF o = d THEN Nothing ELSE sReplacements[id][o]
      BY SMTT(20), <1>3, <2>2 DEF IsFirstLoad, Dropped
    <3>2. sReplacements' \in [Ids -> [Owner -> Nat]]
      BY SMTT(20), <1>3, <2>2 DEF IsFirstLoad, Dropped
    <3>3. /\ bitCache' \in [Owner -> SUBSET {Bit[id] : id \in Ids}] /\ generation' \in [Owner -> Nat]
          /\ \A o \in Owner \ {d} : bitCache'[o] = bitCache[o] /\ generation'[o] = generation[o]
      BY SMTT(20), <1>3, <2>2 DEF IsFirstLoad
    <3>4. raced \subseteq raced' /\ raced' \subseteq Dir /\ \A t \in Setter : Setting(t) /\ setter[t].dir = d => d \in raced'
      BY <1>3, <2>2 DEF IsFirstLoad
    <3>5. UNCHANGED <<modified, setter>> /\ sResDirLastModified' \in [Dir -> Nat]
      BY Zenon, <1>3 DEF IsFirstLoad
    <3>6. ResourceTypeOK'
      BY <3>1, <3>2, <3>3, <3>4, <3>5 DEF Ids
    <3>7. \A i \in Ids, o \in Owner \ {d} : CacheOf(i, o) \in Owner \ {d}
      BY Zenon DEF CacheOf
    <3>8. ASSUME NEW i \in Ids, NEW o \in Owner \ {d}, NEW g, Recorded(i, o, g) PROVE Recorded(i, o, g)'
      BY Zenon, <3>3, <3>7, <3>8 DEF Recorded
    <3> HIDE DEF Recorded, ResourceTypeOK, CacheOf
    <3>9. ASSUME NEW t \in Setter, Setting(t)' PROVE SetterRecorded(t)'
      <4>1. PICK s \in [id : Ids \cup {Nothing}, dir : Owner, gen : Nat] : s = setter[t] /\ s = setter'[t]
        BY Zenon, <3>5 DEF ResourceTypeOK
      <4>2. SetterRecorded(t) /\ Setting(t)
        BY Zenon, <3>9, <4>1
      <4>3. s.dir \notin raced' => Recorded(s.id, s.dir, s.gen)'
        BY Zenon, <3>4, <3>8, <4>1, <4>2
      <4> QED BY Zenon, <4>1, <4>2, <4>3
    <3>10. ASSUME NEW i \in Ids, NEW o \in Owner, sReplacements'[i][o] # Nothing PROVE EntryRecorded(i, o)'
      <4>1. PICK g \in Nat : g = sReplacements[i][o] /\ g = sReplacements'[i][o]
        BY <3>1, <3>10 DEF ResourceTypeOK
      <4>2. EntryRecorded(i, o) /\ o # d
        BY Zenon, <3>1, <3>10, <4>1
      <4>3. o \notin raced' => Recorded(i, o, g)'
        BY ZenonT(40), <3>4, <3>8, <4>1, <4>2
      <4> QED BY Zenon, <4>1, <4>2, <4>3
    <3> QED BY Zenon, <3>3, <3>5, <3>6, <3>9, <3>10
  <2> QED BY Zenon, <2>1, <2>2
<1>4. ASSUME NEW d \in Dir, ResourcesUpdated(d) PROVE Replaced'
  BY <1>4 DEF ResourcesUpdated
<1>5. CASE UNCHANGED resourceVars
  BY Zenon, <1>5 DEF resourceVars
<1> QED BY Zenon, <1>1, <1>2, <1>3, <1>4, <1>5 DEF ResourceNext

\* XResources: its maps have their types, and an id of an application never has
\* an entry for the framework.
THEOREM ResourceTypes == ResourceSpec => []ResourceTypeOK
<1>1. Replaced => ResourceTypeOK
  BY Zenon DEF Replaced
<1> QED BY <1>1, ResourcesBegin, ResourcesStep, PTL DEF ResourceSpec

\* getReplacement(): for any directories, ids and setters, however ids share
\* bits, a replacement is found, and it is not older than the directory's file.
THEOREM ReplacementsAreFound == ResourceSpec => []SetIsFound
<1>1. Replaced => SetIsFound
  <2> SUFFICES ASSUME Replaced, NEW id \in Ids, NEW d \in Owner, d \notin raced
               PROVE  LET own == sReplacements[id][d]
                          fallback == IF CacheOf(id, d) = Framework THEN sReplacements[id][Framework] ELSE Nothing
                      IN /\ GetReplacement(id, d) = IF own # Nothing THEN own ELSE fallback
                         /\ d \in Dir /\ own # Nothing => own = generation[d] + 1
    BY Zenon DEF SetIsFound
  <2>1. Framework \notin raced /\ Framework \in Owner
    BY Zenon, ResourceAssumption DEF Replaced, ResourceTypeOK, Owner
  <2>2. sReplacements[id][d] # Nothing => Recorded(id, d, sReplacements[id][d])
    BY Zenon DEF Replaced, EntryRecorded
  <2>3. sReplacements[id][Framework] # Nothing => id \in SysId /\ Recorded(id, Framework, sReplacements[id][Framework])
    BY Zenon, <2>1 DEF Replaced, EntryRecorded
  <2> QED BY Zenon, <2>1, <2>2, <2>3 DEF Recorded, GetReplacement, CacheOf
<1> QED BY <1>1, ResourcesBegin, ResourcesStep, PTL DEF ResourceSpec

-----------------------------------------------------------------------------
(* PreferencesReader.  Waiting is safe because only a loader that enters   *)
(* the monitor with the settings not loaded loads them; the stamp is safe  *)
(* because versions only grow and it is read first.                        *)

(* Types, with the variables the proofs need                               *)
Typed == PrefsTypeOK /\ newStamp \in Nat

(* Whoever loads does so because the settings are not loaded.              *)
Waiting == LoaderPending /\ (loading # "no" => mLoaded = FALSE)

(* A stamp is not later than the file, nor than the content read after it. *)
Stamped ==
  /\ mStamp <= version /\ newStamp <= version
  /\ mMap # NoVersion => mStamp <= mMap /\ mMap <= version

-----------------------------------------------------------------------------
(* Every step of the preferences keeps the types.                          *)
LEMMA TypedStep == Typed /\ [PrefsNext]_prefsVars => Typed'
<1> SUFFICES ASSUME Typed, [PrefsNext]_prefsVars PROVE Typed'
  BY Zenon
<1> USE DEF Typed, PrefsTypeOK, NoVersion
<1>1. CASE LoadBegins
  BY <1>1 DEF LoadBegins, prefsFile
<1>2. CASE CannotRead
  BY Zenon, <1>2 DEF CannotRead, Loaded, prefsFile
<1>3. CASE ReadStamp
  BY Zenon, <1>3 DEF ReadStamp, prefsFile
<1>4. CASE ReadContent
  <2>1. \E map, stamp \in Nat : Loaded(map, stamp)
    BY Zenon, <1>4 DEF ReadContent
  <2> QED
    BY <2>1 DEF Loaded, prefsFile
<1>5. ASSUME NEW r \in Reader, Reload(r) PROVE Typed'
  <2>1. CASE HasFileChanged
    <3>1. mLoaded' \in BOOLEAN
      BY <1>5, <2>1, Zenon DEF Reload
    <3>2. loaders' \in Nat
      BY <1>5, <2>1 DEF Reload
    <3>3. UNCHANGED <<version, readable, good, mMap, mStamp, loading, newStamp, reader>>
      BY Zenon, <1>5 DEF Reload, prefsFile
    <3> QED
      BY Zenon, <3>1, <3>2, <3>3
  <2>2. CASE ~HasFileChanged
    BY Zenon, <1>5, <2>2 DEF Reload, prefsFile
  <2> QED
    BY Zenon, <2>1, <2>2
<1>6. ASSUME NEW r \in Reader, Get(r) \/ AwaitLoaded(r) PROVE Typed'
  BY Zenon, <1>6 DEF Get, AwaitLoaded, prefsFile
<1>7. ASSUME NEW b \in BOOLEAN, FileWritten(b) PROVE Typed'
  BY <1>7 DEF FileWritten
<1>8. ASSUME NEW b \in BOOLEAN, ReadableSet(b) PROVE Typed'
  BY Zenon, <1>8 DEF ReadableSet
<1>9. CASE UNCHANGED prefsVars
  BY Zenon, <1>9 DEF prefsVars, prefsFile
<1> QED
  BY Zenon, <1>1, <1>2, <1>3, <1>4, <1>5, <1>6, <1>7, <1>8, <1>9 DEF PrefsNext, LoaderStep

(* No step leaves a reader waiting without a loader to come.               *)
LEMMA WaitingStep == Typed /\ Waiting /\ [PrefsNext]_prefsVars => Waiting'
<1> SUFFICES ASSUME Typed, Waiting, [PrefsNext]_prefsVars PROVE Waiting'
  BY Zenon
<1> USE DEF Typed, PrefsTypeOK, Waiting, LoaderPending
<1>1. CASE LoadBegins
  BY Zenon, <1>1 DEF LoadBegins, prefsFile
<1>2. CASE CannotRead
  BY Zenon, <1>2 DEF CannotRead, Loaded, prefsFile
<1>3. CASE ReadStamp
  BY Zenon, <1>3 DEF ReadStamp, prefsFile
<1>4. CASE ReadContent
  BY Zenon, <1>4 DEF ReadContent, Loaded, prefsFile
<1>5. ASSUME NEW r \in Reader, Reload(r) PROVE Waiting'
  BY <1>5 DEF Reload, MonitorFree, prefsFile
<1>6. ASSUME NEW r \in Reader, Get(r) \/ AwaitLoaded(r) PROVE Waiting'
  BY <1>6 DEF Get, AwaitLoaded, prefsFile
<1>7. ASSUME NEW b \in BOOLEAN, FileWritten(b) \/ ReadableSet(b) PROVE Waiting'
  BY <1>7 DEF FileWritten, ReadableSet
<1>8. CASE UNCHANGED prefsVars
  BY Zenon, <1>8 DEF prefsVars, prefsFile
<1> QED
  BY Zenon, <1>1, <1>2, <1>3, <1>4, <1>5, <1>6, <1>7, <1>8 DEF PrefsNext, LoaderStep

(* No step makes a stamp later than the content it stands for.             *)
LEMMA StampedStep == Typed /\ Stamped /\ [PrefsNext]_prefsVars => Stamped'
<1> SUFFICES ASSUME Typed, Stamped, [PrefsNext]_prefsVars PROVE Stamped'
  BY Zenon
<1> USE DEF Typed, PrefsTypeOK, Stamped, NoVersion
<1>1. CASE LoadBegins
  BY Zenon, <1>1 DEF LoadBegins, prefsFile
<1>2. CASE CannotRead
  BY <1>2 DEF CannotRead, Loaded, prefsFile
<1>3. CASE ReadStamp
  BY <1>3 DEF ReadStamp, prefsFile
<1>4. CASE ReadContent
  BY <1>4 DEF ReadContent, Loaded, prefsFile
<1>5. ASSUME NEW r \in Reader, Reload(r) \/ Get(r) \/ AwaitLoaded(r) PROVE Stamped'
  BY Zenon, <1>5 DEF Reload, Get, AwaitLoaded, prefsFile
<1>6. ASSUME NEW b \in BOOLEAN, FileWritten(b) PROVE Stamped'
  BY <1>6 DEF FileWritten
<1>7. ASSUME NEW b \in BOOLEAN, ReadableSet(b) PROVE Stamped'
  BY Zenon, <1>7 DEF ReadableSet
<1>8. CASE UNCHANGED prefsVars
  BY Zenon, <1>8 DEF prefsVars, prefsFile
<1> QED
  BY Zenon, <1>1, <1>2, <1>3, <1>4, <1>5, <1>6, <1>7, <1>8 DEF PrefsNext, LoaderStep

(* All of it holds when the constructor has returned.                      *)
LEMMA PrefsBegin == PrefsInit => Typed /\ Waiting /\ Stamped
<1> SUFFICES ASSUME PrefsInit PROVE Typed /\ Waiting /\ Stamped
  BY Zenon
<1> USE DEF PrefsInit, NoVersion
<1>1. Typed
  BY Zenon DEF Typed, PrefsTypeOK
<1>2. Waiting
  BY DEF Waiting, LoaderPending
<1>3. Stamped
  BY DEF Stamped
<1> QED
  BY Zenon, <1>1, <1>2, <1>3

-----------------------------------------------------------------------------
(* For any readers: the settings keep their types through any loads.       *)
THEOREM PrefsTypeCorrect == PrefsSpec => []PrefsTypeOK
<1>1. Typed => PrefsTypeOK
  BY Zenon DEF Typed
<1> QED
  BY <1>1, PrefsBegin, TypedStep, PTL DEF PrefsSpec

(* For any readers: a getter waits in awaitLoadedLocked() only while a     *)
(* loader thread that will notify it is still to come or inside.           *)
THEOREM LoaderIsPending == PrefsSpec => []LoaderPending
<1>1. Waiting => LoaderPending
  BY Zenon DEF Waiting
<1> QED
  BY <1>1, PrefsBegin, TypedStep, WaitingStep, PTL DEF PrefsSpec

(* For any readers and changes of the file: settings that reload() keeps,  *)
(* because stamp and file agree, are those in the file, although the owner *)
(* writes while loadFromDiskLocked() reads.                                *)
THEOREM StampsCoverMaps == PrefsSpec => []StampCoversMap
<1>1. Typed /\ Stamped => StampCoversMap
  <2> SUFFICES ASSUME Typed, Stamped, mMap # NoVersion, ~HasFileChanged PROVE mMap = version
    BY Zenon DEF StampCoversMap
  <2>1. mStamp = version
    BY Zenon DEF HasFileChanged
  <2>2. mMap \in Nat /\ version \in Nat
    BY Zenon DEF Typed, PrefsTypeOK
  <2> QED
    BY <2>1, <2>2 DEF Stamped
<1> QED
  BY <1>1, PrefsBegin, TypedStep, StampedStep, PTL DEF PrefsSpec

=============================================================================
