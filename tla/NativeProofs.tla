---------------------------- MODULE NativeProofs ----------------------------
(***************************************************************************)
(* The safety of two native programs: the loader that works under ptrace,  *)
(* for any number of processes (RemoteLoader), and the detection of safe   *)
(* mode, for any number of input devices (SafeMode).                       *)
(***************************************************************************)
EXTENDS SequenceTheorems, FiniteSetTheorems, TLAPS, MCRemoteLoader, SafeMode

-----------------------------------------------------------------------------
(* RemoteLoader.  What makes the properties inductive is exclusive         *)
(* ownership (Owned): a loader past ptrace_attach() whose target is alive  *)
(* is its tracer, and nobody else is.                                      *)

Attached == Remote \cup {"getregs", "exit_regs", "exit_detach"}

\* ptrace is exclusive, and is held exactly from attach to detach.
Owned ==
  /\ \A p \in Proc : tracer[p] # None =>
       Alive(p) /\ target[tracer[p]] = p /\ lpc[tracer[p]] \in Attached
  /\ \A l \in Loader : lpc[l] \in Attached /\ Alive(target[l]) => tracer[target[l]] = l

\* What the owner of an undisturbed target holds of its registers.
Registers ==
  \A l \in Loader :
    (lpc[l] \in Attached /\ Alive(target[l]) /\ target[l] \notin orphaned) =>
      /\ lpc[l] \in {"getregs", "exit_detach"} => ctx[target[l]] = "own"
      /\ lpc[l] \in Remote \cup {"exit_regs"} => saved[l] = "own"

\* Nothing has happened to a process that has not started.
Unborn ==
  /\ \A p \in Proc : state[p] = "unborn" => ctx[p] = "own" /\ loads[p] = 0
  /\ \A l \in Loader : lpc[l] # "idle" => state[target[l]] # "unborn"

CInv == TypeOK /\ Unborn /\ Owned /\ Registers /\ ContextRestored

-----------------------------------------------------------------------------
\* The initial state: nobody is attached.
LEMMA InitC == Init => CInv
<1> SUFFICES ASSUME Init PROVE CInv
  BY Zenon
<1>1. TypeOK
  BY LoaderAssumption DEF Init, TypeOK, Proc, Remote
<1>2. Unborn /\ Owned /\ Registers /\ ContextRestored
  BY Zenon, <1>1, LoaderAssumption DEF Init, TypeOK, Unborn, Owned, Registers, ContextRestored, Attached, Remote, Alive
<1> QED BY Zenon, <1>1, <1>2 DEF CInv

\* Steps of a loader keep the types.
LEMMA StepType == ASSUME TypeOK, NEW l \in Loader, Step(l) PROVE TypeOK'
<1> USE DEF process, Goto, Set
<1>1. CASE ForbidReload(l)
  BY <1>1 DEF ForbidReload, TypeOK
<1>2. CASE Attach(l)
  BY <1>2 DEF Attach, TypeOK
<1>3. CASE GetRegs(l)
  BY <1>3 DEF GetRegs, TypeOK, Remote
<1>4. CASE CallFailed(l)
  BY Zenon, <1>4 DEF CallFailed, TypeOK
<1>5. CASE Mmap(l) \/ Dlerror(l)
  BY <1>5 DEF Mmap, Dlerror, TypeOK, Remote
<1>6. CASE Dlopen(l)
  BY <1>6 DEF Dlopen, TypeOK, Remote
<1>7. CASE Dlsym(l)
  BY <1>7 DEF Dlsym, TypeOK, Remote
<1>8. CASE Wild(l)
  BY <1>8 DEF Wild, TypeOK, Remote
<1>9. CASE ClientEntry(l)
  BY <1>9 DEF ClientEntry, TypeOK, Remote
<1>10. CASE Load(l)
  BY <1>10 DEF Load, TypeOK, Remote
<1>11. CASE Dlclose(l)
  BY <1>11 DEF Dlclose, TypeOK, Remote
<1>12. CASE ExitRegs(l)
  BY Zenon, <1>12 DEF ExitRegs, TypeOK
<1>13. CASE ExitDetach(l)
  BY Zenon, <1>13 DEF ExitDetach, TypeOK
<1> QED BY Zenon, <1>1, <1>2, <1>3, <1>4, <1>5, <1>6, <1>7, <1>8, <1>9, <1>10, <1>11, <1>12, <1>13 DEF Step
\* A step inside or between remote calls touches neither registers nor tracer.
LEMMA RemoteStep ==
  ASSUME TypeOK, NEW l \in Loader,
         \/ CallFailed(l) \/ Mmap(l) \/ Dlopen(l) \/ Dlerror(l) \/ Dlsym(l) \/ Wild(l)
         \/ ClientEntry(l) \/ Load(l) \/ Dlclose(l)
  PROVE  /\ UNCHANGED <<state, tracer, ctx, orphaned, target, saved>>
         /\ lpc[l] \in Remote
         /\ \E there \in Remote \cup {"exit_regs"} : lpc' = [lpc EXCEPT ![l] = there]
  BY Zenon DEF CallFailed, Mmap, Dlopen, Dlerror, Dlsym, Wild, ClientEntry, Load, Dlclose,
         Goto, process, TypeOK, Remote

\* Every step preserves ownership, the saved registers and the property.
LEMMA NextC == CInv /\ [Next]_vars => CInv'
<1> SUFFICES ASSUME CInv, [Next]_vars PROVE CInv'
  BY Zenon
<1> USE DEF CInv
<1>0. /\ "idle" \notin Attached /\ "check" \notin Attached /\ "attach" \notin Attached
      /\ Remote \subseteq Attached /\ "idle" \notin Remote
      /\ {"getregs", "exit_detach", "exit_regs"} \subseteq Attached
      /\ {"getregs", "exit_detach", "exit_regs"} \cap Remote = {}
  BY Zenon DEF Attached, Remote
<1>1. ASSUME NEW p \in Proc, ProcessStarts(p) PROVE CInv'
  <2> USE <1>1 DEF ProcessStarts, loader
  <2>1. TypeOK'
    BY Zenon DEF TypeOK
  <2>2. \A q \in Proc : (Alive(q)' <=> (q = p \/ Alive(q))) /\ (q # p => state'[q] = state[q])
    BY Zenon DEF TypeOK, Alive
  <2>3. ctx[p] = "own" /\ \A l \in Loader : target[l] = p => lpc[l] = "idle"
    BY Zenon DEF Unborn
  <2>4. Unborn'
    BY <2>2, <2>3 DEF Unborn, TypeOK
  <2>5. Owned'
    BY <1>0, <2>2, <2>3 DEF Owned, TypeOK
  <2>6. Registers'
    BY <1>0, <2>2, <2>3 DEF Registers, TypeOK
  <2>7. ContextRestored'
    BY Zenon, <2>2, <2>3 DEF ContextRestored
  <2> QED BY Zenon, <2>1, <2>4, <2>5, <2>6, <2>7
<1>2. ASSUME NEW p \in Proc, ProcessDies(p) PROVE CInv'
  <2> USE <1>2 DEF ProcessDies, loader
  <2>1. TypeOK'
    BY Zenon DEF TypeOK
  <2>2. \A q \in Proc : (Alive(q)' <=> (q # p /\ Alive(q))) /\ (q # p => state'[q] = state[q])
    BY Zenon DEF TypeOK, Alive
  <2>3. \A q \in Proc : tracer'[q] = IF q = p THEN None ELSE tracer[q]
    BY Zenon DEF TypeOK
  <2>4. Unborn'
    BY <2>2 DEF Unborn, TypeOK
  <2>5. Owned'
    BY <2>2, <2>3 DEF Owned, TypeOK
  <2>6. Registers'
    BY Zenon, <2>2 DEF Registers, TypeOK
  <2>7. ContextRestored'
    BY Zenon, <2>2, <2>3 DEF ContextRestored
  <2> QED BY Zenon, <2>1, <2>4, <2>5, <2>6, <2>7
<1>3. ASSUME NEW l \in Loader, LoaderKilled(l) PROVE CInv'
  <2> USE <1>3 DEF LoaderKilled, Goto, Set
  <2>1. TypeOK'
    <3>1. kills' \in 0..MaxKills
      BY LoaderAssumption DEF TypeOK
    <3> QED BY Zenon, <3>1 DEF TypeOK
  <2>2. \A q \in Proc : Alive(q)' <=> Alive(q)
    BY Zenon DEF Alive
  <2>3. /\ \A q \in Proc : tracer'[q] = IF tracer[q] = l THEN None ELSE tracer[q]
        /\ \A q \in Proc : tracer[q] = l => q \in orphaned'
        /\ \A m \in Loader : lpc'[m] = IF m = l THEN "idle" ELSE lpc[m]
        /\ orphaned \subseteq orphaned'
    BY Zenon DEF TypeOK
  <2>4. Unborn'
    BY <2>3 DEF Unborn
  <2>5. Owned'
    BY <1>0, <2>2, <2>3, LoaderAssumption DEF Owned, TypeOK
  <2>6. Registers'
    BY <1>0, <2>2, <2>3 DEF Registers, TypeOK
  <2>7. ContextRestored'
    BY Zenon, <2>2, <2>3 DEF ContextRestored
  <2> QED BY Zenon, <2>1, <2>4, <2>5, <2>6, <2>7
<1>4. ASSUME NEW l \in Loader, Xload(l) PROVE CInv'
  <2> USE <1>4 DEF Xload, Goto, Set, process
  <2>1. TypeOK'
    <3>1. xloads' \in 0..MaxXloads
      BY LoaderAssumption DEF TypeOK
    <3> QED BY <3>1 DEF TypeOK
  <2>2. \A q \in Proc : Alive(q)' <=> Alive(q)
    BY Zenon DEF Alive
  <2>3. /\ \A m \in Loader : m # l => lpc'[m] = lpc[m] /\ target'[m] = target[m]
        /\ lpc'[l] \in {"idle", "check"} /\ lpc[l] = "idle"
        /\ lpc'[l] = "check" => Alive(target'[l])
    BY DEF TypeOK
  <2>4. Unborn'
    BY <2>3 DEF Unborn, Alive
  <2>5. Owned'
    BY <1>0, <2>2, <2>3, LoaderAssumption DEF Owned, TypeOK
  <2>6. Registers'
    BY <1>0, <2>2, <2>3 DEF Registers, TypeOK
  <2>7. ContextRestored'
    BY Zenon, <2>2 DEF ContextRestored
  <2> QED BY Zenon, <2>1, <2>4, <2>5, <2>6, <2>7
<1>5. ASSUME NEW l \in Loader, Step(l) PROVE CInv'
  <2>1. TypeOK'
    BY Zenon, <1>5, StepType
  <2>2. CASE ForbidReload(l)
    <3>1. /\ UNCHANGED <<state, tracer, ctx, loads, orphaned, target, saved>> /\ lpc[l] = "check"
          /\ \E there \in {"idle", "attach"} : lpc' = [lpc EXCEPT ![l] = there]
      BY Zenon, <2>2 DEF ForbidReload, Goto, process
    <3>2. (\A m \in Loader : m # l => lpc'[m] = lpc[m]) /\ lpc'[l] \in {"idle", "attach"}
      BY <3>1 DEF TypeOK
    <3>3. \A q \in Proc : Alive(q)' <=> Alive(q)
      BY Zenon, <3>1 DEF Alive
    <3>4. Unborn' /\ Owned'
      BY <1>0, <3>1, <3>2, <3>3, LoaderAssumption DEF Unborn, Owned, TypeOK
    <3>5. Registers' /\ ContextRestored'
      BY <1>0, <3>1, <3>2, <3>3 DEF Registers, ContextRestored, TypeOK
    <3> QED BY Zenon, <2>1, <3>4, <3>5
  <2>3. CASE Attach(l)
    <3> USE <2>3 DEF Attach, Goto
    <3>1. \A q \in Proc : Alive(q)' <=> Alive(q)
      BY Zenon DEF Alive
    <3>2. CASE Alive(target[l]) /\ tracer[target[l]] = None
      <4>1. /\ \A m \in Loader : lpc'[m] = IF m = l THEN "getregs" ELSE lpc[m]
            /\ \A q \in Proc : tracer'[q] = IF q = target[l] THEN l ELSE tracer[q]
            /\ target[l] \in Proc
        BY <3>2 DEF TypeOK
      <4>2. \A m \in Loader : lpc[m] \in Attached /\ Alive(target[m]) => target[m] # target[l]
        BY <3>2, LoaderAssumption DEF Owned
      <4>3. Unborn' /\ ContextRestored'
        BY Zenon, <3>1, <4>1 DEF Unborn, ContextRestored
      <4>4. Owned'
        BY <1>0, <3>1, <3>2, <4>1, <4>2, LoaderAssumption DEF Owned, TypeOK
      <4>5. Registers'
        BY Zenon, <1>0, <3>1, <3>2, <4>1, <4>2 DEF Registers, ContextRestored, TypeOK
      <4> QED BY Zenon, <2>1, <4>3, <4>4, <4>5
    <3>3. CASE ~(Alive(target[l]) /\ tracer[target[l]] = None)
      <4>1. /\ \A m \in Loader : lpc'[m] = IF m = l THEN "idle" ELSE lpc[m]
            /\ UNCHANGED <<state, tracer, ctx, loads, orphaned, target, saved>>
        BY Zenon, <3>3 DEF TypeOK
      <4>2. Unborn' /\ Owned'
        BY <1>0, <3>1, <4>1, LoaderAssumption DEF Unborn, Owned, TypeOK
      <4>3. Registers' /\ ContextRestored'
        BY <1>0, <3>1, <4>1 DEF Registers, ContextRestored, TypeOK
      <4> QED BY Zenon, <2>1, <4>2, <4>3
    <3> QED BY Zenon, <3>2, <3>3
  <2>4. CASE GetRegs(l)
    <3> USE <2>4 DEF GetRegs, Goto
    <3>1. \A q \in Proc : Alive(q)' <=> Alive(q)
      BY Zenon DEF Alive
    <3>2. CASE Alive(target[l])
      <4>1. /\ \A m \in Loader : lpc'[m] = IF m = l THEN "mmap" ELSE lpc[m]
            /\ \A m \in Loader : saved'[m] = IF m = l THEN ctx[target[l]] ELSE saved[m]
            /\ \A q \in Proc : ctx'[q] = IF q = target[l] THEN "remote" ELSE ctx[q]
            /\ target[l] \in Proc /\ tracer[target[l]] = l /\ "mmap" \in Remote
        BY SMTT(30), <1>0, <3>2 DEF TypeOK, Owned, Remote
      <4>2. \A m \in Loader : m # l /\ lpc[m] \in Attached /\ Alive(target[m]) => target[m] # target[l]
        BY Zenon, <4>1 DEF Owned
      <4>3. Unborn' /\ Owned'
        BY <1>0, <3>1, <3>2, <4>1, LoaderAssumption DEF Unborn, Owned, TypeOK, Alive
      <4>4. Registers'
        BY SMTT(30), <1>0, <3>1, <3>2, <4>1, <4>2 DEF Registers, TypeOK
      <4>5. ContextRestored'
        BY SMTT(30), <3>1, <4>1, LoaderAssumption DEF ContextRestored
      <4> QED BY Zenon, <2>1, <4>3, <4>4, <4>5
    <3>3. CASE ~Alive(target[l])
      <4>1. /\ \A m \in Loader : lpc'[m] = IF m = l THEN "exit_detach" ELSE lpc[m]
            /\ UNCHANGED <<state, tracer, ctx, loads, orphaned, target, saved>>
        BY Zenon, <3>3 DEF TypeOK
      <4>2. Unborn' /\ Owned'
        BY <1>0, <3>1, <3>3, <4>1, LoaderAssumption DEF Unborn, Owned, TypeOK
      <4>3. Registers' /\ ContextRestored'
        BY <1>0, <3>1, <3>3, <4>1 DEF Registers, ContextRestored, TypeOK
      <4> QED BY Zenon, <2>1, <4>2, <4>3
    <3> QED BY Zenon, <3>2, <3>3
  <2>5. CASE ExitRegs(l)
    <3> USE <2>5 DEF ExitRegs, Goto
    <3>1. \A q \in Proc : Alive(q)' <=> Alive(q)
      BY Zenon DEF Alive
    <3>2. /\ \A m \in Loader : lpc'[m] = IF m = l THEN "exit_detach" ELSE lpc[m]
          /\ \A q \in Proc : ctx'[q] = IF q = target[l] /\ Alive(q) THEN saved[l] ELSE ctx[q]
          /\ target[l] \in Proc
      BY DEF TypeOK
    <3>3. \A m \in Loader : m # l /\ lpc[m] \in Attached /\ Alive(target[m]) => target[m] # target[l]
      BY Zenon, <1>0 DEF Owned
    <3>4. Unborn' /\ Owned'
      BY <1>0, <3>1, <3>2, LoaderAssumption DEF Unborn, Owned, TypeOK, Alive
    <3>5. Registers'
      BY <1>0, <3>1, <3>2, <3>3 DEF Registers, TypeOK
    <3>6. ContextRestored'
      BY <1>0, <3>1, <3>2, LoaderAssumption DEF ContextRestored, Owned
    <3> QED BY Zenon, <2>1, <3>4, <3>5, <3>6
  <2>6. CASE ExitDetach(l)
    <3> USE <2>6 DEF ExitDetach, Goto
    <3>1. \A q \in Proc : Alive(q)' <=> Alive(q)
      BY Zenon DEF Alive
    <3>2. /\ \A m \in Loader : lpc'[m] = IF m = l THEN "idle" ELSE lpc[m]
          /\ \A q \in Proc : tracer'[q] = IF q = target[l] /\ Alive(q) THEN None ELSE tracer[q]
          /\ target[l] \in Proc
      BY DEF TypeOK
    <3>3. \A m \in Loader : m # l /\ lpc[m] \in Attached /\ Alive(target[m]) => target[m] # target[l]
      BY Zenon, <1>0 DEF Owned
    <3>4. Unborn' /\ Owned'
      BY <1>0, <3>1, <3>2, <3>3, LoaderAssumption DEF Unborn, Owned, TypeOK
    <3>5. Registers'
      BY SMTT(30), <1>0, <3>1, <3>2 DEF Registers, TypeOK
    <3>6. ContextRestored'
      BY <1>0, <3>1, <3>2 DEF ContextRestored, Registers
    <3> QED BY Zenon, <2>1, <3>4, <3>5, <3>6
  <2>7. CASE \/ CallFailed(l) \/ Mmap(l) \/ Dlopen(l) \/ Dlerror(l) \/ Dlsym(l) \/ Wild(l)
             \/ ClientEntry(l) \/ Load(l) \/ Dlclose(l)
    <3>1. /\ UNCHANGED <<state, tracer, ctx, orphaned, target, saved>>
          /\ lpc[l] \in Remote
          /\ \E there \in Remote \cup {"exit_regs"} : lpc' = [lpc EXCEPT ![l] = there]
      BY Zenon, <2>7, RemoteStep
    <3>2. (\A m \in Loader : m # l => lpc'[m] = lpc[m]) /\ lpc'[l] \in Remote \cup {"exit_regs"}
      BY <3>1 DEF TypeOK
    <3>3. \A q \in Proc : Alive(q)' <=> Alive(q)
      BY Zenon, <3>1 DEF Alive
    <3>4. \A q \in Proc : state[q] = "unborn" => loads'[q] = 0
      <4>1. \A q \in Proc : q # target[l] => loads'[q] = loads[q]
        BY <2>7 DEF CallFailed, Mmap, Dlopen, Dlerror, Dlsym, Wild, ClientEntry, Load, Dlclose,
                    process, TypeOK
      <4>2. state[target[l]] # "unborn"
        BY Zenon, <1>0, <3>1 DEF Unborn
      <4> QED BY Zenon, <4>1, <4>2 DEF Unborn
    <3>5. Unborn' /\ Owned'
      BY <1>0, <3>1, <3>2, <3>3, <3>4, LoaderAssumption DEF Unborn, Owned, TypeOK
    <3>6. Registers' /\ ContextRestored'
      BY <1>0, <3>1, <3>2, <3>3 DEF Registers, ContextRestored, TypeOK
    <3> QED BY Zenon, <2>1, <3>5, <3>6
  <2> QED BY Zenon, <1>5, <2>2, <2>3, <2>4, <2>5, <2>6, <2>7 DEF Step
<1>6. CASE UNCHANGED vars
  BY Zenon, <1>6 DEF vars, process, loader, TypeOK, Unborn, Owned, Registers, ContextRestored, Alive
<1> QED BY Zenon, <1>1, <1>2, <1>3, <1>4, <1>5, <1>6 DEF Next

\* The inductive invariant holds in every behaviour of xload().
THEOREM Ownership == Spec => []CInv
<1>1. CInv /\ [Next]_vars => CInv'
  BY Zenon, NextC
<1> QED BY InitC, <1>1, PTL DEF Spec

\* The variables keep their types.
THEOREM LoaderTypeCorrect == Spec => []TypeOK
<1>1. CInv => TypeOK
  BY Zenon DEF CInv
<1> QED BY Ownership, <1>1, PTL

\* However trace_remote_process() ends, a process that is let go has its own
\* registers again, unless a loader was killed while it traced it.
THEOREM ContextIsRestored == Spec => []ContextRestored
<1>1. CInv => ContextRestored
  BY SMTT(30) DEF CInv
<1> QED BY Ownership, <1>1, PTL

\* No return of xload() leaves its process traced.
THEOREM TargetIsReleased == Spec => []TargetReleased
<1>1. CInv => TargetReleased
  BY SMTT(30), LoaderAssumption DEF CInv, Owned, TargetReleased, Attached, Remote
<1> QED BY Ownership, <1>1, PTL

-----------------------------------------------------------------------------
(* load_java() at most once.  Ownership makes the loader in load_java()    *)
(* the only one whose calls run in the process; once it is out again,      *)
(* g_already_Xloader is set and, as the library stays mapped, stays set.   *)

Once ==
  \A p \in Proc : p \notin orphaned /\ loads[p] # 0 =>
    /\ loads[p] = 1
    /\ \/ p \in already
       \/ state[p] = "dead"
       \/ tracer[p] # None /\ lpc[tracer[p]] = "loading" /\ kind[tracer[p]] = "java"

\* What one step of a loader can do to the record of a load: nothing unless it
\* is client_entry() that enters load_java() or load_java() that ends.
LEMMA StepOnce ==
  ASSUME ~SameBase, ~MayFault, TypeOK, NEW l \in Loader, Step(l)
  PROVE  /\ UNCHANGED <<state, orphaned, target, kind>>
         /\ already \subseteq already'
         /\ \A m \in Loader : m # l => lpc'[m] = lpc[m]
         /\ \A p \in Proc : p # target[l] => loads'[p] = loads[p] /\ tracer'[p] = tracer[p]
         /\ \/ /\ loads' = loads /\ lpc[l] # "loading"
               /\ tracer'[target[l]] = tracer[target[l]] \/ tracer[target[l]] = None \/ lpc[l] = "exit_detach"
            \/ /\ loads' = loads /\ lpc[l] = "loading" /\ tracer' = tracer
               /\ ~Alive(target[l]) \/ kind[l] = "native" \/ target[l] \in already'
            \/ /\ lpc[l] = "client_entry" /\ lpc'[l] = "loading" /\ kind[l] = "java"
               /\ target[l] \notin already /\ Alive(target[l]) /\ tracer' = tracer
               /\ loads'[target[l]] = loads[target[l]] + 1
            \/ /\ loads' = loads /\ lpc[l] = "client_entry" /\ tracer' = tracer
<1> USE DEF process, Goto, Set
<1>1. CASE ForbidReload(l)
  BY <1>1 DEF ForbidReload, TypeOK
<1>2. CASE Attach(l)
  BY <1>2 DEF Attach, TypeOK
<1>3. CASE GetRegs(l)
  BY <1>3 DEF GetRegs, TypeOK
<1>4. CASE CallFailed(l)
  BY Zenon, <1>4 DEF CallFailed, TypeOK
<1>5. CASE Mmap(l) \/ Dlerror(l) \/ Dlopen(l) \/ Dlsym(l) \/ Wild(l)
  BY <1>5 DEF Mmap, Dlerror, Dlopen, Dlsym, Wild, TypeOK
<1>6. CASE ClientEntry(l)
  BY <1>6 DEF ClientEntry, TypeOK
<1>7. CASE Load(l)
  BY Zenon, <1>7 DEF Load, TypeOK
<1>8. CASE Dlclose(l)
  BY Zenon, <1>8 DEF Dlclose, TypeOK
<1>9. CASE ExitRegs(l)
  BY Zenon, <1>9 DEF ExitRegs, TypeOK
<1>10. CASE ExitDetach(l)
  BY Zenon, <1>10 DEF ExitDetach, TypeOK
<1> QED BY Zenon, <1>1, <1>2, <1>3, <1>4, <1>5, <1>6, <1>7, <1>8, <1>9, <1>10 DEF Step

\* Every step preserves the record of the loads.
LEMMA NextOnce ==
  ASSUME ~SameBase, ~MayFault, CInv, Once, [Next]_vars
  PROVE  Once'
<1> USE DEF CInv
<1>1. ASSUME NEW p \in Proc, ProcessStarts(p) PROVE Once'
  <2>1. loads[p] = 0 /\ \A q \in Proc : q # p => state'[q] = state[q]
    BY Zenon, <1>1 DEF ProcessStarts, Unborn, TypeOK
  <2> QED BY Zenon, <1>1, <2>1 DEF ProcessStarts, loader, Once
<1>2. ASSUME NEW p \in Proc, ProcessDies(p) PROVE Once'
  <2>1. /\ state'[p] = "dead"
        /\ \A q \in Proc : q # p => state'[q] = state[q] /\ tracer'[q] = tracer[q]
    BY <1>2 DEF ProcessDies, TypeOK
  <2> QED BY <1>2, <2>1 DEF ProcessDies, loader, Once
<1>3. ASSUME NEW l \in Loader, LoaderKilled(l) PROVE Once'
  <2>1. /\ \A q \in Proc : q \notin orphaned' => tracer'[q] = tracer[q] /\ tracer[q] # l
        /\ \A m \in Loader : m # l => lpc'[m] = lpc[m]
        /\ orphaned \subseteq orphaned' /\ UNCHANGED <<state, already, loads, kind>>
    BY Zenon, <1>3 DEF LoaderKilled, Goto, TypeOK
  <2> QED BY <2>1 DEF Once, TypeOK
<1>4. ASSUME NEW l \in Loader, Xload(l) PROVE Once'
  <2>1. /\ \A m \in Loader : m # l => lpc'[m] = lpc[m] /\ kind'[m] = kind[m]
        /\ UNCHANGED process /\ lpc[l] = "idle"
    BY SMTT(30), <1>4 DEF Xload, Goto, TypeOK
  <2> QED BY <2>1 DEF Once, TypeOK, process
<1>5. ASSUME NEW l \in Loader, Step(l) PROVE Once'
  <2> DEFINE t == target[l]
  <2>0. t \in Proc /\ \A q \in Proc : loads[q] \in Nat
    BY Zenon DEF TypeOK
  <2>1. /\ UNCHANGED <<state, orphaned, target, kind>>
        /\ already \subseteq already'
        /\ \A m \in Loader : m # l => lpc'[m] = lpc[m]
        /\ \A p \in Proc : p # t => loads'[p] = loads[p] /\ tracer'[p] = tracer[p]
        /\ \/ /\ loads' = loads /\ lpc[l] # "loading"
              /\ tracer'[t] = tracer[t] \/ tracer[t] = None \/ lpc[l] = "exit_detach"
           \/ /\ loads' = loads /\ lpc[l] = "loading" /\ tracer' = tracer
              /\ ~Alive(t) \/ kind[l] = "native" \/ t \in already'
           \/ /\ lpc[l] = "client_entry" /\ lpc'[l] = "loading" /\ kind[l] = "java"
              /\ t \notin already /\ Alive(t) /\ tracer' = tracer
              /\ loads'[t] = loads[t] + 1
           \/ /\ loads' = loads /\ lpc[l] = "client_entry" /\ tracer' = tracer
    BY Zenon, <1>5, StepOnce
  <2>2. \A q \in Proc : tracer[q] = l => q = t
    BY Zenon, LoaderAssumption DEF Owned
  <2>3. lpc[l] \in Attached /\ Alive(t) => tracer[t] = l
    BY Zenon DEF Owned
  <2>4. /\ "loading" \in Attached /\ "client_entry" \in Attached /\ "exit_detach" \in Attached
    BY Zenon DEF Attached, Remote
  <2>5. \A q \in Proc : tracer[q] \in Loader \cup {None}
    BY Zenon DEF TypeOK
  <2>6. ASSUME NEW q \in Proc, q # t, q \notin orphaned', loads'[q] # 0
        PROVE  /\ loads'[q] = 1
               /\ \/ q \in already' \/ state'[q] = "dead"
                  \/ tracer'[q] # None /\ lpc'[tracer'[q]] = "loading" /\ kind'[tracer'[q]] = "java"
    BY SMTT(30), <2>1, <2>2, <2>5, <2>6 DEF Once
  <2>7. ASSUME t \notin orphaned', loads'[t] # 0
        PROVE  /\ loads'[t] = 1
               /\ \/ t \in already' \/ state'[t] = "dead"
                  \/ tracer'[t] # None /\ lpc'[tracer'[t]] = "loading" /\ kind'[tracer'[t]] = "java"
    <3> HIDE DEF t
    <3>1. state[t] = "dead" \/ state[t] = "unborn" \/ Alive(t)
      BY Zenon, <2>0 DEF TypeOK, Alive
    <3>2. state[t] = "unborn" => loads[t] = 0
      BY Zenon, <2>0 DEF Unborn
    <3>3. CASE loads' = loads /\ lpc[l] # "loading"
                 /\ (tracer'[t] = tracer[t] \/ tracer[t] = None \/ lpc[l] = "exit_detach")
      BY SMTT(30), <2>0, <2>1, <2>3, <2>4, <2>5, <2>7, <3>1, <3>2, <3>3, LoaderAssumption DEF Once
    <3>4. CASE loads' = loads /\ lpc[l] = "loading" /\ tracer' = tracer
                 /\ (~Alive(t) \/ kind[l] = "native" \/ t \in already')
      BY Zenon, <2>0, <2>1, <2>3, <2>4, <2>5, <2>7, <3>1, <3>2, <3>4 DEF Once
    <3>5. CASE lpc[l] = "client_entry" /\ lpc'[l] = "loading" /\ kind[l] = "java"
                 /\ t \notin already /\ Alive(t) /\ tracer' = tracer /\ loads'[t] = loads[t] + 1
      BY SMTT(20), <2>0, <2>1, <2>3, <2>4, <2>7, <3>5, LoaderAssumption DEF Once, Alive
    <3>6. CASE loads' = loads /\ lpc[l] = "client_entry" /\ tracer' = tracer
      BY Zenon, <2>0, <2>1, <2>3, <2>4, <2>5, <2>7, <3>1, <3>2, <3>6 DEF Once
    <3> QED BY Zenon, <2>1, <3>3, <3>4, <3>5, <3>6
  <2> HIDE DEF t
  <2> QED BY Zenon, <2>6, <2>7 DEF Once
<1>6. CASE UNCHANGED vars
  BY Zenon, <1>6 DEF vars, process, loader, Once
<1> QED BY Zenon, <1>1, <1>2, <1>3, <1>4, <1>5, <1>6 DEF Next

\* "forbid reload": where dlclose() does not reach the target's linker and no
\* code in the target faults, a process enters load_java() at most once,
\* however many loaders pass the check on its maps at the same time.
THEOREM LoadsOnce ==
  ASSUME ~SameBase, ~MayFault
  PROVE  Spec => []LoadOnce
<1>1. Init => Once
  BY DEF Init, Once
<1>2. CInv /\ Once /\ [Next]_vars => Once'
  BY Zenon, NextOnce
<1>3. Once /\ CInv => LoadOnce
  BY DEF Once, LoadOnce, CInv, TypeOK
<1> QED BY Ownership, <1>1, <1>2, <1>3, PTL DEF Spec

-----------------------------------------------------------------------------
(* load_java() at most once in a target whose code may fault.  A fault in  *)
(* load_java() leaves g_already_Xloader clear, so that only the check on   *)
(* the maps is left to refuse a second load: it is enough for one loader,  *)
(* as the library stays mapped.                                            *)

Entering == {"attach", "getregs", "mmap", "dlopen", "dlsym", "client_entry"}

\* A process that entered load_java() has the library in its maps, and a
\* loader past the check on the maps has a target that did not enter it.
Mapped ==
  /\ \A p \in Proc : p \notin orphaned /\ loads[p] # 0 => loads[p] = 1 /\ refs[p] > 0
  /\ \A l \in Loader :
       /\ lpc[l] = "client_entry" => refs[target[l]] > 0
       /\ lpc[l] \in Entering =>
            loads[target[l]] = 0 \/ state[target[l]] = "dead" \/ target[l] \in orphaned

\* A step of the only loader preserves the record of the maps.
LEMMA StepMapped ==
  ASSUME ~SameBase, NEW l, Loader = {l}, TypeOK, Unborn, Mapped, Step(l)
  PROVE  Mapped'
<1> DEFINE t == target[l]
<1>0. /\ l \in Loader /\ t \in Proc /\ \A q \in Proc : loads[q] \in Nat /\ refs[q] \in Nat
      /\ state[t] \in {"unborn", "alive", "dead"}
  BY Zenon DEF TypeOK
<1>1. SUFFICES
        /\ UNCHANGED <<state, orphaned, target>>
        /\ \A q \in Proc : q # t => loads'[q] = loads[q] /\ refs'[q] = refs[q]
        /\ t \notin orphaned /\ loads'[t] # 0 => loads'[t] = 1 /\ refs'[t] > 0
        /\ lpc'[l] = "client_entry" => refs'[t] > 0
        /\ lpc'[l] \in Entering => loads'[t] = 0 \/ state[t] = "dead" \/ t \in orphaned
  BY Zenon, <1>0 DEF Mapped
<1>2. /\ t \notin orphaned /\ loads[t] # 0 => loads[t] = 1 /\ refs[t] > 0
      /\ lpc[l] = "client_entry" => refs[t] > 0
      /\ lpc[l] \in Entering => loads[t] = 0 \/ state[t] = "dead" \/ t \in orphaned
  BY Zenon, <1>0 DEF Mapped
<1> USE <1>0, <1>2 DEF process, Goto, Entering
<1>3. CASE ForbidReload(l)
  <2>1. UNCHANGED process /\ UNCHANGED target /\ lpc'[l] \in {"idle", "attach"}
    BY Zenon, <1>3 DEF ForbidReload, TypeOK
  <2>2. lpc'[l] = "attach" => refs[t] = 0 \/ state[t] # "alive"
    BY SMTT(30), <1>3 DEF ForbidReload, TypeOK, Alive
  <2>3. state[t] = "unborn" => loads[t] = 0
    BY Zenon DEF Unborn
  <2> HIDE DEF t
  <2> QED BY SMTT(30), <2>1, <2>2, <2>3
<1>4. CASE Attach(l)
  BY SMTT(30), <1>4 DEF Attach, TypeOK
<1>5. CASE GetRegs(l)
  BY SMTT(30), <1>5 DEF GetRegs, TypeOK
<1>6. CASE CallFailed(l)
  BY SMTT(30), <1>6 DEF CallFailed, TypeOK
<1>7. CASE Mmap(l) \/ Dlerror(l) \/ Wild(l)
  BY SMTT(30), <1>7 DEF Mmap, Dlerror, Wild, TypeOK
<1>8. CASE Dlopen(l)
  BY SMTT(30), <1>8 DEF Dlopen, TypeOK
<1>9. CASE Dlsym(l)
  BY SMTT(30), <1>9 DEF Dlsym, TypeOK
<1>10. CASE ClientEntry(l)
  BY SMTT(30), <1>10 DEF ClientEntry, TypeOK, Alive
<1>11. CASE Load(l)
  BY SMTT(30), <1>11 DEF Load, TypeOK
<1>12. CASE Dlclose(l)
  BY SMTT(30), <1>12 DEF Dlclose, TypeOK
<1>13. CASE ExitRegs(l)
  BY SMTT(30), <1>13 DEF ExitRegs, TypeOK
<1>14. CASE ExitDetach(l)
  BY SMTT(30), <1>14 DEF ExitDetach, TypeOK
<1> HIDE <1>0, <1>2 DEF t, process, Goto, Entering
<1> QED BY Zenon, <1>3, <1>4, <1>5, <1>6, <1>7, <1>8, <1>9, <1>10, <1>11, <1>12, <1>13, <1>14 DEF Step

\* Every step of a system with one loader preserves the record of the maps.
LEMMA NextMapped ==
  ASSUME ~SameBase, NEW l, Loader = {l}, TypeOK, Unborn, Mapped, [Next]_vars
  PROVE  Mapped'
<1>0. l \in Loader /\ target[l] \in Proc
  BY Zenon DEF TypeOK
<1>1. ASSUME NEW p \in Proc, ProcessStarts(p) \/ ProcessDies(p) PROVE Mapped'
  <2>1. \A q \in Proc : state[q] = "dead" => state'[q] = "dead"
    BY SMTT(30), <1>1 DEF ProcessStarts, ProcessDies, Alive, TypeOK
  <2>2. UNCHANGED <<refs, loads, orphaned, lpc, target>>
    BY Zenon, <1>1 DEF ProcessStarts, ProcessDies, loader
  <2> QED BY Zenon, <1>0, <2>1, <2>2 DEF Mapped
<1>2. CASE LoaderKilled(l)
  <2>1. /\ lpc'[l] = "idle" /\ orphaned \subseteq orphaned'
        /\ UNCHANGED <<state, refs, loads, target>>
    BY Zenon, <1>0, <1>2 DEF LoaderKilled, Goto, TypeOK
  <2> QED BY Zenon, <2>1 DEF Mapped, Entering
<1>3. CASE Xload(l)
  <2>1. lpc'[l] \in {"idle", "check"} /\ UNCHANGED process
    BY SMTT(30), <1>0, <1>3 DEF Xload, Goto, TypeOK
  <2> QED BY Zenon, <2>1 DEF Mapped, Entering, process
<1>4. CASE UNCHANGED vars
  BY Zenon, <1>4 DEF vars, process, loader, Mapped
<1> QED BY Zenon, <1>1, <1>2, <1>3, <1>4, StepMapped DEF Next

\* "forbid reload" for a loader on its own: also where code in the target
\* faults, in load_java() or anywhere else, a process whose loader was not
\* killed enters load_java() at most once.
THEOREM LoadsOnceAlone ==
  ASSUME ~SameBase, NEW CONSTANT l, Loader = {l}
  PROVE  Spec => []LoadOnce
<1>1. Init => Mapped
  BY DEF Init, Mapped, Entering
<1>2. CInv /\ Mapped /\ [Next]_vars => Mapped'
  BY Zenon, NextMapped DEF CInv
<1>3. Mapped /\ CInv => LoadOnce
  BY SMTT(30) DEF Mapped, LoadOnce, CInv, TypeOK
<1> QED BY Ownership, <1>1, <1>2, <1>3, PTL DEF Spec

-----------------------------------------------------------------------------
(* What SUCCESS means when no code in the target faults.                   *)

\* Inductive with the types: no call goes to an address that is none, and
\* SUCCESS comes from a load.
Truthful == \A l \in Loader : lpc[l] # "wild" /\ (ret[l] = "SUCCESS" => l \in did)

\* Every step keeps the types.
LEMMA NextType == ASSUME TypeOK, [Next]_vars PROVE TypeOK'
<1>1. ASSUME NEW p \in Proc, ProcessStarts(p) \/ ProcessDies(p) PROVE TypeOK'
  BY <1>1 DEF ProcessStarts, ProcessDies, loader, TypeOK
<1>2. ASSUME NEW l \in Loader, Xload(l) PROVE TypeOK'
  BY <1>2, LoaderAssumption DEF Xload, Goto, Set, process, TypeOK
<1>3. ASSUME NEW l \in Loader, LoaderKilled(l) PROVE TypeOK'
  BY <1>3, LoaderAssumption DEF LoaderKilled, Goto, Set, TypeOK
<1>4. CASE UNCHANGED vars
  BY Zenon, <1>4 DEF vars, process, loader, TypeOK
<1> QED BY Zenon, <1>1, <1>2, <1>3, <1>4, StepType DEF Next

\* Every step keeps SUCCESS true: load_java() and load_native() set it, and
\* the next xload() takes it back.
LEMMA NextTruthful == ASSUME ~MayFault, TypeOK, Truthful, [Next]_vars PROVE Truthful'
<1> USE DEF Goto, Set
<1>1. ASSUME NEW l \in Loader,
             \E w \in Remote \cup {"idle", "check", "attach", "getregs", "exit_regs", "exit_detach"} :
               lpc' = [lpc EXCEPT ![l] = w] /\ w # "wild",
             ret'[l] = "SUCCESS" => l \in did',
             \A k \in Loader : k # l => ret'[k] = ret[k] /\ (k \in did => k \in did')
      PROVE  Truthful'
  BY <1>1 DEF Truthful, TypeOK
<1>2. ASSUME UNCHANGED loader PROVE Truthful'
  BY Zenon, <1>2 DEF loader, Truthful
<1>3. ASSUME NEW l \in Loader, Xload(l) PROVE Truthful'
  <2>1. ret'[l] # "SUCCESS" /\ \A k \in Loader : k # l => ret'[k] = ret[k] /\ (k \in did => k \in did')
    BY <1>3 DEF Xload, TypeOK
  <2>2. lpc' = [lpc EXCEPT ![l] = lpc'[l]] /\ lpc'[l] \in {lpc[l], "check"}
    BY <1>3 DEF Xload, TypeOK
  <2> QED BY <1>1, <2>1, <2>2 DEF Truthful, TypeOK
<1>4. ASSUME NEW l \in Loader, LoaderKilled(l) PROVE Truthful'
  BY Zenon, <1>1, <1>4 DEF LoaderKilled, TypeOK
<1>5. ASSUME NEW l \in Loader, ForbidReload(l) \/ Attach(l) \/ GetRegs(l) \/ CallFailed(l) PROVE Truthful'
  <2>1. ret'[l] \in {ret[l], "PROCESS_LOADED", "PTRACE_FAILED", "MMAP_FAILED", "DLERROR_FAILED", "REMOTE_CALL_FAILED"}
    BY <1>5 DEF ForbidReload, Attach, GetRegs, CallFailed, TypeOK
  <2>2. did' = did /\ \A k \in Loader : k # l => ret'[k] = ret[k]
    BY <1>5 DEF ForbidReload, Attach, GetRegs, CallFailed, TypeOK
  <2>3. \E w \in {"idle", "attach", "getregs", "mmap", "exit_detach", "exit_regs"} : lpc' = [lpc EXCEPT ![l] = w]
    BY Zenon, <1>5 DEF ForbidReload, Attach, GetRegs, CallFailed
  <2> QED BY Zenon, <1>1, <2>1, <2>2, <2>3 DEF Truthful, Remote
<1>6. ASSUME NEW l \in Loader, Mmap(l) \/ Dlopen(l) \/ Dlerror(l) \/ Dlsym(l) \/ ClientEntry(l) PROVE Truthful'
  <2>1. ret'[l] \in {ret[l], "DLOPEN_FAILED", "DLSYM_FAILED", "ENTRY_LOADER", "CLIENT_ERROR"}
    BY Zenon, <1>6 DEF Mmap, Dlopen, Dlerror, Dlsym, ClientEntry, TypeOK
  <2>2. did' = did /\ \A k \in Loader : k # l => ret'[k] = ret[k]
    BY Zenon, <1>6 DEF Mmap, Dlopen, Dlerror, Dlsym, ClientEntry, TypeOK
  <2>3. \E w \in {"dlopen", "dlsym", "dlerror", "exit_regs", "client_entry", "loading", "dlclose"} :
          lpc' = [lpc EXCEPT ![l] = w]
    BY Zenon, <1>6 DEF Mmap, Dlopen, Dlerror, Dlsym, ClientEntry
  <2> QED BY Zenon, <1>1, <2>1, <2>2, <2>3 DEF Truthful, Remote
<1>7. ASSUME NEW l \in Loader, Load(l) PROVE Truthful'
  <2>1. (ret'[l] = "SUCCESS" => l \in did') /\ did \subseteq did' /\ \A k \in Loader : k # l => ret'[k] = ret[k]
    BY Zenon, <1>7 DEF Load, TypeOK
  <2>2. lpc' = [lpc EXCEPT ![l] = "dlclose"]
    BY Zenon, <1>7 DEF Load
  <2> QED BY Zenon, <1>1, <2>1, <2>2 DEF Remote
<1>8. ASSUME NEW l \in Loader, Wild(l) PROVE FALSE
  BY Zenon, <1>8 DEF Wild, Truthful
<1>9. ASSUME NEW l \in Loader, Dlclose(l) \/ ExitRegs(l) \/ ExitDetach(l) PROVE Truthful'
  <2>1. ret' = ret /\ did' = did
    BY Zenon, <1>9 DEF Dlclose, ExitRegs, ExitDetach
  <2>2. \E w \in {"idle", "exit_detach", "exit_regs"} : lpc' = [lpc EXCEPT ![l] = w]
    BY Zenon, <1>9 DEF Dlclose, ExitRegs, ExitDetach
  <2> QED BY Zenon, <1>1, <2>1, <2>2 DEF Truthful
<1>10. ASSUME NEW p \in Proc, ProcessStarts(p) \/ ProcessDies(p) PROVE Truthful'
  BY Zenon, <1>2, <1>10 DEF ProcessStarts, ProcessDies
<1>11. CASE UNCHANGED vars
  BY Zenon, <1>2, <1>11 DEF vars
<1> QED BY Zenon, <1>3, <1>4, <1>5, <1>6, <1>7, <1>8, <1>9, <1>10, <1>11 DEF Next, Step

\* xload() answers SUCCESS only for a call that has loaded its module, if no
\* code in the target raises a SIGSEGV of its own.
THEOREM SuccessIsLoaded ==
  ASSUME ~MayFault
  PROVE  Spec => []SuccessMeansLoaded
<1>1. Init => Truthful
  BY Zenon DEF Init, Truthful
<1>2. TypeOK /\ Truthful /\ [Next]_vars => Truthful'
  BY Zenon, NextTruthful
<1>3. Truthful => SuccessMeansLoaded
  BY Zenon DEF Truthful, SuccessMeansLoaded
<1> QED BY LoaderTypeCorrect, <1>1, <1>2, <1>3, PTL DEF Spec

\* The same where the target is of either kind, chosen once: xload() on one
\* whose code does not fault answers SUCCESS only for a module it has loaded.
THEOREM SuccessIsTrusted ==
  ASSUME ~MayFault
  PROVE  MixedSpec => []SuccessWithoutFault
<1> DEFINE Trusted == faulty = "no" => TypeOK /\ Truthful
<1>1. MixedInit => Trusted
  BY Zenon, InitC DEF MixedInit, CInv, Init, Truthful
<1>2. Trusted /\ [MixedNext]_<<vars, faulty>> => Trusted'
  <2> SUFFICES ASSUME Trusted, [MixedNext]_<<vars, faulty>>, faulty' = "no" PROVE TypeOK' /\ Truthful'
    BY Zenon
  <2>1. faulty = "no" /\ [Next]_vars
    BY Zenon DEF MixedNext, PairNext
  <2> QED BY Zenon, <2>1, NextType, NextTruthful
<1>3. Trusted => SuccessWithoutFault
  BY Zenon DEF Truthful, SuccessWithoutFault, SuccessMeansLoaded
<1> QED BY <1>1, <1>2, <1>3, PTL DEF MixedSpec

-----------------------------------------------------------------------------
(* SafeMode: the detection of the trigger.                                 *)

\* The last n presses that were read are all of the key k.
Row(n, k) == n <= Len(pressed) /\ \A i \in Len(pressed) - n + 1..Len(pressed) : pressed[i] = k

\* Inductive.  The count is the length of a row of presses that ends with the
\* last one; with the devices still to be read it stays below its bound.
Detecting ==
  /\ queued \in [Device -> Seq(Keys)] /\ ready \subseteq Device /\ held \in [Device -> SUBSET Keys]
  /\ step \in {"open", "initial", "detect", "left"} /\ pressedKey \in Keys \cup {0}
  /\ triggerPresses \in Nat /\ pressed \in Seq(Keys)
  /\ \A d \in ready : queued[d] # <<>>
  /\ step # "left" => result = FALSE
  /\ step = "open" => ready = {}
  /\ step \in {"open", "initial"} => triggerPresses = 0
  /\ pressedKey # 0 => Device # {}
  /\ step = "initial" /\ pressedKey # 0 => Row(1, pressedKey)
  /\ step = "detect" => pressedKey # 0 /\ Row(triggerPresses, pressedKey)
  /\ triggerPresses = 0 \/ triggerPresses + Cardinality(ready) < DetectionPresses + Cardinality(Device)
  /\ TriggeredByRow

\* A press that is read makes a row longer, or begins one.
LEMMA RowGrows ==
  ASSUME pressed \in Seq(Keys), NEW k \in Keys, pressed' = Append(pressed, k), NEW n \in Nat, Row(n, k)
  PROVE  pressed' \in Seq(Keys) /\ Row(n + 1, k)'
<1>1. /\ pressed' \in Seq(Keys) /\ Len(pressed') = Len(pressed) + 1 /\ Len(pressed) \in Nat
      /\ (\A i \in 1..Len(pressed) : pressed'[i] = pressed[i]) /\ pressed'[Len(pressed) + 1] = k
  BY AppendProperties, LenProperties
<1>2. n + 1 <= Len(pressed')
  BY <1>1 DEF Row
<1>3. ASSUME NEW i \in Len(pressed') - (n + 1) + 1..Len(pressed') PROVE pressed'[i] = k
  <2>1. CASE i = Len(pressed) + 1
    BY Zenon, <1>1, <2>1
  <2>2. CASE i # Len(pressed) + 1
    <3>1. i \in Len(pressed) - n + 1..Len(pressed) /\ i \in 1..Len(pressed)
      BY <1>1, <1>2, <2>2 DEF Row
    <3> QED BY Zenon, <1>1, <3>1 DEF Row
  <2> QED BY Zenon, <2>1, <2>2
<1> QED BY Zenon, <1>1, <1>2, <1>3 DEF Row

\* A row of no presses is always there.
LEMMA NoRow == ASSUME pressed \in Seq(Keys), NEW k PROVE Row(0, k)
BY LenProperties DEF Row

\* Nothing has been read at first.
LEMMA SafeBegins == SafeInit => Detecting
<1> SUFFICES ASSUME SafeInit PROVE Detecting
  BY Zenon
<1>1. pressed \in Seq(Keys) /\ queued \in [Device -> Seq(Keys)]
  BY DEF SafeInit
<1>2. ~result /\ result = FALSE
  BY Zenon DEF SafeInit
<1> QED BY Zenon, <1>1, <1>2 DEF SafeInit, Detecting, TriggeredByRow

\* Every step of the detection, and every press, keeps the count a row.
LEMMA SafeStep == Detecting /\ [SafeNext]_safeVars => Detecting'
<1> SUFFICES ASSUME Detecting, [SafeNext]_safeVars PROVE Detecting'
  BY Zenon
<1> USE KeysAssumption DEF Detecting
<1>a. IsFiniteSet(Device) /\ Cardinality(Device) \in Nat /\ Cardinality({}) = 0 /\ (Device # {} => Cardinality(Device) > 0)
  BY FS_CardinalityType, FS_EmptySet
<1>b. IsFiniteSet(ready) /\ Cardinality(ready) \in Nat /\ Cardinality(ready) <= Cardinality(Device)
  BY Zenon, <1>a, FS_Subset, FS_CardinalityType
<1>c. DetectionPresses \in Nat /\ DetectionPresses > 0 /\ 0 \notin Keys
  OBVIOUS
<1>d. ASSUME UNCHANGED <<pressed, pressedKey>>
      PROVE  \A n : Row(n, pressedKey)' <=> Row(n, pressedKey)
  BY Zenon, <1>d DEF Row
<1>1. CASE Open
  <2> DEFINE down == {x \in Device \X Keys : x[2] \in held[x[1]]}
             key == IF Cardinality(down) = 1 THEN (CHOOSE x \in down : TRUE)[2] ELSE 0
  <2>1. key = 0 \/ (key \in Keys /\ Device # {})
    <3>1. CASE Cardinality(down) = 1
      <4>1. down # {}
        <5>1. Cardinality({}) # 1
          BY <1>a
        <5> HIDE DEF down
        <5> QED BY <3>1, <5>1, Zenon
      <4>2. (CHOOSE x \in down : TRUE) \in down
        BY Zenon, <4>1
      <4> QED BY <4>2
    <3> QED BY Zenon, <3>1
  <2>2. CASE Cardinality(down) > 1 \/ (down = {} /\ skipInitialDelay)
    <3>1. Leave(FALSE) /\ UNCHANGED <<pressedKey, pressed, triggerPresses, held, queued>> /\ step = "open"
      BY Zenon, <1>1, <2>2 DEF Open
    <3> QED BY Zenon, <3>1, <1>a DEF Leave, TriggeredByRow
  <2>3. CASE ~(Cardinality(down) > 1 \/ (down = {} /\ skipInitialDelay))
    <3>1. /\ pressedKey' = key /\ step' = IF key = 0 THEN "initial" ELSE "detect"
          /\ triggerPresses' = IF key = 0 THEN 0 ELSE 1
          /\ pressed' = IF key = 0 THEN <<>> ELSE <<key>>
          /\ UNCHANGED <<ready, result, held, queued>> /\ step = "open"
      BY Zenon, <1>1, <2>3 DEF Open
    <3> HIDE DEF key
    <3>2. pressed' \in Seq(Keys)
      BY <2>1, <3>1
    <3>3. CASE key = 0
      BY Zenon, <1>a, <3>1, <3>2, <3>3 DEF TriggeredByRow
    <3>4. CASE key # 0
      <4>1. Row(1, pressedKey)'
        BY <2>1, <3>1, <3>4 DEF Row
      <4>2. step' = "detect" /\ triggerPresses' = 1 /\ pressedKey' \in Keys /\ Device # {} /\ ready' = ready
        BY Zenon, <2>1, <3>1, <3>4
      <4>3. Cardinality(ready') = 0
        BY Zenon, <1>a, <3>1
      <4> QED BY SMTT(20), <1>a, <1>c, <3>1, <3>2, <4>1, <4>2, <4>3 DEF TriggeredByRow
    <3> QED BY Zenon, <3>3, <3>4
  <2> QED BY Zenon, <2>2, <2>3
<1>2. CASE OpenFails \/ TimeUp
  <2>1. Leave(FALSE) /\ UNCHANGED <<pressedKey, pressed, triggerPresses, held, queued>>
    BY Zenon, <1>2 DEF OpenFails, TimeUp
  <2>2. Cardinality(ready') = 0
    BY Zenon, <2>1, <1>a DEF Leave
  <2> QED BY <2>1, <2>2, <1>a, <1>b, <1>c DEF Leave, TriggeredByRow
<1>3. CASE Poll
  <2>1. /\ ready' = {d \in Device : queued[d] # <<>>} /\ step \in {"initial", "detect"} /\ Loops
        /\ UNCHANGED <<pressedKey, pressed, triggerPresses, held, queued, step, result>>
    BY Zenon, <1>3 DEF Poll
  <2>2. Cardinality(ready') \in Nat /\ Cardinality(ready') <= Cardinality(Device)
    BY Zenon, <2>1, <1>a, FS_Subset, FS_CardinalityType
  <2>3. triggerPresses = 0 \/ triggerPresses < DetectionPresses
    BY Zenon, <2>1 DEF Loops
  <2> HIDE DEF Row
  <2> QED BY <2>1, <2>2, <2>3, <1>a, <1>c, <1>d DEF TriggeredByRow
<1>4. CASE Started
  <2>1. /\ step = "initial" /\ ready = {} /\ pressedKey # 0 /\ step' = "detect" /\ triggerPresses' = 1
        /\ UNCHANGED <<held, queued, ready, pressedKey, result, pressed>>
    BY <1>4 DEF Started
  <2> QED BY <2>1, <1>a, <1>c, <1>d DEF TriggeredByRow
<1>5. CASE Triggered
  <2>1. /\ step = "detect" /\ ~(triggerPresses < DetectionPresses) /\ Leave(TRUE)
        /\ UNCHANGED <<held, queued, pressedKey, triggerPresses, pressed>>
    BY Zenon, <1>5 DEF Triggered, Loops
  <2>2. TriggeredByRow'
    <3>1. Row(triggerPresses, pressedKey) /\ Len(pressed) \in Nat
      BY Zenon, <2>1, LenProperties
    <3> QED BY <2>1, <3>1, <1>c DEF Row, TriggeredByRow
  <2>3. Cardinality(ready') = 0
    BY Zenon, <2>1, <1>a DEF Leave
  <2> QED BY <2>1, <2>2, <2>3, <1>a, <1>b DEF Leave
<1>6. ASSUME NEW d \in Device, ReadInitial(d) PROVE Detecting'
  <2>1. /\ step = "initial" /\ d \in ready /\ ready' = ready \ {d} /\ queued' = [queued EXCEPT ![d] = Tail(@)]
        /\ pressedKey' = Head(queued[d]) /\ pressed' = Append(pressed, Head(queued[d]))
        /\ UNCHANGED <<held, step, triggerPresses, result>>
    BY Zenon, <1>6 DEF ReadInitial
  <2>2. Head(queued[d]) \in Keys /\ Tail(queued[d]) \in Seq(Keys)
    BY Zenon, <2>1, HeadTailProperties
  <2>3. pressed' \in Seq(Keys) /\ Row(1, pressedKey)'
    <3>1. PICK k \in Keys : k = Head(queued[d]) /\ k = pressedKey'
      BY Zenon, <2>1, <2>2
    <3>2. pressed' \in Seq(Keys) /\ Row(0 + 1, k)'
      BY Zenon, <2>1, <3>1, NoRow, RowGrows
    <3> QED BY <3>1, <3>2
  <2> QED BY Zenon, <2>1, <2>2, <2>3, <1>a DEF TriggeredByRow
<1>7. ASSUME NEW d \in Device, ReadDetect(d) PROVE Detecting'
  <2>1. PICK k \in Keys : k = Head(queued[d])
    BY Zenon, <1>7, HeadTailProperties DEF ReadDetect
  <2>2. /\ step = "detect" /\ d \in ready /\ queued' = [queued EXCEPT ![d] = Tail(@)] /\ pressed' = Append(pressed, k)
        /\ UNCHANGED <<held, pressedKey>>
    BY Zenon, <1>7, <2>1 DEF ReadDetect
  <2>3. queued' \in [Device -> Seq(Keys)] /\ pressed' \in Seq(Keys)
    BY <2>2, HeadTailProperties, AppendProperties
  <2>4. CASE k = pressedKey
    <3>1. ready' = ready \ {d} /\ triggerPresses' = triggerPresses + 1 /\ UNCHANGED <<step, result>>
      BY Zenon, <1>7, <2>1, <2>4 DEF ReadDetect
    <3>2. Row(triggerPresses, pressedKey)'
      <4>1. PICK n \in Nat : n = triggerPresses
        BY Zenon
      <4>2. Row(n + 1, k)'
        BY Zenon, <2>2, <2>4, <4>1, RowGrows
      <4> QED BY Zenon, <2>2, <2>4, <3>1, <4>1, <4>2
    <3>3. Cardinality(ready') = Cardinality(ready) - 1
      BY Zenon, <2>2, <3>1, <1>b, FS_RemoveElement
    <3> HIDE DEF Row
    <3> QED BY SMTT(20), <1>a, <1>b, <1>c, <2>2, <2>3, <3>1, <3>2, <3>3 DEF TriggeredByRow
  <2>5. CASE k # pressedKey
    <3>1. Leave(FALSE) /\ triggerPresses' = triggerPresses
      BY Zenon, <1>7, <2>1, <2>5 DEF ReadDetect
    <3>2. Cardinality(ready') = 0
      BY <3>1, <1>a DEF Leave
    <3> QED BY <1>a, <1>b, <1>c, <2>2, <2>3, <3>1, <3>2 DEF Leave, TriggeredByRow
  <2> QED BY Zenon, <2>4, <2>5
<1>8. ASSUME NEW d \in Device, NEW k \in Keys, Press(d, k) PROVE Detecting'
  <2>1. queued' \in [Device -> Seq(Keys)] /\ \A e \in Device : queued[e] # <<>> => queued'[e] # <<>>
    BY <1>8, AppendProperties DEF Press
  <2>2. UNCHANGED <<held, ready, step, pressedKey, triggerPresses, result, pressed>>
    BY Zenon, <1>8 DEF Press
  <2> HIDE DEF Row
  <2> QED BY Zenon, <1>d, <2>1, <2>2 DEF TriggeredByRow, Row
<1>9. CASE UNCHANGED safeVars
  BY Zenon, <1>9 DEF safeVars, TriggeredByRow, Row
<1> QED BY Zenon, <1>1, <1>2, <1>3, <1>4, <1>5, <1>6, <1>7, <1>8, <1>9 DEF SafeNext

\* detectSafemodeTrigger(): its variables have their types; the devices of one
\* poll take the count at most one less than their number past its end.
THEOREM SafeTypes == SafeSpec => []SafeTypeOK
<1>1. Detecting => SafeTypeOK
  <2>1. IsFiniteSet(Device) /\ Cardinality(Device) \in Nat
    BY Zenon, KeysAssumption, FS_CardinalityType
  <2>2. ASSUME Detecting PROVE Cardinality(ready) \in Nat
    BY Zenon, <2>1, <2>2, FS_Subset, FS_CardinalityType DEF Detecting
  <2>3. ASSUME Detecting PROVE triggerPresses \in 0..DetectionPresses + Cardinality(Device) - 1
    <3>1. triggerPresses \in Nat /\ DetectionPresses \in Nat /\ DetectionPresses >= 1
      BY <2>3, KeysAssumption DEF Detecting
    <3>2. triggerPresses = 0 \/ triggerPresses + Cardinality(ready) < DetectionPresses + Cardinality(Device)
      BY Zenon, <2>3 DEF Detecting
    <3> QED BY <2>1, <2>2, <2>3, <3>1, <3>2
  <2> QED BY Zenon, <2>3 DEF Detecting, SafeTypeOK
<1> QED BY <1>1, SafeBegins, SafeStep, PTL DEF SafeSpec

\* detectSafemodeTrigger(): for any keys, devices and presses, safe mode is
\* triggered only by DETECTION_PRESSES presses of one key in a row.
THEOREM TriggersAreRows == SafeSpec => []TriggeredByRow
<1>1. Detecting => TriggeredByRow
  BY Zenon DEF Detecting
<1> QED BY <1>1, SafeBegins, SafeStep, PTL DEF SafeSpec

=============================================================================
