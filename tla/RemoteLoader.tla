---------------------------- MODULE RemoteLoader ----------------------------
(***************************************************************************)
(* xload() and trace_remote_process() of xloader.c, which make a process   *)
(* load libclient.so by calling mmap, dlopen, dlsym, client_entry and      *)
(* dlclose in it under ptrace, and client_entry() of client.c, which runs  *)
(* in that process.  The loaders are the daemon and the runs of the        *)
(* xloader binary: nothing keeps two of them from meeting at one process.  *)
(*                                                                         *)
(* A process is one incarnation of the target package.  A remote call is   *)
(* one state of the loader: the registers are set and the target runs      *)
(* until it faults at the return address 0, or dies.                       *)
(***************************************************************************)
EXTENDS Naturals

CONSTANTS Loader,       \* the processes that run xload()
          MaxProcs,     \* bound: incarnations of the target
          MaxXloads,    \* bound: calls of xload()
          MaxKills,     \* bound: loaders killed
          SameBase,     \* the linker is mapped at one address in loader and target
          MayFault,     \* code run in the target may raise a SIGSEGV of its own
          None

ASSUME LoaderAssumption ==
  /\ MaxProcs \in Nat \ {0} /\ MaxXloads \in Nat /\ MaxKills \in Nat
  /\ SameBase \in BOOLEAN /\ MayFault \in BOOLEAN
  /\ None \notin Loader

Proc == 1..MaxProcs

VARIABLES
  state,      \* state[p]: "unborn", "alive" or "dead"
  tracer,     \* tracer[p]: the loader attached to p
  ctx,        \* ctx[p]: whose registers p has, its own or those of a remote call
  refs,       \* refs[p]: handles on libclient.so, 0 when it is not mapped
  already,    \* the processes whose g_already_Xloader is set
  loads,      \* loads[p]: how often load_java() was entered in p
  orphaned,   \* the processes whose tracer was killed
  lpc,        \* where a loader is
  target,     \* target_pid
  saved,      \* original_regs
  kind,       \* what sort of module the loader was asked to load
  ret,        \* ret of xload(), "none" before it returns
  did,        \* the loaders whose current call loaded its module
  xloads, kills

process == <<state, tracer, ctx, refs, already, loads, orphaned>>
loader == <<lpc, target, saved, kind, ret, did>>
vars == <<process, loader, xloads, kills>>

\* The functions called in the target, named as in trace_remote_process();
\* "loading" is client_entry() once it has entered load_java() or load_native().
Remote == {"mmap", "dlopen", "dlerror", "dlsym", "client_entry", "loading", "wild", "dlclose"}

Init ==
  /\ state = [p \in Proc |-> IF p = 1 THEN "alive" ELSE "unborn"]
  /\ tracer = [p \in Proc |-> None] /\ ctx = [p \in Proc |-> "own"]
  /\ refs = [p \in Proc |-> 0] /\ loads = [p \in Proc |-> 0]
  /\ already = {} /\ orphaned = {}
  /\ lpc = [l \in Loader |-> "idle"]
  /\ target = [l \in Loader |-> 1] /\ saved = [l \in Loader |-> "own"]
  /\ kind = [l \in Loader |-> "java"] /\ ret = [l \in Loader |-> "none"]
  /\ did = {}
  /\ xloads = 0 /\ kills = 0

Alive(p) == state[p] = "alive"
Goto(l, where) == lpc' = [lpc EXCEPT ![l] = where]
Set(l, code) == ret' = [ret EXCEPT ![l] = code]

-----------------------------------------------------------------------------
(* The target and its fate.                                                *)

ProcessStarts(p) ==
  /\ state[p] = "unborn" /\ \A q \in Proc : ~Alive(q) /\ (q < p => state[q] = "dead")
  /\ state' = [state EXCEPT ![p] = "alive"]
  /\ UNCHANGED <<tracer, ctx, refs, already, loads, orphaned, loader, xloads, kills>>

\* Any process may be killed; a tracer finds out at its next ptrace().
ProcessDies(p) ==
  /\ Alive(p)
  /\ state' = [state EXCEPT ![p] = "dead"]
  /\ tracer' = [tracer EXCEPT ![p] = None]
  /\ UNCHANGED <<ctx, refs, already, loads, orphaned, loader, xloads, kills>>

\* A loader is killed: the kernel detaches it, whatever the registers of the
\* target, which returns from the remote call to address 0 and dies of it.
LoaderKilled(l) ==
  /\ lpc[l] # "idle" /\ kills < MaxKills
  /\ kills' = kills + 1
  /\ tracer' = [p \in Proc |-> IF tracer[p] = l THEN None ELSE tracer[p]]
  /\ orphaned' = orphaned \cup {p \in Proc : tracer[p] = l}
  /\ Goto(l, "idle") /\ Set(l, "killed")
  /\ UNCHANGED <<state, ctx, refs, already, loads, target, saved, kind, did, xloads>>

-----------------------------------------------------------------------------
(* xload().                                                                *)

\* The files are looked for, then the process.
Xload(l) ==
  /\ lpc[l] = "idle" /\ xloads < MaxXloads
  /\ xloads' = xloads + 1
  /\ \E k \in {"java", "native"} : kind' = [kind EXCEPT ![l] = k]
  /\ did' = did \ {l}
  /\ \/ /\ \E code \in {"CLIENT_NOT_FOUND", "BRIDGE_NOT_FOUND", "MODULE_NOT_FOUND"} : Set(l, code)
        /\ UNCHANGED <<lpc, target>>
     \/ /\ \A p \in Proc : ~Alive(p)
        /\ Set(l, "PROCESS_NOT_FOUND")
        /\ UNCHANGED <<lpc, target>>
     \/ \E p \in Proc :
          /\ Alive(p)
          /\ target' = [target EXCEPT ![l] = p]
          /\ Goto(l, "check") /\ Set(l, "none")
  /\ UNCHANGED <<process, saved, kills>>

\* forbid reload: the library must not be in the maps of the process, which
\* read as empty when it is gone.
ForbidReload(l) ==
  /\ lpc[l] = "check"
  /\ IF Alive(target[l]) /\ refs[target[l]] > 0
     THEN Goto(l, "idle") /\ Set(l, "PROCESS_LOADED")
     ELSE Goto(l, "attach") /\ UNCHANGED ret
  /\ UNCHANGED <<process, target, saved, kind, did, xloads, kills>>

\* Somebody else may be tracing the process, or it is gone.
Attach(l) ==
  /\ lpc[l] = "attach"
  /\ IF Alive(target[l]) /\ tracer[target[l]] = None
     THEN /\ tracer' = [tracer EXCEPT ![target[l]] = l]
          /\ Goto(l, "getregs") /\ UNCHANGED ret
     ELSE /\ Goto(l, "idle") /\ Set(l, "PTRACE_FAILED")
          /\ UNCHANGED tracer
  /\ UNCHANGED <<state, ctx, refs, already, loads, orphaned, target, saved, kind, did, xloads, kills>>

\* original_regs are kept, and the first remote call starts.
GetRegs(l) ==
  /\ lpc[l] = "getregs"
  /\ IF Alive(target[l])
     THEN /\ saved' = [saved EXCEPT ![l] = ctx[target[l]]]
          /\ ctx' = [ctx EXCEPT ![target[l]] = "remote"]
          /\ Goto(l, "mmap") /\ UNCHANGED ret
     ELSE /\ Goto(l, "exit_detach") /\ Set(l, "PTRACE_FAILED")
          /\ UNCHANGED <<saved, ctx>>
  /\ UNCHANGED <<state, tracer, refs, already, loads, orphaned, target, kind, did, xloads, kills>>

\* Mutant: waitpid() is called again after ptrace_continue() failed.
CallFailedWaits(l) == lpc[l] \in Remote /\ ~Alive(target[l]) /\ UNCHANGED vars

\* ptrace_call() sees the target gone: the call failed.
CallFailed(l) ==
  /\ lpc[l] \in Remote /\ ~Alive(target[l])
  /\ Goto(l, "exit_regs")
  /\ Set(l, CASE lpc[l] = "mmap" -> "MMAP_FAILED"
              [] lpc[l] = "dlerror" -> "DLERROR_FAILED"
              [] OTHER -> "REMOTE_CALL_FAILED")
  /\ UNCHANGED <<process, target, saved, kind, did, xloads, kills>>

\* The result of mmap is used whatever it is.
Mmap(l) ==
  /\ lpc[l] = "mmap" /\ Alive(target[l])
  /\ Goto(l, "dlopen")
  /\ UNCHANGED <<process, target, saved, kind, ret, did, xloads, kills>>

\* dlopen returns a handle or NULL; a fault inside it passes for a return
\* with whatever the register holds, taken for a handle.
Dlopen(l) ==
  /\ lpc[l] = "dlopen" /\ Alive(target[l])
  /\ \/ /\ refs' = [refs EXCEPT ![target[l]] = @ + 1]
        /\ Goto(l, "dlsym") /\ UNCHANGED ret
     \/ /\ Goto(l, "dlerror") /\ Set(l, "DLOPEN_FAILED")
        /\ UNCHANGED refs
     \/ /\ MayFault
        /\ Goto(l, "dlsym") /\ UNCHANGED <<refs, ret>>
  /\ UNCHANGED <<state, tracer, ctx, already, loads, orphaned, target, saved, kind, did, xloads, kills>>

\* Mutant: a failed dlopen or dlsym leaves without restoring the registers.
DlerrorDetaches(l) ==
  /\ lpc[l] = "dlerror" /\ Alive(target[l])
  /\ Goto(l, "exit_detach")
  /\ UNCHANGED <<process, target, saved, kind, ret, did, xloads, kills>>

\* dlerror is called for the text to log, after dlopen or dlsym gave NULL.
Dlerror(l) ==
  /\ lpc[l] = "dlerror" /\ Alive(target[l])
  /\ Goto(l, "exit_regs")
  /\ UNCHANGED <<process, target, saved, kind, ret, did, xloads, kills>>

\* dlsym finds client_entry if there is a library; a fault inside it gives an
\* address that is none.
Dlsym(l) ==
  /\ lpc[l] = "dlsym" /\ Alive(target[l])
  /\ \/ refs[target[l]] > 0 /\ Goto(l, "client_entry") /\ UNCHANGED ret
     \/ Goto(l, "dlerror") /\ Set(l, "DLSYM_FAILED")
     \/ MayFault /\ Goto(l, "wild") /\ UNCHANGED ret
  /\ UNCHANGED <<process, target, saved, kind, did, xloads, kills>>

\* The jump to such an address faults and passes for a return too.
Wild(l) ==
  /\ lpc[l] = "wild" /\ Alive(target[l])
  /\ \E code \in {"SUCCESS", "CLIENT_ERROR"} : Set(l, code)
  /\ Goto(l, "dlclose")
  /\ UNCHANGED <<process, target, saved, kind, did, xloads, kills>>
-----------------------------------------------------------------------------
(* client_entry(), in the target.                                          *)

\* Mutant: g_already_Xloader is not looked at.
ClientEntryAlways(l) ==
  /\ lpc[l] = "client_entry" /\ Alive(target[l])
  /\ Goto(l, "loading") /\ UNCHANGED ret
  /\ loads' = IF kind[l] = "java" THEN [loads EXCEPT ![target[l]] = @ + 1] ELSE loads
  /\ UNCHANGED <<state, tracer, ctx, refs, already, orphaned, target, saved, kind, did, xloads, kills>>

\* It refuses a second load, and one without module, bridge or JNIEnv.
ClientEntry(l) ==
  /\ lpc[l] = "client_entry" /\ Alive(target[l])
  /\ \/ /\ target[l] \in already
        /\ Goto(l, "dlclose") /\ Set(l, "ENTRY_LOADER")
        /\ UNCHANGED loads
     \/ /\ target[l] \notin already
        /\ Goto(l, "dlclose") /\ Set(l, "CLIENT_ERROR")
        /\ UNCHANGED loads
     \/ /\ target[l] \notin already
        /\ Goto(l, "loading") /\ UNCHANGED ret
        /\ loads' = IF kind[l] = "java" THEN [loads EXCEPT ![target[l]] = @ + 1] ELSE loads
  /\ UNCHANGED <<state, tracer, ctx, refs, already, orphaned, target, saved, kind, did, xloads, kills>>

\* load_java() or load_native() ends; do_xload() sets g_already_Xloader after
\* load_java() only, whether it succeeded or not.  A fault in the middle
\* passes for the return of client_entry().
Load(l) ==
  /\ lpc[l] = "loading" /\ Alive(target[l])
  /\ \/ \E ok \in BOOLEAN :
          /\ Set(l, IF ok THEN "SUCCESS" ELSE "CLIENT_ERROR")
          /\ did' = IF ok THEN did \cup {l} ELSE did
          /\ already' = IF kind[l] = "java" THEN already \cup {target[l]} ELSE already
     \/ /\ MayFault
        /\ \E code \in {"SUCCESS", "CLIENT_ERROR"} : Set(l, code)
        /\ UNCHANGED <<did, already>>
  /\ Goto(l, "dlclose")
  /\ UNCHANGED <<state, tracer, ctx, refs, loads, orphaned, target, saved, kind, xloads, kills>>

-----------------------------------------------------------------------------
(* The end of trace_remote_process().                                      *)

\* Mutant: the result of dlclose replaces that of client_entry.
DlcloseResult(l) ==
  /\ lpc[l] = "dlclose" /\ Alive(target[l])
  /\ Set(l, "SUCCESS")
  /\ Goto(l, "exit_regs")
  /\ UNCHANGED <<process, target, saved, kind, did, xloads, kills>>

\* The call goes to the loader's own address of dlclose.  Only if that is
\* also the target's does it drop a handle, and with the last one the library
\* and its variables; otherwise the jump faults, which passes for a return.
Dlclose(l) ==
  /\ lpc[l] = "dlclose" /\ Alive(target[l])
  /\ LET p == target[l] IN
       IF SameBase /\ refs[p] > 0
       THEN /\ refs' = [refs EXCEPT ![p] = @ - 1]
            /\ already' = IF refs[p] = 1 THEN already \ {p} ELSE already
       ELSE UNCHANGED <<refs, already>>
  /\ Goto(l, "exit_regs")
  /\ UNCHANGED <<state, tracer, ctx, loads, orphaned, target, saved, kind, ret, did, xloads, kills>>

ExitRegs(l) ==
  /\ lpc[l] = "exit_regs"
  /\ ctx' = IF Alive(target[l]) THEN [ctx EXCEPT ![target[l]] = saved[l]] ELSE ctx
  /\ Goto(l, "exit_detach")
  /\ UNCHANGED <<state, tracer, refs, already, loads, orphaned, target, saved, kind, ret, did, xloads, kills>>

ExitDetach(l) ==
  /\ lpc[l] = "exit_detach"
  /\ tracer' = IF Alive(target[l]) THEN [tracer EXCEPT ![target[l]] = None] ELSE tracer
  /\ Goto(l, "idle")
  /\ UNCHANGED <<state, ctx, refs, already, loads, orphaned, target, saved, kind, ret, did, xloads, kills>>

\* One step of xload(), the target's part of it included.
Step(l) ==
  \/ ForbidReload(l) \/ Attach(l) \/ GetRegs(l) \/ CallFailed(l)
  \/ Mmap(l) \/ Dlopen(l) \/ Dlerror(l) \/ Dlsym(l) \/ Wild(l)
  \/ ClientEntry(l) \/ Load(l) \/ Dlclose(l) \/ ExitRegs(l) \/ ExitDetach(l)

-----------------------------------------------------------------------------
Next ==
  \/ \E p \in Proc : ProcessStarts(p) \/ ProcessDies(p)
  \/ \E l \in Loader : Xload(l) \/ Step(l) \/ LoaderKilled(l)

Spec == Init /\ [][Next]_vars

\* A loader that is not killed goes on, and what it calls in the target ends
\* in a return, a fault or the death of the target.
FairSpec == Spec /\ \A l \in Loader : WF_vars(Step(l))

-----------------------------------------------------------------------------
(* What is checked.                                                        *)

\* Every variable has its type.
TypeOK ==
  /\ state \in [Proc -> {"unborn", "alive", "dead"}]
  /\ tracer \in [Proc -> Loader \cup {None}]
  /\ ctx \in [Proc -> {"own", "remote"}]
  /\ refs \in [Proc -> Nat] /\ loads \in [Proc -> Nat]
  /\ already \subseteq Proc /\ orphaned \subseteq Proc
  /\ lpc \in [Loader -> Remote \cup {"idle", "check", "attach", "getregs", "exit_regs", "exit_detach"}]
  /\ target \in [Loader -> Proc] /\ saved \in [Loader -> {"own", "remote"}]
  /\ kind \in [Loader -> {"java", "native"}]
  /\ ret \in [Loader -> {"none", "killed", "SUCCESS", "CLIENT_NOT_FOUND", "BRIDGE_NOT_FOUND",
                         "MODULE_NOT_FOUND", "PROCESS_NOT_FOUND", "PROCESS_LOADED", "PTRACE_FAILED",
                         "MMAP_FAILED", "REMOTE_CALL_FAILED", "DLOPEN_FAILED", "DLERROR_FAILED",
                         "DLSYM_FAILED", "ENTRY_LOADER", "CLIENT_ERROR"}]
  /\ did \subseteq Loader
  /\ xloads \in 0..MaxXloads /\ kills \in 0..MaxKills

\* However trace_remote_process() ends, a target that is let go has its own
\* registers again; the exception is one whose loader was killed.
ContextRestored ==
  \A p \in Proc : Alive(p) /\ tracer[p] = None /\ p \notin orphaned => ctx[p] = "own"

\* xload() never returns attached to a process.
TargetReleased ==
  \A l \in Loader, p \in Proc : tracer[p] = l => lpc[l] # "idle" /\ target[l] = p

\* "forbid reload": one process enters load_java() at most once, also when two
\* loaders pass the check on the maps before either attaches.
LoadOnce == \A p \in Proc : p \notin orphaned => loads[p] <= 1

\* SUCCESS is only returned by a call that has loaded its module.
SuccessMeansLoaded ==
  \A l \in Loader : lpc[l] = "idle" /\ ret[l] = "SUCCESS" => l \in did

\* xload() returns, also when its target dies at any point of the exchange.
XloadReturns == \A l \in Loader : (lpc[l] # "idle") ~> (lpc[l] = "idle")

=============================================================================
