------------------------- MODULE ReferenceProcessing -------------------------
(***************************************************************************)
(* gc/reference_processor.cc and gc/reference_queue.cc while the mutators  *)
(* run: from the end of the pause, in which MarkSweep has marked all that  *)
(* the mutators reach and has enabled the slow path, to the sweep.         *)
(*                                                                         *)
(* Obj are the objects that matter: referents, and the objects between     *)
(* them.  A reference is itself part of an object, its host, or is always  *)
(* reachable (Root), as FinalizerReferences are.  An object is white, grey *)
(* (marked, on the mark stack) or black (marked and scanned).              *)
(***************************************************************************)
EXTENDS Integers, FiniteSets

CONSTANTS Mutator, Obj, Root, NoObj,
          Ref, Kind,       \* Kind[r]: soft, weak, finalizer or phantom
          Points,          \* Points[o]: the objects in the fields of o at first
          MaxGets          \* bound: calls of GetReferent by one thread

ASSUME ReferenceAssumption ==
  /\ Root \notin Obj /\ NoObj \notin Obj /\ MaxGets \in Nat
  /\ Kind \in [Ref -> {"soft", "weak", "finalizer", "phantom"}]
  /\ Points \in [Obj -> SUBSET Obj]

VARIABLES
  referent,       \* referent[r], or NoObj
  host,           \* host[r]: the object that holds r, or Root
  fields,         \* fields[o]: the objects that o points to
  marked, grey,
  greyRefs,       \* the references on the mark stack
  queued,         \* the references in the queue of their kind
  clearSoft,      \* clear_soft_references
  slowPath, callback, preserving,
  gpc,            \* where the collector is in ProcessReferences
  toForward,      \* the soft references still to forward
  gAt, gRef, gVal, \* a mutator in GetReferent: where, of which reference, what it has read
  holds,          \* holds[t]: the objects that t has or gets hold of
  early,          \* the mutators that read the referent while the slow path was enabled
  slipped,        \* history: one of them then found the slow path disabled
  gets

heapVars == <<referent, host, fields, marked, grey, greyRefs, queued>>
gcVars == <<clearSoft, slowPath, callback, preserving, gpc, toForward>>
getVars == <<gAt, gRef, gVal, holds, early, slipped, gets>>
refVars == <<heapVars, gcVars, getVars>>

White(r) == referent[r] # NoObj /\ referent[r] \notin marked
Queue(kind) == {r \in queued : Kind[r] = kind}

(* The marking has enqueued the references that it found with a white      *)
(* referent, some of which was marked later.  The mutators may have what   *)
(* is marked.                                                              *)
ReferenceInit ==
  /\ referent \in [Ref -> Obj] /\ fields = Points
  /\ host \in [Ref -> Obj \cup {Root}] /\ \A r \in Ref : Kind[r] = "finalizer" => host[r] = Root
  /\ marked \in SUBSET Obj /\ \A o \in marked : fields[o] \subseteq marked
  /\ grey = {} /\ greyRefs = {}
  /\ queued \in SUBSET {r \in Ref : host[r] \in marked \cup {Root}}
  /\ \A r \in Ref : White(r) /\ host[r] \in marked \cup {Root} => r \in queued
  /\ clearSoft \in BOOLEAN /\ slowPath = TRUE /\ callback = FALSE /\ preserving = FALSE
  /\ gpc = "begin" /\ toForward = {}
  /\ gAt = [t \in Mutator |-> "out"] /\ gRef = [t \in Mutator |-> NoObj]
  /\ gVal = [t \in Mutator |-> NoObj] /\ holds = [t \in Mutator |-> marked]
  /\ early = {} /\ slipped = FALSE /\ gets = [t \in Mutator |-> 0]

-----------------------------------------------------------------------------
(* ProcessReferences                                                       *)
Broadcast == gAt' = [t \in Mutator |-> IF gAt[t] = "asleep" THEN "slow" ELSE gAt[t]]
Mark(objs) == marked' = marked \cup objs /\ grey' = grey \cup (objs \ marked)

BeginProcessing ==
  /\ gpc = "begin" /\ callback' = TRUE
  /\ gpc' = IF clearSoft THEN "clear_soft" ELSE "preserve_soft"
  /\ UNCHANGED <<clearSoft, slowPath, preserving, toForward, heapVars, getVars>>

StartPreservingReferences ==
  /\ preserving' = TRUE
  /\ \/ gpc = "preserve_soft" /\ gpc' = "soft" /\ toForward' = Queue("soft")
     \/ gpc = "preserve_finalizer" /\ gpc' = "finalizer" /\ UNCHANGED toForward
  /\ UNCHANGED <<clearSoft, slowPath, callback, heapVars, getVars>>

ForwardSoftReference(r) ==
  /\ gpc = "soft" /\ r \in toForward /\ toForward' = toForward \ {r}
  /\ Mark({referent[r]} \ {NoObj})
  /\ UNCHANGED <<referent, host, fields, greyRefs, queued, clearSoft, slowPath, callback,
                 preserving, gpc, getVars>>

(* The referent becomes the zombie of its reference.                       *)
EnqueueFinalizerReference(r) ==
  /\ gpc = "finalizer" /\ r \in Queue("finalizer") /\ queued' = queued \ {r}
  /\ IF White(r) THEN Mark({referent[r]}) /\ referent' = [referent EXCEPT ![r] = NoObj]
                 ELSE UNCHANGED <<marked, grey, referent>>
  /\ UNCHANGED <<host, fields, greyRefs, gcVars, getVars>>

(* process_mark_stack_callback, once all of a kind are marked              *)
AllMarked ==
  \/ gpc = "soft" /\ toForward = {}
  \/ gpc = "finalizer" /\ Queue("finalizer") = {}
ScanObject(o) ==
  /\ AllMarked /\ o \in grey
  /\ marked' = marked \cup fields[o] /\ grey' = (grey \ {o}) \cup (fields[o] \ marked)
  /\ greyRefs' = greyRefs \cup {r \in Ref : host[r] = o}
  /\ UNCHANGED <<referent, host, fields, queued, gcVars, getVars>>

(* DelayReferenceReferent                                                  *)
ScanReference(r) ==
  /\ AllMarked /\ r \in greyRefs /\ greyRefs' = greyRefs \ {r}
  /\ queued' = IF White(r) THEN queued \cup {r} ELSE queued
  /\ UNCHANGED <<referent, host, fields, marked, grey, gcVars, getVars>>

StopPreservingReferences ==
  /\ AllMarked /\ grey = {} /\ greyRefs = {} /\ preserving' = FALSE /\ Broadcast
  /\ gpc' = IF gpc = "soft" THEN "clear_soft" ELSE "clear_soft_again"
  /\ UNCHANGED <<clearSoft, slowPath, callback, toForward, heapVars,
                 gRef, gVal, holds, early, slipped, gets>>

(* The calls of ClearWhiteReferences, in their order                       *)
Clears(p) == CASE p \in {"clear_soft", "clear_soft_again"} -> "soft"
               [] p \in {"clear_weak", "clear_weak_again"} -> "weak"
               [] p = "clear_phantom" -> "phantom"
               [] OTHER -> "none"
ClearWhiteReference(r) ==
  /\ r \in Queue(Clears(gpc)) /\ queued' = queued \ {r}
  /\ referent' = IF White(r) THEN [referent EXCEPT ![r] = NoObj] ELSE referent
  /\ UNCHANGED <<host, fields, marked, grey, greyRefs, gcVars, getVars>>

Cleared(p) == CASE p = "clear_soft" -> "clear_weak"
                [] p = "clear_weak" -> "preserve_finalizer"
                [] p = "clear_soft_again" -> "clear_weak_again"
                [] p = "clear_weak_again" -> "clear_phantom"
                [] p = "clear_phantom" -> "end"
QueueCleared ==
  /\ Clears(gpc) # "none" /\ Queue(Clears(gpc)) = {} /\ gpc' = Cleared(gpc)
  /\ UNCHANGED <<clearSoft, slowPath, callback, preserving, toForward, heapVars, getVars>>

(* The end of ProcessReferences, with DisableSlowPath                      *)
EndProcessing ==
  /\ gpc = "end" /\ callback' = FALSE /\ slowPath' = FALSE /\ Broadcast /\ gpc' = "sweep"
  /\ UNCHANGED <<clearSoft, preserving, toForward, heapVars, gRef, gVal, holds, early, slipped, gets>>

Collect ==
  \/ BeginProcessing \/ StartPreservingReferences \/ StopPreservingReferences
  \/ (\E r \in Ref : ForwardSoftReference(r) \/ EnqueueFinalizerReference(r)
                     \/ ScanReference(r) \/ ClearWhiteReference(r))
  \/ (\E o \in Obj : ScanObject(o)) \/ QueueCleared \/ EndProcessing

-----------------------------------------------------------------------------
(* GetReferent                                                             *)
Returns(t, o) ==
  /\ holds' = [holds EXCEPT ![t] = @ \cup ({o} \ {NoObj})] /\ gAt' = [gAt EXCEPT ![t] = "out"]
  /\ gRef' = [gRef EXCEPT ![t] = NoObj] /\ gVal' = [gVal EXCEPT ![t] = NoObj]
  /\ early' = early \ {t}

ReadReferent(t, r) ==
  /\ gAt[t] = "out" /\ gets[t] < MaxGets /\ gets' = [gets EXCEPT ![t] = @ + 1]
  /\ host[r] \in holds[t] \cup {Root} /\ Kind[r] # "phantom"
  /\ gAt' = [gAt EXCEPT ![t] = "read"] /\ gRef' = [gRef EXCEPT ![t] = r]
  /\ gVal' = [gVal EXCEPT ![t] = referent[r]]
  /\ early' = IF slowPath THEN early \cup {t} ELSE early
  /\ UNCHANGED <<holds, slipped, heapVars, gcVars>>

CheckSlowPath(t) ==
  /\ gAt[t] = "read"
  /\ IF ~slowPath \/ gVal[t] = NoObj
     THEN Returns(t, gVal[t]) /\ slipped' = (slipped \/ (t \in early /\ ~slowPath))
     ELSE gAt' = [gAt EXCEPT ![t] = "slow"] /\ UNCHANGED <<gRef, gVal, holds, early, slipped>>
  /\ UNCHANGED <<gets, heapVars, gcVars>>

\* Mutant: a marked referent is returned although the collector preserves references.
MayReturnGrey(t) == callback /\ referent[gRef[t]] \in marked

MayReturn(t) ==
  /\ callback /\ referent[gRef[t]] \in marked
  /\ preserving => Kind[gRef[t]] # "finalizer" /\ gRef[t] \notin queued

(* The loop of GetReferent, under reference_processor_lock_                *)
LookSlowly(t) ==
  /\ gAt[t] = "slow"
  /\ IF ~slowPath \/ referent[gRef[t]] = NoObj \/ MayReturn(t)
     THEN Returns(t, referent[gRef[t]])
     ELSE gAt' = [gAt EXCEPT ![t] = "asleep"] /\ UNCHANGED <<gRef, gVal, holds, early>>
  /\ UNCHANGED <<slipped, gets, heapVars, gcVars>>

GetterWakes(t) ==
  /\ gAt[t] = "asleep" /\ gAt' = [gAt EXCEPT ![t] = "slow"]
  /\ UNCHANGED <<gRef, gVal, holds, early, slipped, gets, heapVars, gcVars>>

(* The mutator moves an object from a field of one it holds.               *)
TakeFromField(t, o, p) ==
  /\ gAt[t] = "out" /\ o \in holds[t] /\ p \in fields[o]
  /\ holds' = [holds EXCEPT ![t] = @ \cup {p}] /\ fields' = [fields EXCEPT ![o] = @ \ {p}]
  /\ UNCHANGED <<referent, host, marked, grey, greyRefs, queued, gcVars,
                 gAt, gRef, gVal, early, slipped, gets>>

GetterStep(t) == CheckSlowPath(t) \/ LookSlowly(t)

ReferenceNext ==
  \/ Collect
  \/ \E t \in Mutator :
       \/ GetterStep(t) \/ GetterWakes(t) \/ (\E r \in Ref : ReadReferent(t, r))
       \/ \E o, p \in Obj : TakeFromField(t, o, p)

ReferenceSpec ==
  /\ ReferenceInit /\ [][ReferenceNext]_refVars
  /\ WF_refVars(Collect) /\ \A t \in Mutator : WF_refVars(GetterStep(t))

-----------------------------------------------------------------------------
(* Every variable has its type.                                            *)
ReferenceTypeOK ==
  /\ referent \in [Ref -> Obj \cup {NoObj}] /\ host \in [Ref -> Obj \cup {Root}]
  /\ fields \in [Obj -> SUBSET Obj] /\ marked \subseteq Obj /\ grey \subseteq marked
  /\ greyRefs \subseteq Ref /\ queued \subseteq Ref /\ toForward \subseteq Queue("soft")
  /\ clearSoft \in BOOLEAN /\ slowPath \in BOOLEAN /\ callback \in BOOLEAN
  /\ preserving \in BOOLEAN /\ slipped \in BOOLEAN
  /\ gAt \in [Mutator -> {"out", "read", "slow", "asleep"}]
  /\ gRef \in [Mutator -> Ref \cup {NoObj}] /\ gVal \in [Mutator -> Obj \cup {NoObj}]
  /\ holds \in [Mutator -> SUBSET Obj] /\ early \subseteq Mutator /\ gets \in [Mutator -> 0..MaxGets]

(* The sweep takes nothing that can still be used: nothing that a mutator  *)
(* has got through GetReferent, or has moved out of an object it has got,  *)
(* while references were processed; and nothing that a reference points    *)
(* to, those included that were found behind finalizable objects, for the  *)
(* queues are empty.  The property does not speak of a GetReferent that    *)
(* reads the field while the slow path is enabled and the flag when it no  *)
(* longer is.                                                              *)
SweepIsSafe ==
  /\ ~slipped => \A t \in Mutator : holds[t] \subseteq marked
  /\ gpc \in {"end", "sweep"} =>
       queued = {} /\ \A r \in Ref : host[r] \in marked \cup {Root} => ~White(r)

(* A mutator that waits in GetReferent returns.                            *)
GetReferentReturns == \A t \in Mutator : []<>(gAt[t] = "out")
=============================================================================
