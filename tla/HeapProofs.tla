----------------------------- MODULE HeapProofs -----------------------------
(***************************************************************************)
(* The managed heap: the processing of references by the collector, for    *)
(* any heap and any references (ReferenceProcessing), and the              *)
(* initialization of classes by any number of threads (ClassInit).         *)
(***************************************************************************)
EXTENDS SequenceTheorems, TLAPS, ClassInit, ReferenceProcessing

-----------------------------------------------------------------------------
(* ReferenceProcessing: the flags and queues in each phase.  A queue that  *)
(* has been cleared for the last time stays empty, for only a scan of the  *)
(* mark stack adds to it.                                                  *)
AfterFinalizers == {"clear_soft_again", "clear_weak_again", "clear_phantom", "end", "sweep"}
Phases ==
  /\ gpc \in {"begin", "preserve_soft", "soft", "clear_soft", "clear_weak", "preserve_finalizer",
              "finalizer"} \cup AfterFinalizers
  /\ preserving <=> gpc \in {"soft", "finalizer"}
  /\ slowPath <=> gpc # "sweep"
  /\ gpc # "soft" => toForward = {}
  /\ ~preserving => grey = {} /\ greyRefs = {}
  /\ gpc \in AfterFinalizers => Queue("finalizer") = {}
  /\ gpc \in AfterFinalizers \ {"clear_soft_again"} => Queue("soft") = {}
  /\ gpc \in {"clear_phantom", "end", "sweep"} => Queue("weak") = {}
  /\ gpc \in {"end", "sweep"} => Queue("phantom") = {}
  /\ \A r \in Ref : Kind[r] = "finalizer" => host[r] = Root
  /\ \A r \in greyRefs : host[r] # Root
  /\ \A t \in Mutator : gAt[t] # "out" => gRef[t] \in Ref /\ host[gRef[t]] \in holds[t] \cup {Root}

(* What a black object points to is marked, and a reference that is part   *)
(* of one and has a white referent is in its queue or still to be scanned. *)
Tricolour ==
  /\ \A o \in marked \ grey : fields[o] \subseteq marked
  /\ \A r \in Ref : host[r] \in (marked \ grey) \cup {Root} /\ White(r) => r \in queued \cup greyRefs

(* The mutators are confined to a set of black objects that is closed      *)
(* under fields and under the references that GetReferent lets through:    *)
(* what was marked when the collector last began to preserve references.   *)
Confines(B) ==
  /\ B \subseteq marked \ grey
  /\ \A o \in B : fields[o] \subseteq B
  /\ ~preserving => B = marked
  /\ \A r \in Ref :
       /\ host[r] \in B \cup {Root} /\ r \notin queued
       /\ preserving => Kind[r] # "finalizer"
       => referent[r] \in B \cup {NoObj}
  /\ \A t \in Mutator : gAt[t] = "read" /\ t \notin early => ~slowPath
  /\ ~slipped => \A t \in Mutator :
       /\ holds[t] \subseteq B
       /\ gAt[t] = "read" /\ t \notin early => gVal[t] \in B \cup {NoObj}

ReferenceInv == ReferenceTypeOK /\ Phases /\ Tricolour /\ \E B \in SUBSET Obj : Confines(B)

(* The variables keep their types.                                         *)
LEMMA RefTypesKept == ReferenceInv /\ ReferenceNext => ReferenceTypeOK'
<1> SUFFICES ASSUME ReferenceInv, ReferenceNext PROVE ReferenceTypeOK'
  BY Zenon
<1> USE ReferenceAssumption DEF ReferenceInv, ReferenceTypeOK, Phases, heapVars, gcVars, getVars,
                            Queue, White
<1>1. CASE BeginProcessing
  BY Zenon, <1>1 DEF BeginProcessing
<1>2. CASE StartPreservingReferences
  BY Zenon, <1>2 DEF StartPreservingReferences
<1>3. CASE StopPreservingReferences
  BY Zenon, <1>3 DEF StopPreservingReferences, AllMarked, Broadcast
<1>4. CASE \E r \in Ref : ForwardSoftReference(r)
  BY <1>4 DEF ForwardSoftReference, Mark
<1>5. CASE \E r \in Ref : EnqueueFinalizerReference(r)
  BY <1>5 DEF EnqueueFinalizerReference, Mark
<1>6. CASE \E r \in Ref : ScanReference(r)
  BY <1>6 DEF ScanReference, AllMarked
<1>7. CASE \E r \in Ref : ClearWhiteReference(r)
  BY <1>7 DEF ClearWhiteReference, Clears
<1>8. CASE \E o \in Obj : ScanObject(o)
  BY <1>8 DEF ScanObject, AllMarked
<1>9. CASE QueueCleared
  BY Zenon, <1>9 DEF QueueCleared, Clears, Cleared
<1>10. CASE EndProcessing
  BY Zenon, <1>10 DEF EndProcessing, Broadcast
<1>11. CASE \E t \in Mutator : CheckSlowPath(t)
  <2>1. slipped' \in BOOLEAN
    BY <1>11, Zenon DEF CheckSlowPath
  <2> QED BY <1>11, <2>1 DEF CheckSlowPath, Returns
<1>12. CASE \E t \in Mutator : LookSlowly(t)
  BY <1>12 DEF LookSlowly, Returns, MayReturn
<1>13. CASE \E t \in Mutator : GetterWakes(t)
  BY <1>13 DEF GetterWakes
<1>14. CASE \E t \in Mutator, r \in Ref : ReadReferent(t, r)
  BY <1>14 DEF ReadReferent
<1>15. CASE \E t \in Mutator, o, p \in Obj : TakeFromField(t, o, p)
  BY <1>15 DEF TakeFromField
<1> QED
  BY Zenon, <1>1, <1>2, <1>3, <1>4, <1>5, <1>6, <1>7, <1>8, <1>9, <1>10, <1>11, <1>12, <1>13, <1>14, <1>15
  DEF ReferenceNext, Collect, GetterStep

(* The phases follow one another, and each leaves its queue empty.         *)
LEMMA PhasesKept == ReferenceInv /\ ReferenceNext => Phases'
<1> SUFFICES ASSUME ReferenceInv, ReferenceNext PROVE Phases'
  BY Zenon
<1> USE ReferenceAssumption DEF ReferenceInv, ReferenceTypeOK, Phases, AfterFinalizers, heapVars,
                            gcVars, getVars, Queue, White
<1>1. CASE BeginProcessing
  BY Zenon, <1>1 DEF BeginProcessing
<1>2. CASE StartPreservingReferences
  BY Zenon, <1>2 DEF StartPreservingReferences
<1>3. CASE StopPreservingReferences
  BY Zenon, <1>3 DEF StopPreservingReferences, AllMarked, Broadcast
<1>4. CASE \E r \in Ref : ForwardSoftReference(r)
  BY <1>4 DEF ForwardSoftReference, Mark
<1>5. CASE \E r \in Ref : EnqueueFinalizerReference(r)
  BY <1>5 DEF EnqueueFinalizerReference, Mark
<1>6. CASE \E r \in Ref : ScanReference(r)
  BY <1>6 DEF ScanReference, AllMarked
<1>7. CASE \E r \in Ref : ClearWhiteReference(r)
  BY <1>7 DEF ClearWhiteReference, Clears
<1>8. CASE \E o \in Obj : ScanObject(o)
  BY <1>8 DEF ScanObject, AllMarked
<1>9. CASE QueueCleared
  BY <1>9 DEF QueueCleared, Clears, Cleared
<1>10. CASE EndProcessing
  BY <1>10 DEF EndProcessing, Broadcast
<1>11. CASE \E t \in Mutator : CheckSlowPath(t)
  BY <1>11 DEF CheckSlowPath, Returns
<1>12. CASE \E t \in Mutator : LookSlowly(t)
  BY <1>12 DEF LookSlowly, Returns, MayReturn
<1>13. CASE \E t \in Mutator : GetterWakes(t)
  BY <1>13 DEF GetterWakes
<1>14. CASE \E t \in Mutator, r \in Ref : ReadReferent(t, r)
  BY <1>14 DEF ReadReferent
<1>15. CASE \E t \in Mutator, o, p \in Obj : TakeFromField(t, o, p)
  BY <1>15 DEF TakeFromField
<1> QED
  BY Zenon, <1>1, <1>2, <1>3, <1>4, <1>5, <1>6, <1>7, <1>8, <1>9, <1>10, <1>11, <1>12, <1>13, <1>14, <1>15
  DEF ReferenceNext, Collect, GetterStep

(* Marking greys an object before it blackens it, and a reference whose    *)
(* referent is not marked is enqueued when it is scanned.                  *)
LEMMA TricolourKept == ReferenceInv /\ ReferenceNext => Tricolour'
<1> SUFFICES ASSUME ReferenceInv, ReferenceNext PROVE Tricolour'
  BY Zenon
<1> USE ReferenceAssumption DEF ReferenceInv, ReferenceTypeOK, Phases, Tricolour, heapVars, gcVars,
                            getVars, White, Queue
<1>1. CASE BeginProcessing
  BY Zenon, <1>1 DEF BeginProcessing
<1>2. CASE StartPreservingReferences
  BY Zenon, <1>2 DEF StartPreservingReferences
<1>3. CASE StopPreservingReferences
  BY Zenon, <1>3 DEF StopPreservingReferences, AllMarked, Broadcast
<1>4. CASE \E r \in Ref : ForwardSoftReference(r)
  BY Zenon, <1>4 DEF ForwardSoftReference, Mark
<1>5. CASE \E r \in Ref : EnqueueFinalizerReference(r)
  BY <1>5 DEF EnqueueFinalizerReference, Mark
<1>6. CASE \E r \in Ref : ScanReference(r)
  BY Zenon, <1>6 DEF ScanReference, AllMarked
<1>7. CASE \E r \in Ref : ClearWhiteReference(r)
  BY <1>7 DEF ClearWhiteReference, Clears
<1>8. CASE \E o \in Obj : ScanObject(o)
  BY Zenon, <1>8 DEF ScanObject, AllMarked
<1>9. CASE QueueCleared
  BY Zenon, <1>9 DEF QueueCleared, Clears, Cleared
<1>10. CASE EndProcessing
  BY Zenon, <1>10 DEF EndProcessing, Broadcast
<1>11. CASE \E t \in Mutator : CheckSlowPath(t)
  BY Zenon, <1>11 DEF CheckSlowPath, Returns
<1>12. CASE \E t \in Mutator : LookSlowly(t)
  BY Zenon, <1>12 DEF LookSlowly, Returns, MayReturn
<1>13. CASE \E t \in Mutator : GetterWakes(t)
  BY Zenon, <1>13 DEF GetterWakes
<1>14. CASE \E t \in Mutator, r \in Ref : ReadReferent(t, r)
  BY Zenon, <1>14 DEF ReadReferent
<1>15. CASE \E t \in Mutator, o, p \in Obj : TakeFromField(t, o, p)
  BY <1>15 DEF TakeFromField
<1> QED
  BY Zenon, <1>1, <1>2, <1>3, <1>4, <1>5, <1>6, <1>7, <1>8, <1>9, <1>10, <1>11, <1>12, <1>13, <1>14, <1>15
  DEF ReferenceNext, Collect, GetterStep

(* When the references are processed every queue is empty.                 *)
LEMMA QueuesEmpty ==
  ASSUME ReferenceTypeOK, Phases, gpc \in {"end", "sweep"}
  PROVE  queued = {}
BY ReferenceAssumption DEF ReferenceTypeOK, Phases, AfterFinalizers, Queue

(* GetReferent hands out nothing from outside the set that confines the    *)
(* mutators; when the collector stops preserving, the mark stack is empty  *)
(* and everything marked is in the set.                                    *)
LEMMA ConfinesKept == ReferenceInv /\ ReferenceNext => \E B \in SUBSET Obj : Confines(B)'
<1> SUFFICES ASSUME ReferenceInv, ReferenceNext PROVE \E B \in SUBSET Obj : Confines(B)'
  BY Zenon
<1>a. PICK B \in SUBSET Obj : Confines(B)
  BY Zenon DEF ReferenceInv
<1>b. PICK M \in SUBSET Obj : M = marked
  BY Zenon DEF ReferenceInv, ReferenceTypeOK
<1>c. ASSUME ~slowPath
      PROVE  ~preserving /\ \A r \in Ref : host[r] \in B \cup {Root} => referent[r] \in B \cup {NoObj}
  <2>1. gpc = "sweep" /\ ~preserving
    BY Zenon, <1>c DEF ReferenceInv, Phases
  <2>2. queued = {}
    BY Zenon, <2>1, QueuesEmpty DEF ReferenceInv
  <2> QED BY Zenon, <1>a, <2>1, <2>2 DEF Confines
<1> USE ReferenceAssumption, <1>a DEF ReferenceInv, ReferenceTypeOK, Phases, Confines, heapVars, gcVars,
                                    getVars, White
<1>1. ASSUME BeginProcessing PROVE Confines(B)'
  BY Zenon, <1>1 DEF BeginProcessing
<1>2. ASSUME StartPreservingReferences PROVE Confines(B)'
  BY Zenon, <1>2 DEF StartPreservingReferences
<1>3. ASSUME StopPreservingReferences PROVE Confines(M)'
  <2>1. grey = {} /\ greyRefs = {} /\ \A t \in Mutator : gAt'[t] = "read" => gAt[t] = "read"
    BY Zenon, <1>3 DEF StopPreservingReferences, AllMarked, Broadcast
  <2>2. M' = marked' /\ B \subseteq M
    BY Zenon, <1>b, <1>3 DEF StopPreservingReferences
  <2> QED BY Zenon, <1>b, <1>3, <2>1, <2>2 DEF StopPreservingReferences, Tricolour
<1>4. ASSUME \E r \in Ref : ForwardSoftReference(r) PROVE Confines(B)'
  BY <1>4 DEF ForwardSoftReference, Mark
<1>5. ASSUME \E r \in Ref : EnqueueFinalizerReference(r) PROVE Confines(B)'
  <2>1. PICK r \in Ref : EnqueueFinalizerReference(r)
    BY Zenon, <1>5
  <2>2. preserving /\ Kind[r] = "finalizer" /\ UNCHANGED preserving
    BY Zenon, <2>1 DEF EnqueueFinalizerReference, Queue
  <2> QED BY <2>1, <2>2 DEF EnqueueFinalizerReference, Mark
<1>6. ASSUME \E r \in Ref : ScanReference(r) PROVE Confines(B)'
  BY <1>6 DEF ScanReference, AllMarked
<1>7. ASSUME \E r \in Ref : ClearWhiteReference(r) PROVE Confines(B)'
  <2>1. PICK r \in Ref : ClearWhiteReference(r)
    BY Zenon, <1>7
  <2>2. ~preserving /\ UNCHANGED preserving
    BY <2>1 DEF ClearWhiteReference, Clears, Queue
  <2> QED BY <2>1, <2>2 DEF ClearWhiteReference
<1>8. ASSUME \E o \in Obj : ScanObject(o) PROVE Confines(B)'
  BY <1>8 DEF ScanObject, AllMarked
<1>9. ASSUME QueueCleared PROVE Confines(B)'
  BY <1>9 DEF QueueCleared, Clears, Cleared
<1>10. ASSUME EndProcessing PROVE Confines(B)'
  BY <1>10 DEF EndProcessing, Broadcast
<1>11. ASSUME \E t \in Mutator : CheckSlowPath(t) PROVE Confines(B)'
  <2>1. PICK t \in Mutator : CheckSlowPath(t)
    BY Zenon, <1>11
  <2>2. CASE ~slowPath \/ gVal[t] = NoObj
    <3>1. Returns(t, gVal[t]) /\ UNCHANGED <<heapVars, gcVars>>
      BY Zenon, <2>1, <2>2 DEF CheckSlowPath
    <3>2. ~slipped' => ~slipped /\ (t \notin early \/ gVal[t] = NoObj)
      BY Zenon, <2>1, <2>2 DEF CheckSlowPath
    <3> QED BY <2>1, <2>2, <3>1, <3>2 DEF CheckSlowPath, Returns
  <2>3. CASE ~(~slowPath \/ gVal[t] = NoObj)
    BY <2>1, <2>3 DEF CheckSlowPath
  <2> QED BY Zenon, <2>2, <2>3
<1>12. ASSUME \E t \in Mutator : LookSlowly(t) PROVE Confines(B)'
  <2>1. PICK t \in Mutator : LookSlowly(t)
    BY Zenon, <1>12
  <2>2. ~slipped => host[gRef[t]] \in B \cup {Root}
    BY Zenon, <2>1 DEF LookSlowly
  <2>3. CASE ~slowPath \/ referent[gRef[t]] = NoObj \/ MayReturn(t)
    <3>1. ~slipped => referent[gRef[t]] \in B \cup {NoObj}
      BY Zenon, <2>1, <2>2, <2>3, <1>c DEF LookSlowly, MayReturn
    <3> QED BY <2>1, <2>3, <3>1 DEF LookSlowly, Returns
  <2>4. CASE ~(~slowPath \/ referent[gRef[t]] = NoObj \/ MayReturn(t))
    BY <2>1, <2>4 DEF LookSlowly
  <2> QED BY Zenon, <2>3, <2>4
<1>13. ASSUME \E t \in Mutator : GetterWakes(t) PROVE Confines(B)'
  BY <1>13 DEF GetterWakes
<1>14. ASSUME \E t \in Mutator, r \in Ref : ReadReferent(t, r) PROVE Confines(B)'
  <2>1. PICK t \in Mutator, r \in Ref : ReadReferent(t, r)
    BY Zenon, <1>14
  <2>2. ~slowPath /\ ~slipped => referent[r] \in B \cup {NoObj}
    BY Zenon, <2>1, <1>c DEF ReadReferent
  <2> QED BY <2>1, <2>2 DEF ReadReferent
<1>15. ASSUME \E t \in Mutator, o, p \in Obj : TakeFromField(t, o, p) PROVE Confines(B)'
  BY <1>15 DEF TakeFromField
<1> QED
  BY ZenonT(40), <1>1, <1>2, <1>3, <1>4, <1>5, <1>6, <1>7, <1>8, <1>9, <1>10, <1>11, <1>12, <1>13, <1>14, <1>15
  DEF ReferenceNext, Collect, GetterStep

(* The references as the pause leaves them satisfy the invariant: nothing  *)
(* is grey, and the mutators have at most what is marked.                  *)
LEMMA ReferenceStarts == ReferenceInit => ReferenceInv
<1> SUFFICES ASSUME ReferenceInit PROVE ReferenceInv
  BY Zenon
<1> USE ReferenceAssumption DEF ReferenceInit
<1>1. ReferenceTypeOK
  <2>1. slowPath \in BOOLEAN /\ callback \in BOOLEAN /\ preserving \in BOOLEAN /\ slipped \in BOOLEAN
    BY Zenon
  <2> QED BY <2>1 DEF ReferenceTypeOK, Queue
<1>2. Phases
  BY Zenon DEF Phases, AfterFinalizers
<1>3. Tricolour
  BY Zenon DEF Tricolour
<1>4. PICK M \in SUBSET Obj : M = marked
  BY Zenon
<1>5. Confines(M)
  BY Zenon, <1>4 DEF Confines, White
<1> QED BY Zenon, <1>1, <1>2, <1>3, <1>5 DEF ReferenceInv

(* ReferenceInv is inductive.                                              *)
LEMMA ReferenceStepInv == ReferenceInv /\ [ReferenceNext]_refVars => ReferenceInv'
<1> SUFFICES ASSUME ReferenceInv, [ReferenceNext]_refVars PROVE ReferenceInv'
  BY Zenon
<1>1. CASE ReferenceNext
  BY Zenon, <1>1, RefTypesKept, PhasesKept, TricolourKept, ConfinesKept DEF ReferenceInv
<1>2. CASE UNCHANGED refVars
  BY ZenonT(40), <1>2 DEF refVars, heapVars, gcVars, getVars, ReferenceInv, ReferenceTypeOK, Queue, Phases,
              Tricolour, White, Confines
<1> QED BY Zenon, <1>1, <1>2

(* The collector, the queues and the getters keep their types.             *)
THEOREM ReferenceTypes == ReferenceSpec => []ReferenceTypeOK
<1>1. ReferenceInv => ReferenceTypeOK
  BY Zenon DEF ReferenceInv
<1> QED BY <1>1, ReferenceStarts, ReferenceStepInv, PTL DEF ReferenceSpec

(* The sweep frees nothing that a mutator has got through GetReferent, or  *)
(* has moved out of an object it has got, and nothing a reference points   *)
(* to, for every heap, every set of references and any number of threads.  *)
THEOREM SweepSafe == ReferenceSpec => []SweepIsSafe
<1>1. ReferenceInv => SweepIsSafe
  <2> SUFFICES ASSUME ReferenceInv PROVE SweepIsSafe
    BY Zenon
  <2>1. PICK B \in SUBSET Obj : Confines(B)
    BY Zenon DEF ReferenceInv
  <2>2. ~slipped => \A t \in Mutator : holds[t] \subseteq marked
    BY Zenon, <2>1 DEF Confines
  <2>3. ASSUME gpc \in {"end", "sweep"}
        PROVE  queued = {} /\ \A r \in Ref : host[r] \in marked \cup {Root} => ~White(r)
    <3>1. queued = {} /\ grey = {} /\ greyRefs = {}
      BY Zenon, <2>3, QueuesEmpty DEF ReferenceInv, Phases
    <3> QED BY Zenon, <3>1 DEF ReferenceInv, Tricolour
  <2> QED BY Zenon, <2>2, <2>3 DEF SweepIsSafe
<1> QED BY <1>1, ReferenceStarts, ReferenceStepInv, PTL DEF ReferenceSpec

-----------------------------------------------------------------------------
(* ClassInit: who verifies and who initializes a class.                     *)
CallAt == {"begin", "lock", "wait", "woken", "verify", "methods", "super", "super_back", "clinit"}
FrameType == [c : Class, todo : SUBSET Class, at : CallAt]
Verifying == {"verify", "methods"}
Claiming == {"super", "super_back", "clinit"}
Started == {"initializing", "initialized", "error"}

(* How calls lie on top of each other: only a call that verifies the       *)
(* superclass, initializes it or uses a class is below another one; what   *)
(* verifies its superclass is below the verification of that one; a class  *)
(* is verified or initialized by one call of the stack.                    *)
Nested(s) ==
  \A i, j \in 1..Len(s) : i < j =>
    /\ s[j].at \in {"verify", "super_back", "clinit"}
    /\ s[j].at = "verify" => s[i].at \in Verifying
    /\ s[j].at \in {"verify", "super_back"} /\ j = i + 1 => s[i].c = Super[s[j].c]
    /\ s[i].at \in Verifying \cup Claiming /\ s[j].at \in Verifying \cup Claiming => s[i].c # s[j].c

(* A call that verifies a class has its lock, one that initializes it has   *)
(* claimed it.                                                              *)
CallOK(t, f) ==
  /\ f.at \in Verifying => status[f.c] = "verifying" /\ lockOf[f.c] = t
  /\ f.at \in Claiming => status[f.c] = "initializing" /\ clinitBy[f.c] = t
  /\ f.at \in {"super", "super_back"} => clinits[f.c] = 0
  /\ f.at = "super_back" => Super[f.c] # NoClass
  /\ f.at \in {"wait", "woken"} => status[f.c] \in Started

(* What InitializeClass has returned for the superclass is so.              *)
SuperTold(t) ==
  At(t, "super_back") =>
    IF ret[t] THEN status[Super[Top(t).c]] = "initialized" \/ clinitBy[Super[Top(t).c]] = t
    ELSE status[Super[Top(t).c]] = "error"

StackOK(t) ==
  /\ Nested(stack[t]) /\ SuperTold(t)
  /\ \A i \in 1..Len(stack[t]) : CallOK(t, stack[t][i])

(* A class nobody has claimed has not been initialized.                     *)
Unclaimed == \A c \in Class : status[c] \notin Started => clinits[c] = 0 /\ clinitBy[c] = Nobody

(* Inductive.                                                               *)
Initializing ==
  /\ ClassTypeOK /\ stack \in [Thread -> Seq(FrameType)] /\ Unclaimed /\ ClinitOnce /\ ToldIsReady
  /\ \A t \in Thread : StackOK(t)

Busy == Verifying \cup Claiming

(* What no step takes back: a class that is initialized or erroneous stays  *)
(* so, and the thread that has claimed it is remembered.                    *)
Forward ==
  \A x \in Class :
    /\ status[x] = "initialized" => status'[x] = "initialized"
    /\ status[x] = "error" => status'[x] = "error"
    /\ status[x] \in Started => status'[x] \in Started
    /\ clinitBy[x] # Nobody => clinitBy'[x] = clinitBy[x]

(* The call that verifies or initializes x sees no difference.              *)
Same(x) ==
  /\ status'[x] = status[x] /\ clinitBy'[x] = clinitBy[x] /\ clinits'[x] = clinits[x]
  /\ status[x] = "verifying" => lockOf'[x] = lockOf[x]

(* A call on top of the others                                              *)
LEMMA ConsFrame ==
  ASSUME NEW f \in FrameType, NEW s \in Seq(FrameType)
  PROVE  /\ <<f>> \o s \in Seq(FrameType) /\ Len(<<f>> \o s) = Len(s) + 1 /\ (<<f>> \o s)[1] = f
         /\ \A i \in 1..Len(s) : (<<f>> \o s)[i + 1] = s[i]
<1>1. <<f>> \in Seq(FrameType) /\ Len(<<f>>) = 1 /\ <<f>>[1] = f
  OBVIOUS
<1>2. <<f>> \o s \in Seq(FrameType) /\ Len(<<f>> \o s) = 1 + Len(s)
  BY Zenon, <1>1, ConcatProperties
<1>3. \A i \in 1..(1 + Len(s)) : (<<f>> \o s)[i] = IF i <= 1 THEN <<f>>[i] ELSE s[i - 1]
  BY Zenon, <1>1, ConcatProperties
<1>4. Len(s) \in Nat
  OBVIOUS
<1>5. (<<f>> \o s)[1] = f
  BY <1>1, <1>3, <1>4
<1>6. ASSUME NEW i \in 1..Len(s) PROVE (<<f>> \o s)[i + 1] = s[i]
  <2>1. i + 1 \in 1..(1 + Len(s)) /\ ~(i + 1 <= 1) /\ (i + 1) - 1 = i
    BY <1>4
  <2> QED BY Zenon, <1>3, <2>1
<1> QED BY <1>2, <1>4, <1>5, <1>6

(* The calls below the top one                                              *)
LEMMA TailFrames ==
  ASSUME NEW s \in Seq(FrameType), s # <<>>
  PROVE  /\ Tail(s) \in Seq(FrameType) /\ Len(Tail(s)) = Len(s) - 1 /\ Len(s) \in Nat /\ Len(s) >= 1
         /\ Head(s) = s[1] /\ Head(s) \in FrameType
         /\ \A i \in 1..(Len(s) - 1) : Tail(s)[i] = s[i + 1]
<1>1. Tail(s) \in Seq(FrameType) /\ Len(Tail(s)) = Len(s) - 1 /\ \A i \in 1..Len(Tail(s)) : Tail(s)[i] = s[i + 1]
  BY Zenon, HeadTailProperties
<1>2. Len(s) \in Nat /\ Len(s) >= 1
  BY EmptySeq
<1>3. Head(s) = s[1] /\ s[1] \in FrameType
  BY <1>2
<1> QED BY Zenon, <1>1, <1>2, <1>3

(* A return leaves the calls below as they lie.                             *)
LEMMA NestedTail ==
  ASSUME NEW s \in Seq(FrameType), s # <<>>, Nested(s)
  PROVE  Nested(Tail(s))
<1> SUFFICES ASSUME NEW i \in 1..Len(Tail(s)), NEW j \in 1..Len(Tail(s)), i < j
             PROVE  /\ Tail(s)[j].at \in {"verify", "super_back", "clinit"}
                    /\ Tail(s)[j].at = "verify" => Tail(s)[i].at \in Verifying
                    /\ Tail(s)[j].at \in {"verify", "super_back"} /\ j = i + 1 => Tail(s)[i].c = Super[Tail(s)[j].c]
                    /\ Tail(s)[i].at \in Verifying \cup Claiming /\ Tail(s)[j].at \in Verifying \cup Claiming
                         => Tail(s)[i].c # Tail(s)[j].c
  BY Zenon DEF Nested
<1>1. Len(Tail(s)) = Len(s) - 1 /\ Len(s) \in Nat
  BY Zenon, TailFrames
<1>2. i + 1 \in 1..Len(s) /\ j + 1 \in 1..Len(s) /\ i + 1 < j + 1 /\ (j = i + 1 => j + 1 = (i + 1) + 1)
  BY <1>1
<1>3. Tail(s)[i] = s[i + 1] /\ Tail(s)[j] = s[j + 1]
  BY Zenon, <1>1, TailFrames
<1> QED BY <1>2, <1>3 DEF Nested

(* A call that can lie on top of others                                     *)
OnTop(f, s) ==
  /\ s # <<>> => /\ s[1].at \in {"verify", "super_back", "clinit"}
                 /\ s[1].at \in {"verify", "super_back"} => f.c = Super[s[1].c]
  /\ \A j \in 1..Len(s) : /\ s[j].at = "verify" => f.at \in Verifying
                          /\ f.at \in Busy /\ s[j].at \in Busy => f.c # s[j].c

(* is put on top of them.                                                   *)
LEMMA NestedCons ==
  ASSUME NEW f \in FrameType, NEW s \in Seq(FrameType), Nested(s),
         OnTop(f, s)
  PROVE  Nested(<<f>> \o s)
<1> DEFINE z == <<f>> \o s
<1>1. Len(z) = Len(s) + 1 /\ z[1] = f /\ (\A i \in 1..Len(s) : z[i + 1] = s[i]) /\ Len(s) \in Nat
  BY ConsFrame
<1> HIDE DEF z
<1> SUFFICES ASSUME NEW i \in 1..Len(z), NEW j \in 1..Len(z), i < j
             PROVE  /\ z[j].at \in {"verify", "super_back", "clinit"}
                    /\ z[j].at = "verify" => z[i].at \in Verifying
                    /\ z[j].at \in {"verify", "super_back"} /\ j = i + 1 => z[i].c = Super[z[j].c]
                    /\ z[i].at \in Verifying \cup Claiming /\ z[j].at \in Verifying \cup Claiming => z[i].c # z[j].c
  BY Zenon DEF Nested, z
<1>2. PICK k \in 1..Len(s) : j = k + 1 /\ z[j] = s[k]
  <2>1. j - 1 \in 1..Len(s) /\ j = (j - 1) + 1
    BY <1>1
  <2> QED BY Zenon, <1>1, <2>1
<1>3. s # <<>>
  BY <1>1, <1>2, EmptySeq
<1>4. CASE i = 1
  <2>1. z[i] = f
    BY Zenon, <1>1, <1>4
  <2>2. s[k].at \in {"verify", "super_back", "clinit"}
    <3>1. k # 1 => 1 \in 1..Len(s) /\ 1 < k
      BY <1>1, <1>2
    <3> QED BY Zenon, <1>3, <3>1 DEF Nested, OnTop
  <2>3. j = i + 1 => k = 1
    BY <1>1, <1>2, <1>4
  <2> QED BY Zenon, <1>2, <1>3, <2>1, <2>2, <2>3 DEF Busy, OnTop
<1>5. CASE i # 1
  <2>1. PICK l \in 1..Len(s) : i = l + 1 /\ z[i] = s[l]
    <3>1. i - 1 \in 1..Len(s) /\ i = (i - 1) + 1
      BY <1>1, <1>5
    <3> QED BY Zenon, <1>1, <3>1
  <2>2. l < k /\ (j = i + 1 => k = l + 1)
    BY <1>1, <1>2, <2>1
  <2> QED BY <1>2, <2>1, <2>2 DEF Nested
<1> QED BY Zenon, <1>4, <1>5

(* The parts of the invariant a step starts from                            *)
LEMMA InitializingParts ==
  ASSUME Initializing
  PROVE  /\ ClassTypeOK /\ stack \in [Thread -> Seq(FrameType)] /\ Unclaimed /\ ClinitOnce /\ ToldIsReady
         /\ \A t \in Thread : /\ StackOK(t) /\ Nested(stack[t]) /\ SuperTold(t) /\ stack[t] \in Seq(FrameType)
                              /\ Len(stack[t]) \in Nat
                              /\ \A i \in 1..Len(stack[t]) : CallOK(t, stack[t][i]) /\ stack[t][i] \in FrameType
<1>1. ClassTypeOK /\ stack \in [Thread -> Seq(FrameType)] /\ Unclaimed /\ ClinitOnce /\ ToldIsReady /\ \A t \in Thread : StackOK(t)
  BY Zenon DEF Initializing
<1>2. ASSUME NEW t \in Thread
      PROVE  /\ StackOK(t) /\ Nested(stack[t]) /\ SuperTold(t) /\ stack[t] \in Seq(FrameType) /\ Len(stack[t]) \in Nat
             /\ \A i \in 1..Len(stack[t]) : CallOK(t, stack[t][i]) /\ stack[t][i] \in FrameType
  BY <1>1 DEF StackOK
<1> QED BY Zenon, <1>1, <1>2

(* The top call of a thread that is not idle                                *)
LEMMA TopCall ==
  ASSUME Initializing, NEW t \in Thread, Active(t)
  PROVE  /\ 1 \in 1..Len(stack[t]) /\ Top(t) = stack[t][1] /\ Top(t) \in FrameType /\ Top(t).c \in Class
         /\ Top(t).at \in CallAt /\ Top(t).todo \in SUBSET Class /\ CallOK(t, Top(t))
<1>1. stack[t] \in Seq(FrameType) /\ stack[t] # <<>> /\ \A i \in 1..Len(stack[t]) : CallOK(t, stack[t][i])
  BY Zenon, InitializingParts DEF Active
<1>2. 1 \in 1..Len(stack[t]) /\ Head(stack[t]) = stack[t][1] /\ Head(stack[t]) \in FrameType
  BY <1>1, TailFrames
<1>3. CallOK(t, stack[t][1])
  BY Zenon, <1>1, <1>2
<1> QED BY Zenon, <1>2, <1>3 DEF Top, FrameType

(* Nobody but the top call of t verifies or initializes what t changes.     *)
LEMMA SameElsewhere ==
  ASSUME Initializing, NEW t \in Thread, NEW C \in SUBSET Class,
         \A x \in Class \ C : Same(x),
         \A x \in C : \/ status[x] \notin {"verifying", "initializing"}
                      \/ Same(x)
                      \/ Active(t) /\ Top(t).at \in Busy /\ Top(t).c = x
                      \/ \A u \in Thread : \A i \in 1..Len(stack[u]) : ~(stack[u][i].at \in Busy /\ stack[u][i].c = x),
         NEW u \in Thread, NEW i \in 1..Len(stack[u]), u # t \/ i > 1, stack[u][i].at \in Busy
  PROVE  Same(stack[u][i].c)
<1>1. CallOK(u, stack[u][i]) /\ stack[u][i] \in FrameType /\ Nested(stack[t]) /\ Len(stack[t]) \in Nat
  BY Zenon, InitializingParts
<1>2. PICK x \in Class : x = stack[u][i].c
  BY Zenon, <1>1 DEF FrameType
<1>3. \/ status[x] = "verifying" /\ lockOf[x] = u /\ stack[u][i].at \in Verifying
      \/ status[x] = "initializing" /\ clinitBy[x] = u /\ stack[u][i].at \in Claiming
  BY Zenon, <1>1, <1>2 DEF CallOK, Busy
<1>4. CASE x \notin C
  BY Zenon, <1>2, <1>4
<1>5. CASE Active(t) /\ Top(t).at \in Busy /\ Top(t).c = x
  <2>1. 1 \in 1..Len(stack[t]) /\ Top(t) = stack[t][1] /\ CallOK(t, Top(t))
    BY Zenon, <1>5, TopCall
  <2>2. CASE u = t
    <3>1. 1 < i
      BY Zenon, <1>1, <2>2
    <3>2. stack[t][1].c # stack[t][i].c
      BY Zenon, <1>1, <1>5, <2>1, <2>2, <3>1 DEF Nested, Busy
    <3> QED BY Zenon, <1>2, <1>5, <2>1, <2>2, <3>2
  <2>3. CASE u # t
    BY <1>3, <1>5, <2>1, <2>3 DEF CallOK, Busy
  <2> QED BY Zenon, <2>2, <2>3
<1> QED BY Zenon, <1>2, <1>3, <1>4, <1>5

(* A call whose class sees no difference is as before.                      *)
LEMMA CallKept ==
  ASSUME Forward, NEW u \in Thread, NEW f \in FrameType, CallOK(u, f), f.at \in Busy => Same(f.c)
  PROVE  CallOK(u, f)'
<1>1. f.c \in Class
  BY Zenon DEF FrameType
<1>2. f.at \in Verifying => status'[f.c] = "verifying" /\ lockOf'[f.c] = u
  BY Zenon DEF CallOK, Busy, Same
<1>3. f.at \in Claiming => status'[f.c] = "initializing" /\ clinitBy'[f.c] = u
  BY Zenon DEF CallOK, Busy, Same
<1>4. f.at \in {"super", "super_back"} => clinits'[f.c] = 0
  BY Zenon DEF CallOK, Busy, Same, Claiming
<1>5. f.at \in {"wait", "woken"} => status'[f.c] \in Started
  BY Zenon, <1>1 DEF CallOK, Forward
<1> QED BY Zenon, <1>2, <1>3, <1>4, <1>5 DEF CallOK

(* The calls below the top one see no difference,                           *)
LowerSame(t) == \A i \in 1..Len(stack[t]) : i > 1 /\ stack[t][i].at \in Busy => Same(stack[t][i].c)

(* so that they are as before.                                              *)
Lower(t, s) ==
  /\ s = Tail(stack[t]) /\ Nested(s) /\ Len(s) = Len(stack[t]) - 1 /\ Len(s) \in Nat
  /\ \A i \in 1..Len(s) : /\ s[i] \in FrameType /\ s[i] = stack[t][i + 1] /\ i + 1 \in 1..Len(stack[t])
                          /\ CallOK(t, s[i])'

(* What is below a call stays as it is.                                     *)
LEMMA LowerKept ==
  ASSUME Initializing, Forward, NEW t \in Thread, Active(t), LowerSame(t)
  PROVE  \E s \in Seq(FrameType) : Lower(t, s)
<1>1. stack[t] \in Seq(FrameType) /\ stack[t] # <<>> /\ Nested(stack[t])
  BY Zenon, InitializingParts DEF Active
<1>2. PICK s \in Seq(FrameType) : s = Tail(stack[t])
  <2>1. Tail(stack[t]) \in Seq(FrameType)
    BY Zenon, <1>1, TailFrames
  <2> QED BY <2>1, Zenon
<1>3. /\ Len(s) = Len(stack[t]) - 1 /\ Len(s) \in Nat /\ Len(stack[t]) \in Nat
      /\ \A i \in 1..(Len(stack[t]) - 1) : s[i] = stack[t][i + 1]
  BY <1>1, <1>2, TailFrames
<1>4. Nested(s)
  BY Zenon, <1>1, <1>2, NestedTail
<1>5. ASSUME NEW i \in 1..Len(s)
      PROVE  s[i] \in FrameType /\ s[i] = stack[t][i + 1] /\ i + 1 \in 1..Len(stack[t]) /\ CallOK(t, s[i])'
  <2>1. s[i] \in FrameType /\ s[i] = stack[t][i + 1] /\ i + 1 \in 1..Len(stack[t]) /\ i + 1 > 1
    BY <1>3
  <2>2. CallOK(t, stack[t][i + 1])
    BY <2>1, InitializingParts
  <2>3. PICK f \in FrameType : f = s[i]
    BY Zenon, <2>1
  <2>4. CallOK(t, f) /\ (f.at \in Busy => Same(f.c))
    BY Zenon, <2>1, <2>2, <2>3 DEF LowerSame
  <2>5. CallOK(t, f)'
    BY Zenon, <2>4, CallKept
  <2> QED BY Zenon, <2>1, <2>3, <2>5
<1>6. Lower(t, s)
  BY Zenon, <1>2, <1>3, <1>4, <1>5 DEF Lower
<1> QED BY Zenon, <1>6

(* A call f can take the place of the top call of t.                        *)
Goes(t, f) == stack'[t] = <<f>> \o Tail(stack[t])
Fits(t, f) ==
  /\ f.c = Top(t).c /\ f.at # "super_back"
  /\ \/ f.at \in Verifying
     \/ Top(t).at \notin Verifying
     \/ Len(stack[t]) > 1 => stack[t][2].at # "verify"
  /\ \/ f.at \notin Busy
     \/ Top(t).at \in Busy
     \/ \A i \in 1..Len(stack[t]) : i > 1 /\ stack[t][i].at \in Busy => stack[t][i].c # f.c

(* How the calls of one thread nest depends on these calls only.            *)
LEMMA NestedLater == \A t \in Thread : Nested(stack[t])' <=> Nested(stack'[t])
BY Zenon DEF Nested

(* The top call goes on at another place.                                   *)
LEMMA Replaced ==
  ASSUME Initializing, Forward, NEW t \in Thread, Active(t), LowerSame(t),
         NEW f \in FrameType, Goes(t, f), Fits(t, f), CallOK(t, f)'
  PROVE  StackOK(t)' /\ stack'[t] \in Seq(FrameType)
<1>1. PICK s \in Seq(FrameType) : Lower(t, s)
  BY Zenon, LowerKept
<1>2. /\ s = Tail(stack[t]) /\ Nested(s) /\ Len(s) = Len(stack[t]) - 1 /\ Len(s) \in Nat
      /\ \A i \in 1..Len(s) : s[i] \in FrameType /\ s[i] = stack[t][i + 1] /\ i + 1 \in 1..Len(stack[t]) /\ CallOK(t, s[i])'
  BY Zenon, <1>1 DEF Lower
<1>3. /\ 1 \in 1..Len(stack[t]) /\ Top(t) = stack[t][1] /\ Nested(stack[t]) /\ Len(stack[t]) \in Nat
  BY Zenon, TopCall, InitializingParts
<1>4. s # <<>> => /\ s[1].at \in {"verify", "super_back", "clinit"}
                  /\ s[1].at \in {"verify", "super_back"} => f.c = Super[s[1].c]
  <2> SUFFICES ASSUME s # <<>> PROVE /\ s[1].at \in {"verify", "super_back", "clinit"}
                                     /\ s[1].at \in {"verify", "super_back"} => f.c = Super[s[1].c]
    BY Zenon
  <2>1. 1 \in 1..Len(s)
    BY <1>2, EmptySeq
  <2>2. s[1] = stack[t][1 + 1] /\ 1 + 1 \in 1..Len(stack[t]) /\ 1 < 1 + 1
    BY <1>2, <2>1
  <2> QED BY <1>3, <2>2 DEF Nested, Fits
<1>5. ASSUME NEW j \in 1..Len(s)
      PROVE  /\ s[j].at = "verify" => f.at \in Verifying
             /\ f.at \in Busy /\ s[j].at \in Busy => f.c # s[j].c
  <2>1. s[j] = stack[t][j + 1] /\ j + 1 \in 1..Len(stack[t]) /\ 1 < j + 1 /\ j + 1 > 1
    BY <1>2
  <2>2. s[j].at = "verify" => Top(t).at \in Verifying
    BY <1>3, <2>1 DEF Nested
  <2>3. s[j].at = "verify" => 2 \in 1..Len(stack[t]) /\ stack[t][2].at = "verify"
    <3> SUFFICES ASSUME s[j].at = "verify" PROVE 2 \in 1..Len(stack[t]) /\ stack[t][2].at = "verify"
      BY Zenon
    <3>1. 2 \in 1..Len(stack[t]) /\ (j + 1 = 2 \/ 2 < j + 1)
      BY <1>2, <1>3, <2>1
    <3>2. CASE j + 1 = 2
      BY Zenon, <2>1, <3>1, <3>2
    <3>3. CASE 2 < j + 1
      <4>1. stack[t][2].at \in Verifying
        BY <1>3, <2>1, <3>1, <3>3 DEF Nested
      <4>2. stack[t][2].at \in {"verify", "super_back", "clinit"}
        BY <1>3, <3>1 DEF Nested
      <4> QED BY Zenon, <3>1, <4>1, <4>2 DEF Verifying
    <3> QED BY Zenon, <3>1, <3>2, <3>3
  <2>4. s[j].at = "verify" => f.at \in Verifying
    BY <1>3, <2>2, <2>3 DEF Fits
  <2>5. f.at \in Busy /\ s[j].at \in Busy => f.c # s[j].c
    BY <1>3, <2>1 DEF Nested, Busy, Fits
  <2> QED BY Zenon, <2>4, <2>5
<1>6. Nested(<<f>> \o s)
  <2>1. OnTop(f, s)
    BY Zenon, <1>4, <1>5 DEF OnTop
  <2> QED BY Zenon, <1>2, <2>1, NestedCons
<1>7. PICK z \in Seq(FrameType) : z = <<f>> \o s
  <2>1. <<f>> \o s \in Seq(FrameType)
    BY Zenon, ConsFrame
  <2> QED BY <2>1, Zenon
<1>8. z \in Seq(FrameType) /\ Len(z) = Len(s) + 1 /\ z[1] = f /\ \A i \in 1..Len(s) : z[i + 1] = s[i]
  BY <1>2, <1>7, ConsFrame
<1>9. stack'[t] = z
  BY Zenon, <1>2, <1>7 DEF Goes
<1>10. ASSUME NEW i \in 1..Len(z) PROVE CallOK(t, z[i])'
  <2>1. CASE i = 1
    BY Zenon, <1>8, <2>1
  <2>2. CASE i # 1
    <3>1. i - 1 \in 1..Len(s) /\ (i - 1) + 1 = i
      BY <1>2, <1>8, <2>2
    <3>2. z[i] = s[i - 1]
      BY Zenon, <1>8, <3>1
    <3> QED BY Zenon, <1>2, <3>1, <3>2
  <2> QED BY Zenon, <2>1, <2>2
<1>11. SuperTold(t)'
  <2>1. z # <<>>
    BY <1>2, <1>8, EmptySeq
  <2>2. Head(z) = f
    BY Zenon, <1>8, <2>1, TailFrames
  <2> QED BY <1>9, <2>2 DEF SuperTold, At, Top, Fits
<1>12. Nested(stack[t])'
  BY Zenon, <1>6, <1>7, <1>9, NestedLater
<1>13. \A i \in 1..Len(stack'[t]) : CallOK(t, stack[t][i])'
  BY Zenon, <1>9, <1>10
<1> QED BY Zenon, <1>8, <1>9, <1>11, <1>12, <1>13 DEF StackOK

(* The top call of t returns what is so.                                    *)
Pops(t) == stack'[t] = Tail(stack[t])
Told(t, c) ==
  \/ Len(stack[t]) > 1 => stack[t][2].at # "super_back"
  \/ IF ret'[t] THEN status'[c] = "initialized" \/ clinitBy'[c] = t ELSE status'[c] = "error"

(* The top call returns.                                                    *)
LEMMA Popped ==
  ASSUME Initializing, Forward, NEW t \in Thread, Active(t), Pops(t), LowerSame(t),
         NEW c \in Class, c = Top(t).c, Told(t, c)
  PROVE  StackOK(t)' /\ stack'[t] \in Seq(FrameType)
<1>1. PICK s \in Seq(FrameType) : Lower(t, s)
  BY LowerKept
<1>2. /\ s = Tail(stack[t]) /\ Nested(s) /\ Len(s) = Len(stack[t]) - 1 /\ Len(s) \in Nat
      /\ \A i \in 1..Len(s) : s[i] \in FrameType /\ s[i] = stack[t][i + 1] /\ i + 1 \in 1..Len(stack[t]) /\ CallOK(t, s[i])'
  BY Zenon, <1>1 DEF Lower
<1>3. /\ 1 \in 1..Len(stack[t]) /\ Top(t) = stack[t][1] /\ Nested(stack[t]) /\ Len(stack[t]) \in Nat
  BY Zenon, TopCall, InitializingParts
<1>4. stack'[t] = s
  BY Zenon, <1>2 DEF Pops
<1>5. SuperTold(t)'
  <2> SUFFICES ASSUME At(t, "super_back")'
               PROVE  (IF ret[t] THEN status[Super[Top(t).c]] = "initialized" \/ clinitBy[Super[Top(t).c]] = t
                       ELSE status[Super[Top(t).c]] = "error")'
    BY Zenon DEF SuperTold
  <2>1. s # <<>> /\ Head(s).at = "super_back"
    BY Zenon, <1>4 DEF At, Top, Active
  <2>2. 1 \in 1..Len(s) /\ Head(s) = s[1]
    BY <1>2, <2>1, TailFrames
  <2>3. s[1] = stack[t][2] /\ 2 \in 1..Len(stack[t]) /\ 1 < 2 /\ 2 = 1 + 1 /\ Len(stack[t]) > 1
    BY <1>2, <1>3, <2>2
  <2>4. c = Super[s[1].c]
    BY <1>3, <2>1, <2>2, <2>3 DEF Nested
  <2>5. Top(t)'.c = s[1].c
    BY Zenon, <1>4, <2>2 DEF Top
  <2>6. IF ret'[t] THEN status'[c] = "initialized" \/ clinitBy'[c] = t ELSE status'[c] = "error"
    BY Zenon, <2>1, <2>2, <2>3 DEF Told
  <2> QED BY Zenon, <2>4, <2>5, <2>6
<1>6. Nested(stack[t])'
  BY Zenon, <1>2, <1>4, NestedLater
<1>7. \A i \in 1..Len(stack'[t]) : CallOK(t, stack[t][i])'
  BY Zenon, <1>2, <1>4
<1> QED BY Zenon, <1>4, <1>5, <1>6, <1>7 DEF StackOK

(* A call f can be made by the top call of t, which then is at g.           *)
Calls(t, f, g) == stack'[t] = <<f>> \o (<<g>> \o Tail(stack[t]))
FitsOn(t, f, g) ==
  /\ g.c = Top(t).c /\ Top(t).at \in Busy /\ g.at \in {"verify", "super_back", "clinit"} /\ f.at # "super_back"
  /\ IF g.at = "verify" THEN f.at \in Verifying ELSE Top(t).at \notin Verifying
  /\ g.at \in {"verify", "super_back"} => f.c = Super[g.c]
  /\ f.at \in Busy => \A i \in 1..Len(stack[t]) : stack[t][i].at \in Busy => stack[t][i].c # f.c

(* The top call goes on at another place below a new call.                  *)
LEMMA Stacked ==
  ASSUME Initializing, Forward, NEW t \in Thread, Active(t), LowerSame(t),
         NEW f \in FrameType, NEW g \in FrameType, Calls(t, f, g), FitsOn(t, f, g), CallOK(t, f)', CallOK(t, g)'
  PROVE  StackOK(t)' /\ stack'[t] \in Seq(FrameType)
<1>1. PICK s \in Seq(FrameType) : Lower(t, s)
  BY LowerKept
<1>2. /\ s = Tail(stack[t]) /\ Nested(s) /\ Len(s) = Len(stack[t]) - 1 /\ Len(s) \in Nat
      /\ \A i \in 1..Len(s) : s[i] \in FrameType /\ s[i] = stack[t][i + 1] /\ i + 1 \in 1..Len(stack[t]) /\ CallOK(t, s[i])'
  BY Zenon, <1>1 DEF Lower
<1>3. /\ 1 \in 1..Len(stack[t]) /\ Top(t) = stack[t][1] /\ Nested(stack[t]) /\ Len(stack[t]) \in Nat
  BY Zenon, TopCall, InitializingParts
<1>4. ASSUME NEW j \in 1..Len(s)
      PROVE  /\ s[j] = stack[t][j + 1] /\ j + 1 \in 1..Len(stack[t]) /\ 1 < j + 1
             /\ s[j].at = "verify" => Top(t).at \in Verifying
             /\ s[j].at \in Busy => g.c # s[j].c
  <2>1. s[j] = stack[t][j + 1] /\ j + 1 \in 1..Len(stack[t]) /\ 1 < j + 1
    BY <1>2
  <2> QED BY SMTT(20), <1>3, <2>1 DEF Nested, Busy, FitsOn
<1>5. s # <<>> => /\ s[1].at \in {"verify", "super_back", "clinit"}
                  /\ s[1].at \in {"verify", "super_back"} => g.c = Super[s[1].c]
  <2> SUFFICES ASSUME s # <<>> PROVE /\ s[1].at \in {"verify", "super_back", "clinit"}
                                     /\ s[1].at \in {"verify", "super_back"} => g.c = Super[s[1].c]
    BY Zenon
  <2>1. 1 \in 1..Len(s)
    BY <1>2, EmptySeq
  <2>2. s[1] = stack[t][1 + 1] /\ 1 + 1 \in 1..Len(stack[t]) /\ 1 < 1 + 1
    BY <1>4, <2>1
  <2> QED BY <1>3, <2>2 DEF Nested, FitsOn
<1>6. PICK y \in Seq(FrameType) : y = <<g>> \o s
  <2>1. <<g>> \o s \in Seq(FrameType)
    BY Zenon, ConsFrame
  <2> QED BY <2>1, Zenon
<1>7. y \in Seq(FrameType) /\ Len(y) = Len(s) + 1 /\ y[1] = g /\ \A i \in 1..Len(s) : y[i + 1] = s[i]
  BY <1>2, <1>6, ConsFrame
<1>8. Nested(y)
  <2>1. \A j \in 1..Len(s) : /\ s[j].at = "verify" => g.at \in Verifying
                             /\ g.at \in Busy /\ s[j].at \in Busy => g.c # s[j].c
    BY Zenon, <1>4 DEF Verifying, FitsOn
  <2>2. Nested(<<g>> \o s)
    <3>1. OnTop(g, s)
      BY Zenon, <1>5, <2>1 DEF OnTop
    <3> QED BY Zenon, <1>2, <3>1, NestedCons
  <2> QED BY Zenon, <1>6, <2>2
<1>9. ASSUME NEW j \in 1..Len(y)
      PROVE  /\ y[j].at = "verify" => f.at \in Verifying
             /\ f.at \in Busy /\ y[j].at \in Busy => f.c # y[j].c
             /\ CallOK(t, y[j])'
  <2>1. CASE j = 1
    BY Zenon, <1>3, <1>7, <2>1 DEF FitsOn
  <2>2. CASE j # 1
    <3>1. j - 1 \in 1..Len(s) /\ (j - 1) + 1 = j
      BY <1>2, <1>7, <2>2
    <3>2. y[j] = s[j - 1]
      BY Zenon, <1>7, <3>1
    <3>3. y[j].at = "verify" => f.at \in Verifying
      BY Zenon, <1>4, <3>1, <3>2 DEF FitsOn
    <3>4. f.at \in Busy /\ y[j].at \in Busy => f.c # y[j].c
      BY <1>4, <3>1, <3>2 DEF FitsOn
    <3>5. CallOK(t, y[j])'
      BY Zenon, <1>2, <3>1, <3>2
    <3> QED BY Zenon, <3>3, <3>4, <3>5
  <2> QED BY Zenon, <2>1, <2>2
<1>10. PICK z \in Seq(FrameType) : z = <<f>> \o y
  <2>1. <<f>> \o y \in Seq(FrameType)
    BY Zenon, <1>7, ConsFrame
  <2> QED BY <2>1, Zenon
<1>11. z \in Seq(FrameType) /\ Len(z) = Len(y) + 1 /\ z[1] = f /\ \A i \in 1..Len(y) : z[i + 1] = y[i]
  BY <1>7, <1>10, ConsFrame
<1>12. Nested(z)
  <2>1. y # <<>> => /\ y[1].at \in {"verify", "super_back", "clinit"}
                    /\ y[1].at \in {"verify", "super_back"} => f.c = Super[y[1].c]
    BY Zenon, <1>7 DEF FitsOn
  <2>2. Nested(<<f>> \o y)
    <3>1. OnTop(f, y)
      BY Zenon, <1>9, <2>1 DEF OnTop
    <3> QED BY Zenon, <1>7, <1>8, <3>1, NestedCons
  <2> QED BY Zenon, <1>10, <2>2
<1>13. stack'[t] = z
  BY Zenon, <1>2, <1>6, <1>10 DEF Calls
<1>14. ASSUME NEW i \in 1..Len(z) PROVE CallOK(t, z[i])'
  <2>1. CASE i = 1
    BY Zenon, <1>11, <2>1
  <2>2. CASE i # 1
    <3>1. i - 1 \in 1..Len(y) /\ (i - 1) + 1 = i
      BY <1>2, <1>7, <1>11, <2>2
    <3>2. z[i] = y[i - 1]
      BY Zenon, <1>11, <3>1
    <3> QED BY Zenon, <1>9, <3>1, <3>2
  <2> QED BY <2>1, <2>2
<1>15. SuperTold(t)'
  <2>1. z # <<>>
    BY <1>7, <1>2, <1>11, EmptySeq
  <2>2. Head(z) = f
    BY <1>11, <2>1, TailFrames
  <2> QED BY Zenon, <1>13, <2>2 DEF SuperTold, At, Top, FitsOn
<1>16. Nested(stack[t])'
  BY <1>12, <1>13 DEF Nested
<1>17. \A i \in 1..Len(stack'[t]) : CallOK(t, stack[t][i])'
  BY Zenon, <1>13, <1>14
<1> QED BY Zenon, <1>11, <1>13, <1>15, <1>16, <1>17 DEF StackOK

(* The calls other than the top one of t see no difference.                 *)
Elsewhere(t) ==
  \A u \in Thread : \A i \in 1..Len(stack[u]) :
    (u # t \/ i > 1) /\ stack[u][i].at \in Busy => Same(stack[u][i].c)

(* What a step of t changes nobody else is busy with.                       *)
Touches(t, C) ==
  /\ \A x \in Class \ C : Same(x)
  /\ \A x \in C : \/ status[x] \notin {"verifying", "initializing"}
                  \/ Same(x)
                  \/ Active(t) /\ Top(t).at \in Busy /\ Top(t).c = x
                  \/ \A u \in Thread : \A i \in 1..Len(stack[u]) : ~(stack[u][i].at \in Busy /\ stack[u][i].c = x)

(* Then they see no difference.                                             *)
LEMMA Undisturbed ==
  ASSUME Initializing, NEW t \in Thread, NEW C \in SUBSET Class, Touches(t, C)
  PROVE  Elsewhere(t) /\ LowerSame(t)
<1>1. ASSUME NEW u \in Thread, NEW i \in 1..Len(stack[u]), u # t \/ i > 1, stack[u][i].at \in Busy
      PROVE  Same(stack[u][i].c)
  <2>1. /\ \A x \in Class \ C : Same(x)
        /\ \A x \in C : \/ status[x] \notin {"verifying", "initializing"}
                        \/ Same(x)
                        \/ Active(t) /\ Top(t).at \in Busy /\ Top(t).c = x
                        \/ \A v \in Thread : \A j \in 1..Len(stack[v]) : ~(stack[v][j].at \in Busy /\ stack[v][j].c = x)
    BY Zenon DEF Touches
  <2> QED BY Zenon, <1>1, <2>1, SameElsewhere
<1>2. Elsewhere(t)
  BY Zenon, <1>1 DEF Elsewhere
<1> QED BY Zenon, <1>2 DEF Elsewhere, LowerSame

(* Nobody is busy with a class that is neither being verified nor being     *)
(* initialized.                                                             *)
LEMMA NotBusy ==
  ASSUME Initializing, NEW x \in Class, status[x] \notin {"verifying", "initializing"},
         NEW u \in Thread, NEW i \in 1..Len(stack[u]), stack[u][i].at \in Busy
  PROVE  stack[u][i].c # x
<1>1. CallOK(u, stack[u][i])
  BY Zenon, InitializingParts
<1> QED BY Zenon, <1>1 DEF CallOK, Busy

(* The top call of t goes on at p.                                          *)
JumpOK(t, p) ==
  /\ p # "super_back"
  /\ \/ p \in Verifying
     \/ Top(t).at \notin Verifying
     \/ Len(stack[t]) > 1 => stack[t][2].at # "verify"
  /\ \/ p \notin Busy
     \/ Top(t).at \in Busy
     \/ status[Top(t).c] \notin {"verifying", "initializing"}

(* The state that p needs                                                   *)
There(t, c, p) ==
  /\ p \in Verifying => status'[c] = "verifying" /\ lockOf'[c] = t
  /\ p \in Claiming => status'[c] = "initializing" /\ clinitBy'[c] = t
  /\ p = "super" => clinits'[c] = 0
  /\ p \in {"wait", "woken"} => status'[c] \in Started

(* Nobody else moves.                                                       *)
Alone(t) == stack' = [u \in Thread |-> stack'[u]] /\ \A u \in Thread \ {t} : stack'[u] = stack[u]

(* The call that Jump puts in the place of the top one                      *)
LEMMA JumpIs ==
  ASSUME Initializing, NEW t \in Thread, Active(t), NEW p \in CallAt
  PROVE  \E f \in FrameType : /\ f.c = Top(t).c /\ f.at = p /\ f.todo = Top(t).todo
                              /\ Jump(t, p) = [stack EXCEPT ![t] = <<f>> \o Tail(stack[t])]
<1>1. Top(t) \in FrameType /\ stack \in [Thread -> Seq(FrameType)]
  BY Zenon, TopCall, InitializingParts
<1>2. PICK f \in FrameType : f = [Top(t) EXCEPT !.at = p]
  <2>1. [Top(t) EXCEPT !.at = p] \in FrameType
    BY Zenon, <1>1 DEF FrameType
  <2> QED BY <2>1, Zenon
<1>3. f.c = Top(t).c /\ f.at = p /\ f.todo = Top(t).todo
  BY Zenon, <1>1, <1>2 DEF FrameType
<1>4. Jump(t, p) = [stack EXCEPT ![t] = <<f>> \o Tail(stack[t])]
  BY <1>1, <1>2 DEF Jump, Top
<1> QED BY Zenon, <1>3, <1>4

(* The thread is where its call goes on.                                    *)
LEMMA Jumped ==
  ASSUME Initializing, Forward, NEW t \in Thread, Active(t), LowerSame(t), NEW p \in CallAt,
         stack' = Jump(t, p), JumpOK(t, p), There(t, Top(t).c, p)
  PROVE  StackOK(t)' /\ stack'[t] \in Seq(FrameType) /\ Alone(t)
<1>1. PICK f \in FrameType : /\ f.c = Top(t).c /\ f.at = p /\ f.todo = Top(t).todo
                             /\ Jump(t, p) = [stack EXCEPT ![t] = <<f>> \o Tail(stack[t])]
  BY Zenon, JumpIs
<1>2. stack \in [Thread -> Seq(FrameType)] /\ Top(t).c \in Class
  BY InitializingParts, TopCall
<1>3. Goes(t, f) /\ Alone(t)
  BY Zenon, <1>1, <1>2 DEF Goes, Alone
<1>4. Fits(t, f)
  <2>1. ASSUME status[Top(t).c] \notin {"verifying", "initializing"}
        PROVE  \A i \in 1..Len(stack[t]) : i > 1 /\ stack[t][i].at \in Busy => stack[t][i].c # f.c
    BY <1>1, <1>2, <2>1, NotBusy
  <2> QED BY Zenon, <1>1, <2>1 DEF Fits, JumpOK
<1>5. CallOK(t, f)'
  BY Zenon, <1>1 DEF There, CallOK, JumpOK
<1> QED BY Zenon, <1>3, <1>4, <1>5, Replaced

(* A step of t leaves the other threads their calls, or wakes them.         *)
Others(t) ==
  /\ stack' = [u \in Thread |-> stack'[u]]
  /\ \A u \in Thread \ {t} :
       /\ ret'[u] = ret[u]
       /\ stack'[u] = stack[u] \/ (At(u, "wait") /\ stack'[u] = Jump(u, "woken")[u])

(* What they have found out stays true.                                     *)
LEMMA OtherOK ==
  ASSUME Initializing, Forward, NEW t \in Thread, Others(t), Elsewhere(t), NEW u \in Thread, u # t
  PROVE  StackOK(u)' /\ stack'[u] \in Seq(FrameType)
<1>1. ret'[u] = ret[u] /\ (stack'[u] = stack[u] \/ (At(u, "wait") /\ stack'[u] = Jump(u, "woken")[u]))
  BY Zenon DEF Others
<1>2. LowerSame(u) /\ \A i \in 1..Len(stack[u]) : stack[u][i].at \in Busy => Same(stack[u][i].c)
  BY Zenon DEF Elsewhere, LowerSame
<1>3. /\ stack[u] \in Seq(FrameType) /\ Nested(stack[u]) /\ SuperTold(u)
      /\ \A i \in 1..Len(stack[u]) : CallOK(u, stack[u][i]) /\ stack[u][i] \in FrameType
  BY Zenon, InitializingParts
<1>4. CASE stack'[u] = stack[u]
  <2>1. Nested(stack[u])'
    BY Zenon, <1>3, <1>4, NestedLater
  <2>2. ASSUME NEW i \in 1..Len(stack[u]) PROVE CallOK(u, stack[u][i])'
    <3>1. PICK f \in FrameType : f = stack[u][i]
      BY Zenon, <1>3
    <3>2. CallOK(u, f) /\ (f.at \in Busy => Same(f.c))
      BY Zenon, <1>2, <1>3, <3>1
    <3>3. CallOK(u, f)'
      BY Zenon, <3>2, CallKept
    <3> QED BY Zenon, <1>4, <3>1, <3>3
  <2>3. SuperTold(u)'
    <3> SUFFICES ASSUME At(u, "super_back")' PROVE (IF ret[u] THEN status[Super[Top(u).c]] = "initialized" \/ clinitBy[Super[Top(u).c]] = u
                                                        ELSE status[Super[Top(u).c]] = "error")'
      BY Zenon DEF SuperTold
    <3>1. At(u, "super_back") /\ Top(u)' = Top(u) /\ Active(u)
      BY Zenon, <1>4 DEF At, Active, Top
    <3>2. Top(u).c \in Class /\ Top(u).at = "super_back" /\ CallOK(u, Top(u))
      BY Zenon, <3>1, TopCall DEF At
    <3>3. PICK s \in Class : s = Super[Top(u).c]
      <4>1. Super[Top(u).c] \in Class
        BY Zenon, <3>2, ClassAssumption DEF CallOK
      <4> QED BY <4>1, Zenon
    <3>4. IF ret[u] THEN status[s] = "initialized" \/ clinitBy[s] = u ELSE status[s] = "error"
      BY Zenon, <1>3, <3>1, <3>3 DEF SuperTold
    <3>5. IF ret'[u] THEN status'[s] = "initialized" \/ clinitBy'[s] = u ELSE status'[s] = "error"
      BY Zenon, <1>1, <3>4, ThreadAssumption DEF Forward
    <3> QED BY Zenon, <3>1, <3>3, <3>5
  <2> QED BY Zenon, <1>3, <1>4, <2>1, <2>2, <2>3 DEF StackOK
<1>5. CASE At(u, "wait") /\ stack'[u] = Jump(u, "woken")[u]
  <2>1. Active(u) /\ Top(u).at = "wait" /\ "woken" \in CallAt
    BY Zenon, <1>5 DEF At, CallAt
  <2>2. PICK f \in FrameType : /\ f.c = Top(u).c /\ f.at = "woken" /\ f.todo = Top(u).todo
                               /\ Jump(u, "woken") = [stack EXCEPT ![u] = <<f>> \o Tail(stack[u])]
    BY Zenon, <2>1, JumpIs
  <2>3. Goes(u, f)
    BY Zenon, <1>5, <2>2, InitializingParts DEF Goes
  <2>4. Fits(u, f)
    BY Zenon, <2>1, <2>2 DEF Fits, Busy, Verifying, Claiming
  <2>5. status[f.c] \in Started /\ f.c \in Class
    BY Zenon, <2>1, <2>2, TopCall DEF CallOK
  <2>6. CallOK(u, f)'
    BY Zenon, <2>2, <2>5 DEF CallOK, Forward, Verifying, Claiming
  <2> QED BY Zenon, <1>2, <2>1, <2>3, <2>4, <2>6, Replaced
<1> QED BY Zenon, <1>1, <1>4, <1>5

(* The types of the variables other than stack                              *)
StateTypes ==
  /\ status \in [Class -> {"resolved", "verifying", "verified", "initializing", "initialized", "error"}]
  /\ clinitBy \in [Class -> Thread \cup {Nobody}] /\ lockOf \in [Class -> Thread \cup {Nobody}]
  /\ ret \in [Thread -> BOOLEAN] /\ clinits \in [Class -> Nat]
  /\ got \in [Thread -> SUBSET Class] /\ checkFailed \in BOOLEAN

(* A thread is told of a class only what is so.                             *)
Learns == \A u \in Thread : \A c \in got'[u] : c \in got[u] \/ status'[c] = "initialized" \/ clinitBy'[c] = u

(* A class is claimed when its status says so, and <clinit> is invoked for  *)
(* the first time and after the superclass.                                 *)
Invokes ==
  \A x \in Class :
    /\ status'[x] \notin Started => clinits'[x] = clinits[x] /\ clinitBy'[x] = clinitBy[x]
    /\ \/ clinits'[x] = clinits[x]
       \/ /\ clinits'[x] = 1
          /\ Super[x] # NoClass => \/ status'[Super[x]] = "initialized"
                                   \/ clinitBy'[Super[x]] = clinitBy'[x] /\ clinitBy'[x] # Nobody

(* A step of t keeps the invariant if it does all that.                     *)
LEMMA Composed ==
  ASSUME Initializing, Forward, NEW t \in Thread, Others(t), Elsewhere(t), StackOK(t)', stack'[t] \in Seq(FrameType),
         StateTypes', ~checkFailed', Learns, Invokes
  PROVE  Initializing'
<1>1. ASSUME NEW u \in Thread PROVE StackOK(u)' /\ stack'[u] \in Seq(FrameType)
  <2>1. CASE u = t
    BY Zenon, <2>1
  <2>2. CASE u # t
    BY Zenon, <2>2, OtherOK
  <2> QED BY Zenon, <2>1, <2>2
<1>2. stack' \in [Thread -> Seq(FrameType)]
  <2>1. stack' = [u \in Thread |-> stack'[u]]
    BY Zenon DEF Others
  <2> QED BY Zenon, <1>1, <2>1
<1>3. ClassTypeOK'
  <2>1. ASSUME NEW u \in Thread, NEW i \in DOMAIN stack'[u] PROVE stack'[u][i] \in FrameType
    <3>1. stack'[u] \in Seq(FrameType)
      BY Zenon, <1>1
    <3> QED BY <2>1, <3>1
  <2> QED BY Zenon, <2>1 DEF ClassTypeOK, StateTypes, FrameType, CallAt
<1>4. ClassTypeOK /\ Unclaimed /\ ClinitOnce /\ ToldIsReady
  BY Zenon, InitializingParts
<1>5. Unclaimed'
  <2> SUFFICES ASSUME NEW x \in Class, status'[x] \notin Started PROVE clinits'[x] = 0 /\ clinitBy'[x] = Nobody
    BY Zenon DEF Unclaimed
  <2> QED BY <1>4 DEF Unclaimed, Forward, Invokes
<1>6. ClinitOnce'
  <2>1. ASSUME NEW x \in Class
        PROVE  /\ clinits'[x] <= 1
               /\ clinits'[x] = 1 /\ Super[x] # NoClass =>
                    \/ status'[Super[x]] = "initialized"
                    \/ clinitBy'[Super[x]] = clinitBy'[x] /\ clinitBy'[x] # Nobody
    <3>1. CASE clinits'[x] = clinits[x]
      <4>1. clinits'[x] <= 1
        BY Zenon, <1>4, <3>1 DEF ClinitOnce
      <4>2. ASSUME clinits'[x] = 1, Super[x] # NoClass
            PROVE  \/ status'[Super[x]] = "initialized"
                   \/ clinitBy'[Super[x]] = clinitBy'[x] /\ clinitBy'[x] # Nobody
        <5>1. PICK s \in Class : s = Super[x]
          BY Zenon, <4>2, ClassAssumption
        <5>2. status[s] = "initialized" \/ (clinitBy[s] = clinitBy[x] /\ clinitBy[x] # Nobody)
          BY Zenon, <1>4, <3>1, <4>2, <5>1 DEF ClinitOnce
        <5>3. status'[s] = "initialized" \/ (clinitBy'[s] = clinitBy'[x] /\ clinitBy'[x] # Nobody)
          BY Zenon, <5>2 DEF Forward
        <5> QED BY Zenon, <5>1, <5>3
      <4> QED BY Zenon, <4>1, <4>2
    <3>2. CASE clinits'[x] # clinits[x]
      BY <3>2 DEF Invokes
    <3> QED BY Zenon, <3>1, <3>2
  <2> QED BY Zenon, <2>1 DEF ClinitOnce
<1>7. ToldIsReady'
  <2> SUFFICES ASSUME NEW u \in Thread, NEW c \in got'[u] PROVE status'[c] = "initialized" \/ clinitBy'[c] = u
    BY Zenon DEF ToldIsReady
  <2>1. CASE c \in got[u]
    <3>1. c \in Class
      BY Zenon, <1>4, <2>1 DEF ClassTypeOK
    <3>2. status[c] = "initialized" \/ clinitBy[c] = u
      BY Zenon, <1>4, <2>1 DEF ToldIsReady
    <3> QED BY Zenon, <3>1, <3>2, ThreadAssumption DEF Forward
  <2>2. CASE c \notin got[u]
    BY Zenon, <2>2 DEF Learns
  <2> QED BY Zenon, <2>1, <2>2
<1> QED BY Zenon, <1>1, <1>2, <1>3, <1>5, <1>6, <1>7 DEF Initializing

(* A class no step touches                                                  *)
LEMMA Untouched ==
  ASSUME Initializing, status' = status, clinitBy' = clinitBy, clinits' = clinits,
         \A x \in Class : status[x] = "verifying" => lockOf'[x] = lockOf[x]
  PROVE  Forward /\ Invokes /\ \A t \in Thread : Touches(t, {}) /\ Elsewhere(t) /\ LowerSame(t)
<1>1. Forward
  BY Zenon DEF Forward
<1>2. Invokes
  BY Zenon DEF Invokes
<1>3. \A x \in Class : Same(x)
  BY Zenon DEF Same
<1>4. ASSUME NEW t \in Thread PROVE Touches(t, {}) /\ Elsewhere(t) /\ LowerSame(t)
  <2>1. Touches(t, {})
    BY Zenon, <1>3 DEF Touches
  <2> QED BY Zenon, <2>1, Undisturbed
<1> QED BY Zenon, <1>1, <1>2, <1>4

(* What a step starts from                                                  *)
LEMMA Before ==
  ASSUME Initializing
  PROVE  StateTypes /\ ~checkFailed /\ stack \in [Thread -> Seq(FrameType)] /\ Unclaimed
<1>1. ClassTypeOK /\ ClinitOnce /\ stack \in [Thread -> Seq(FrameType)] /\ Unclaimed
  BY Zenon, InitializingParts
<1> QED BY Zenon, <1>1 DEF ClassTypeOK, ClinitOnce, StateTypes

(* The top call of t, at p, and its class                                   *)
LEMMA Here ==
  ASSUME Initializing, NEW t \in Thread, NEW p, At(t, p)
  PROVE  /\ Active(t) /\ Top(t).at = p /\ Top(t).c \in Class /\ CallOK(t, Top(t)) /\ Top(t) \in FrameType
         /\ Top(t).todo \in SUBSET Class
  BY Zenon, TopCall DEF At

(* EnsureInitialized calls InitializeClass.                                 *)
LEMMA EnsureInitializedStep ==
  ASSUME Initializing, NEW t \in Thread, NEW c \in Class, EnsureInitialized(t, c)
  PROVE  Initializing'
<1>1. /\ stack[t] = <<>> /\ stack' = [stack EXCEPT ![t] = <<Frame(c, "begin")>>]
      /\ status' = status /\ clinitBy' = clinitBy /\ lockOf' = lockOf /\ ret' = ret /\ clinits' = clinits
      /\ got' = got /\ checkFailed' = checkFailed
  BY Zenon DEF EnsureInitialized, Active
<1>2. Forward /\ Invokes /\ Elsewhere(t)
  BY Zenon, <1>1, Untouched
<1>3. StateTypes' /\ ~checkFailed' /\ Learns /\ stack \in [Thread -> Seq(FrameType)]
  BY Zenon, <1>1, Before DEF StateTypes, Learns
<1>4. Others(t)
  BY Zenon, <1>1, <1>3 DEF Others
<1>5. Frame(c, "begin") \in FrameType /\ Frame(c, "begin").at = "begin"
  BY Zenon DEF Frame, FrameType, CallAt
<1>6. PICK f \in FrameType : f = Frame(c, "begin")
  BY <1>5, Zenon
<1>7. stack'[t] = <<f>> /\ Len(<<f>>) = 1 /\ <<f>>[1] = f /\ <<f>> \in Seq(FrameType) /\ Head(<<f>>) = f
  BY <1>1, <1>3, <1>6
<1>8. StackOK(t)'
  <2>1. Nested(stack[t])'
    BY <1>7 DEF Nested
  <2>2. CallOK(t, f)'
    BY Zenon, <1>5, <1>6 DEF CallOK, Verifying, Claiming
  <2>3. \A i \in 1..Len(stack'[t]) : CallOK(t, stack[t][i])'
    BY <1>7, <2>2
  <2>4. SuperTold(t)'
    BY Zenon, <1>5, <1>6, <1>7 DEF SuperTold, At, Top
  <2> QED BY Zenon, <2>1, <2>3, <2>4 DEF StackOK
<1> QED BY Zenon, <1>2, <1>3, <1>4, <1>7, <1>8, Composed

(* A step that only moves the top call of t.                                *)
LEMMA MoveStep ==
  ASSUME Initializing, NEW t \in Thread, Active(t), NEW p \in CallAt, stack' = Jump(t, p), JumpOK(t, p),
         status' = status, clinitBy' = clinitBy, clinits' = clinits, ret' = ret, got' = got, checkFailed' = FALSE,
         lockOf' \in [Class -> Thread \cup {Nobody}],
         \A x \in Class : status[x] = "verifying" => lockOf'[x] = lockOf[x], There(t, Top(t).c, p)
  PROVE  Initializing'
<1>1. Forward /\ Invokes /\ Elsewhere(t) /\ LowerSame(t)
  BY Zenon, Untouched
<1>2. StateTypes' /\ ~checkFailed'
  BY Zenon, Before DEF StateTypes
<1>3. StackOK(t)' /\ stack'[t] \in Seq(FrameType) /\ Alone(t)
  BY Zenon, <1>1, Jumped
<1>4. Others(t) /\ Learns
  BY Zenon, <1>3 DEF Others, Alone, Learns
<1> QED BY Zenon, <1>1, <1>2, <1>3, <1>4, Composed

(* A step that only returns from the top call of t                          *)
LEMMA ReturnStep ==
  ASSUME Initializing, NEW t \in Thread, Active(t), NEW r \in BOOLEAN, NEW c \in Class, c = Top(t).c, Return(t, r),
         status' = status, clinitBy' = clinitBy, clinits' = clinits, checkFailed' = FALSE,
         lockOf' \in [Class -> Thread \cup {Nobody}],
         \A x \in Class : status[x] = "verifying" => lockOf'[x] = lockOf[x],
         IF r THEN status[c] = "initialized" \/ clinitBy[c] = t ELSE status[c] = "error"
  PROVE  Initializing'
<1>1. Forward /\ Invokes /\ Elsewhere(t) /\ LowerSame(t)
  BY Zenon, Untouched
<1>2. /\ ret' = [ret EXCEPT ![t] = r] /\ stack' = [stack EXCEPT ![t] = Tail(stack[t])]
      /\ got' = [got EXCEPT ![t] = IF r THEN got[t] \cup {c} ELSE got[t]]
  BY Zenon DEF Return
<1>3. StateTypes /\ stack \in [Thread -> Seq(FrameType)]
  BY Zenon, Before
<1>4. ret' \in [Thread -> BOOLEAN] /\ ret'[t] = r /\ \A u \in Thread \ {t} : ret'[u] = ret[u]
  BY Zenon, <1>2, <1>3 DEF StateTypes
<1>5. /\ got' \in [Thread -> SUBSET Class] /\ (\A u \in Thread \ {t} : got'[u] = got[u])
      /\ got'[t] = IF r THEN got[t] \cup {c} ELSE got[t]
  BY <1>2, <1>3 DEF StateTypes
<1>6. StateTypes' /\ ~checkFailed'
  BY Zenon, <1>3, <1>4, <1>5 DEF StateTypes
<1>7. Pops(t) /\ Others(t)
  BY Zenon, <1>2, <1>3, <1>4 DEF Pops, Others
<1>8. Told(t, c)
  BY Zenon, <1>4 DEF Told
<1>9. StackOK(t)' /\ stack'[t] \in Seq(FrameType)
  BY Zenon, <1>1, <1>7, <1>8, Popped
<1>10. Learns
  <2> SUFFICES ASSUME NEW u \in Thread, NEW x \in got'[u]
               PROVE  x \in got[u] \/ status'[x] = "initialized" \/ clinitBy'[x] = u
    BY Zenon DEF Learns
  <2> QED BY Zenon, <1>5
<1> QED BY Zenon, <1>1, <1>6, <1>7, <1>9, <1>10, Composed

(* InitializeClass looks without the lock.                                  *)
LEMMA LookUnlockedStep ==
  ASSUME Initializing, NEW t \in Thread, LookUnlocked(t)
  PROVE  Initializing'
<1>1. /\ At(t, "begin") /\ status' = status /\ clinitBy' = clinitBy /\ clinits' = clinits /\ lockOf' = lockOf
      /\ checkFailed' = checkFailed
  BY Zenon DEF LookUnlocked
<1>2. /\ Active(t) /\ Top(t).at = "begin" /\ Top(t).c \in Class /\ checkFailed' = FALSE
      /\ lockOf' \in [Class -> Thread \cup {Nobody}]
  BY Zenon, <1>1, Here, Before DEF StateTypes
<1>3. CASE status[Top(t).c] = "initialized"
  <2>1. Return(t, TRUE)
    BY Zenon, <1>3 DEF LookUnlocked
  <2> QED BY Zenon, <1>1, <1>2, <1>3, <2>1, ReturnStep
<1>4. CASE status[Top(t).c] # "initialized"
  <2>1. stack' = Jump(t, "lock") /\ ret' = ret /\ got' = got
    BY Zenon, <1>4 DEF LookUnlocked
  <2>2. "lock" \in CallAt /\ JumpOK(t, "lock") /\ There(t, Top(t).c, "lock")
    BY Zenon, <1>2 DEF CallAt, JumpOK, There, Busy, Verifying, Claiming
  <2> QED BY Zenon, <1>1, <1>2, <2>1, <2>2, MoveStep
<1> QED BY Zenon, <1>3, <1>4

(* A waiting thread wakes up.                                               *)
LEMMA WakeSpuriouslyStep ==
  ASSUME Initializing, NEW t \in Thread, WakeSpuriously(t)
  PROVE  Initializing'
<1>1. /\ At(t, "wait") /\ status' = status /\ clinitBy' = clinitBy /\ clinits' = clinits /\ lockOf' = lockOf
      /\ checkFailed' = checkFailed /\ stack' = Jump(t, "woken") /\ ret' = ret /\ got' = got
  BY Zenon DEF WakeSpuriously
<1>2. /\ Active(t) /\ Top(t).at = "wait" /\ Top(t).c \in Class /\ CallOK(t, Top(t)) /\ checkFailed' = FALSE
      /\ lockOf' \in [Class -> Thread \cup {Nobody}]
  BY Zenon, <1>1, Here, Before DEF StateTypes
<1>3. "woken" \in CallAt /\ JumpOK(t, "woken") /\ There(t, Top(t).c, "woken")
  BY Zenon, <1>1, <1>2 DEF CallAt, JumpOK, There, Busy, Verifying, Claiming, CallOK
<1> QED BY Zenon, <1>1, <1>2, <1>3, MoveStep

(* WaitForInitializeClass goes on after the wait.                           *)
LEMMA WokenStep ==
  ASSUME Initializing, NEW t \in Thread, Woken(t)
  PROVE  Initializing'
<1>1. /\ At(t, "woken") /\ status' = status /\ clinitBy' = clinitBy /\ clinits' = clinits /\ lockOf' = lockOf
  BY Zenon DEF Woken
<1>2. PICK c \in Class : c = Top(t).c
  BY Zenon, <1>1, Here
<1>3. /\ Active(t) /\ Top(t).at = "woken" /\ CallOK(t, Top(t)) /\ checkFailed = FALSE
      /\ lockOf' \in [Class -> Thread \cup {Nobody}]
  BY Zenon, <1>1, Here, Before DEF StateTypes
<1>4. status[c] \in Started
  BY Zenon, <1>2, <1>3 DEF CallOK
<1>5. checkFailed' = FALSE
  <2>1. checkFailed' = (checkFailed \/ status[c] \notin {"initializing", "error", "initialized"})
    BY Zenon, <1>2 DEF Woken
  <2> QED BY Zenon, <1>3, <1>4, <2>1 DEF Started
<1>6. CASE status[c] = "initializing"
  <2>1. stack' = Jump(t, "wait") /\ ret' = ret /\ got' = got
    BY Zenon, <1>2, <1>6 DEF Woken
  <2>2. "wait" \in CallAt /\ JumpOK(t, "wait") /\ There(t, Top(t).c, "wait")
    BY Zenon, <1>1, <1>2, <1>3, <1>4 DEF CallAt, JumpOK, There, Busy, Verifying, Claiming
  <2> QED BY Zenon, <1>1, <1>3, <1>5, <2>1, <2>2, MoveStep
<1>7. CASE status[c] # "initializing"
  <2>1. Return(t, status[c] = "initialized")
    BY Zenon, <1>2, <1>7 DEF Woken
  <2>2. CASE status[c] = "initialized"
    <3>1. Return(t, TRUE)
      BY Zenon, <2>1, <2>2
    <3> QED BY Zenon, <1>1, <1>2, <1>3, <1>5, <2>2, <3>1, ReturnStep
  <2>3. CASE status[c] # "initialized"
    <3>1. Return(t, FALSE)
      BY Zenon, <2>1, <2>3
    <3>2. status[c] = "error"
      BY Zenon, <1>4, <1>7, <2>3 DEF Started
    <3> QED BY Zenon, <1>1, <1>2, <1>3, <1>5, <3>1, <3>2, ReturnStep
  <2> QED BY Zenon, <2>2, <2>3
<1> QED BY Zenon, <1>6, <1>7

(* VerifyClass has found the superclass verified.                           *)
LEMMA SuperVerifiedStep ==
  ASSUME Initializing, NEW t \in Thread, SuperVerified(t)
  PROVE  Initializing'
<1>1. /\ At(t, "verify") /\ status' = status /\ clinitBy' = clinitBy /\ clinits' = clinits
      /\ checkFailed' = checkFailed /\ stack' = Jump(t, "methods") /\ ret' = ret /\ got' = got
  BY Zenon DEF SuperVerified
<1>2. PICK c \in Class : c = Top(t).c
  BY Zenon, <1>1, Here
<1>3. /\ Active(t) /\ Top(t).at = "verify" /\ CallOK(t, Top(t)) /\ checkFailed' = FALSE
  BY Zenon, <1>1, Here, Before DEF StateTypes
<1>4. /\ lockOf' = [x \in Class |-> IF x = Super[c] THEN Nobody ELSE lockOf[x]]
      /\ Super[c] # NoClass => IsVerified(Super[c])
  BY Zenon, <1>2 DEF SuperVerified
<1>5. lockOf' \in [Class -> Thread \cup {Nobody}]
  BY Zenon, <1>4, Before DEF StateTypes
<1>6. \A x \in Class : status[x] = "verifying" => lockOf'[x] = lockOf[x]
  BY Zenon, <1>4, ClassAssumption DEF IsVerified
<1>7. status[c] = "verifying" /\ lockOf[c] = t
  BY Zenon, <1>2, <1>3 DEF CallOK, Verifying
<1>8. "methods" \in CallAt /\ JumpOK(t, "methods") /\ There(t, Top(t).c, "methods")
  BY Zenon, <1>1, <1>2, <1>3, <1>6, <1>7 DEF CallAt, JumpOK, There, Busy, Verifying, Claiming
<1> QED BY Zenon, <1>1, <1>3, <1>5, <1>6, <1>8, MoveStep

(* Nobody verifies or initializes x.                                        *)
Idle(x) == \A u \in Thread : \A i \in 1..Len(stack[u]) : ~(stack[u][i].at \in Busy /\ stack[u][i].c = x)

(* A step of t gives c the status v.                                        *)
LEMMA Turns ==
  ASSUME Initializing, NEW t \in Thread, NEW c \in Class, NEW v, status' = [status EXCEPT ![c] = v],
         clinitBy' = clinitBy, clinits' = clinits,
         status[c] \notin {"initialized", "error"}, status[c] = "initializing" => v \in Started,
         \/ status[c] \notin {"verifying", "initializing"}
         \/ Active(t) /\ Top(t).at \in Busy /\ Top(t).c = c,
         \A x \in Class \ {c} : status[x] = "verifying" => lockOf'[x] = lockOf[x] \/ Idle(x)
  PROVE  Forward /\ Invokes /\ Elsewhere(t) /\ LowerSame(t)
<1>1. status'[c] = v /\ \A x \in Class \ {c} : status'[x] = status[x]
  BY Zenon, Before DEF StateTypes
<1>2. Forward
  BY Zenon, <1>1 DEF Forward, Started
<1>3. Invokes
  BY Zenon DEF Invokes
<1>4. PICK C \in SUBSET Class : C = {c} \cup {x \in Class : status[x] = "verifying"}
  <2>1. {c} \cup {x \in Class : status[x] = "verifying"} \in SUBSET Class
    BY Zenon
  <2> QED BY <2>1, Zenon
<1>5. \A x \in Class \ C : Same(x)
  BY Zenon, <1>1, <1>4 DEF Same
<1>6. ASSUME NEW x \in C
      PROVE  \/ status[x] \notin {"verifying", "initializing"}
             \/ Same(x)
             \/ Active(t) /\ Top(t).at \in Busy /\ Top(t).c = x
             \/ \A u \in Thread : \A i \in 1..Len(stack[u]) : ~(stack[u][i].at \in Busy /\ stack[u][i].c = x)
  <2>1. CASE x = c
    BY Zenon, <2>1
  <2>2. CASE x # c
    <3>1. x \in Class \ {c} /\ status[x] = "verifying"
      BY Zenon, <1>4, <2>2
    <3>2. CASE lockOf'[x] = lockOf[x]
      BY Zenon, <1>1, <3>1, <3>2 DEF Same
    <3>3. CASE Idle(x)
      BY Zenon, <3>3 DEF Idle
    <3> QED BY Zenon, <3>1, <3>2, <3>3
  <2> QED BY Zenon, <2>1, <2>2
<1>7. Touches(t, C)
  BY Zenon, <1>5, <1>6 DEF Touches
<1> QED BY Zenon, <1>2, <1>3, <1>7, Undisturbed

(* InitializeClass ends with a new status of the class.                     *)
LEMMA SetStep ==
  ASSUME Initializing, NEW t \in Thread, Active(t), NEW c \in Class, c = Top(t).c, NEW r \in BOOLEAN,
         NEW v, v = IF r THEN "initialized" ELSE "error",
         SetStatusAndReturn(t, c, v, r, TRUE), clinitBy' = clinitBy, clinits' = clinits,
         status[c] \in {"verified", "initializing"}, status[c] = "verified" \/ Top(t).at \in Busy
  PROVE  Initializing'
<1>1. /\ status' = [status EXCEPT ![c] = v] /\ lockOf' = [lockOf EXCEPT ![c] = Nobody]
      /\ stack' = [u \in Thread |->
                     IF u = t THEN Tail(stack[u])
                     ELSE IF At(u, "wait") /\ Top(u).c = c THEN Jump(u, "woken")[u] ELSE stack[u]]
      /\ ret' = [ret EXCEPT ![t] = r]
      /\ got' = [got EXCEPT ![t] = IF r THEN got[t] \cup {c} ELSE got[t]]
  BY Zenon DEF SetStatusAndReturn
<1>2. StateTypes /\ checkFailed = FALSE
  BY Zenon, Before DEF StateTypes
<1>3. checkFailed' = FALSE
  <2>1. checkFailed' = (checkFailed \/ ~TRUE \/ status[c] \in {v, "error"})
    BY Zenon DEF SetStatusAndReturn
  <2> QED BY Zenon, <1>2, <2>1
<1>4. status'[c] = v /\ status' \in [Class -> {"resolved", "verifying", "verified", "initializing", "initialized", "error"}]
  BY Zenon, <1>1, <1>2 DEF StateTypes
<1>5. lockOf' \in [Class -> Thread \cup {Nobody}] /\ \A x \in Class \ {c} : lockOf'[x] = lockOf[x]
  BY Zenon, <1>1, <1>2 DEF StateTypes
<1>6. ret' \in [Thread -> BOOLEAN] /\ ret'[t] = r /\ \A u \in Thread \ {t} : ret'[u] = ret[u]
  BY Zenon, <1>1, <1>2 DEF StateTypes
<1>7. /\ got' \in [Thread -> SUBSET Class] /\ (\A u \in Thread \ {t} : got'[u] = got[u])
      /\ got'[t] = IF r THEN got[t] \cup {c} ELSE got[t]
  BY Zenon, <1>1, <1>2 DEF StateTypes
<1>8. StateTypes' /\ ~checkFailed'
  BY Zenon, <1>2, <1>3, <1>4, <1>5, <1>6, <1>7 DEF StateTypes
<1>9. Forward /\ Invokes /\ Elsewhere(t) /\ LowerSame(t)
  <2>1. v \in Started
    BY Zenon DEF Started
  <2> QED BY Zenon, <1>1, <1>5, <2>1, Turns
<1>10. Pops(t)
  BY Zenon, <1>1 DEF Pops
<1>11. Others(t)
  <2>1. stack' = [u \in Thread |-> stack'[u]]
    BY Zenon, <1>1
  <2>2. ASSUME NEW u \in Thread \ {t}
        PROVE  stack'[u] = stack[u] \/ (At(u, "wait") /\ stack'[u] = Jump(u, "woken")[u])
    BY Zenon, <1>1
  <2> QED BY Zenon, <1>6, <2>1, <2>2 DEF Others
<1>12. Told(t, c)
  BY Zenon, <1>4, <1>6 DEF Told
<1>13. StackOK(t)' /\ stack'[t] \in Seq(FrameType)
  BY Zenon, <1>9, <1>10, <1>12, Popped
<1>14. Learns
  <2> SUFFICES ASSUME NEW u \in Thread, NEW x \in got'[u]
               PROVE  x \in got[u] \/ status'[x] = "initialized" \/ clinitBy'[x] = u
    BY Zenon DEF Learns
  <2> QED BY Zenon, <1>4, <1>7
<1> QED BY Zenon, <1>8, <1>9, <1>11, <1>13, <1>14, Composed

(* VerifyClass ends with a new status of the class.                         *)
LEMMA VerdictStep ==
  ASSUME Initializing, NEW t \in Thread, Active(t), Top(t).at \in Verifying, NEW v \in {"verified", "error"}, Verdict(t, v),
         lockOf' \in [Class -> Thread \cup {Nobody}],
         \A x \in Class \ {Top(t).c} : status[x] = "verifying" => lockOf'[x] = lockOf[x] \/ Idle(x)
  PROVE  Initializing'
<1>1. PICK c \in Class : c = Top(t).c
  BY Zenon, TopCall
<1>2. StateTypes /\ checkFailed = FALSE /\ stack \in [Thread -> Seq(FrameType)]
  BY Zenon, Before DEF StateTypes
<1>3. status[c] = "verifying" /\ lockOf[c] = t
  BY Zenon, <1>1, TopCall DEF CallOK
<1>4. status' = [status EXCEPT ![c] = v] /\ clinitBy' = clinitBy /\ ret' = ret /\ clinits' = clinits /\ got' = got
  BY Zenon, <1>1 DEF Verdict
<1>5. checkFailed' = FALSE
  <2>1. checkFailed' = (checkFailed \/ status[c] # "verifying" \/ lockOf[c] # t)
    BY Zenon, <1>1 DEF Verdict
  <2> QED BY Zenon, <1>2, <1>3, <2>1
<1>6. StateTypes' /\ ~checkFailed' /\ Learns
  BY Zenon, <1>2, <1>4, <1>5 DEF StateTypes, Learns
<1>7. Forward /\ Invokes /\ Elsewhere(t) /\ LowerSame(t)
  <2>1. Top(t).at \in Busy
    BY Zenon DEF Busy
  <2> QED BY Zenon, <1>1, <1>3, <1>4, <2>1, Turns
<1>8. CASE Len(stack[t]) > 1 /\ stack[t][2].at = "verify"
  <2>1. stack' = [stack EXCEPT ![t] = Tail(stack[t])]
    BY Zenon, <1>8 DEF Verdict
  <2>2. Pops(t) /\ Others(t)
    BY Zenon, <1>2, <1>4, <2>1 DEF Pops, Others
  <2>3. Told(t, c)
    BY Zenon, <1>8 DEF Told
  <2>4. StackOK(t)' /\ stack'[t] \in Seq(FrameType)
    BY Zenon, <1>1, <1>7, <2>2, <2>3, Popped
  <2> QED BY Zenon, <1>6, <1>7, <2>2, <2>4, Composed
<1>9. CASE ~(Len(stack[t]) > 1 /\ stack[t][2].at = "verify")
  <2>1. stack' = Jump(t, "lock")
    BY Zenon, <1>9 DEF Verdict
  <2>2. "lock" \in CallAt /\ JumpOK(t, "lock") /\ There(t, Top(t).c, "lock")
    BY Zenon, <1>9 DEF CallAt, JumpOK, There, Busy, Verifying, Claiming
  <2>3. StackOK(t)' /\ stack'[t] \in Seq(FrameType) /\ Alone(t)
    BY Zenon, <1>7, <2>1, <2>2, Jumped
  <2>4. Others(t)
    BY Zenon, <1>4, <2>3 DEF Others, Alone
  <2> QED BY Zenon, <1>6, <1>7, <2>3, <2>4, Composed
<1> QED BY Zenon, <1>8, <1>9

(* InitializeClass looks with the lock.                                     *)
LEMMA LookLockedStep ==
  ASSUME Initializing, NEW t \in Thread, LookLocked(t)
  PROVE  Initializing'
<1>1. At(t, "lock") /\ clinitBy' = clinitBy /\ clinits' = clinits /\ checkFailed' = checkFailed
  BY Zenon DEF LookLocked
<1>2. PICK c \in Class : c = Top(t).c
  BY Zenon, <1>1, Here
<1>3. Active(t) /\ Top(t).at = "lock" /\ checkFailed' = FALSE /\ StateTypes
  BY Zenon, <1>1, Here, Before DEF StateTypes
<1>4. "wait" \in CallAt /\ "verify" \in CallAt
  BY Zenon DEF CallAt
<1>5. CASE /\ status[c] = "initialized" \/ (status[c] = "initializing" /\ clinitBy[c] = t)
           /\ Return(t, TRUE) /\ lockOf' = [lockOf EXCEPT ![c] = Nobody] /\ status' = status
  <2>1. lockOf' \in [Class -> Thread \cup {Nobody}] /\ \A x \in Class : status[x] = "verifying" => lockOf'[x] = lockOf[x]
    BY Zenon, <1>3, <1>5 DEF StateTypes
  <2> QED BY Zenon, <1>1, <1>2, <1>3, <1>5, <2>1, ReturnStep
<1>6. CASE status[c] = "error" /\ Return(t, FALSE) /\ lockOf' = [lockOf EXCEPT ![c] = Nobody] /\ status' = status
  <2>1. lockOf' \in [Class -> Thread \cup {Nobody}] /\ \A x \in Class : status[x] = "verifying" => lockOf'[x] = lockOf[x]
    BY Zenon, <1>3, <1>6 DEF StateTypes
  <2> QED BY Zenon, <1>1, <1>2, <1>3, <1>6, <2>1, ReturnStep
<1>7. CASE /\ status[c] = "initializing" /\ stack' = Jump(t, "wait") /\ lockOf' = [lockOf EXCEPT ![c] = Nobody]
           /\ status' = status /\ ret' = ret /\ got' = got
  <2>1. lockOf' \in [Class -> Thread \cup {Nobody}] /\ \A x \in Class : status[x] = "verifying" => lockOf'[x] = lockOf[x]
    BY Zenon, <1>3, <1>7 DEF StateTypes
  <2>2. JumpOK(t, "wait") /\ There(t, Top(t).c, "wait")
    BY Zenon, <1>2, <1>3, <1>7 DEF JumpOK, There, Busy, Verifying, Claiming, Started
  <2> QED BY Zenon, <1>1, <1>3, <1>4, <1>7, <2>1, <2>2, MoveStep
<1>8. CASE /\ status[c] = "resolved" /\ status' = [status EXCEPT ![c] = "verifying"] /\ stack' = Jump(t, "verify")
           /\ lockOf' = [lockOf EXCEPT ![c] = t] /\ ret' = ret /\ got' = got
  <2>1. /\ lockOf' \in [Class -> Thread \cup {Nobody}] /\ lockOf'[c] = t
        /\ \A x \in Class \ {c} : lockOf'[x] = lockOf[x]
    BY Zenon, <1>3, <1>8 DEF StateTypes
  <2>2. status'[c] = "verifying" /\ StateTypes' /\ ~checkFailed'
    BY Zenon, <1>1, <1>3, <1>8, <2>1 DEF StateTypes
  <2>3. Forward /\ Invokes /\ Elsewhere(t) /\ LowerSame(t)
    BY Zenon, <1>1, <1>8, <2>1, Turns
  <2>4. JumpOK(t, "verify") /\ There(t, Top(t).c, "verify")
    BY Zenon, <1>2, <1>3, <1>8, <2>1, <2>2 DEF JumpOK, There, Busy, Verifying, Claiming
  <2>5. StackOK(t)' /\ stack'[t] \in Seq(FrameType) /\ Alone(t)
    BY Zenon, <1>3, <1>4, <1>8, <2>3, <2>4, Jumped
  <2>6. Others(t) /\ Learns
    BY Zenon, <1>8, <2>5 DEF Others, Alone, Learns
  <2> QED BY Zenon, <2>2, <2>3, <2>5, <2>6, Composed
<1>9. \/ /\ status[c] = "initialized" \/ (status[c] = "initializing" /\ clinitBy[c] = t)
         /\ Return(t, TRUE) /\ lockOf' = [lockOf EXCEPT ![c] = Nobody] /\ status' = status
      \/ status[c] = "error" /\ Return(t, FALSE) /\ lockOf' = [lockOf EXCEPT ![c] = Nobody] /\ status' = status
      \/ /\ status[c] = "initializing" /\ stack' = Jump(t, "wait") /\ lockOf' = [lockOf EXCEPT ![c] = Nobody]
         /\ status' = status /\ ret' = ret /\ got' = got
      \/ /\ status[c] = "resolved" /\ status' = [status EXCEPT ![c] = "verifying"] /\ stack' = Jump(t, "verify")
         /\ lockOf' = [lockOf EXCEPT ![c] = t] /\ ret' = ret /\ got' = got
  BY Zenon, <1>2 DEF LookLocked
<1> QED BY Zenon, <1>5, <1>6, <1>7, <1>8, <1>9

(* The class is claimed.                                                    *)
LEMMA ClaimStep ==
  ASSUME Initializing, NEW t \in Thread, Claim(t)
  PROVE  Initializing'
<1>1. At(t, "lock") /\ stack' = Jump(t, "super") /\ ret' = ret /\ clinits' = clinits /\ got' = got /\ checkFailed' = checkFailed
  BY Zenon DEF Claim
<1>2. PICK c \in Class : c = Top(t).c
  BY Zenon, <1>1, Here
<1>3. /\ status[c] = "verified" /\ status' = [status EXCEPT ![c] = "initializing"]
      /\ clinitBy' = [clinitBy EXCEPT ![c] = t] /\ lockOf' = [lockOf EXCEPT ![c] = Nobody]
  BY Zenon, <1>2 DEF Claim
<1>4. Active(t) /\ Top(t).at = "lock" /\ checkFailed' = FALSE /\ StateTypes /\ Unclaimed
  BY Zenon, <1>1, Here, Before DEF StateTypes
<1>5. /\ status'[c] = "initializing" /\ clinitBy'[c] = t
      /\ \A x \in Class \ {c} : status'[x] = status[x] /\ clinitBy'[x] = clinitBy[x] /\ lockOf'[x] = lockOf[x]
  BY Zenon, <1>3, <1>4 DEF StateTypes
<1>6. StateTypes' /\ ~checkFailed'
  BY Zenon, <1>1, <1>3, <1>4 DEF StateTypes
<1>7. clinits[c] = 0 /\ clinitBy[c] = Nobody
  BY Zenon, <1>3, <1>4 DEF Unclaimed, Started
<1>8. Forward
  BY Zenon, <1>3, <1>5, <1>7 DEF Forward, Started
<1>9. Invokes
  BY Zenon, <1>1, <1>5 DEF Invokes, Started
<1>10. Touches(t, {c})
  BY Zenon, <1>1, <1>3, <1>5 DEF Touches, Same
<1>11. Elsewhere(t) /\ LowerSame(t)
  BY Zenon, <1>10, Undisturbed
<1>12. "super" \in CallAt /\ JumpOK(t, "super") /\ There(t, Top(t).c, "super")
  BY Zenon, <1>1, <1>2, <1>3, <1>4, <1>5, <1>7 DEF CallAt, JumpOK, There, Busy, Verifying, Claiming
<1>13. StackOK(t)' /\ stack'[t] \in Seq(FrameType) /\ Alone(t)
  BY Zenon, <1>1, <1>4, <1>8, <1>11, <1>12, Jumped
<1>14. Others(t) /\ Learns
  BY Zenon, <1>1, <1>13 DEF Others, Alone, Learns
<1> QED BY Zenon, <1>6, <1>8, <1>9, <1>11, <1>13, <1>14, Composed

(* The class does not fit its superclass.                                   *)
LEMMA MisfitStep ==
  ASSUME Initializing, NEW t \in Thread, Misfit(t)
  PROVE  Initializing'
<1>1. At(t, "lock") /\ clinitBy' = clinitBy /\ clinits' = clinits
  BY Zenon DEF Misfit
<1>2. PICK c \in Class : c = Top(t).c
  BY Zenon, <1>1, Here
<1>3. status[c] = "verified" /\ SetStatusAndReturn(t, c, "error", FALSE, TRUE)
  BY Zenon, <1>2 DEF Misfit
<1>4. Active(t)
  BY Zenon, <1>1 DEF At
<1> QED BY Zenon, <1>1, <1>2, <1>3, <1>4, SetStep

(* The methods of the class are good, or not.                               *)
LEMMA MethodsStep ==
  ASSUME Initializing, NEW t \in Thread, MethodsVerified(t) \/ MethodsRejected(t)
  PROVE  Initializing'
<1>1. At(t, "methods") /\ lockOf' = lockOf /\ (Verdict(t, "verified") \/ Verdict(t, "error"))
  BY Zenon DEF MethodsVerified, MethodsRejected
<1>2. Active(t) /\ Top(t).at \in Verifying /\ lockOf' \in [Class -> Thread \cup {Nobody}]
  BY Zenon, <1>1, Before DEF At, Verifying, StateTypes
<1> QED BY Zenon, <1>1, <1>2, VerdictStep

(* The superclass could not be initialized.                                 *)
LEMMA SuperFailedStep ==
  ASSUME Initializing, NEW t \in Thread, SuperFailed(t)
  PROVE  Initializing'
<1>1. At(t, "super_back") /\ ~ret[t] /\ clinitBy' = clinitBy /\ clinits' = clinits
  BY Zenon DEF SuperFailed
<1>2. PICK c \in Class : c = Top(t).c
  BY Zenon, <1>1, Here
<1>3. Active(t) /\ Top(t).at \in Busy /\ status[c] = "initializing"
  BY Zenon, <1>1, <1>2, Here DEF Busy, Claiming, CallOK
<1>4. status[Super[c]] = "error"
  BY Zenon, <1>1, <1>2, InitializingParts DEF SuperTold
<1>5. SetStatusAndReturn(t, c, "error", FALSE, status[Super[c]] = "error")
  BY Zenon, <1>2 DEF SuperFailed
<1>6. SetStatusAndReturn(t, c, "error", FALSE, TRUE)
  BY Zenon, <1>4, <1>5
<1> QED BY Zenon, <1>1, <1>2, <1>3, <1>6, SetStep

(* <clinit> is over.                                                        *)
LEMMA FinishStep ==
  ASSUME Initializing, NEW t \in Thread, NEW good \in BOOLEAN, Finish(t, good)
  PROVE  Initializing'
<1>1. At(t, "clinit") /\ clinitBy' = clinitBy /\ clinits' = clinits
  BY Zenon DEF Finish
<1>2. PICK c \in Class : c = Top(t).c
  BY Zenon, <1>1, Here
<1>3. Active(t) /\ Top(t).at \in Busy /\ status[c] = "initializing"
  BY Zenon, <1>1, <1>2, Here DEF Busy, Claiming, CallOK
<1>4. SetStatusAndReturn(t, c, IF good THEN "initialized" ELSE "error", good, TRUE)
  BY Zenon, <1>2 DEF Finish
<1> QED BY Zenon, <1>1, <1>2, <1>3, <1>4, SetStep

(* The top call of t, which then is at p, calls for class s at q.           *)
PushOK(t, p, s, q) ==
  /\ Top(t).at \in Busy /\ p \in {"verify", "super_back"} /\ q \in {"begin", "verify"} /\ s = Super[Top(t).c]
  /\ IF p = "verify" THEN q = "verify" ELSE Top(t).at \notin Verifying
  /\ q = "verify" => status[s] \notin {"verifying", "initializing"}
  /\ p = "super_back" => clinits'[Top(t).c] = 0 /\ Super[Top(t).c] # NoClass

(* The thread is where the new call begins.                                 *)
LEMMA Pushed ==
  ASSUME Initializing, Forward, NEW t \in Thread, Active(t), LowerSame(t),
         NEW p \in CallAt, NEW s \in Class, NEW q \in CallAt,
         Push(t, p, s, q), PushOK(t, p, s, q), There(t, Top(t).c, p), There(t, s, q)
  PROVE  StackOK(t)' /\ stack'[t] \in Seq(FrameType) /\ Alone(t)
<1>1. PICK g \in FrameType : /\ g.c = Top(t).c /\ g.at = p /\ g.todo = Top(t).todo
                             /\ Jump(t, p) = [stack EXCEPT ![t] = <<g>> \o Tail(stack[t])]
  BY Zenon, JumpIs
<1>2. stack \in [Thread -> Seq(FrameType)] /\ Top(t).c \in Class
  BY Zenon, InitializingParts, TopCall
<1>3. PICK f \in FrameType : f = Frame(s, q)
  <2>1. Frame(s, q) \in FrameType
    BY Zenon DEF Frame, FrameType
  <2> QED BY <2>1, Zenon
<1>4. f.c = s /\ f.at = q
  BY Zenon, <1>3 DEF Frame
<1>5. stack' = [[stack EXCEPT ![t] = <<g>> \o Tail(stack[t])] EXCEPT ![t] = <<f>> \o @]
  BY Zenon, <1>1, <1>3 DEF Push
<1>6. Calls(t, f, g) /\ Alone(t)
  BY Zenon, <1>2, <1>5 DEF Calls, Alone
<1>7. FitsOn(t, f, g)
  <2>1. ASSUME q = "verify"
        PROVE  \A i \in 1..Len(stack[t]) : stack[t][i].at \in Busy => stack[t][i].c # s
    BY Zenon, <2>1, NotBusy DEF PushOK
  <2>2. q \in Busy => q = "verify"
    BY Zenon DEF PushOK, Busy, Verifying, Claiming
  <2> QED BY Zenon, <1>1, <1>4, <2>1, <2>2 DEF FitsOn, PushOK, Verifying
<1>8. CallOK(t, f)'
  BY Zenon, <1>4 DEF There, CallOK, PushOK
<1>9. CallOK(t, g)'
  BY Zenon, <1>1 DEF There, CallOK, PushOK
<1> QED BY Zenon, <1>6, <1>7, <1>8, <1>9, Stacked

(* VerifyClass verifies the superclass first.                               *)
LEMMA VerifySuperStep ==
  ASSUME Initializing, NEW t \in Thread, VerifySuper(t)
  PROVE  Initializing'
<1>1. At(t, "verify") /\ clinitBy' = clinitBy /\ clinits' = clinits /\ ret' = ret /\ got' = got /\ checkFailed' = checkFailed
  BY Zenon DEF VerifySuper
<1>2. PICK c \in Class : c = Top(t).c
  BY Zenon, <1>1, Here
<1>3. PICK s \in Class : s = Super[c]
  <2>1. Super[c] # NoClass
    BY Zenon, <1>2 DEF VerifySuper
  <2> QED BY Zenon, <2>1, ClassAssumption
<1>4. /\ status[s] = "resolved" /\ status' = [status EXCEPT ![s] = "verifying"] /\ lockOf' = [lockOf EXCEPT ![s] = t]
      /\ Push(t, "verify", s, "verify")
  BY Zenon, <1>2, <1>3 DEF VerifySuper
<1>5. Active(t) /\ Top(t).at = "verify" /\ checkFailed' = FALSE /\ StateTypes /\ CallOK(t, Top(t))
  BY Zenon, <1>1, Here, Before DEF StateTypes
<1>6. status[c] = "verifying" /\ lockOf[c] = t /\ c # s
  BY Zenon, <1>2, <1>4, <1>5 DEF CallOK, Verifying
<1>7. /\ status'[s] = "verifying" /\ lockOf'[s] = t
      /\ \A x \in Class \ {s} : status'[x] = status[x] /\ lockOf'[x] = lockOf[x]
  BY Zenon, <1>4, <1>5 DEF StateTypes
<1>8. StateTypes' /\ ~checkFailed'
  BY Zenon, <1>1, <1>4, <1>5 DEF StateTypes
<1>9. Forward /\ Invokes /\ Elsewhere(t) /\ LowerSame(t)
  BY Zenon, <1>1, <1>4, <1>7, Turns
<1>10. PushOK(t, "verify", s, "verify") /\ "verify" \in CallAt
  BY Zenon, <1>2, <1>3, <1>4, <1>5 DEF PushOK, Busy, Verifying, CallAt
<1>11. There(t, s, "verify") /\ There(t, Top(t).c, "verify")
  BY Zenon, <1>2, <1>6, <1>7 DEF There, Claiming
<1>12. StackOK(t)' /\ stack'[t] \in Seq(FrameType) /\ Alone(t)
  BY Zenon, <1>4, <1>5, <1>9, <1>10, <1>11, Pushed
<1>13. Others(t) /\ Learns
  BY Zenon, <1>1, <1>12 DEF Others, Alone, Learns
<1> QED BY Zenon, <1>8, <1>9, <1>12, <1>13, Composed

(* InitializeClass initializes the superclass first.                        *)
LEMMA InitSuperStep ==
  ASSUME Initializing, NEW t \in Thread, InitSuper(t)
  PROVE  Initializing'
<1>1. /\ At(t, "super") /\ status' = status /\ clinitBy' = clinitBy /\ clinits' = clinits /\ lockOf' = lockOf
      /\ ret' = ret /\ got' = got /\ checkFailed' = checkFailed
  BY Zenon DEF InitSuper
<1>2. PICK c \in Class : c = Top(t).c
  BY Zenon, <1>1, Here
<1>3. PICK s \in Class : s = Super[c] /\ s # NoClass
  <2>1. Super[c] # NoClass
    BY Zenon, <1>2 DEF InitSuper
  <2> QED BY Zenon, <2>1, ClassAssumption
<1>4. Push(t, "super_back", s, "begin")
  BY Zenon, <1>2, <1>3 DEF InitSuper
<1>5. Active(t) /\ Top(t).at = "super" /\ StateTypes /\ CallOK(t, Top(t))
  BY Zenon, <1>1, Here, Before
<1>6. StateTypes' /\ ~checkFailed'
  BY Zenon, <1>1, <1>5, Before DEF StateTypes
<1>7. Forward /\ Invokes /\ Elsewhere(t) /\ LowerSame(t)
  BY Zenon, <1>1, Untouched
<1>8. status[c] = "initializing" /\ clinitBy[c] = t /\ clinits[c] = 0
  BY Zenon, <1>2, <1>5 DEF CallOK, Claiming
<1>9. PushOK(t, "super_back", s, "begin") /\ "super_back" \in CallAt /\ "begin" \in CallAt
  BY Zenon, <1>1, <1>2, <1>3, <1>5, <1>8 DEF PushOK, Busy, Verifying, Claiming, CallAt
<1>10. There(t, s, "begin") /\ There(t, Top(t).c, "super_back")
  BY Zenon, <1>1, <1>2, <1>8 DEF There, Claiming, Verifying
<1>11. StackOK(t)' /\ stack'[t] \in Seq(FrameType) /\ Alone(t)
  BY Zenon, <1>4, <1>5, <1>7, <1>9, <1>10, Pushed
<1>12. Others(t) /\ Learns
  BY Zenon, <1>1, <1>11 DEF Others, Alone, Learns
<1> QED BY Zenon, <1>6, <1>7, <1>11, <1>12, Composed

(* <clinit> uses a class.                                                   *)
LEMMA ClinitUsesStep ==
  ASSUME Initializing, NEW t \in Thread, NEW d \in Class, ClinitUses(t, d)
  PROVE  Initializing'
<1>1. /\ At(t, "clinit") /\ status' = status /\ clinitBy' = clinitBy /\ clinits' = clinits /\ lockOf' = lockOf
      /\ ret' = ret /\ got' = got /\ checkFailed' = checkFailed
  BY Zenon DEF ClinitUses
<1>2. /\ Active(t) /\ Top(t).at = "clinit" /\ StateTypes /\ CallOK(t, Top(t)) /\ Top(t) \in FrameType
      /\ Top(t).todo \in SUBSET Class /\ stack \in [Thread -> Seq(FrameType)] /\ Top(t).c \in Class
  BY Zenon, <1>1, Here, Before
<1>3. StateTypes' /\ ~checkFailed'
  BY Zenon, <1>1, <1>2, Before DEF StateTypes
<1>4. Forward /\ Invokes /\ Elsewhere(t) /\ LowerSame(t)
  BY Zenon, <1>1, Untouched
<1>5. PICK f \in FrameType : f = Frame(d, "begin")
  <2>1. Frame(d, "begin") \in FrameType
    BY Zenon DEF Frame, FrameType, CallAt
  <2> QED BY <2>1, Zenon
<1>6. PICK g \in FrameType : g = [Top(t) EXCEPT !.todo = @ \ {d}]
  <2>1. Top(t).todo \ {d} \in SUBSET Class
    BY Zenon, <1>2
  <2>2. [Top(t) EXCEPT !.todo = @ \ {d}] \in FrameType
    BY Zenon, <1>2, <2>1 DEF FrameType
  <2> QED BY <2>2, Zenon
<1>7. f.c = d /\ f.at = "begin" /\ g.c = Top(t).c /\ g.at = "clinit"
  BY Zenon, <1>2, <1>5, <1>6 DEF Frame, FrameType
<1>8. stack' = [stack EXCEPT ![t] = <<f>> \o (<<g>> \o Tail(stack[t]))]
  <2>1. stack' = [stack EXCEPT ![t] = <<Frame(d, "begin")>> \o (<<[Top(t) EXCEPT !.todo = @ \ {d}]>> \o Tail(stack[t]))]
    BY Zenon DEF ClinitUses
  <2> QED BY Zenon, <1>5, <1>6, <2>1
<1>9. Calls(t, f, g) /\ Alone(t)
  BY Zenon, <1>2, <1>8 DEF Calls, Alone
<1>10. FitsOn(t, f, g)
  BY Zenon, <1>2, <1>7 DEF FitsOn, Busy, Verifying, Claiming
<1>11. CallOK(t, f)'
  BY Zenon, <1>7 DEF CallOK, Verifying, Claiming
<1>12. CallOK(t, g)'
  BY Zenon, <1>1, <1>2, <1>7 DEF CallOK, Verifying, Claiming
<1>13. StackOK(t)' /\ stack'[t] \in Seq(FrameType)
  BY Zenon, <1>2, <1>4, <1>9, <1>10, <1>11, <1>12, Stacked
<1>14. Others(t) /\ Learns
  BY Zenon, <1>1, <1>9 DEF Others, Alone, Learns
<1> QED BY Zenon, <1>3, <1>4, <1>13, <1>14, Composed

(* <clinit> begins.                                                         *)
LEMMA BeginClinitStep ==
  ASSUME Initializing, NEW t \in Thread, BeginClinit(t)
  PROVE  Initializing'
<1>1. /\ status' = status /\ clinitBy' = clinitBy /\ lockOf' = lockOf /\ ret' = ret /\ got' = got
      /\ checkFailed' = checkFailed /\ (At(t, "super") \/ At(t, "super_back"))
  BY Zenon DEF BeginClinit
<1>2. PICK c \in Class : c = Top(t).c
  BY Zenon, <1>1, Here
<1>3. /\ \/ At(t, "super") /\ (Super[c] # NoClass => status[Super[c]] = "initialized")
         \/ At(t, "super_back") /\ ret[t]
      /\ stack' = [stack EXCEPT ![t] = <<[c |-> c, at |-> "clinit", todo |-> Uses[c]]>> \o Tail(stack[t])]
      /\ clinits' = [clinits EXCEPT ![c] = @ + 1]
  BY Zenon, <1>2 DEF BeginClinit
<1>4. /\ Active(t) /\ Top(t).at \in {"super", "super_back"} /\ StateTypes /\ CallOK(t, Top(t))
      /\ stack \in [Thread -> Seq(FrameType)]
  BY Zenon, <1>1, Here, Before
<1>5. status[c] = "initializing" /\ clinitBy[c] = t /\ clinits[c] = 0
  BY ZenonT(40), <1>2, <1>4 DEF CallOK, Claiming
<1>6. clinits'[c] = 1 /\ (\A x \in Class \ {c} : clinits'[x] = clinits[x]) /\ clinits' \in [Class -> Nat]
  BY <1>3, <1>4, <1>5 DEF StateTypes
<1>7. StateTypes' /\ ~checkFailed'
  BY Zenon, <1>1, <1>4, <1>6, Before DEF StateTypes
<1>8. Forward
  BY Zenon, <1>1 DEF Forward
<1>9. Super[c] # NoClass => status[Super[c]] = "initialized" \/ clinitBy[Super[c]] = t
  <2>1. SuperTold(t)
    BY Zenon, InitializingParts
  <2> QED BY Zenon, <1>2, <1>3, <2>1 DEF SuperTold
<1>10. Invokes
  <2> SUFFICES ASSUME NEW x \in Class
               PROVE  /\ status'[x] \notin Started => clinits'[x] = clinits[x] /\ clinitBy'[x] = clinitBy[x]
                      /\ \/ clinits'[x] = clinits[x]
                         \/ /\ clinits'[x] = 1
                            /\ Super[x] # NoClass => \/ status'[Super[x]] = "initialized"
                                                     \/ clinitBy'[Super[x]] = clinitBy'[x] /\ clinitBy'[x] # Nobody
    BY Zenon DEF Invokes
  <2>1. CASE x = c
    BY Zenon, <1>1, <1>5, <1>6, <1>9, <2>1, ThreadAssumption DEF Started
  <2>2. CASE x # c
    BY Zenon, <1>1, <1>6, <2>2
  <2> QED BY Zenon, <2>1, <2>2
<1>11. Touches(t, {c})
  BY Zenon, <1>1, <1>2, <1>4, <1>6 DEF Touches, Same, Busy, Claiming
<1>12. Elsewhere(t) /\ LowerSame(t)
  BY Zenon, <1>11, Undisturbed
<1>13. PICK f \in FrameType : f = [c |-> c, at |-> "clinit", todo |-> Uses[c]]
  <2>1. Uses[c] \in SUBSET Class
    BY Zenon, ClassAssumption
  <2>2. [c |-> c, at |-> "clinit", todo |-> Uses[c]] \in FrameType
    BY Zenon, <2>1 DEF FrameType, CallAt
  <2> QED BY <2>2, Zenon
<1>14. f.c = c /\ f.at = "clinit"
  BY Zenon, <1>13
<1>15. Goes(t, f) /\ Alone(t)
  BY Zenon, <1>3, <1>4, <1>13 DEF Goes, Alone
<1>16. Fits(t, f)
  BY Zenon, <1>2, <1>4, <1>14 DEF Fits, Busy, Verifying, Claiming
<1>17. CallOK(t, f)'
  BY Zenon, <1>1, <1>5, <1>14 DEF CallOK, Verifying
<1>18. StackOK(t)' /\ stack'[t] \in Seq(FrameType)
  BY Zenon, <1>4, <1>8, <1>12, <1>15, <1>16, <1>17, Replaced
<1>19. Others(t) /\ Learns
  BY Zenon, <1>1, <1>15 DEF Others, Alone, Learns
<1> QED BY Zenon, <1>7, <1>8, <1>10, <1>12, <1>18, <1>19, Composed

(* The superclass of the class t verifies is verified by no call of t: the  *)
(* calls of VerifyClass follow the superclasses, and no class is its own    *)
(* ancestor.                                                                *)
LEMMA ChainEnds ==
  ASSUME Initializing, NEW t \in Thread, At(t, "verify"),
         NEW i \in 1..Len(stack[t]), stack[t][i].at \in Verifying
  PROVE  Super[Top(t).c] # stack[t][i].c
<1> SUFFICES ASSUME Super[Top(t).c] = stack[t][i].c PROVE FALSE
  BY Zenon
<1>1. /\ Top(t) = stack[t][1] /\ Top(t).at = "verify" /\ 1 \in 1..Len(stack[t]) /\ Len(stack[t]) \in Nat /\ Nested(stack[t])
      /\ \A k \in 1..Len(stack[t]) : stack[t][k] \in FrameType
  BY Zenon, TopCall, InitializingParts DEF At
<1>2. ASSUME NEW k \in 1..i PROVE k \in 1..Len(stack[t]) /\ stack[t][k].at = "verify" /\ stack[t][k].c \in Class
  <2>1. k \in 1..Len(stack[t])
    BY <1>1
  <2>2. CASE k = 1
    BY Zenon, <1>1, <2>2 DEF FrameType
  <2>3. CASE k # 1
    <3>1. 1 < k /\ stack[t][k].at \in {"verify", "super_back", "clinit"}
      BY <1>1, <2>1, <2>3 DEF Nested
    <3>2. 1 < i /\ stack[t][i].at \in {"verify", "super_back", "clinit"}
      BY <1>1, <2>3 DEF Nested
    <3>3. stack[t][i].at = "verify"
      BY Zenon, <3>2 DEF Verifying
    <3>4. k = i \/ stack[t][k].at \in Verifying
      BY <1>1, <2>1, <3>3 DEF Nested
    <3> QED BY Zenon, <1>1, <2>1, <3>1, <3>3, <3>4 DEF Verifying, FrameType
  <2> QED BY Zenon, <2>1, <2>2, <2>3
<1>3. ASSUME NEW k \in 1..i, k # 1 PROVE k - 1 \in 1..i /\ Super[stack[t][k].c] = stack[t][k - 1].c
  <2>1. k \in 1..Len(stack[t]) /\ k - 1 \in 1..Len(stack[t]) /\ k - 1 < k /\ k = (k - 1) + 1 /\ k - 1 \in 1..i
    BY <1>1, <1>3
  <2>2. stack[t][k].at = "verify"
    BY Zenon, <1>2
  <2> QED BY Zenon, <1>1, <2>1, <2>2 DEF Nested
<1> DEFINE S == {stack[t][k].c : k \in 1..i}
<1>4. S \in SUBSET Class /\ S # {} /\ 1 \in 1..i /\ i \in 1..i
  <2>1. 1 \in 1..i /\ i \in 1..i
    BY <1>1
  <2> QED BY Zenon, <1>2, <2>1
<1>5. PICK c \in S : Super[c] \notin S
  <2> HIDE DEF S
  <2> QED BY Zenon, <1>4, ClassAssumption
<1>6. PICK k \in 1..i : c = stack[t][k].c
  BY Zenon
<1>7. CASE k = 1
  <2>1. Super[c] = stack[t][i].c
    BY Zenon, <1>1, <1>6, <1>7
  <2> QED BY Zenon, <1>4, <1>5, <2>1
<1>8. CASE k # 1
  <2>1. k - 1 \in 1..i /\ Super[c] = stack[t][k - 1].c
    BY Zenon, <1>3, <1>6, <1>8
  <2> QED BY Zenon, <1>5, <2>1
<1> QED BY Zenon, <1>7, <1>8

(* The superclass is erroneous, or its lock is free while somebody          *)
(* verifies it: nobody does.                                                *)
LEMMA SuperRejectedStep ==
  ASSUME Initializing, NEW t \in Thread, SuperRejected(t)
  PROVE  Initializing'
<1>1. At(t, "verify") /\ Verdict(t, "error")
  BY Zenon DEF SuperRejected
<1>2. PICK c \in Class : c = Top(t).c
  BY Zenon, <1>1, Here
<1>3. PICK s \in Class : s = Super[c]
  <2>1. Super[c] # NoClass
    BY Zenon, <1>2 DEF SuperRejected
  <2> QED BY Zenon, <2>1, ClassAssumption
<1>4. lockOf' = [lockOf EXCEPT ![s] = Nobody] /\ lockOf[s] \in {Nobody, t}
  BY Zenon, <1>2, <1>3 DEF SuperRejected, Free
<1>5. Active(t) /\ Top(t).at \in Verifying /\ StateTypes
  BY Zenon, <1>1, Before DEF At, Verifying
<1>6. lockOf' \in [Class -> Thread \cup {Nobody}] /\ \A x \in Class \ {s} : lockOf'[x] = lockOf[x]
  BY Zenon, <1>4, <1>5 DEF StateTypes
<1>7. status[s] = "verifying" => Idle(s)
  <2> SUFFICES ASSUME status[s] = "verifying", NEW u \in Thread, NEW i \in 1..Len(stack[u]),
                      stack[u][i].at \in Busy, stack[u][i].c = s
               PROVE  FALSE
    BY Zenon DEF Idle
  <2>1. CallOK(u, stack[u][i])
    BY Zenon, InitializingParts
  <2>2. stack[u][i].at \in Verifying /\ lockOf[s] = u
    BY Zenon, <2>1 DEF CallOK, Busy
  <2>3. u = t
    BY <1>4, <2>2, ThreadAssumption
  <2> QED BY Zenon, <1>1, <1>2, <1>3, <2>2, <2>3, ChainEnds
<1>8. \A x \in Class \ {Top(t).c} : status[x] = "verifying" => lockOf'[x] = lockOf[x] \/ Idle(x)
  BY Zenon, <1>6, <1>7
<1> QED BY Zenon, <1>1, <1>5, <1>6, <1>8, VerdictStep

(* Every step keeps the invariant.                                          *)
LEMMA InitializingStep ==
  ASSUME Initializing, [ClassNext]_classVars
  PROVE  Initializing'
<1>1. CASE UNCHANGED classVars
  <2>1. /\ status' = status /\ clinitBy' = clinitBy /\ lockOf' = lockOf /\ stack' = stack /\ ret' = ret
        /\ clinits' = clinits /\ got' = got /\ checkFailed' = checkFailed
    BY Zenon, <1>1 DEF classVars
  <2>2. ASSUME NEW t \in Thread PROVE StackOK(t)'
    <3>1. Nested(stack[t]) /\ SuperTold(t) /\ \A i \in 1..Len(stack[t]) : CallOK(t, stack[t][i])
      BY Zenon, InitializingParts
    <3>2. Nested(stack[t])'
      BY <2>1, <3>1 DEF Nested
    <3>3. SuperTold(t)'
      BY Zenon, <2>1, <3>1 DEF SuperTold, At, Top, Active
    <3>4. ASSUME NEW i \in 1..Len(stack[t]) PROVE CallOK(t, stack[t][i])'
      BY Zenon, <2>1, <3>1 DEF CallOK
    <3> QED BY Zenon, <2>1, <3>2, <3>3, <3>4 DEF StackOK
  <2>3. ClassTypeOK'
    BY Zenon, <2>1, InitializingParts DEF ClassTypeOK
  <2>4. Unclaimed' /\ ClinitOnce' /\ ToldIsReady'
    BY Zenon, <2>1, InitializingParts DEF Unclaimed, ClinitOnce, ToldIsReady
  <2>5. stack' \in [Thread -> Seq(FrameType)]
    BY Zenon, <2>1, InitializingParts
  <2> QED BY Zenon, <2>2, <2>3, <2>4, <2>5 DEF Initializing
<1>2. CASE ClassNext
  <2>1. PICK t \in Thread : ClassStep(t) \/ WakeSpuriously(t) \/ \E c \in Class : EnsureInitialized(t, c)
    BY Zenon, <1>2 DEF ClassNext
  <2>2. CASE WakeSpuriously(t)
    BY Zenon, <2>2, WakeSpuriouslyStep
  <2>3. CASE \E c \in Class : EnsureInitialized(t, c)
    BY Zenon, <2>3, EnsureInitializedStep
  <2>4. CASE ClassStep(t)
    <3>1. CASE LookUnlocked(t) \/ LookLocked(t) \/ Claim(t) \/ Misfit(t) \/ Woken(t)
      BY Zenon, <3>1, LookUnlockedStep, LookLockedStep, ClaimStep, MisfitStep, WokenStep
    <3>2. CASE VerifySuper(t) \/ SuperVerified(t) \/ SuperRejected(t) \/ MethodsVerified(t) \/ MethodsRejected(t)
      BY Zenon, <3>2, VerifySuperStep, SuperVerifiedStep, SuperRejectedStep, MethodsStep
    <3>3. CASE InitSuper(t) \/ SuperFailed(t) \/ BeginClinit(t)
      BY <3>3, InitSuperStep, SuperFailedStep, BeginClinitStep
    <3>4. CASE \E c \in Class : ClinitUses(t, c)
      BY Zenon, <3>4, ClinitUsesStep
    <3>5. CASE ClinitDone(t) \/ ClinitThrows(t)
      <4>1. Finish(t, TRUE) \/ Finish(t, FALSE)
        BY Zenon, <3>5 DEF ClinitDone, ClinitThrows
      <4> QED BY Zenon, <4>1, FinishStep
    <3> QED BY Zenon, <2>4, <3>1, <3>2, <3>3, <3>4, <3>5 DEF ClassStep
  <2> QED BY Zenon, <2>1, <2>2, <2>3, <2>4
<1> QED BY Zenon, <1>1, <1>2

(* The invariant of InitializeClass, WaitForInitializeClass and VerifyClass *)
(* holds always.                                                            *)
THEOREM InitializingInvariant == ClassSpec => []Initializing
<1>1. ClassInitInit => Initializing
  <2> SUFFICES ASSUME ClassInitInit PROVE Initializing
    BY Zenon
  <2>1. /\ status = [c \in Class |-> "resolved"] /\ clinitBy = [c \in Class |-> Nobody]
        /\ lockOf = [c \in Class |-> Nobody] /\ stack = [t \in Thread |-> <<>>]
        /\ ret = [t \in Thread |-> TRUE] /\ clinits = [c \in Class |-> 0]
        /\ got = [t \in Thread |-> {}] /\ checkFailed = FALSE
    BY Zenon DEF ClassInitInit
  <2>2. stack \in [Thread -> Seq(FrameType)] /\ \A t \in Thread : stack[t] = <<>> /\ Len(stack[t]) = 0
    BY <2>1
  <2>3. ClassTypeOK
    <3>1. \A t \in Thread : DOMAIN stack[t] = {}
      BY <2>2
    <3>2. checkFailed \in BOOLEAN /\ ret \in [Thread -> BOOLEAN]
      BY Zenon, <2>1
    <3> QED BY Zenon, <2>1, <3>1, <3>2 DEF ClassTypeOK
  <2>4. Unclaimed /\ ClinitOnce /\ ToldIsReady
    BY <2>1 DEF Unclaimed, ClinitOnce, ToldIsReady
  <2>5. \A t \in Thread : StackOK(t)
    BY <2>2 DEF StackOK, Nested, SuperTold, At, Active
  <2> QED BY Zenon, <2>2, <2>3, <2>4, <2>5 DEF Initializing
<1>2. Initializing /\ [ClassNext]_classVars => Initializing'
  BY Zenon, InitializingStep
<1> QED BY <1>1, <1>2, PTL DEF ClassSpec

(* Every variable of the class linker's model has its type.                 *)
THEOREM ClassTypes == ClassSpec => []ClassTypeOK
<1>1. Initializing => ClassTypeOK
  BY Zenon DEF Initializing
<1> QED BY <1>1, InitializingInvariant, PTL

(* <clinit> of a class runs at most once, after the superclass is           *)
(* initialized or while the same thread initializes it, and no CHECK of     *)
(* InitializeClass, WaitForInitializeClass or VerifyClass fails: for any    *)
(* number of threads, any class hierarchy and any uses, circular ones       *)
(* included.                                                                *)
THEOREM ClinitsRunOnce == ClassSpec => []ClinitOnce
<1>1. Initializing => ClinitOnce
  BY Zenon DEF Initializing
<1> QED BY <1>1, InitializingInvariant, PTL

(* A thread that InitializeClass has told that a class is initialized finds *)
(* it initialized ever after, or is the one that initializes it.            *)
THEOREM TheToldAreReady == ClassSpec => []ToldIsReady
<1>1. Initializing => ToldIsReady
  BY Zenon DEF Initializing
<1> QED BY <1>1, InitializingInvariant, PTL

=============================================================================
