------------------------------ MODULE MCRuntime ------------------------------
(***************************************************************************)
(* Parts of the runtime that do not share state, checked in one run with   *)
(* fairness: thread suspension, class initialization, the mutexes made of  *)
(* futexes, the thread pool, and the processing of references.  focus says *)
(* which one moves.                                                        *)
(***************************************************************************)
EXTENDS ThreadSuspension, ClassInit, FutexMutex, ReaderWriterMutex, ThreadPool,
        ReferenceProcessing, TLC

CONSTANTS classA, classB, classC,  \* B and C extend A, and <clinit> of B uses C
          x, y,                    \* objects: a field of x points to y
          soft, weak, finalizer, phantom    \* one reference of each kind

SuperOf == classA :> NoClass @@ classB :> classA @@ classC :> classA
UsesOf == classA :> {} @@ classB :> {classC} @@ classC :> {}
KindOf == soft :> "soft" @@ weak :> "weak" @@ finalizer :> "finalizer" @@ phantom :> "phantom"
PointsTo == x :> {y} @@ y :> {}

VARIABLE focus

(* A part that does not move is in one of its initial states.  The phantom *)
(* reference, which nobody gets the referent of, is to y and is queued.    *)
RuntimeInit ==
  /\ focus \in {"threads", "classes", "mutex", "rwmutex", "pool", "references"}
  /\ SuspensionInit /\ ClassInitInit /\ MutexInit /\ RwInit /\ PoolInit /\ ReferenceInit
  /\ focus # "mutex" => recursive
  /\ host[phantom] = Root /\ referent[phantom] = y /\ phantom \in queued
  /\ focus # "references" => /\ marked = Obj /\ queued = Ref /\ clearSoft
                              /\ \A r \in Ref : host[r] = Root /\ referent[r] = y

Moves(part) ==
  /\ focus = part /\ UNCHANGED focus
  /\ IF part = "threads" THEN TRUE ELSE UNCHANGED suspensionVars
  /\ IF part = "classes" THEN TRUE ELSE UNCHANGED classVars
  /\ IF part = "mutex" THEN TRUE ELSE UNCHANGED mutexVars
  /\ IF part = "rwmutex" THEN TRUE ELSE UNCHANGED rwVars
  /\ IF part = "pool" THEN TRUE ELSE UNCHANGED poolVars
  /\ IF part = "references" THEN TRUE ELSE UNCHANGED refVars

RuntimeNext ==
  \/ Moves("threads") /\ SuspensionNext
  \/ Moves("classes") /\ ClassNext
  \/ Moves("mutex") /\ MutexNext
  \/ Moves("rwmutex") /\ RwNext
  \/ Moves("pool") /\ PoolNext
  \/ Moves("references") /\ ReferenceNext

runtimeVars == <<suspensionVars, classVars, mutexVars, rwVars, poolVars, refVars, focus>>

(* The fairness of the parts, of the thread t and of the threads that are  *)
(* not in Thread                                                           *)
FairStep(t) ==
  \/ Moves("threads") /\ MustTransition(t)
  \/ Moves("classes") /\ ClassStep(t)
  \/ Moves("mutex") /\ MutexFair(t)
  \/ Moves("rwmutex") /\ RwGoesOn(t)
  \/ Moves("pool") /\ WorkerStep(t)
OtherStep ==
  \/ Moves("pool") /\ OwnerStep
  \/ Moves("references") /\ Collect
GetterFair == Moves("references") /\ \E m \in Mutator : GetterStep(m)

RuntimeSpec ==
  /\ RuntimeInit /\ [][RuntimeNext]_runtimeVars
  /\ WF_runtimeVars(OtherStep) /\ WF_runtimeVars(GetterFair)
  /\ \A t \in Thread :
       /\ WF_runtimeVars(FairStep(t))
       /\ WF_runtimeVars(Moves("threads") /\ Step(t))

(* The variables of every part keep their types.                           *)
RuntimeTypeOK == MutexTypeOK /\ RwTypeOK /\ PoolTypeOK /\ ReferenceTypeOK

(* The parts that others wait for answer: Wait and the destructor of the   *)
(* thread pool return, and so does GetReferent during a collection.        *)
ServicesAnswer == PoolAnswers /\ GetReferentReturns
=============================================================================
