------------------------------- MODULE MCSafety -------------------------------
(***************************************************************************)
(* Safety of parts that do not share state: object monitors, thread        *)
(* suspension and class initialization of the runtime, the file service of *)
(* Xposed, and the dispatch of a hooked call and the replacements of       *)
(* resources in the framework.  Each is explored from all its initial      *)
(* states: focus says which one moves.                                     *)
(***************************************************************************)
EXTENDS ObjectMonitor, ThreadSuspension, ClassInit, FileService, HookDispatch,
        ResourceReplacements, TLC

CONSTANTS classA, classB, classC,  \* B and C extend A, and <clinit> of A uses B
          d1, d2                   \* directories of resources

SuperOf == classA :> NoClass @@ classB :> classA @@ classC :> classA
Circular == classA :> {classB} @@ classB :> {classC} @@ classC :> {}
FileSizes == {-1, 2, 3}
BitOf == [id \in 1..3 |-> 1]

VARIABLE focus

(* Paths are interchangeable, so one of them may have the smaller file.    *)
Smallest == CHOOSE p \in Path : TRUE

(* A part that does not move is in one of its initial states.              *)
SafetyInit ==
  /\ focus \in {"monitor", "suspension", "classes", "files", "dispatch", "resources"}
  /\ MonitorInit /\ SuspensionInit /\ ClassInitInit /\ FileInit /\ DispatchInit /\ ResourceInit
  /\ focus # "files" => mode = "single" /\ \A p \in Path : file[p].size = -1
  /\ \A p \in Path : file[Smallest].size <= file[p].size
  /\ focus # "dispatch" => disableHooks /\ length = 0

Moves(part) ==
  /\ focus = part /\ UNCHANGED focus
  /\ IF part = "monitor" THEN TRUE ELSE UNCHANGED monitorVars
  /\ IF part = "suspension" THEN TRUE ELSE UNCHANGED suspensionVars
  /\ IF part = "classes" THEN TRUE ELSE UNCHANGED classVars
  /\ IF part = "files" THEN TRUE ELSE UNCHANGED fileVars
  /\ IF part = "dispatch" THEN TRUE ELSE UNCHANGED dispatchVars
  /\ IF part = "resources" THEN TRUE ELSE UNCHANGED resourceVars

SafetyNext ==
  \/ Moves("monitor") /\ MonitorNext
  \/ Moves("suspension") /\ SuspensionNext
  \/ Moves("classes") /\ ClassNext
  \/ Moves("files") /\ FileNext
  \/ Moves("dispatch") /\ DispatchNext
  \/ Moves("resources") /\ ResourceNext

safetyVars == <<monitorVars, suspensionVars, classVars, fileVars, dispatchVars, resourceVars, focus>>

SafetySpec == SafetyInit /\ [][SafetyNext]_safetyVars

(* Threads are interchangeable.                                            *)
Symmetry == Permutations(Thread)

(* The variables of every part keep their types.                           *)
SafetyTypeOK ==
  /\ MonitorTypeOK /\ SuspensionTypeOK /\ ClassTypeOK
  /\ FileTypeOK /\ DispatchTypeOK /\ ResourceTypeOK
=============================================================================
