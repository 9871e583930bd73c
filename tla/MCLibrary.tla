------------------------------ MODULE MCLibrary ------------------------------
(***************************************************************************)
(* The parts of the hooking framework and of its applications that do not  *)
(* share state, each explored from all its initial states: focus says      *)
(* which one moves.  The threads of each part are the numbers of Actor, so *)
(* that one fairness condition serves them all.                            *)
(***************************************************************************)
EXTENDS HookRegistry, PreferencesReader, ClientProxy, SafeMode, FileService

Actor == 1..2
FileSizes == {-1, 2, 3}

VARIABLE focus

(* A part that does not move is in one of its initial states.              *)
LibraryInit ==
  /\ focus \in {"registry", "preferences", "proxy", "safemode", "files"}
  /\ Init /\ PrefsInit /\ ProxyInit /\ SafeInit /\ FileInit
  /\ focus # "preferences" => readable
  /\ focus # "safemode" => skipInitialDelay /\ \A d \in Device : held[d] = {}
  /\ focus # "files" => mode = "single" /\ \A p \in Path : file[p].size = -1

Moves(part) ==
  /\ focus = part /\ UNCHANGED focus
  /\ IF part = "registry" THEN TRUE ELSE UNCHANGED vars
  /\ IF part = "preferences" THEN TRUE ELSE UNCHANGED prefsVars
  /\ IF part = "proxy" THEN TRUE ELSE UNCHANGED proxyVars
  /\ IF part = "safemode" THEN TRUE ELSE UNCHANGED safeVars
  /\ IF part = "files" THEN TRUE ELSE UNCHANGED fileVars

LibraryNext ==
  \/ Moves("registry") /\ Next
  \/ Moves("preferences") /\ PrefsNext
  \/ Moves("proxy") /\ ProxyNext
  \/ Moves("safemode") /\ SafeNext
  \/ Moves("files") /\ FileNext

libraryVars == <<vars, prefsVars, proxyVars, safeVars, fileVars, focus>>

(* The fairness of the parts, of the thread i and of the threads that have *)
(* no number                                                               *)
ActorStep(i) ==
  \/ Moves("registry") /\ HookerStep(i)
  \/ Moves("preferences") /\ AwaitLoaded(i)
  \/ Moves("proxy") /\ JobStep(i)
  \/ Moves("files") /\ i \in Client /\ FileClientStep(i)
ServerStep ==
  \/ Moves("preferences") /\ LoaderStep
  \/ Moves("safemode") /\ DetectStep
  \/ Moves("files") /\ (LooperTakes \/ LooperAnswers)

LibrarySpec ==
  /\ LibraryInit /\ [][LibraryNext]_libraryVars
  /\ WF_libraryVars(ServerStep) /\ \A i \in Actor : WF_libraryVars(ActorStep(i))

(* The variables of every part keep their types.                           *)
LibraryTypeOK == TypeOK /\ PrefsTypeOK /\ ProxyTypeOK /\ SafeTypeOK /\ FileTypeOK

(* Nobody waits for ever: a hook takes hold, a getter of the preferences   *)
(* returns, a retry thread ends, the detection of safe mode ends, and the  *)
(* file service answers its only client.                                   *)
LibraryReturns == HookTakesHold /\ GetReturns /\ RetryEnds /\ DetectionEnds /\ RequestAnswered
=============================================================================
