--------------------------- MODULE MCModuleService --------------------------
(***************************************************************************)
(* ModuleService with the bounds of the .cfg files.  ScopedSpec explores   *)
(* two environments in one run: one client with two paths and process      *)
(* starts, and two clients with more calls and a kill but one path.        *)
(* LiveSpec adds fairness and has one client with all keys and the kills,  *)
(* and all clients with one key; clients and keys are interchangeable, so  *)
(* which one is chosen makes no difference.                                *)
(***************************************************************************)
EXTENDS ModuleService, TLC

VARIABLE scope      \* what the environment may do, chosen once

Starts(c) == [clients |-> {c}, keys |-> Key, paths |-> Path, calls |-> 2, starts |-> MaxStarts, kills |-> 0]
Calls(p) == [clients |-> Client, keys |-> Key, paths |-> {p}, calls |-> MaxCalls, starts |-> 0, kills |-> MaxKills]
Live(clients, keys, maxKills) ==
  [clients |-> clients, keys |-> keys, paths |-> Path, calls |-> MaxCalls, starts |-> MaxStarts, kills |-> maxKills]

InScope ==
  /\ calls' <= scope.calls /\ starts' <= scope.starts /\ kills' <= scope.kills
  /\ starting' \cup running' \subseteq scope.keys
  /\ \A c \in Client : pc'[c] # "idle" =>
       c \in scope.clients /\ call'[c].m.key \in scope.keys /\ call'[c].m.path \in scope.paths

ScopedInit == Init /\ scope \in {Starts(c) : c \in Client} \cup {Calls(p) : p \in Path}

ScopedNext == Next /\ InScope /\ UNCHANGED scope

ScopedSpec == ScopedInit /\ [][ScopedNext]_<<vars, scope>>

LiveInit ==
  /\ Init
  /\ scope \in {Live({CHOOSE c \in Client : TRUE}, Key, MaxKills),
                Live(Client, {CHOOSE k \in Key : TRUE}, 0)}

LiveSpec == LiveInit /\ [][ScopedNext]_<<vars, scope>> /\ Fairness

Symmetry == Permutations(Client) \cup Permutations(Key) \cup Permutations(Path)
=============================================================================
