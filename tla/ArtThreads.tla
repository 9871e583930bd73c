----------------------------- MODULE ArtThreads -----------------------------
(* The threads of one process of the runtime, which the modules on its     *)
(* synchronization share.                                                  *)
EXTENDS Integers, FiniteSets

CONSTANTS Thread, Nobody

ASSUME ThreadAssumption == Nobody \notin Thread /\ IsFiniteSet(Thread)
=============================================================================
