-------------------------- MODULE PreferencesReader --------------------------
(***************************************************************************)
(* BridgeSharedPreferences: a preferences file of another application is   *)
(* read by loader threads under the monitor of the object, while readers   *)
(* wait, and is written by its owner, who takes no lock.  The content of   *)
(* the file is its version; its modification time and length are one       *)
(* stamp, which every write changes and chmod() does not.                  *)
(***************************************************************************)
EXTENDS Integers

CONSTANTS Reader,
          MaxReads,     \* bound: getters and reloads called by each reader
          MaxChanges    \* bound: changes of the file

NoVersion == 0          \* the empty map

VARIABLES
  version, readable, good,  \* of the file; good: it can be parsed
  mLoaded, mMap, mStamp,
  loaders,  \* loader threads that have not entered the monitor yet
  loading,  \* the one inside: "no", "stamp" before and "content" after the stamp is read
  newStamp, \* what it read
  reader,   \* reader[r]: "idle", "waiting" in wait(), "woken"
  reads, changes

prefsFile == <<version, readable, good>>
prefsVars == <<prefsFile, mLoaded, mMap, mStamp, loaders, loading, newStamp, reader, reads, changes>>

(* The constructor has started the first loader.                           *)
PrefsInit ==
  /\ version = 1 /\ readable \in BOOLEAN /\ good = TRUE
  /\ mLoaded = FALSE /\ mMap = NoVersion /\ mStamp = 0
  /\ loaders = 1 /\ loading = "no" /\ newStamp = 0
  /\ reader = [r \in Reader |-> "idle"] /\ reads = [r \in Reader |-> 0] /\ changes = 0

MonitorFree == loading = "no"

HasFileChanged == ~readable \/ mStamp # version

Reload(r) ==
  /\ reader[r] = "idle" /\ reads[r] < MaxReads /\ MonitorFree
  /\ IF HasFileChanged THEN mLoaded' = FALSE /\ loaders' = loaders + 1
                       ELSE UNCHANGED <<mLoaded, loaders>>
  /\ reads' = [reads EXCEPT ![r] = @ + 1]
  /\ UNCHANGED <<prefsFile, mMap, mStamp, loading, newStamp, reader, changes>>

(* A getter, and its loop around wait()                                    *)
Get(r) ==
  /\ reader[r] = "idle" /\ reads[r] < MaxReads /\ MonitorFree
  /\ reader' = [reader EXCEPT ![r] = IF mLoaded THEN "idle" ELSE "waiting"]
  /\ reads' = [reads EXCEPT ![r] = @ + 1]
  /\ UNCHANGED <<prefsFile, mLoaded, mMap, mStamp, loaders, loading, newStamp, changes>>

AwaitLoaded(r) ==
  /\ reader[r] = "woken" /\ MonitorFree
  /\ reader' = [reader EXCEPT ![r] = IF mLoaded THEN "idle" ELSE "waiting"]
  /\ UNCHANGED <<prefsFile, mLoaded, mMap, mStamp, loaders, loading, newStamp, reads, changes>>

(* loadFromDiskLocked                                                      *)
LoadBegins ==
  /\ loaders > 0 /\ MonitorFree
  /\ loaders' = loaders - 1 /\ loading' = IF mLoaded THEN "no" ELSE "stamp"
  /\ UNCHANGED <<prefsFile, mLoaded, mMap, mStamp, newStamp, reader, reads, changes>>

Loaded(map, stamp) ==
  /\ loading' = "no" /\ mLoaded' = TRUE /\ mMap' = map /\ mStamp' = stamp /\ newStamp' = 0
  /\ reader' = [r \in Reader |-> IF reader[r] = "waiting" THEN "woken" ELSE reader[r]]
  /\ UNCHANGED <<prefsFile, loaders, reads, changes>>

CannotRead == loading = "stamp" /\ ~readable /\ Loaded(NoVersion, mStamp)

ReadStamp ==
  /\ loading = "stamp" /\ readable
  /\ loading' = "content" /\ newStamp' = version
  /\ UNCHANGED <<prefsFile, mLoaded, mMap, mStamp, loaders, reader, reads, changes>>

\* Mutant: the old settings stay, with the new stamp, when the file cannot be read.
ReadKeeps ==
  /\ loading = "content"
  /\ IF readable /\ good THEN Loaded(version, newStamp) ELSE Loaded(mMap, newStamp)

ReadContent ==
  /\ loading = "content"
  /\ IF readable /\ good THEN Loaded(version, newStamp)
                                     ELSE Loaded(NoVersion, mStamp)

(* The owner of the file, external                                         *)
FileWritten(b) ==
  /\ changes < MaxChanges /\ changes' = changes + 1
  /\ version' = version + 1 /\ good' = b /\ UNCHANGED readable
  /\ UNCHANGED <<mLoaded, mMap, mStamp, loaders, loading, newStamp, reader, reads>>

ReadableSet(b) ==
  /\ changes < MaxChanges /\ readable # b /\ changes' = changes + 1
  /\ readable' = b /\ UNCHANGED <<version, good>>
  /\ UNCHANGED <<mLoaded, mMap, mStamp, loaders, loading, newStamp, reader, reads>>

LoaderStep == LoadBegins \/ CannotRead \/ ReadStamp \/ ReadContent

PrefsNext ==
  \/ LoaderStep
  \/ \E r \in Reader : Reload(r) \/ Get(r) \/ AwaitLoaded(r)
  \/ \E b \in BOOLEAN : FileWritten(b) \/ ReadableSet(b)

(* The loader threads and the woken readers get their turns.               *)
PrefsFairness == WF_prefsVars(LoaderStep) /\ \A r \in Reader : WF_prefsVars(AwaitLoaded(r))

PrefsSpec == PrefsInit /\ [][PrefsNext]_prefsVars /\ PrefsFairness

-----------------------------------------------------------------------------
(* Every variable has its type.                                           *)
PrefsTypeOK ==
  /\ version \in Nat /\ readable \in BOOLEAN /\ good \in BOOLEAN
  /\ mLoaded \in BOOLEAN /\ mMap \in Nat /\ mStamp \in Nat /\ loaders \in Nat
  /\ loading \in {"no", "stamp", "content"}
  /\ reader \in [Reader -> {"idle", "waiting", "woken"}]

(* Settings that are not loaded are being loaded, so nobody waits for a    *)
(* loader that has come and gone, whatever reloads come in between.        *)
LoaderPending ==
  /\ ~mLoaded => loaders > 0 \/ loading # "no"
  /\ (\E r \in Reader : reader[r] = "waiting") => ~mLoaded

(* The stamp is read before the content: settings that were read from a    *)
(* file with the stamp the file has now are the settings in the file, so   *)
(* that reload() is right to keep them, although the owner writes while    *)
(* the loader reads.                                                       *)
StampCoversMap ==
  mLoaded /\ mMap # NoVersion /\ ~HasFileChanged /\ good => mMap = version

(* "Reload the settings from file if they have changed": settings that are *)
(* loaded and that reload() keeps are the settings in the file.            *)
ReloadSees ==
  mLoaded /\ ~HasFileChanged /\ good => mMap = version

(* A getter returns.                                                       *)
GetReturns == \A r \in Reader : reader[r] = "waiting" ~> reader[r] = "idle"
=============================================================================
