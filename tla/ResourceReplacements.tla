------------------------ MODULE ResourceReplacements ------------------------
(***************************************************************************)
(* XResources: the replacements modules set for resource ids, by resource  *)
(* directory or for the framework, and the bit caches that spare a look-up *)
(* to ids without one.  The caches and the map have locks of their own, so *)
(* setReplacement is two steps; isFirstLoad drops what was set for a       *)
(* directory whose file has changed.                                       *)
(***************************************************************************)
EXTENDS Integers

CONSTANTS Dir, Framework,  \* resource directories, and null for the framework
          SysId, AppId,    \* ids below 0x7f000000, and the others
          Bit,             \* Bit[id]: cacheKey and id & 7, which ids may share
          Setter,          \* threads
          MaxSets, MaxMods \* bounds: calls of setReplacement, changes of files

ASSUME ResourceAssumption == Framework \notin Dir /\ SysId \cap AppId = {}

Ids == SysId \cup AppId
Owner == Dir \cup {Framework}
Nothing == 0

VARIABLES
  sReplacements, \* sReplacements[id][dir]: 1 + the generation in which it was set
  bitCache,      \* mReplacementsCache of a directory, sSystemReplacementsCache
  modified, sResDirLastModified,
  generation,    \* ghost: how often the replacements of the directory were dropped
  setter,        \* setter[t]: the setReplacement between its two steps
  raced,         \* ghost: the directories whose drop came between two such steps
  sets

resourceVars == <<sReplacements, bitCache, modified, sResDirLastModified, generation, setter, raced, sets>>

NotSetting == [id |-> Nothing, dir |-> Framework, gen |-> 0]
Setting(t) == setter[t] # NotSetting

ResourceInit ==
  /\ sReplacements = [id \in Ids |-> [d \in Owner |-> Nothing]] /\ bitCache = [d \in Owner |-> {}]
  /\ modified = [d \in Dir |-> 1] /\ sResDirLastModified = [d \in Dir |-> 0]
  /\ generation = [d \in Owner |-> 0]
  /\ setter = [t \in Setter |-> NotSetting] /\ raced = {} /\ sets = 0

CacheOf(id, d) == IF id \in SysId THEN Framework ELSE d

\* Mutant: the bit of a system id set for a directory goes to the directory.
CacheForDir(t, id, d) ==
  /\ ~Setting(t) /\ sets < MaxSets /\ (d = Framework => id \in SysId)
  /\ bitCache' = [bitCache EXCEPT ![d] = @ \cup {Bit[id]}]
  /\ setter' = [setter EXCEPT ![t] = [id |-> id, dir |-> d, gen |-> generation[d] + 1]]
  /\ sets' = sets + 1
  /\ UNCHANGED <<sReplacements, modified, sResDirLastModified, generation, raced>>

(* setReplacement: the bit, then the entry.  An id of an application cannot *)
(* be set for the framework.                                               *)
CacheReplacement(t, id, d) ==
  /\ ~Setting(t) /\ sets < MaxSets /\ (d = Framework => id \in SysId)
  /\ bitCache' = [bitCache EXCEPT ![CacheOf(id, d)] = @ \cup {Bit[id]}]
  /\ setter' = [setter EXCEPT ![t] = [id |-> id, dir |-> d, gen |-> generation[d] + 1]]
  /\ sets' = sets + 1
  /\ UNCHANGED <<sReplacements, modified, sResDirLastModified, generation, raced>>

PutReplacement(t) ==
  LET s == setter[t] IN
  /\ Setting(t)
  /\ sReplacements' = [sReplacements EXCEPT ![s.id][s.dir] = s.gen]
  /\ setter' = [setter EXCEPT ![t] = NotSetting]
  /\ UNCHANGED <<bitCache, modified, sResDirLastModified, generation, raced, sets>>

Dropped(d) == [id \in Ids |-> [sReplacements[id] EXCEPT ![d] = Nothing]]

IsFirstLoad(d) ==
  LET changed == sResDirLastModified[d] # 0 IN
  /\ modified[d] # sResDirLastModified[d]
  /\ sResDirLastModified' = [sResDirLastModified EXCEPT ![d] = modified[d]]
  /\ IF changed
     THEN /\ sReplacements' = Dropped(d)
          /\ bitCache' = [bitCache EXCEPT ![d] = {}]
          /\ generation' = [generation EXCEPT ![d] = @ + 1]
          /\ raced' = raced \cup {e \in {d} : \E t \in Setter : Setting(t) /\ setter[t].dir = e}
     ELSE UNCHANGED <<sReplacements, bitCache, generation, raced>>
  /\ UNCHANGED <<modified, setter, sets>>

ResourcesUpdated(d) ==
  /\ modified[d] <= MaxMods /\ modified' = [modified EXCEPT ![d] = @ + 1]
  /\ UNCHANGED <<sReplacements, bitCache, sResDirLastModified, generation, setter, raced, sets>>

(* getReplacement in the resources of d                                    *)
GetReplacement(id, d) ==
  IF Bit[id] \notin bitCache[CacheOf(id, d)] THEN Nothing
  ELSE IF sReplacements[id][d] # Nothing THEN sReplacements[id][d]
  ELSE sReplacements[id][Framework]

ResourceNext ==
  \/ \E t \in Setter : PutReplacement(t) \/ \E id \in Ids, d \in Owner : CacheReplacement(t, id, d)
  \/ \E d \in Dir : IsFirstLoad(d) \/ ResourcesUpdated(d)

ResourceSpec == ResourceInit /\ [][ResourceNext]_resourceVars

-----------------------------------------------------------------------------
(* Every variable has its type; no id of an application has an entry for   *)
(* the framework.                                                          *)
ResourceTypeOK ==
  /\ sReplacements \in [Ids -> [Owner -> Nat]] /\ (\A id \in AppId : sReplacements[id][Framework] = Nothing)
  /\ bitCache \in [Owner -> SUBSET {Bit[id] : id \in Ids}]
  /\ modified \in [Dir -> Nat] /\ sResDirLastModified \in [Dir -> Nat]
  /\ setter \in [Setter -> [id : Ids \cup {Nothing}, dir : Owner, gen : Nat]] /\ raced \subseteq Dir

(* The caches have false positives but no false negatives: a replacement   *)
(* that is set is found, and the framework's where the directory has none, *)
(* although ids share bits and caches are cleared.  "file was changed      *)
(* meanwhile => remove old replacements": what stands was set after the    *)
(* last change that was noticed.  Except after a change of the file was    *)
(* noticed between the two steps of a setReplacement.                      *)
SetIsFound ==
  \A id \in Ids, d \in Owner : d \notin raced =>
    LET own == sReplacements[id][d]
        fallback == IF CacheOf(id, d) = Framework THEN sReplacements[id][Framework] ELSE Nothing
    IN /\ GetReplacement(id, d) = IF own # Nothing THEN own ELSE fallback
       /\ d \in Dir /\ own # Nothing => own = generation[d] + 1
=============================================================================
