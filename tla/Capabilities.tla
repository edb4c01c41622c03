---------------------------- MODULE Capabilities -----------------------------
(***************************************************************************)
(* The capability runtime of NvidiaCollector: profile rules resolved for   *)
(* the hardware identity, the cache of calls NVML answered NotSupported,   *)
(* and the collection that consults both before each clock query.          *)
(*                                                                         *)
(* The hardware may change at any time and each NVML read of it may fail   *)
(* in part.  Collection and reload run on the agent's main task, so they   *)
(* do not interleave with each other.                                      *)
(***************************************************************************)
EXTENDS CapabilityProfiles

CONSTANTS
  Gpus,           \* [product, pci] of the GPUs there can be
  Drivers,        \* driver versions
  NoDriver,       \* the version could not be read
  Directories     \* contents the profile directory may have when loaded

ASSUME HardwareAssumption == NoDriver \notin Drivers

\* Entries are in file order, each with one of the policies that parse.
ASSUME DirectoriesAssumption ==
  \A dir \in Directories :
    /\ dir.entries \in Seq({dir.entries[i] : i \in DOMAIN dir.entries})
    /\ \A i \in DOMAIN dir.entries : dir.entries[i].policy \in CapabilityPolicies

VARIABLES
  installed,      \* the GPUs that are present
  driver,
  identity,       \* CapabilityRuntime.identity
  rules,          \* CapabilityRuntime.resolved
  unsupported,    \* CapabilityRuntime.automatic_unsupported
  pending,        \* <<gpu, key>> the running collection has not come to
  \* history
  loadedFrom,     \* directory of the last load
  loadedFor,      \* and the identity it was resolved for
  lastRead,       \* identity read by the last collection or load
  answered        \* keys answered NotSupported since it was first read

hardwareVars == <<installed, driver>>
runtimeVars == <<identity, rules, unsupported>>
loadVars == <<loadedFrom, loadedFor>>
answerVars == <<lastRead, answered>>
vars == <<hardwareVars, runtimeVars, pending, loadVars, answerVars>>

Identities ==
  [products : SUBSET {g.product : g \in Gpus},
   pcis : SUBSET {g.pci : g \in Gpus},
   driver : Drivers \union {NoDriver}]

TypeOK ==
  /\ installed \in SUBSET Gpus
  /\ driver \in Drivers
  /\ identity \in Identities
  /\ rules \in [CapabilityKeys -> CapabilityPolicies]
  /\ unsupported \in SUBSET CapabilityKeys
  /\ pending \in SUBSET (Gpus \X CapabilityKeys)
  /\ loadedFrom \in Directories /\ loadedFrom.valid
  /\ loadedFor \in Identities
  /\ lastRead \in Identities
  /\ answered \in SUBSET CapabilityKeys

Reading(named, located, version) ==
  [products |-> {g.product : g \in named},
   pcis |-> {g.pci : g \in located},
   driver |-> version]

\* hardware_identity: the name, the PCI id of each GPU and the driver version
\* are read one by one, and what cannot be read is left out.
Readings ==
  {Reading(named, located, version) :
      named \in SUBSET installed, located \in SUBSET installed,
      version \in {driver, NoDriver}}

-----------------------------------------------------------------------------

Init ==
  /\ installed \in SUBSET Gpus
  /\ driver \in Drivers
  /\ identity \in Readings
  /\ loadedFrom \in {dir \in Directories : ProfilesLoad(dir, identity)}
  /\ loadedFor = identity
  /\ rules = Resolved(loadedFrom, identity)
  /\ unsupported = {}
  /\ pending = {}
  /\ lastRead = identity
  /\ answered = {}

HardwareChanges(gpus, version) ==
  /\ <<gpus, version>> # hardwareVars
  /\ installed' = gpus
  /\ driver' = version
  /\ UNCHANGED <<runtimeVars, pending, loadVars, answerVars>>

\* mutant of SameLifecycle: a product or PCI id change is not noticed
SameDriver(id) == id.driver = identity.driver

\* Equal lifecycle_key.
SameLifecycle(id) == id = identity

\* update_identity: a new GPU/driver lifecycle empties the cache; the rules
\* stay those of the identity they were resolved for.
UpdateIdentity(id) ==
  IF SameLifecycle(id)
    THEN UNCHANGED <<identity, unsupported>>
    ELSE identity' = id /\ unsupported' = {}

\* collect begins: update the identity, then go through the devices NVML
\* counts and opens (none when device_count fails).
StartCollection(id, opened) ==
  /\ pending = {}
  /\ UpdateIdentity(id)
  /\ pending' = opened \X CapabilityKeys
  /\ lastRead' = id
  /\ answered' = IF id = lastRead THEN answered ELSE {}
  /\ UNCHANGED <<hardwareVars, rules, loadVars>>

ShouldQuery(k) ==
  \/ rules[k] = "enabled"
  \/ rules[k] = "auto" /\ k \notin unsupported

\* The clock loop of collect, when the capability must not be queried.
SkipQuery(g, k) ==
  /\ <<g, k>> \in pending
  /\ ~ShouldQuery(k)
  /\ pending' = pending \ {<<g, k>>}
  /\ UNCHANGED <<hardwareVars, runtimeVars, loadVars, answerVars>>

\* mutant of ObserveUnsupported: explicit rules are cached too
ObserveAnyPolicy(k) == unsupported' = unsupported \union {k}

\* observe_definitive_unsupported.
ObserveUnsupported(k) ==
  unsupported' = IF rules[k] = "auto" THEN unsupported \union {k}
                                      ELSE unsupported

\* NVML definitively answers NotSupported ...
QueryNotSupported(g, k) ==
  /\ <<g, k>> \in pending
  /\ ShouldQuery(k)
  /\ ObserveUnsupported(k)
  /\ answered' = answered \union {k}
  /\ pending' = pending \ {<<g, k>>}
  /\ UNCHANGED <<hardwareVars, identity, rules, loadVars, lastRead>>

\* ... or returns a value or any other error, which leave no trace.
QueryOther(g, k) ==
  /\ <<g, k>> \in pending
  /\ ShouldQuery(k)
  /\ pending' = pending \ {<<g, k>>}
  /\ UNCHANGED <<hardwareVars, runtimeVars, loadVars, answerVars>>

\* reload_capabilities with a directory that loads for the identity as read
\* now.
Reload(dir, id) ==
  /\ pending = {}
  /\ ProfilesLoad(dir, id)
  /\ identity' = id
  /\ rules' = Resolved(dir, id)
  /\ unsupported' = {}
  /\ loadedFrom' = dir
  /\ loadedFor' = id
  /\ lastRead' = id
  /\ answered' = {}
  /\ UNCHANGED <<hardwareVars, pending>>

\* With one that does not, everything stays, the identity included.
ReloadFails(dir, id) ==
  /\ pending = {}
  /\ ~ProfilesLoad(dir, id)
  /\ UNCHANGED vars

Next ==
  \/ \E gpus \in SUBSET Gpus, version \in Drivers : HardwareChanges(gpus, version)
  \/ \E id \in Readings, opened \in SUBSET installed : StartCollection(id, opened)
  \/ \E g \in Gpus, k \in CapabilityKeys : SkipQuery(g, k)
  \/ \E g \in Gpus, k \in CapabilityKeys : QueryNotSupported(g, k)
  \/ \E g \in Gpus, k \in CapabilityKeys : QueryOther(g, k)
  \/ \E dir \in Directories, id \in Readings : Reload(dir, id)
  \/ \E dir \in Directories, id \in Readings : ReloadFails(dir, id)

Spec == Init /\ [][Next]_vars

-----------------------------------------------------------------------------
(* Properties *)

(***************************************************************************)
(* "The most-specific selector wins" and file order is never a precedence: *)
(* each active rule is that of the only most specific matching entry, or   *)
(* the key has none.                                                       *)
(***************************************************************************)
RulesMostSpecific ==
  \A k \in CapabilityKeys :
    LET best == MostSpecific(loadedFrom.entries, loadedFor, k) IN
    /\ Cardinality(best) <= 1
    /\ \A i \in best : rules[k] = loadedFrom.entries[i].policy
    /\ best = {} => rules[k] = "auto"

(***************************************************************************)
(* The cache is that of the current GPU/driver lifecycle: a cached answer  *)
(* was given since the last load and since the identity last seen was      *)
(* first seen, whatever changes and whichever reads fail.                  *)
(***************************************************************************)
CacheOfLifecycle == unsupported \subseteq answered

(***************************************************************************)
(* The inventory lists each suppressed capability once, as disabled or as  *)
(* unsupported: an explicit rule and a cached answer never cover the same  *)
(* key, across reloads that change the rule.                               *)
(***************************************************************************)
SuppressedForOneReason == \A k \in unsupported : rules[k] = "auto"

(***************************************************************************)
(* "Equal-specificity matches are ambiguous and reject the complete reload *)
(* instead of being resolved by file order"                                *)
(* (docs/hardware-capabilities.md:9): no two entries of the active         *)
(* directory with the same key match with equal specificity.               *)
(***************************************************************************)
EqualSpecificityRejected ==
  \A k \in CapabilityKeys :
    \A i, j \in MatchesFor(loadedFrom.entries, loadedFor, k) :
      SelectorSpecificity(loadedFrom.entries[i])
        = SelectorSpecificity(loadedFrom.entries[j]) => i = j
=============================================================================
