------------------------- MODULE CapabilityProfiles -------------------------
(***************************************************************************)
(* Hardware capability profiles: which profiles select a hardware          *)
(* identity, and the rule each capability key gets from a directory.       *)
(*                                                                         *)
(* An identity is [products, pcis, driver].  A directory is                *)
(* [valid, entries]: `valid` is the outcome of the checks that look at one *)
(* profile alone, `entries` its capabilities in file order, each with its  *)
(* profile's selector: [product, pci, key, policy].                        *)
(***************************************************************************)
EXTENDS Integers, Sequences, FiniteSets

CONSTANTS
  CapabilityKeys,
  Any             \* a selector field that is not configured

CapabilityPolicies == {"auto", "enabled", "disabled"}

\* HardwareSelector::matches.  The two fields may be met by different GPUs.
Selects(e, id) ==
  /\ e.product = Any \/ e.product \in id.products
  /\ e.pci = Any \/ e.pci \in id.pcis

SelectorSpecificity(e) == Cardinality({f \in {"product", "pci"} : e[f] # Any})

\* A key without a rule behaves as under `auto`; valid selectors have a
\* specificity of at least 1.
NoRule == [specificity |-> 0, policy |-> "auto"]

\* mutant of Replaces: the last matching profile wins
AlwaysReplaces(e, rule) == TRUE

Replaces(e, rule) == rule.specificity < SelectorSpecificity(e)

\* load_directory: what is selected after each prefix of the entries.
Selection(es, id) ==
  LET after[i \in 0..Len(es)] ==
        IF i = 0 THEN [k \in CapabilityKeys |-> NoRule]
        ELSE LET e == es[i]  before == after[i - 1] IN
             IF Selects(e, id) /\ Replaces(e, before[e.key])
               THEN [before EXCEPT ![e.key] =
                       [specificity |-> SelectorSpecificity(e),
                        policy |-> e.policy]]
               ELSE before
  IN  after

\* An entry is ambiguous when what is selected so far is equally specific.
Ambiguous(es, id, i) ==
  /\ Selects(es[i], id)
  /\ Selection(es, id)[i - 1][es[i].key].specificity
       = SelectorSpecificity(es[i])

\* mutant of ProfilesLoad: profiles are not validated
LoadUnvalidated(dir, id) ==
  \A i \in DOMAIN dir.entries : ~Ambiguous(dir.entries, id, i)

ProfilesLoad(dir, id) ==
  /\ dir.valid
  /\ \A i \in DOMAIN dir.entries : ~Ambiguous(dir.entries, id, i)

Resolved(dir, id) ==
  [k \in CapabilityKeys |-> Selection(dir.entries, id)[Len(dir.entries)][k].policy]

(* What the selection is meant to be. *)

MatchesFor(es, id, k) == {i \in DOMAIN es : es[i].key = k /\ Selects(es[i], id)}

MostSpecific(es, id, k) ==
  {i \in MatchesFor(es, id, k) :
     \A j \in MatchesFor(es, id, k) :
        SelectorSpecificity(es[j]) <= SelectorSpecificity(es[i])}
=============================================================================
