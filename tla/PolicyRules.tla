---------------------------- MODULE PolicyRules -----------------------------
(***************************************************************************)
(* Signal-policy rules: what a selector matches, which rule files load,    *)
(* and which rule decides a point.  An attribute map is a function from a  *)
(* set of attribute names to values; a metric stands for the pair of a     *)
(* source and a metric name, which the code only compares together.        *)
(***************************************************************************)
EXTENDS Integers, Sequences, FiniteSets

Policies == {"enabled", "disabled", "state-change", "availability-change"}

(* A rule is [metric, attributes, policy, valid]; `valid` is the outcome of *)
(* PolicyEntry::validate.  A key is [metric, attributes].                  *)

\* Every pair of the selector a is in the map b.
Covers(a, b) == \A k \in DOMAIN a : k \in DOMAIN b /\ b[k] = a[k]

Matches(r, key) == r.metric = key.metric /\ Covers(r.attributes, key.attributes)

Specificity(r) == Cardinality(DOMAIN r.attributes)

\* mutant of CanOverlap: only selectors on the same names are compared
SameNamesOverlap(r, s) ==
  /\ r.metric = s.metric
  /\ DOMAIN r.attributes = DOMAIN s.attributes
  /\ Covers(r.attributes, s.attributes)

\* Two selectors of equal specificity overlap unless they disagree on a name.
CanOverlap(r, s) ==
  /\ r.metric = s.metric
  /\ Specificity(r) = Specificity(s)
  /\ \A k \in DOMAIN r.attributes \cap DOMAIN s.attributes :
        r.attributes[k] = s.attributes[k]

\* load_policy_directory goes through the entries in file order and stops at
\* the first that is invalid or overlaps an earlier one.
Loads(rs) ==
  \A i \in DOMAIN rs : /\ rs[i].valid
                       /\ \A j \in DOMAIN rs : j < i => ~CanOverlap(rs[j], rs[i])

\* The most specific rules that match a key.
Deciding(rs, key) ==
  {i \in DOMAIN rs :
     /\ Matches(rs[i], key)
     /\ \A j \in DOMAIN rs :
          Matches(rs[j], key) => Specificity(rs[j]) <= Specificity(rs[i])}

\* policy_for: max_by_key takes the last of the most specific rules.
PolicyFor(rs, key) ==
  LET D == Deciding(rs, key)
  IN  IF D = {} THEN "enabled"
      ELSE rs[CHOOSE i \in D : \A j \in D : j <= i].policy
=============================================================================
