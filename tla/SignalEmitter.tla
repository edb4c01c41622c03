--------------------------- MODULE SignalEmitter ----------------------------
(***************************************************************************)
(* The emission filter of spark-agent: each collected point passes         *)
(* should_emit before it is put into a metric batch, and SIGHUP replaces   *)
(* the emitter by a new one with empty memory, or leaves it alone.         *)
(***************************************************************************)
EXTENDS PolicyRules, Schema

CONSTANTS
  Keys,         \* the complete keys of the points the collectors produce
  Values,       \* readings
  Tags,         \* quality and error code, compared together
  Observations, \* the observations the collectors make
  RuleFiles     \* the contents signal_policies_dir may have when loaded

ASSUME NoValueAssumption == NoValue \notin Values

ASSUME RuleFilesAssumption ==
  \A rs \in RuleFiles :
    /\ DOMAIN rs \subseteq Nat
    /\ \A i \in DOMAIN rs : /\ IsFiniteSet(DOMAIN rs[i].attributes)
                            /\ rs[i].policy \in Policies

ASSUME ObservationsAssumption ==
  Observations \subseteq [value : Values \union {NoValue}, tag : Tags]

None == [value |-> NoValue, tag |-> "none"]
ASSUME NoneAssumption == "none" \notin Tags

VARIABLES
  rules,         \* SignalPolicySet.rules
  states,        \* memory of state-change rules: key -> observation, or None
  availability,  \* memory of availability-change rules, a set of booleans
  \* history, since the rules were loaded
  observed,      \* last observation collected, per key
  emitted        \* last observation emitted, per key

emitterVars == <<rules, states, availability, observed, emitted>>

EmitterType ==
  /\ rules \in RuleFiles /\ Loads(rules)
  /\ states \in [Keys -> Observations \union {None}]
  /\ availability \in [Keys -> SUBSET BOOLEAN]
  /\ observed \in [Keys -> Observations \union {None}]
  /\ emitted \in [Keys -> Observations \union {None}]

\* mutant of Fresh: the new emitter starts with the memory of the old one
KeptMemory ==
  /\ UNCHANGED <<states, availability>>
  /\ observed' = [k \in Keys |-> None]
  /\ emitted' = [k \in Keys |-> None]

\* SignalEmitter::load: nothing is remembered.
Fresh ==
  /\ states' = [k \in Keys |-> None]
  /\ availability' = [k \in Keys |-> {}]
  /\ observed' = [k \in Keys |-> None]
  /\ emitted' = [k \in Keys |-> None]

EmitterInit ==
  /\ rules \in {rs \in RuleFiles : Loads(rs)}
  /\ states = [k \in Keys |-> None]
  /\ availability = [k \in Keys |-> {}]
  /\ observed = [k \in Keys |-> None]
  /\ emitted = [k \in Keys |-> None]

\* ObservationState: value, quality and error code.
Changed(k, o) == states[k] # o

Available(o) == o.value # NoValue

\* Available points pass; an unavailable one passes unless the previous one
\* was unavailable too.
Reportable(k, o) == Available(o) \/ availability[k] # {FALSE}

\* should_emit, and the point's way into the batch when it holds.
ShouldEmit(k, o) ==
  CASE PolicyFor(rules, k) = "enabled" -> TRUE
    [] PolicyFor(rules, k) = "disabled" -> FALSE
    [] PolicyFor(rules, k) = "state-change" -> Changed(k, o)
    [] PolicyFor(rules, k) = "availability-change" -> Reportable(k, o)

Remember(k, o) ==
  /\ states' = IF PolicyFor(rules, k) = "state-change"
                 THEN [states EXCEPT ![k] = o] ELSE states
  /\ availability' = IF PolicyFor(rules, k) = "availability-change"
                       THEN [availability EXCEPT ![k] = {Available(o)}]
                       ELSE availability

\* SignalEmitter::filter on one point.
Filter(k, o) ==
  /\ Remember(k, o)
  /\ observed' = [observed EXCEPT ![k] = o]
  /\ emitted' = IF ShouldEmit(k, o) THEN [emitted EXCEPT ![k] = o] ELSE emitted
  /\ UNCHANGED rules

\* mutant of Reload: rules are installed as they are read
ReloadUnchecked(rs) == rules' = rs /\ Fresh

\* SIGHUP: a directory that loads replaces the emitter; one that does not
\* leaves the previous rules and their memory in place.
Reload(rs) ==
  \/ /\ Loads(rs)
     /\ rules' = rs
     /\ Fresh
  \/ /\ ~Loads(rs)
     /\ UNCHANGED emitterVars

EmitterNext ==
  \/ \E k \in Keys, o \in Observations : Filter(k, o)
  \/ \E rs \in RuleFiles : Reload(rs)

EmitterSpec == EmitterInit /\ [][EmitterNext]_emitterVars

-----------------------------------------------------------------------------
(* Properties *)

(***************************************************************************)
(* What is emitted is enough to know what was collected: under every       *)
(* policy but `disabled` a consumer that keeps the last emitted point of a *)
(* series knows the latest observation, except that under                  *)
(* availability-change it may know an earlier unavailable one.             *)
(***************************************************************************)
ConsumerInSync ==
  \A k \in Keys :
    observed[k] # None =>
      CASE PolicyFor(rules, k) = "disabled" -> emitted[k] = None
        [] PolicyFor(rules, k) = "availability-change" ->
             \/ emitted[k] = observed[k]
             \/ /\ emitted[k] # None
                /\ ~Available(emitted[k])
                /\ ~Available(observed[k])
        [] OTHER -> emitted[k] = observed[k]

(***************************************************************************)
(* Rules that load never leave the outcome to file order: at most one of   *)
(* the most specific rules matches a point, in any loaded set.             *)
(***************************************************************************)
OneRuleDecides ==
  \A k \in Keys : Cardinality(Deciding(rules, k)) <= 1
=============================================================================
