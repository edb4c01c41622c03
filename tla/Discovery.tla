----------------------------- MODULE Discovery ------------------------------
(***************************************************************************)
(* Timed signal discovery: the tracker classifies every complete series it *)
(* sees, and at the deadline writes a file of `disabled` rules through a   *)
(* temporary file.  The process or the machine may stop at any point, and  *)
(* a later run finds the files as it left them.                            *)
(***************************************************************************)
EXTENDS PolicyRules, SequencesExt

CONSTANTS
  Keys,          \* the complete keys of the points the collectors produce
  FailureKeys,   \* keys that only points without a reading have
  Values,        \* successful readings
  Failure,       \* an observation without one
  RefusedValues, \* attribute values that are empty or over
                 \* MAX_ATTRIBUTE_VALUE_BYTES
  Pids,          \* process ids, which the system may use again
  MaxRuns        \* bound: agent processes started

ASSUME DiscoveryAssumption ==
  /\ FailureKeys \subseteq Keys
  /\ Failure \notin Values
  /\ MaxRuns \in Nat \ {0}
  /\ "target" \notin Pids

\* A key is a metric and a finite attribute map.
ASSUME KeysAssumption ==
  \A k \in Keys :
    /\ k = [metric |-> k.metric, attributes |-> k.attributes]
    /\ k.attributes = [n \in DOMAIN k.attributes |-> k.attributes[n]]
    /\ IsFiniteSet(DOMAIN k.attributes)

(* A file is [content, rules]; rules are those of a complete one. *)
Without(content) == [content |-> content, rules |-> <<>>]
Absent == Without("absent")
Complete(rs) == [content |-> "complete", rules |-> rs]
Contents == {"absent", "empty", "partial", "complete"}

VARIABLES
  phase,        \* "observe", "open", "write", "sync", "rename" or "exited"
  pid,
  runs,
  seen,         \* keys with an entry in the tracker
  successes,    \* distinct successful values, per key
  temp,         \* temporary file of each pid
  target,       \* the output file
  unsynced      \* the files (pids or "target") whose content may be lost

vars == <<phase, pid, runs, seen, successes, temp, target, unsynced>>
trackerVars == <<seen, successes>>

-----------------------------------------------------------------------------
(* Classification and output *)

Classification(k) ==
  CASE Cardinality(successes[k]) = 0 -> "invalid"
    [] Cardinality(successes[k]) = 1 -> "valid/unchanging"
    [] OTHER -> "valid/changing"

Idle == {k \in seen : Classification(k) # "valid/changing"}

\* PolicyEntry::validate: metric, source and attribute names of a point are
\* in the catalogue, the reasons are fixed; the attribute values are free.
Validates(attributes) ==
  \A n \in DOMAIN attributes : attributes[n] \notin RefusedValues

\* The attributes are written as they are.
GeneratedPolicy(k) ==
  [metric |-> k.metric, attributes |-> k.attributes,
   policy |-> "disabled", valid |-> Validates(k.attributes)]

\* mutant of Generated: the rules leave the attributes out
GeneratedPerMetric ==
  LET ks == SetToSeq(Idle)
  IN  [i \in DOMAIN ks |-> [GeneratedPolicy(ks[i]) EXCEPT !.attributes = <<>>]]

\* mutant of Generated: invalid series are left out
GeneratedUnchanging ==
  LET ks == SetToSeq({k \in Idle : Classification(k) # "invalid"})
  IN  [i \in DOMAIN ks |-> GeneratedPolicy(ks[i])]

\* output(): one rule for each series that is not valid/changing.
Generated ==
  LET ks == SetToSeq(Idle) IN [i \in DOMAIN ks |-> GeneratedPolicy(ks[i])]

-----------------------------------------------------------------------------

TypeOK ==
  /\ phase \in {"observe", "open", "write", "sync", "rename", "exited"}
  /\ pid \in Pids
  /\ runs \in 1..MaxRuns
  /\ seen \in SUBSET Keys
  /\ successes \in [Keys -> SUBSET Values]
  /\ \A k \in Keys : successes[k] # {} => k \in seen
  /\ DOMAIN temp = Pids
  /\ \A p \in Pids : temp[p].content \in Contents
  /\ target.content \in Contents
  /\ unsynced \in SUBSET (Pids \union {"target"})

Init ==
  /\ phase = "observe"
  /\ pid \in Pids
  /\ runs = 1
  /\ seen = {}
  /\ successes = [k \in Keys |-> {}]
  /\ temp = [p \in Pids |-> Absent]
  /\ target = Absent
  /\ unsynced = {}

Counted(k, reading) == IF reading = Failure THEN successes[k]
                       ELSE successes[k] \union {reading}

\* mutant of Entered: only failures get an entry
EnteredOnFailure(k, reading) ==
  IF reading = Failure THEN seen \union {k} ELSE seen

Entered(k, reading) == seen \union {k}

\* observe() on one point.
Observe(k, reading) ==
  /\ phase = "observe"
  /\ k \in FailureKeys => reading = Failure
  /\ seen' = Entered(k, reading)
  /\ successes' = [successes EXCEPT ![k] = Counted(k, reading)]
  /\ UNCHANGED <<phase, pid, runs, temp, target, unsynced>>

\* The deadline has passed at the end of a tick: write_policy begins.
Deadline ==
  /\ phase = "observe"
  /\ phase' = "open"
  /\ UNCHANGED <<pid, runs, trackerVars, temp, target, unsynced>>

\* create_new fails on a temporary file left by an earlier process with the
\* same id: main returns the error.
OpenFails ==
  /\ phase = "open"
  /\ temp[pid] # Absent
  /\ phase' = "exited"
  /\ UNCHANGED <<pid, runs, trackerVars, temp, target, unsynced>>

Open ==
  /\ phase = "open"
  /\ temp[pid] = Absent
  /\ temp' = [temp EXCEPT ![pid] = Without("empty")]
  /\ unsynced' = unsynced \union {pid}
  /\ phase' = "write"
  /\ UNCHANGED <<pid, runs, trackerVars, target>>

\* write_all may be cut short between two of its writes.
WriteSome ==
  /\ phase = "write"
  /\ temp[pid].content = "empty"
  /\ temp' = [temp EXCEPT ![pid] = Without("partial")]
  /\ UNCHANGED <<phase, pid, runs, trackerVars, target, unsynced>>

AfterWriteUnsynced == "rename"    \* mutant of AfterWrite: no sync_all
AfterWrite == "sync"

WriteAll ==
  /\ phase = "write"
  /\ temp' = [temp EXCEPT ![pid] = Complete(Generated)]
  /\ phase' = AfterWrite
  /\ UNCHANGED <<pid, runs, trackerVars, target, unsynced>>

SyncAll ==
  /\ phase = "sync"
  /\ unsynced' = unsynced \ {pid}
  /\ phase' = "rename"
  /\ UNCHANGED <<pid, runs, trackerVars, temp, target>>

Rename ==
  /\ phase = "rename"
  /\ target' = temp[pid]
  /\ temp' = [temp EXCEPT ![pid] = Absent]
  /\ unsynced' = IF pid \in unsynced
                   THEN (unsynced \ {pid}) \union {"target"}
                   ELSE unsynced \ {"target"}
  /\ phase' = "exited"
  /\ UNCHANGED <<pid, runs, trackerVars>>

\* The process is killed: files stay as they are.
Kill ==
  /\ phase # "exited"
  /\ phase' = "exited"
  /\ UNCHANGED <<pid, runs, trackerVars, temp, target, unsynced>>

\* The machine stops: a file that was not synced may come back incomplete.
PowerLoss ==
  /\ phase' = "exited"
  /\ \E cut \in SUBSET unsynced, left \in {Without("empty"), Without("partial")} :
       /\ temp' = [p \in Pids |-> IF p \in cut THEN left ELSE temp[p]]
       /\ target' = IF "target" \in cut THEN left ELSE target
  /\ unsynced' = {}
  /\ UNCHANGED <<pid, runs, trackerVars>>

\* Another discovery run, in a process whose id may have been used before.
Restart(p) ==
  /\ phase = "exited"
  /\ runs < MaxRuns
  /\ runs' = runs + 1
  /\ pid' = p
  /\ phase' = "observe"
  /\ seen' = {}
  /\ successes' = [k \in Keys |-> {}]
  /\ UNCHANGED <<temp, target, unsynced>>

Next ==
  \/ \E k \in Keys, r \in Values \union {Failure} : Observe(k, r)
  \/ Deadline
  \/ OpenFails
  \/ Open
  \/ WriteSome
  \/ WriteAll
  \/ SyncAll
  \/ Rename
  \/ Kill
  \/ PowerLoss
  \/ \E p \in Pids : Restart(p)

Spec == Init /\ [][Next]_vars

-----------------------------------------------------------------------------
(* Properties *)

(***************************************************************************)
(* "The output is written atomically": whatever stops the run, the output  *)
(* file is missing or holds the complete policy of some run.               *)
(***************************************************************************)
TargetComplete == target.content \in {"absent", "complete"}

(***************************************************************************)
(* "... and is directly loadable as a signal-policy file", but for an      *)
(* attribute value the loader refuses and the generator does not: without  *)
(* one an installed file loads, as its rules never collide, for the        *)
(* attribute names the collectors use (DiscoveryProofs states what that    *)
(* takes).                                                                 *)
(***************************************************************************)
TargetLoads ==
  /\ target.content = "complete"
  /\ \A i \in DOMAIN target.rules : Validates(target.rules[i].attributes)
  => Loads(target.rules)

(***************************************************************************)
(* What the written file does to the series of its run, if it loads: it    *)
(* disables those under an idle series of the same metric, whose           *)
(* attributes they extend, and leaves every other one enabled.             *)
(***************************************************************************)
FileDecides ==
  phase = "rename" /\ Loads(temp[pid].rules)
    => \A k \in seen :
         PolicyFor(temp[pid].rules, k)
           = IF \E i \in Idle : Matches(GeneratedPolicy(i), k)
               THEN "disabled" ELSE "enabled"

(***************************************************************************)
(* "valid/changing: at least two distinct successful values; omitted from  *)
(* the generated file" (docs/signal-policies.md:38), so that loading it    *)
(* keeps the series.                                                       *)
(***************************************************************************)
ChangingStaysEnabled ==
  phase = "rename" /\ Loads(temp[pid].rules)
    => \A k \in seen : Classification(k) = "valid/changing"
                         => PolicyFor(temp[pid].rules, k) = "enabled"
=============================================================================
