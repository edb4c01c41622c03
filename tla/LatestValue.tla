---------------------------- MODULE LatestValue ----------------------------
(***************************************************************************)
(* What the publication of routine state promises: a consumer sees, per    *)
(* subject, a register that is only ever replaced by a later value the     *)
(* agent wrote.  Intermediate values may be skipped and the same value may *)
(* be seen again, but the view never goes back and never runs ahead.       *)
(***************************************************************************)
EXTENDS Integers

CONSTANT Keys

VARIABLES latest, view

TypeOK ==
  /\ latest \in [Keys -> Nat]
  /\ view \in [Keys -> Nat]

Init ==
  /\ latest \in [Keys -> Nat]
  /\ view = [k \in Keys |-> 0]

\* Only the register of k moves.
Only(k, f, g) == \A j \in Keys \ {k} : g[j] = f[j]

Write(k) ==
  /\ latest' \in [Keys -> Nat]
  /\ latest[k] < latest'[k]
  /\ Only(k, latest, latest')
  /\ UNCHANGED view

Observe(k) ==
  /\ view' \in [Keys -> Nat]
  /\ view[k] <= view'[k]
  /\ view'[k] <= latest[k]
  /\ Only(k, view, view')
  /\ UNCHANGED latest

Next == \E k \in Keys : Write(k) \/ Observe(k)

Spec == Init /\ [][Next]_<<latest, view>>
=============================================================================
