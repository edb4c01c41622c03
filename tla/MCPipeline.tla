----------------------------- MODULE MCPipeline -----------------------------
(***************************************************************************)
(* A condition of three levels, a service, and a capability; short queues. *)
(* A bridge that is started for either target, right or wrong, and a fit   *)
(* credential file next to unfit ones.                                     *)
(***************************************************************************)
EXTENDS Pipeline

Fit == [parents |-> {[kind |-> "directory", owner |-> "root", writable |-> FALSE]},
        kind |-> "file", owner |-> "root", mode |-> "0600", size |-> 1,
        schema |-> Schema, producer |-> Producer, endpoint |-> "authority",
        protocol |-> "http/protobuf", username |-> "of producer",
        password |-> "one line"]

MCFiles == {Fit, [Fit EXCEPT !.mode = "0644"], [Fit EXCEPT !.producer = "other"]}

MCEnvironments ==
  {[target |-> "standard", maple |-> {}, overrides |-> TRUE, root |-> FALSE],
   [target |-> "standard", maple |-> {"producer"}, overrides |-> FALSE, root |-> TRUE],
   [target |-> "maple", maple |-> {"credential", "schema", "producer"},
    overrides |-> FALSE, root |-> TRUE],
   [target |-> "maple", maple |-> {"credential", "schema", "producer"},
    overrides |-> TRUE, root |-> TRUE]}
=============================================================================
