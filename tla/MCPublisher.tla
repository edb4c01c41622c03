---------------------------- MODULE MCPublisher ----------------------------
(* Small instances of Publisher: three subjects, tiny queues. *)
EXTENDS Publisher
=============================================================================
