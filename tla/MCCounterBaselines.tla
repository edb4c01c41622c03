------------------------ MODULE MCCounterBaselines -------------------------
(***************************************************************************)
(* One counter of each kind; carrier_changes stands for the counters of an *)
(* interface, which differ from it only in that they are never misread.    *)
(***************************************************************************)
EXTENDS CounterBaselines
=============================================================================
