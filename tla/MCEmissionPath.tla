---------------------------- MODULE MCEmissionPath ----------------------------
(***************************************************************************)
(* The queue length that an LLM endpoint reports, which may be not a       *)
(* number, and the clock of a GPU, which NVML may not support or fail to   *)
(* read.  Rule files with a general rule, a specific one, two that overlap *)
(* and an invalid one.  The bridge refuses a batch that has both points:   *)
(* MaxPoints is 1.                                                         *)
(***************************************************************************)
EXTENDS EmissionPath, TLC

Queued == [metric |-> "queued", attributes |-> ("llm.endpoint.id" :> "e0")]
Clock == [metric |-> "clock",
          attributes |-> ("gpu.id" :> "g0" @@ "clock.domain" :> "memory")]
MCKeys == {Queued, Clock}

Low == [value |-> 1, tag |-> "measured"]
High == [value |-> 2, tag |-> "measured"]
NotANumber == [value |-> NaN, tag |-> "measured"]
Failed == [value |-> NoValue, tag |-> "error"]
Unsupported == [value |-> NoValue, tag |-> "unsupported"]

MCObservations == {Low, High, NotANumber, Failed, Unsupported}
MCReadings == [k \in MCKeys |-> IF k = Queued THEN {Low, High, NotANumber}
                                              ELSE {Low, Failed, Unsupported}]

Rule(metric, attrs, policy) ==
  [metric |-> metric, attributes |-> attrs, policy |-> policy, valid |-> TRUE]
General(policy) == Rule("clock", <<>>, policy)
ByDomain(policy) == Rule("clock", "clock.domain" :> "memory", policy)
ByGpu(policy) == Rule("clock", "gpu.id" :> "g0", policy)

MCRuleFiles ==
  {<<[General("disabled") EXCEPT !.valid = FALSE]>>,
   <<General("disabled"), ByDomain("state-change")>>,
   <<ByDomain("availability-change"), General("state-change"),
     Rule("queued", <<>>, "state-change")>>,
   <<ByDomain("enabled"), ByGpu("disabled")>>}
=============================================================================
