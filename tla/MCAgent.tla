------------------------------- MODULE MCAgent -------------------------------
(***************************************************************************)
(* agent.cfg: the code's default interval and the timeout of an endpoint,  *)
(* in seconds (2 and 3), the cadences scaled down.  Services, endpoint and *)
(* inventory of a tick, with a reload after it, take up to three intervals:*)
(* ValidUntilReplaced is at its limit, and leaves no time for MaxWork      *)
(* (AgentProofs.HotSamplesFresh).                                          *)
(* agent_blocked.cfg: the default cadences too, and no blocking work but   *)
(* the request.                                                            *)
(***************************************************************************)
EXTENDS Agent
=============================================================================
