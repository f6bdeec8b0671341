-------------------------- MODULE MCFlowGraphCalls --------------------------
(* Bounds for FlowGraphCalls: see MCFlowGraphCalls*.cfg. *)
EXTENDS FlowGraphCalls

MCTransfers == {"kUnconditional", "kFallthrough"}
=============================================================================
