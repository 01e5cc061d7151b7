----------------------------- MODULE MCToolBatch -----------------------------
(* ToolBatch for TLC: two lanes, so that three calls fill and outnumber them. *)
EXTENDS ToolBatch

MCBatches == {<<"invalid", "unknown", "tool">>,
              <<"terminal", "tool">>,
              <<"invalid", "terminal", "terminal">>,
              <<"sandbox">>}
MCGateCalls == 1..3

(* One call of a sandbox tool, for the runs about the gateway alone. *)
MCSandboxBatch == {<<"sandbox">>}
MCSandboxCall == {1}
=============================================================================
