----------------------------- MODULE MCEngineRuns -----------------------------
(* EngineRuns for TLC: two runs of one owner; two ways to write one outcome,*)
(* another outcome, and a submission that does not parse.                   *)
EXTENDS EngineRuns, TLC

CONSTANTS c1, c2

MCChildren == {c1, c2}
MCOwners == {"agent", "workflow"}
MCPayloads == {"plain", "padded", "other", "malformed"}
MCOutcomes == {"A", "B"}
MCParse == [plain |-> "A", padded |-> "A", other |-> "B", malformed |-> "none"]
MCSymmetry == Permutations(MCChildren)
=============================================================================
