---------------------------- MODULE MCProviderTurn ----------------------------
(* ProviderTurn for TLC: one retry, and a retryable, an unlisted and a final *)
(* http status.                                                              *)
EXTENDS ProviderTurn

MCWires == {"anthropic", "openai"}
MCStatuses == {401, 429, 503}
MCStatusCodes == {429}
=============================================================================
