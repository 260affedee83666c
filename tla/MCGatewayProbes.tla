-------------------------- MODULE MCGatewayProbes --------------------------
(* One provider whose fallback is another model of its own, as             *)
(* claude-5-sonnet falls back to claude-4-5-haiku.                          *)
EXTENDS GatewayProbes, TLC

CONSTANT p1

MCFallbacks == p1 :> <<p1>>
=============================================================================
