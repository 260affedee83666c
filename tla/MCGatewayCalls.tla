--------------------------- MODULE MCGatewayCalls ---------------------------
(* One provider with another model of its own to fall back to, as           *)
(* claude-5-sonnet falls back to claude-4-5-haiku.                          *)
EXTENDS GatewayCalls, TLC

CONSTANT p1

MCFallbacks == p1 :> <<p1>>
=============================================================================
