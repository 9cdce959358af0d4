-------------------------- MODULE MCPricingSession --------------------------
(***************************************************************************)
(* Small instances of PricingSession: two symbols, a read deadline of two  *)
(* heartbeats, waits of one and two ticks.                                 *)
(***************************************************************************)
EXTENDS PricingSession, TLC

SymbolSymmetry == Permutations(Symbols)
=============================================================================
