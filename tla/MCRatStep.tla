----------------------------- MODULE MCRatStep ------------------------------
(***************************************************************************)
(* Instances of RatStep for TLC.  The first is two, of which one has clauses   *)
(* at a time.  In 1..4, (1) is RAT on 1: its resolvent with (-1 2) is refuted  *)
(* by clauses that are unit only then, or, with the unit (3), before.  In 5..8 *)
(* a step has up to two resolvents: (1 3) is RAT on 1, one resolvent is a     *)
(* tautology and the other needs (2 3), in a part of the trail that the two    *)
(* share or in its own.  In the second, two clauses are RAT on 1 and a   *)
(* PR step with a witness that touches no clause comes between them.  In the   *)
(* third, (1) is RAT on 1, and both of its resolvents need the two last        *)
(* clauses; the second also needs (1 3).                                    *)
(***************************************************************************)
EXTENDS RatStep

MCIds == 1..8

MCClauses ==
  <<<<1>>, <<-1, 2>>, <<2, -3>>, <<3>>,
    <<1, 3>>, <<-1, 2>>, <<-1, -3>>, <<2, 3>>>>
MCMaxSteps == (1..4 :> 1) @@ (5..8 :> 2)
MCInputs == Range(MCClauses)
MCWitnesses == {}

MCPrIds == 1..4

MCPrClauses == <<<<1, 2>>, <<1, -2>>, <<2, 1, 3>>, <<-1, -2>>>>
MCPrInputs == Range(MCPrClauses)
MCPrMaxSteps == MCPrIds :> 3
MCPrWitnesses == {{1, -2}}

MCSharedIds == 1..6

MCSharedClauses == <<<<1>>, <<1, 3>>, <<-1, -3, 2>>, <<-1, 2>>, <<-3, 4, 2>>, <<-3, -4, 2>>>>
MCSharedInputs == Range(MCSharedClauses)
MCSharedMaxSteps == MCSharedIds :> 1
MCSharedWitnesses == {}
=============================================================================
