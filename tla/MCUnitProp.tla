----------------------------- MODULE MCUnitProp -----------------------------
(***************************************************************************)
(* Instance of UnitProp for TLC: three addresses and three variables; the   *)
(* clauses imply one another in chains, one of them has a literal that is    *)
(* not watched, and the empty clause is among them.                         *)
(***************************************************************************)
EXTENDS UnitHints, TLC

CONSTANTS a1, a2, a3

MCIds == {a1, a2, a3}
MCInputs == {<<1>>, <<2>>, <<-1, 2>>, <<2, -1, 3>>, <<-2, -1>>, <<>>}
MCGoals == {<<>>, <<2>>, <<3, -3>>}

Symmetry == Permutations(MCIds)
=============================================================================
