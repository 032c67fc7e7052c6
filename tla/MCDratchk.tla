----------------------------- MODULE MCDratchk -----------------------------
(***************************************************************************)
(* Instance of Dratchk for TLC: a chain of three implications, so that a    *)
(* conflict can depend on a literal by way of two others, two spellings of  *)
(* one clause, and the empty clause.  A proof has up to MaxSteps steps less *)
(* the clauses of its formula.                                             *)
(***************************************************************************)
EXTENDS Dratchk

MCClauses == {<<>>, <<1>>, <<-1, 2>>, <<2, -1>>, <<-2, 3>>, <<-3>>}
MCFormulas == {<<<<1>>, <<-1, 2>>, <<-2, 3>>>>, <<<<-3>>, <<-2, 3>>, <<2, -1>>>>,
                <<<<-1, 2>>, <<1>>, <<-1, 2>>>>}
=============================================================================
