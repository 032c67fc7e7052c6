------------------------------- MODULE MCTrim -------------------------------
(***************************************************************************)
(* Instance of Trim for TLC: three IDs, two literals, and a formula that    *)
(* holds a clause twice and the empty clause.  RefMax is 2, so that three   *)
(* orig steps of one clause pass the point where its counter saturates.    *)
(***************************************************************************)
EXTENDS Trim, TLC

CONSTANTS p, q, a, b, c

MCIds == {a, b, c}
MCLits == {p, q}
MCCnf == <<{p}, {}, {p}>>

Symmetry == Permutations(MCIds)
=============================================================================
