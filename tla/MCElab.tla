------------------------------- MODULE MCElab -------------------------------
(***************************************************************************)
(* Instance of Elab for TLC.                                               *)
(***************************************************************************)
EXTENDS Elab, TLC

CONSTANTS p, a, b

MCIds == {a, b}
MCLits == {p}
=============================================================================
