----------------------------- MODULE MCPipeline -----------------------------
(***************************************************************************)
(* Instance of Pipeline for TLC.                                           *)
(***************************************************************************)
EXTENDS Pipeline, TLC

CONSTANTS p, a, b

MCIds == {a, b}
MCLits == {p}
MCCnf == <<{p}, {p}>>
=============================================================================
