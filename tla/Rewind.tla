------------------------------- MODULE Rewind -------------------------------
(***************************************************************************)
(* What a two-pass elaborator promises about its list of clauses: the first *)
(* pass moves on from list to list, and the second pass sees the very same  *)
(* lists in the opposite order, each with its clauses in the same places.   *)
(***************************************************************************)
EXTENDS Naturals, Sequences

CONSTANT Lists       \* the lists there may be

VARIABLES
  now,     \* the list of this moment
  past     \* the lists before it, the oldest first

vars == <<now, past>>

Init == now = <<>> /\ past = <<>>

(* The first pass: on to another list.                                     *)
Advance == now' \in Lists /\ past' = Append(past, now)

(* The second pass: back to the list before.                               *)
Retreat ==
  /\ past # <<>>
  /\ now' = past[Len(past)]
  /\ past' = SubSeq(past, 1, Len(past) - 1)

Next == Advance \/ Retreat

Spec == Init /\ [][Next]_vars
=============================================================================
