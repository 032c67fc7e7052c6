------------------------------ MODULE VecRead -------------------------------
(***************************************************************************)
(* VecBackParser of src/backparser.rs: the temporary file when it is held in *)
(* memory (option -m).  It is the abstract specification of reading from the *)
(* end: the bytes are all there, and a segment goes from one 0 to the next. *)
(***************************************************************************)
EXTENDS Integers, Sequences

CONSTANTS
  Written,   \* the byte strings of the steps that may be written
  Read(_)    \* the segment that a byte string holds

VARIABLES
  phase,   \* "write", "read", "steps", or "panic"
  data,    \* the bytes not read yet
  segs     \* the segments not taken yet

vars == <<phase, data, segs>>

Init == phase = "write" /\ data = <<>> /\ segs = <<>>

Write ==
  /\ phase = "write"
  /\ \E bytes \in Written : data' = data \o bytes
  /\ UNCHANGED <<phase, segs>>

Open == phase = "write" /\ phase' = "read" /\ UNCHANGED <<data, segs>>

(* The last segment starts after the last 0 but for its own.                *)
NextSegment ==
  /\ phase = "read" /\ data # <<>> /\ data[Len(data)] = 0
  /\ LET zeros == {j \in 1..Len(data)-1 : data[j] = 0} IN
     \E i \in zeros \union {0} :
       /\ \A j \in zeros : j <= i
       /\ segs' = Append(segs, Read(SubSeq(data, i + 1, Len(data))))
       /\ data' = SubSeq(data, 1, i)
  /\ UNCHANGED phase

(* "expected 0 byte"                                                        *)
NoZero ==
  /\ phase = "read" /\ data # <<>> /\ data[Len(data)] # 0
  /\ phase' = "panic" /\ UNCHANGED <<data, segs>>

NoSegment == phase = "read" /\ data = <<>> /\ phase' = "steps" /\ UNCHANGED <<data, segs>>

(* The iterators on top take the segments of a step.                        *)
Take ==
  /\ phase = "steps"
  /\ \E n \in 1..Len(segs) : segs' = SubSeq(segs, n + 1, Len(segs))
  /\ UNCHANGED <<phase, data>>

Next == Write \/ Open \/ NextSegment \/ NoZero \/ NoSegment \/ Take

Spec == Init /\ [][Next]_vars
=============================================================================
