------------------------------ MODULE BackRead ------------------------------
(***************************************************************************)
(* BackParser of src/backparser.rs: a file of steps is read from its end in *)
(* chunks of the size of a buffer.  A segment may lie in several chunks,    *)
(* and only the last chunk of the file may be shorter than a buffer.  The   *)
(* steps are those of Segments: what elab() writes for trim() ("elab"), or  *)
(* what a FRAT file has ("frat").                                           *)
(***************************************************************************)
EXTENDS Segments

CONSTANTS
  BufferSizes,   \* the sizes of a buffer
  FratSteps,     \* the steps a FRAT file may have
  ElabSteps,     \* the steps elab() may write
  MaxSteps       \* bound: steps of a file

ASSUME Bounds == BufferSizes \subseteq Nat \ {0} /\ MaxSteps \in Nat
ASSUME StepsAreSteps == \A s \in FratSteps \union ElabSteps : IsStep(s)

VARIABLES
  pc,        \* "write", "read", "steps", "done", or "panic"
  kind,      \* "frat" or "elab"
  written,   \* the steps of the file
  file,      \* its bytes
  size,      \* BUFFER_SIZE
  cursor,    \* how many bytes of the file are before the read position
  remaining, \* whole chunks not read yet
  pos,       \* bytes of buffers[1] not parsed yet
  lastRead,  \* how many bytes the last read got
  buffers,   \* the chunks held, the last one of the file first
  b,         \* the buffer that is scanned next
  segs,      \* the segments not taken yet
  steps      \* the steps read

vars == <<pc, kind, written, file, size, cursor, remaining, pos, lastRead, buffers, b, segs, steps>>
reader == <<cursor, remaining, pos, lastRead, buffers, b, segs>>

-----------------------------------------------------------------------------

Write(s) ==
  /\ pc = "write" /\ Len(written) < MaxSteps
  /\ written' = Append(written, s)
  /\ file' = file \o (IF kind = "elab" THEN ElabBytes(s) ELSE StepBytes(s))
  /\ UNCHANGED <<pc, kind, size, steps>> /\ UNCHANGED reader

(* read_exact() of n bytes, at the start of a buffer of the given size.     *)
ReadAt(start, n) == [j \in 1..size |-> IF j <= n THEN file[start + j] ELSE 0]

(* Mutant: a last chunk that is whole is counted among the others.          *)
OpenWhole ==
  /\ pc = "write" /\ pc' = "read"
  /\ pos' = IF file = <<>> THEN 0 ELSE ((Len(file) - 1) % size) + 1
  /\ buffers' = <<ReadAt(Len(file) - pos', pos')>>
  /\ cursor' = Len(file) /\ lastRead' = pos' /\ b' = 1
  /\ remaining' = (Len(file) + size - 1) \div size
  /\ UNCHANGED <<kind, written, file, size, segs, steps>>

(* BackParser::new()                                                        *)
Open ==
  /\ pc = "write" /\ pc' = "read"
  /\ pos' = IF file = <<>> THEN 0 ELSE ((Len(file) - 1) % size) + 1
  /\ buffers' = <<ReadAt(Len(file) - pos', pos')>>
  /\ cursor' = Len(file) /\ lastRead' = pos' /\ b' = 1
  /\ remaining' = Len(file) \div size - (IF pos' = size THEN 1 ELSE 0)
  /\ UNCHANGED <<kind, written, file, size, segs, steps>>

(* The bytes of a buffer that are scanned: of the first one, those before   *)
(* the end of the segment.                                                 *)
Scanned(n) == IF n > 1 THEN size ELSE IF pos = 0 THEN 0 ELSE pos - 1

(* Bin::back_scan(): a segment starts after a 0 byte.                       *)
Zeros(n) == {j \in 1..Scanned(n) : buffers[n][j] = 0}

(* Mutant: the chunks of a segment come in the order they were read.        *)
ChunksAsRead(n, i) ==
  IF n = 1 THEN SubSeq(buffers[1], i + 1, pos)
  ELSE SubSeq(buffers[n], i + 1, size)
         \o FlattenSeq(SubSeq(buffers, 2, n - 1)) \o SubSeq(buffers[1], 1, pos)

(* The bytes from place i of buffer n to the end of the segment.            *)
Chunks(n, i) ==
  IF n = 1 THEN SubSeq(buffers[1], i + 1, pos)
  ELSE SubSeq(buffers[n], i + 1, size)
         \o FlattenSeq(Reverse(SubSeq(buffers, 2, n - 1))) \o SubSeq(buffers[1], 1, pos)

(* parse_segment_from(): the buffers after the n-th one are free again.     *)
ParseSegmentFrom(n, i) ==
  /\ segs' = Append(segs, Read(Chunks(n, i)))
  /\ pos' = i
  /\ buffers' = SubSeq(buffers, n, Len(buffers))
  /\ b' = 1
  /\ UNCHANGED <<cursor, remaining, lastRead>>

Reading == pc = "read" /\ UNCHANGED <<kind, written, file, size, steps>>

(* read_chunk()                                                             *)
ReadChunk ==
  /\ Reading /\ b > Len(buffers) /\ remaining > 0
  /\ LET start == cursor - (size + lastRead)
     IN buffers' = Append(buffers, ReadAt(start, size)) /\ cursor' = start + size
  /\ lastRead' = size /\ remaining' = remaining - 1
  /\ UNCHANGED <<pc, pos, b, segs>>

(* Mutant: the segment starts after the first 0 of the chunk.               *)
HitFirst ==
  /\ Reading /\ b <= Len(buffers)
  /\ \E i \in Zeros(b) : (\A j \in Zeros(b) : i <= j) /\ ParseSegmentFrom(b, i)
  /\ UNCHANGED pc

Hit ==
  /\ Reading /\ b <= Len(buffers)
  /\ \E i \in Zeros(b) : (\A j \in Zeros(b) : j <= i) /\ ParseSegmentFrom(b, i)
  /\ UNCHANGED pc

(* Mutant: after the last buffer held comes the first one again.            *)
MissWraps ==
  /\ Reading /\ b <= Len(buffers) /\ Zeros(b) = {}
  /\ b' = (b % Len(buffers)) + 1
  /\ UNCHANGED <<pc, cursor, remaining, pos, lastRead, buffers, segs>>

Miss ==
  /\ Reading /\ b <= Len(buffers) /\ Zeros(b) = {}
  /\ b' = b + 1
  /\ UNCHANGED <<pc, cursor, remaining, pos, lastRead, buffers, segs>>

(* The start of the file: what is left is a segment, if there is any.       *)
FileStart ==
  /\ Reading /\ b > Len(buffers) /\ remaining = 0
  /\ IF b = 2 /\ pos = 0
     THEN pc' = "steps" /\ UNCHANGED reader
     ELSE ParseSegmentFrom(b - 1, 0) /\ UNCHANGED pc

(* StepIter::next(), ElabStepIter::next(): the latter skips todo steps.     *)
Shapes == IF kind = "elab" THEN ElabShapes ELSE StepShapes
TakeStep ==
  /\ pc = "steps" /\ segs # <<>>
  /\ \E h \in Matching(Shapes, segs) :
       LET s == StepOf(SubSeq(segs, 1, Len(h)))
       IN /\ segs' = SubSeq(segs, Len(h) + 1, Len(segs))
          /\ IF kind = "elab" /\ ElabPanics(s) THEN pc' = "panic" /\ UNCHANGED steps
             ELSE /\ pc' = pc
                  /\ steps' = IF kind = "elab" /\ s.head = "t" THEN steps ELSE Append(steps, s)
  /\ UNCHANGED <<kind, written, file, size, cursor, remaining, pos, lastRead, buffers, b>>

NoStep ==
  /\ pc = "steps" /\ segs # <<>> /\ Matching(Shapes, segs) = {}
  /\ pc' = "panic"
  /\ UNCHANGED <<kind, written, file, size, steps>> /\ UNCHANGED reader

End ==
  /\ pc = "steps" /\ segs = <<>> /\ pc' = "done"
  /\ UNCHANGED <<kind, written, file, size, steps>> /\ UNCHANGED reader

Init ==
  /\ pc = "write" /\ kind \in {"frat", "elab"} /\ size \in BufferSizes
  /\ written = <<>> /\ file = <<>> /\ steps = <<>> /\ segs = <<>>
  /\ cursor = 0 /\ remaining = 0 /\ pos = 0 /\ lastRead = 0 /\ buffers = <<>> /\ b = 1

Reader == ReadChunk \/ Hit \/ Miss \/ FileStart \/ TakeStep \/ NoStep \/ End

Next ==
  \/ \E s \in IF kind = "elab" THEN ElabSteps ELSE FratSteps : Write(s)
  \/ Open
  \/ Reader

(* The program reads on by itself once it has opened the file.              *)
Spec == Init /\ [][Next]_vars /\ WF_vars(Reader)

-----------------------------------------------------------------------------
(* Properties.                                                             *)

(* Everything has its type; the chunks held and those not read are the file *)
(* but for the segments parsed, and the read position is behind the chunk   *)
(* that was read last.                                                      *)
TypeOK ==
  /\ pc \in {"write", "read", "steps", "done", "panic"}
  /\ \A j \in DOMAIN file : file[j] \in 0..255
  /\ pos \in 0..size /\ b \in 1..Len(buffers)+1
  /\ pc = "read" =>
       /\ cursor = remaining * size + lastRead
       /\ remaining * size + (Len(buffers) - 1) * size + pos <= Len(file)

(* What is read is what was written, from the end, whatever the places of   *)
(* the chunks are: each step with its literals, its hints and its IDs.      *)
(* A file that the deletion of a BNN without an output literal is in cannot *)
(* be read: its 0 is a segment of its own.                                  *)
NoOutput(s) == s.head = "d" /\ s.con = "b" /\ s.out = 0
RoundTrip ==
  /\ pc = "panic" => kind = "frat" /\ \E j \in DOMAIN written : NoOutput(written[j])
  /\ pc = "done" => steps = SelectSeq(Reverse(written), LAMBDA s : kind = "frat" \/ s.head # "t")

(* The bytes that are in no segment yet: those of the chunks not read, and    *)
(* of the chunks held those before the end of the next segment.              *)
Left == (remaining + Len(buffers) - 1) * size + pos
Unread == IF pc = "write" THEN file ELSE SubSeq(file, 1, Left)

(* Reading in chunks gives the segments that reading in memory gives, and     *)
(* what was written always ends with the 0 that VecBackParser insists on.    *)
V == INSTANCE VecRead WITH
       Written <- {ElabBytes(s) : s \in ElabSteps} \union {StepBytes(s) : s \in FratSteps},
       phase <- IF pc \in {"write", "read"} THEN pc ELSE "steps",
       data <- Unread
ReadsAsVec == V!Spec

(* Reading comes to its end: no segment makes the loop over the buffers go  *)
(* on for ever, and every chunk is read only once.                          *)
ReadEnds == pc = "read" ~> pc \in {"done", "panic"}
(* Every file that the program writes can be read: the output literal of a  *)
(* BNN is optional (format.md), in the deletion of one that had none too.   *)
Readable == pc # "panic"
=============================================================================
