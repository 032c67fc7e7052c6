------------------------------ MODULE Segments ------------------------------
(***************************************************************************)
(* The binary form of a proof.  src/serialize.rs writes a step as one to    *)
(* four segments, each a keyword, numbers and a closing 0; src/parser.rs    *)
(* reads a segment; StepIter and ElabStepIter of src/backparser.rs put the  *)
(* segments, which arrive last one first, together to steps again.          *)
(*                                                                         *)
(* A step is a record: head, the keyword of its first segment; con, the     *)
(* keyword of its constraint ("" for a clause); pf and uf, the proofs, at   *)
(* most one of each; rhs and out of a BNN (out = 0: no output literal).     *)
(* A byte is a number in 0..255.                                           *)
(***************************************************************************)
EXTENDS Integers, Sequences, SequencesExt

Step(head, con, idx, vec) ==
  [head |-> head, con |-> con, idx |-> idx, vec |-> vec,
   rhs |-> 0, out |-> 0, pf |-> <<>>, uf |-> <<>>]

Byte == [a |-> 97, b |-> 98, d |-> 100, f |-> 102, i |-> 105, k |-> 107, l |-> 108,
         o |-> 111, r |-> 114, t |-> 116, u |-> 117, x |-> 120]

-----------------------------------------------------------------------------
(* Writing.                                                                *)

(* u64 and i64, seven bits in a byte; the models stay below MaxNumber.      *)
MaxNumber == 128 * 128 - 1
Unsigneds == 0..MaxNumber
Signeds == -(MaxNumber \div 2)..(MaxNumber \div 2)
U(n) == IF n < 128 THEN <<n>> ELSE <<128 + (n % 128), n \div 128>>
Zigzag(n) == IF n < 0 THEN -2 * n + 1 ELSE 2 * n
Us(v) == FlattenSeq([j \in DOMAIN v |-> U(v[j])]) \o <<0>>
Is(v) == FlattenSeq([j \in DOMAIN v |-> U(Zigzag(v[j]))]) \o <<0>>

(* What a step may hold: relocations and unit proofs are lists of IDs.       *)
IsStep(s) ==
  /\ s.head \in {"o", "a", "d", "f", "i", "r", "t"} /\ s.con \in {"", "x", "b"}
  /\ s.idx \in Unsigneds
  /\ {s.rhs, s.out} \subseteq Signeds
  /\ s.vec \in Seq(IF s.head = "r" THEN Unsigneds ELSE Signeds)
  /\ s.pf \in Seq(Seq(Signeds)) /\ s.uf \in Seq(Seq(Unsigneds))

(* BnnImply is an Imply with "b 0" in front of its proof.                   *)
IsBnnImply(s) == s.head = "i" /\ s.con = "b"

Heads(s) ==
  IF s.con = "" \/ IsBnnImply(s) THEN <<Byte[s.head]>> \o U(s.idx)
  ELSE <<Byte[s.head], 0, Byte[s.con]>> \o U(s.idx)

Proofs(s) ==
  IF s.pf = <<>> THEN <<>>
  ELSE (IF IsBnnImply(s) THEN <<Byte.b, 0>> ELSE <<>>) \o <<Byte.l>> \o Is(s.pf[1])
       \o (IF s.uf = <<>> THEN <<>> ELSE <<Byte.u>> \o Us(s.uf[1]))

(* A BNN has a segment k of its own; a deletion writes the output literal   *)
(* even if there is none.                                                  *)
Rhs(s) ==
  <<Byte.k>> \o U(Zigzag(s.rhs))
    \o (IF s.out = 0 /\ s.head # "d" THEN <<>> ELSE U(Zigzag(s.out))) \o <<0>>

(* <StepRef as Serialize<Bin>>::write; relocations are pairs in vec.        *)
StepBytes(s) ==
  CASE s.head = "r" -> <<Byte.r>> \o Us(s.vec)
    [] s.head = "t" -> <<Byte.t>> \o U(s.idx) \o <<0>>
    [] OTHER -> Heads(s) \o Is(s.vec)
                \o (IF s.con = "b" /\ s.head # "i" THEN Rhs(s) ELSE <<>>) \o Proofs(s)

(* <ElabStepRef as Serialize<Bin>>::write: a deletion names its ID only.    *)
ElabBytes(s) == IF s.head = "d" THEN Heads(s) \o <<0>> ELSE StepBytes(s)

-----------------------------------------------------------------------------
(* Reading a segment: its bytes end with the first 0 of a number.           *)

(* The numbers of a segment.                                                *)
Numbers(bytes) ==
  FoldLeft(LAMBDA acc, c :
             IF c >= 128 THEN [acc EXCEPT !.val = @ + acc.mul * (c - 128), !.mul = @ * 128]
             ELSE [nums |-> Append(acc.nums, acc.val + acc.mul * c), val |-> 0, mul |-> 1],
           [nums |-> <<>>, val |-> 0, mul |-> 1], bytes).nums

Signed(n) == IF n % 2 = 1 THEN -(n \div 2) ELSE n \div 2

Segment(tag, idx, vec) == [tag |-> tag, idx |-> idx, vec |-> vec, rhs |-> 0, out |-> 0]
Error == Segment("error", 0, <<>>)

(* segment_mut(), check_empty(): tags "a0", "d0", ... are heads ("a" with   *)
(* the number 0), "b0" is BnnImply.                                         *)
Read(bytes) ==
  LET n == Numbers(Tail(bytes))
      ivec(j) == [m \in 1..Len(n)-j |-> Signed(n[m+j-1])]
      zeroHead == [a |-> "a0", d |-> "d0", f |-> "f0", i |-> "i0", o |-> "o0", b |-> "b0"]
      of(t) ==
        CASE t \in DOMAIN zeroHead ->
               IF n[1] = 0 THEN Segment(zeroHead[t], 0, <<>>) ELSE Segment(t, n[1], ivec(2))
          [] t = "x" -> Segment("x", n[1], ivec(2))
          [] t = "t" -> Segment("t", n[1], <<>>)
          [] t = "l" -> Segment("l", 0, ivec(1))
          [] t \in {"u", "r"} -> Segment(t, 0, SubSeq(n, 1, Len(n) - 1))
          [] t = "k" -> IF Len(n) \notin {2, 3} THEN Error
                        ELSE [Segment("k", 0, <<>>) EXCEPT !.rhs = Signed(n[1]), !.out = Signed(n[2])]
  IN IF bytes = <<>> \/ \A t \in DOMAIN Byte : Byte[t] # bytes[1] THEN Error
     ELSE of(CHOOSE t \in DOMAIN Byte : Byte[t] = bytes[1])

-----------------------------------------------------------------------------
(* From segments to steps.                                                  *)

(* The segments of a step, the last one of the file first.                  *)
Common ==
  {<<"o">>, <<"r">>, <<"d">>, <<"t">>,
   <<"l", "a">>, <<"l", "i">>, <<"l", "x", "a0">>, <<"l", "x", "i0">>,
   <<"l", "b0", "i">>, <<"l", "k", "b", "a0">>,
   <<"x", "o0">>, <<"x", "d0">>, <<"k", "b", "o0">>,
   <<"u", "l", "x", "a0">>, <<"u", "l", "b0", "i">>}

(* StepIter::next()                                                         *)
StepShapes ==
  Common \union
  {<<"a">>, <<"f">>, <<"i">>, <<"x", "a0">>, <<"x", "i0">>, <<"x", "f0">>,
   <<"k", "b", "d0">>, <<"k", "b", "f0">>}

(* ElabStepIter::next()                                                     *)
ElabShapes == Common \union {<<"b", "d0">>}

Tags(segs) == [j \in DOMAIN segs |-> segs[j].tag]
Matching(shapes, segs) == {h \in shapes : IsPrefix(h, Tags(segs))}

Pick1(segs, tags) == LET s == SelectSeq(segs, LAMBDA g : g.tag \in tags)
                     IN [j \in DOMAIN s |-> s[j].vec]
WithIdx(segs) == SelectSeq(segs, LAMBDA g : g.tag \in {"o", "a", "d", "f", "i", "x", "b", "t", "r"})[1]

(* The step of the segments of one shape.                                   *)
StepOf(segs) ==
  LET c == WithIdx(segs)
      tags == ToSet(Tags(segs))
      first == segs[Len(segs)].tag
      head == CASE first = "a0" -> "a" [] first = "d0" -> "d" [] first = "f0" -> "f"
                [] first = "i0" -> "i" [] first = "o0" -> "o" [] OTHER -> first
      k == SelectSeq(segs, LAMBDA g : g.tag = "k")
  IN [head |-> head,
      con |-> IF "x" \in tags THEN "x" ELSE IF tags \intersect {"b", "b0"} # {} THEN "b" ELSE "",
      idx |-> c.idx, vec |-> c.vec,
      rhs |-> IF k = <<>> THEN 0 ELSE k[1].rhs, out |-> IF k = <<>> THEN 0 ELSE k[1].out,
      pf |-> Pick1(segs, {"l"}), uf |-> Pick1(segs, {"u"})]

(* ElabStepIter asserts that a deletion has no literals.                    *)
ElabPanics(s) == s.head = "d" /\ s.vec # <<>>
=============================================================================
