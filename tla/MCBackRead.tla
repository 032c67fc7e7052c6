----------------------------- MODULE MCBackRead -----------------------------
(***************************************************************************)
(* Instance of BackRead for TLC: every kind of step that the program writes, *)
(* literals of one and of two bytes, buffers from one byte to more than a    *)
(* file has, so that the end of a chunk falls on every place of a segment.   *)
(***************************************************************************)
EXTENDS BackRead

Bnn(head, idx, out, pf) == [Step(head, "b", idx, <<1, -2>>) EXCEPT !.rhs = 2, !.out = out, !.pf = pf]
Proved(s, pf, uf) == [s EXCEPT !.pf = pf, !.uf = uf]
Hint == <<<<3, -200>>>>

Both ==
  {Step("o", "", 1, <<1, -70>>), Step("o", "x", 2, <<-1>>), Bnn("o", 1, 0, <<>>), Bnn("o", 1, -3, <<>>),
   Proved(Step("a", "", 130, <<>>), Hint, <<>>), Proved(Step("a", "x", 3, <<2>>), Hint, <<>>),
   Proved(Step("a", "x", 3, <<>>), Hint, <<<<1, 2>>>>), Bnn("a", 2, 0, Hint), Bnn("a", 2, 3, <<<<>>>>),
   Proved(Step("i", "", 4, <<1>>), Hint, <<>>), Proved(Step("i", "x", 4, <<1>>), Hint, <<>>),
   Proved(Step("i", "b", 5, <<1>>), Hint, <<>>), Proved(Step("i", "b", 5, <<>>), <<<<>>>>, <<<<3>>>>),
   Step("r", "", 0, <<1, 200, 2, 3>>), Step("t", "", 7, <<>>)}

MCElabSteps == Both \union {Step("d", "", 1, <<>>), Step("d", "x", 2, <<>>), Step("d", "b", 130, <<>>)}

MCFratSteps ==
  Both \union
  {Step("a", "", 6, <<1, 2>>), Step("a", "x", 6, <<1>>), Step("i", "", 6, <<>>), Step("i", "x", 6, <<1>>),
   Step("d", "", 1, <<1, -70>>), Step("d", "x", 2, <<-1>>), Bnn("d", 1, -3, <<>>), Bnn("d", 1, 0, <<>>),
   Step("f", "", 1, <<1>>), Step("f", "x", 2, <<-1>>), Bnn("f", 1, 0, <<>>), Bnn("f", 1, 3, <<>>)}
=============================================================================
