----------------------------- MODULE MCFromPr ------------------------------
(***************************************************************************)
(* Instance of FromPr for TLC.  The formulas have a clause twice in two     *)
(* spellings; the PR steps have witnesses that satisfy, reduce, and both    *)
(* satisfy and reduce clauses, and one lemma the witness does not satisfy   *)
(* after -O has minimized it.  One clause has a variable beyond the header. *)
(***************************************************************************)
EXTENDS FromPr

MCFormulas == {<<<<1, 2>>, <<-1, -2>>, <<2, 1>>>>,
               <<<<-1, 3>>, <<2, 1>>, <<-2, 3>>>>,
               <<<<1, 2, 3>>, <<-2, -1>>, <<-1, -3>>, <<3, 2, 1>>>>,
               <<<<-1, 2, 3>>, <<1, -2>>, <<-3, 2>>>>}
MCClauses == {<<1, 2>>, <<-1, 3>>, <<-1, -2>>, <<1>>, <<-4>>}
MCPrSteps == {[lemma |-> <<1>>, witness |-> <<1, -2>>],
              [lemma |-> <<1>>, witness |-> <<1, 3>>],
              [lemma |-> <<1>>, witness |-> <<1, -2, -3>>],
              [lemma |-> <<3, -1>>, witness |-> <<3, 1>>],
              [lemma |-> <<1, -2>>, witness |-> <<1, 2, 3>>]}
=============================================================================
