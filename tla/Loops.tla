------------------------------- MODULE Loops -------------------------------
(***************************************************************************)
(* The loop over a list that most of the program's algorithms are.  It is  *)
(* FoldLeft of the community modules written as a recursive function of    *)
(* the elements done, which LoopLaws can reason about.                     *)
(***************************************************************************)
EXTENDS Integers, Sequences

\* The result of a loop over s that goes on from start; op is one turn, from
\* the result so far and the next element.
Loop(op(_, _), start, s) ==
  LET done[i \in 0..Len(s)] == IF i = 0 THEN start ELSE op(done[i - 1], s[i])
  IN  done[Len(s)]
=============================================================================
