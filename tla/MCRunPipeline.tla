--------------------------- MODULE MCRunPipeline ---------------------------
(* RunPipeline on small plans: one, two or three chunks per article.       *)
EXTENDS RunPipeline, TLC

CONSTANTS c1, c2, c3, s1, s2

\* Two articles, the first with two chunks.
TwoOne == (c1 :> 1) @@ (c2 :> 1) @@ (c3 :> 2)
\* Two articles with a chunk each.
OneOne == (c1 :> 1) @@ (c2 :> 2)

\* An ordinary chunk, and a runaway generation.
NormalAndRunaway == {<<1, 1>>, <<1, 3>>}
Normal == {<<1, 1>>}

SlotSymmetry == Permutations({s1, s2})
=============================================================================
