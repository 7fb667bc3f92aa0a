-------------------------- MODULE MCVerifiedFacts --------------------------
(* VerifiedFacts with two articles that share an infobox, whose name is    *)
(* also a link of the first one; the second links to the first by its    *)
(* name in lower case.                                                      *)
EXTENDS VerifiedFacts, TLC

CONSTANTS a1, a2, low, t, box

LinksOf == a1 :> {box, t} @@ a2 :> {low}
TemplatesOf == a1 :> {box} @@ a2 :> {box}
CanonicalOf == [x \in {a1, a2, low, t, box} |-> IF x = low THEN a1 ELSE x]
Redirects == {<<"link", t>>, <<"count", t>>}
FirstWikis == {{<<"template", box>>}, {<<"main", a1>>}}
=============================================================================
