------------------------- MODULE MCArticleDelivery -------------------------
(* ArticleDelivery with two articles.                                      *)
EXTENDS ArticleDelivery

CONSTANTS a1, a2, c1, c2

TwoAndOne == [a \in Articles |-> IF a = a1 THEN {c1, c2} ELSE {c1}]
\* The first article may have a defect the fixes and one the checks know of,
\* the second one that only the parse API sees.
Mixed == [a \in Articles |-> IF a = a1 THEN {"static", "footnote"} ELSE {"live"}]
AnyFlaw == [a \in Articles |-> {"static", "live", "footnote"}]
=============================================================================
