-------------------------- MODULE MCEngineClient --------------------------
(* EngineClient with two calls: both on HTTP, one of each kind, or two     *)
(* processes that share one thread.                                        *)
EXTENDS EngineClient

CONSTANTS h, k

Mixes ==
  {[c \in Callers |-> "http"],
   [c \in Callers |-> IF c = h THEN "http" ELSE "claude"],
   [c \in Callers |-> IF c = h THEN "opencode" ELSE "claude"]}

\* One response per verdict.
SomeResponses ==
  {[status |-> 200, body |-> b] : b \in {"reply", "null", "broken"}}
    \cup {[status |-> 429, body |-> b] : b \in {"quota", "broken"}}
    \cup {[status |-> 400, body |-> "broken"]}

Output(lines) == [end |-> "exit", code |-> 0, stderr |-> "other", lines |-> lines]
Said == [type |-> "assistant", text |-> <<"a">>]
Printed == [type |-> "text", text |-> <<"a">>]
Totals(stop, isError, status) ==
  [type |-> "result", text |-> << >>, stop |-> stop, isError |-> isError, status |-> status,
   input |-> 1, cacheWrite |-> 0, cacheRead |-> 0, output |-> 1, thinking |-> 0]
Hangs == [Output(<< >>) EXCEPT !.end = "timeout"]
NotFound == [Output(<< >>) EXCEPT !.end = "missing"]

\* One process per verdict and engine.
SomeRuns == [e \in {"http", "claude", "opencode"} |->
  CASE e = "http" -> {}
    [] e = "claude" ->
         {Hangs, NotFound, Output(<<Said, Totals("end", FALSE, 0)>>),
          Output(<<Said, Totals("end", TRUE, 429)>>)}
    [] e = "opencode" ->
         {Hangs, NotFound, Output(<<Printed>>),
          Output(<<[type |-> "error", message |-> "limit"]>>)}]
=============================================================================
