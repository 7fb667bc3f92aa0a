--------------------------- MODULE EngineReplies ---------------------------
(***************************************************************************)
(* What an engine's answer means to the program: an HTTP response          *)
(* (openrouter.py), a `claude` process (claude_code_client.py), an         *)
(* `opencode` process (opencode_go_client.py), and what a call costs.      *)
(*                                                                         *)
(* A text is a sequence of blocks, each one character long; tokens and     *)
(* prices are small numbers.  A verdict is what chat_completion makes of   *)
(* the answer:                                                             *)
(*   "text"    return it                                                   *)
(*   "retry"   count an attempt, back off, ask again                       *)
(*   "reset"   the same, on a fresh connection                             *)
(*   "credits" raise InsufficientCreditsError                              *)
(*   "error"   raise another EngineError                                   *)
(*   "raises"  an exception that is no EngineError                         *)
(***************************************************************************)
EXTENDS Integers, Sequences, SequencesExt

CONSTANTS
  TruncationMin,  \* _TRUNCATION_CHECK_MIN_OUTPUT_TOKENS
  DefaultModel    \* "auto": the CLI chooses, --model is not passed

Verdicts == {"text", "retry", "reset", "credits", "error", "raises"}

-----------------------------------------------------------------------------
(* HTTP.  A response has a status and a body: "broken" is no JSON,         *)
(* "quota" has error.code insufficient_quota, "empty" has no choices,      *)
(* "null" has a choice without content, "reply" has everything.            *)

RetryableStatus == {429, 500, 502, 503}

\* An error body that is broken or has no such code is no quota error.
InsufficientQuota(resp) == resp.status = 429 /\ resp.body = "quota"

HttpVerdict(resp) ==
  CASE InsufficientQuota(resp)            -> "credits"
    [] resp.status = 429 /\ resp.body # "quota" -> "retry"
    [] resp.status \in RetryableStatus \ {429} -> "retry"
    [] resp.status = 402                  -> "credits"
    [] resp.status >= 400 /\ resp.status \notin RetryableStatus \cup {402} -> "error"
    [] resp.status < 400 /\ resp.body = "broken" -> "reset"
    \* {"error": ...} with status 200 has no choices either
    [] resp.status < 400 /\ resp.body \in {"empty", "quota"} -> "error"
    \* run_completion strips the text, which may be None
    [] resp.status < 400 /\ resp.body = "null" -> "raises"
    [] OTHER                              -> "text"

\* fetch_pricing: entries without an id or with a price that is no number
\* are skipped, a later entry of the same id replaces an earlier one; only
\* OpenRouter is asked.
Pricing(provider, entries) ==
  IF provider # "openrouter" THEN << >>
  ELSE LET priced == SelectSeq(entries, LAMBDA e : e.id # "" /\ e.prompt >= 0 /\ e.completion >= 0)
           last(id) == priced[CHOOSE i \in DOMAIN priced :
                         priced[i].id = id /\ \A j \in DOMAIN priced : priced[j].id = id => j <= i]
       IN  [id \in {priced[i].id : i \in DOMAIN priced} |->
              [prompt |-> last(id).prompt, completion |-> last(id).completion]]

\* compute_cost of what get_pricing_for found; a model without a price is free.
TableCost(pricing, model, prompt, completion) ==
  IF model \notin DOMAIN pricing THEN 0
  ELSE prompt * pricing[model].prompt + completion * pricing[model].completion

\* run_completion prefers the cost the provider reported; -1 is none.
CallCost(reported, pricing, model, prompt, completion) ==
  IF reported # -1 THEN reported ELSE TableCost(pricing, model, prompt, completion)

-----------------------------------------------------------------------------
(* `claude`.  A run ends by "timeout", "missing" (no such program) or      *)
(* "exit"; its output is a sequence of lines: "noise" (no JSON), "other",  *)
(* "assistant" with text, "result" with the totals.                        *)

LinesOf(run, type) == SelectSeq(run.lines, LAMBDA l : l.type = type)
Texts(lines) == FlattenSeq([i \in DOMAIN lines |-> lines[i].text])
PosPart(n) == IF n < 0 THEN 0 ELSE n

\* Mutant of ClaudeText: the result's own text, which is that of the last turn.
ClaudeTextOfResult(run) == Last(LinesOf(run, "result")).text

\* Every block of every turn; the result's own text only if there was none.
ClaudeText(run) ==
  LET streamed == Texts(LinesOf(run, "assistant"))
  IN  IF streamed # << >> THEN streamed ELSE Last(LinesOf(run, "result")).text

\* Cached prompt tokens are prompt tokens.
ClaudePrompt(result) == result.input + result.cacheWrite + result.cacheRead

\* Output tokens that could have become text.
VisibleTokens(result) == PosPart(result.output - result.thinking)

TextLost(run) ==
  LET result == Last(LinesOf(run, "result"))
  IN  /\ VisibleTokens(result) >= TruncationMin
      /\ Len(ClaudeText(run)) < VisibleTokens(result)

\* run_claude_cli's is_error
ClaudeFails(run) ==
  \/ run.end \in {"timeout", "missing"}
  \/ LinesOf(run, "result") = << >>
  \/ Last(LinesOf(run, "result")).stop = "max_tokens"
  \/ TextLost(run)
  \/ Last(LinesOf(run, "result")).isError

ClaudeVerdict(run) ==
  CASE ~ClaudeFails(run)     -> "text"
    [] run.end = "missing"   -> "error"
    [] ClaudeFails(run) /\ run.end = "exit" /\ LinesOf(run, "result") # << >>
         /\ Last(LinesOf(run, "result")).status = 429 -> "credits"
    [] OTHER                 -> "retry"

-----------------------------------------------------------------------------
(* `opencode`.  Lines are "noise", "other", "text", "step" (step_finish    *)
(* with its tokens and cost, -1 when none) and "error" with its message,   *)
(* of which only the markers of a usage limit matter.                      *)

OpenCodeModelFlag(model) == IF model = DefaultModel THEN << >> ELSE <<model>>

OpenCodeText(run) == Texts(LinesOf(run, "text"))

OpenCodePrompt(run) ==
  FoldSeq(LAMBDA s, n : n + s.input + s.cacheWrite + s.cacheRead, 0, LinesOf(run, "step"))
OpenCodeCompletion(run) == FoldSeq(LAMBDA s, n : n + s.output, 0, LinesOf(run, "step"))
OpenCodeCost(run) ==
  LET costed == SelectSeq(LinesOf(run, "step"), LAMBDA s : s.cost # -1)
  IN  IF costed = << >> THEN -1 ELSE FoldSeq(LAMBDA s, n : n + s.cost, 0, costed)

\* One error event spoils the run, whatever else it printed.
OpenCodeFails(run) ==
  \/ run.end \in {"timeout", "missing"}
  \/ run.code # 0
  \/ LinesOf(run, "error") # << >>
  \/ SelectSeq(run.lines, LAMBDA l : l.type # "noise") = << >>

\* The text the failure is judged by: the last error event, else stderr.
OpenCodeMessage(run) ==
  IF LinesOf(run, "error") # << >> THEN Last(LinesOf(run, "error")).message ELSE run.stderr

OpenCodeVerdict(run) ==
  CASE ~OpenCodeFails(run)   -> "text"
    [] run.end = "missing"   -> "error"
    [] OpenCodeFails(run) /\ run.end = "exit" /\ OpenCodeMessage(run) = "limit" -> "credits"
    [] OTHER                 -> "retry"

-----------------------------------------------------------------------------
(* What is expected of them                                                *)

\* What is accepted as a translation holds every block the engine printed, in
\* order; a usage limit is never met with another attempt, nor is a program
\* that is not there; one error event spoils the whole reply.
RunsAreJudged(run) ==
  LET limited(type) == LinesOf(run, type) # << >> /\ run.end = "exit"
  IN  /\ ClaudeVerdict(run) = "text" =>
           \/ ClaudeText(run) = Texts(LinesOf(run, "assistant"))
           \/ Texts(LinesOf(run, "assistant")) = << >>
      /\ limited("result") /\ Last(LinesOf(run, "result")).status = 429 =>
           ClaudeVerdict(run) # "retry"
      /\ limited("error") /\ OpenCodeMessage(run) = "limit" => OpenCodeVerdict(run) = "credits"
      /\ OpenCodeVerdict(run) = "text" => LinesOf(run, "error") = << >>
      /\ run.end = "missing" => "retry" \notin {ClaudeVerdict(run), OpenCodeVerdict(run)}
=============================================================================
