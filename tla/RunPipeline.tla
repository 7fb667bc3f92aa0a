---------------------------- MODULE RunPipeline ----------------------------
(***************************************************************************)
(* One run of the translation pipeline (pipeline.py, run_pipeline): the    *)
(* articles that were planned, the chunk tasks of each article, the pool   *)
(* of `workers` slots they share, the one-way switch to a fallback engine  *)
(* when credits run out, the per-article timeout and token limits, and the *)
(* shutdown.                                                               *)
(*                                                                         *)
(* The program is a single asyncio loop, so a step of this module is the   *)
(* code a task runs between two awaits.  The two things that are easy to   *)
(* get wrong are modelled as asyncio does them: wait_for() cancels the     *)
(* children of the gather it gives up on, but a gather whose first child   *)
(* raises returns at once and leaves the other children running.           *)
(*                                                                         *)
(* What happens to an article after its chunks (assembly repair, review,   *)
(* saving) is one step here, Finish.                                       *)
(***************************************************************************)
EXTENDS Naturals, FiniteSets

CONSTANTS
  NumArticles,    \* number of entries of article_plans
  Chunks,         \* every chunk of the run
  ArticleOf,      \* the position in article_plans of each chunk's article
  ComplexChunks,  \* the chunks routed to config.complex_model
  ComplexEngine,  \* the engine complex_client talks to
  Slots,          \* the worker ids put in slot_queue at start-up
  NoSlot,         \* "this task holds no worker id"
  NoTask,         \* "nobody holds fallback_lock"
  Sequential,     \* config.sequential
  Interactive,    \* a live progress table is attached: the operator is asked
  HasTarget,      \* a fallback provider other than the current one exists
  Usage,          \* the <<prompt, completion>> token counts a chunk may cost
  MaxRatio,       \* config.max_token_ratio, 0 = no limit
  MaxTokens       \* config.max_article_tokens, 0 = no limit

Articles == 1..NumArticles
Engines  == {"primary", "complex", "fallback"}

ASSUME PlanAssumption ==
  /\ NumArticles \in Nat
  /\ ArticleOf \in [Chunks -> Articles]
  /\ ComplexChunks \subseteq Chunks

ASSUME ConfigAssumption ==
  /\ ComplexEngine \in {"primary", "complex"}
  /\ Sequential \in BOOLEAN
  /\ Interactive \in BOOLEAN
  /\ HasTarget \in BOOLEAN
  /\ Usage \subseteq Nat \X Nat
  /\ MaxRatio \in Nat
  /\ MaxTokens \in Nat

ASSUME NoneAssumption ==
  /\ NoSlot \notin Slots
  /\ NoTask \notin Chunks

VARIABLES
  run,        \* "running", "closing" (in the finally block) or "ended"
  article,    \* where process_article is, or the outcome it counted
  task,       \* where process_chunk is
  slot,       \* the worker id a task took from slot_queue
  free,       \* the worker ids in slot_queue
  status,     \* Chunk.status
  valid,      \* the verdict of the last validation of the chunk's text
  attempt,    \* engine_attempt
  via,        \* the engine the current translate_chunk call was given
  failed,     \* article_stats["failed"]
  raised,     \* the first exception of the article's gather
  tokens,     \* article_stats["input_tokens"], article_stats["output_tokens"]
  fb,         \* fallback_switched / fallback_declined
  lock,       \* the task inside fallback_lock
  exhausted,  \* the engines whose account has no credits left (environment)
  outOfCredits \* the chunks given up for lack of credits (history)

articleVars == <<article, failed, raised, tokens>>
chunkVars   == <<task, slot, free, status, valid, attempt, via, outOfCredits>>
engineVars  == <<fb, lock>>
vars == <<run, articleVars, chunkVars, engineVars, exhausted>>

(***************************************************************************)
(* The states of a chunk task: "none" before its article starts, "queued"  *)
(* in slot_queue.get(), "calling" inside translate_chunk, "locking" at the *)
(* entry of fallback_lock, "asking" while the operator reads the prompt,   *)
(* "switching" while the new client fetches its prices, "over" once its    *)
(* finally block has run.                                                  *)
(***************************************************************************)
InLock  == {"asking", "switching"}
Working == {"calling", "locking"} \cup InLock
TaskStates == {"none", "queued", "over"} \cup Working

Outcomes == {"completed", "needs_human_review", "failed", "timed_out"}
ArticleStates == {"planned", "chunks", "finishing", "raised"} \cup Outcomes
\* An article whose process_article call has returned or raised.
Settled == Outcomes \cup {"raised"}

Statuses == {"PENDING", "TRANSLATED", "REPAIRED", "CACHED", "FAILED"}

ChunksOf(a) == {c \in Chunks : ArticleOf[c] = a}

\* The client bound to llm_client.
LlmClient == IF fb = "switched" THEN "fallback" ELSE "primary"

\* The client translate_chunk uses for a chunk when llm_client is `main`.
EngineFor(c, main) == IF c \in ComplexChunks THEN ComplexEngine ELSE main

\* The ratio check, then the total check, on an article's running counts.
ExceedsLimit(t) ==
  \/ MaxRatio > 0 /\ t[1] > 0 /\ t[2] > MaxRatio * t[1]
  \/ MaxTokens > 0 /\ t[1] + t[2] > MaxTokens

TypeOK ==
  /\ run \in {"running", "closing", "ended"}
  /\ article \in [Articles -> ArticleStates]
  /\ task \in [Chunks -> TaskStates]
  /\ slot \in [Chunks -> Slots \cup {NoSlot}]
  /\ free \in SUBSET Slots
  /\ status \in [Chunks -> Statuses]
  /\ valid \in [Chunks -> BOOLEAN]
  /\ attempt \in [Chunks -> {0, 1}]
  /\ via \in [Chunks -> Engines]
  /\ failed \in [Articles -> BOOLEAN]
  /\ raised \in [Articles -> {"none", "limit", "error"}]
  /\ tokens \in [Articles -> Nat \X Nat]
  /\ fb \in {"open", "switched", "declined"}
  /\ lock \in Chunks \cup {NoTask}
  /\ exhausted \in SUBSET Engines
  /\ outOfCredits \in SUBSET Chunks

Init ==
  /\ run = "running"
  /\ article = [a \in Articles |-> "planned"]
  /\ task = [c \in Chunks |-> "none"]
  /\ slot = [c \in Chunks |-> NoSlot]
  /\ free = Slots
  /\ status = [c \in Chunks |-> "PENDING"]
  /\ valid = [c \in Chunks |-> FALSE]
  /\ attempt = [c \in Chunks |-> 0]
  /\ via = [c \in Chunks |-> "primary"]
  /\ failed = [a \in Articles |-> FALSE]
  /\ raised = [a \in Articles |-> "none"]
  /\ tokens = [a \in Articles |-> <<0, 0>>]
  /\ fb = "open"
  /\ lock = NoTask
  /\ exhausted = {}
  /\ outOfCredits = {}

-----------------------------------------------------------------------------
\* Mutant of ReleaseSlot: the finally block forgets the queue.
ReleaseSlotLeaking(c, s) ==
  /\ task' = [task EXCEPT ![c] = "over"]
  /\ slot' = [slot EXCEPT ![c] = NoSlot]
  /\ free' = free \ {s}

(***************************************************************************)
(* The end of a chunk task.  Its finally block puts the worker id back, on *)
(* every path.                                                             *)
(***************************************************************************)
ReleaseSlot(c, s) ==
  /\ task' = [task EXCEPT ![c] = "over"]
  /\ slot' = [slot EXCEPT ![c] = NoSlot]
  /\ free' = free \cup {s}

\* Mutant of Succeed: the limits are checked before the counts are updated.
SucceedCheckedTooEarly(c, s, st, u) ==
  LET a == ArticleOf[c]
  IN /\ ReleaseSlot(c, s)
     /\ status' = [status EXCEPT ![c] = st]
     /\ valid' = [valid EXCEPT ![c] = TRUE]
     /\ tokens' = [tokens EXCEPT ![a] = <<@[1] + u[1], @[2] + u[2]>>]
     /\ raised' = [raised EXCEPT ![a] = IF ExceedsLimit(tokens[a]) /\ @ = "none"
                                        THEN "limit" ELSE @]
     /\ UNCHANGED <<article, failed, outOfCredits>>

\* translate_chunk returned a valid text that cost u tokens: they are
\* counted, and a limit they exceed is raised out of the task.
Succeed(c, s, st, u) ==
  LET a == ArticleOf[c]
      t == <<tokens[a][1] + u[1], tokens[a][2] + u[2]>>
  IN /\ ReleaseSlot(c, s)
     /\ status' = [status EXCEPT ![c] = st]
     /\ valid' = [valid EXCEPT ![c] = TRUE]
     /\ tokens' = [tokens EXCEPT ![a] = t]
     /\ raised' = [raised EXCEPT ![a] = IF ExceedsLimit(t) /\ @ = "none"
                                        THEN "limit" ELSE @]
     /\ UNCHANGED <<article, failed, outOfCredits>>

\* Mutant of Lose: article_stats["failed"] is not set.
LoseQuietly(c, s, st) ==
  /\ ReleaseSlot(c, s)
  /\ status' = [status EXCEPT ![c] = st]
  /\ valid' = [valid EXCEPT ![c] = FALSE]
  /\ UNCHANGED <<article, failed, raised, tokens>>

\* The chunk is lost: an engine error, or a text that is still invalid.  A
\* text found in the cache keeps its status CACHED even when it is invalid.
Lose(c, s, st) ==
  /\ ReleaseSlot(c, s)
  /\ status' = [status EXCEPT ![c] = st]
  /\ valid' = [valid EXCEPT ![c] = FALSE]
  /\ failed' = [failed EXCEPT ![ArticleOf[c]] = TRUE]
  /\ UNCHANGED <<article, raised, tokens>>

\* Both engine attempts failed, or the second was not allowed.
GiveUpForCredits(c) ==
  /\ Lose(c, slot[c], "FAILED")
  /\ outOfCredits' = outOfCredits \cup {c}
  /\ UNCHANGED <<attempt, via>>

\* An exception process_chunk does not handle reaches the article's gather,
\* which keeps the first one.
Raise(c) ==
  /\ ReleaseSlot(c, slot[c])
  /\ raised' = [raised EXCEPT ![ArticleOf[c]] = IF @ = "none" THEN "error" ELSE @]
  /\ UNCHANGED <<article, failed, tokens, status, valid, attempt, via, outOfCredits>>

\* The n-th translate_chunk call of a task that has slot s, up to its first
\* await: a cache hit is returned without one.
Invoke(c, s, n, main) ==
  /\ attempt' = [attempt EXCEPT ![c] = n]
  /\ via' = [via EXCEPT ![c] = EngineFor(c, main)]
  /\ \/ /\ task' = [task EXCEPT ![c] = "calling"]
        /\ slot' = [slot EXCEPT ![c] = s]
        /\ free' = free \ {s}
        /\ UNCHANGED <<articleVars, status, valid, outOfCredits>>
     \/ Succeed(c, s, "CACHED", <<0, 0>>)
     \/ Lose(c, s, "CACHED") /\ UNCHANGED outOfCredits

-----------------------------------------------------------------------------
(* process_article, up to the end of its chunks                            *)

\* The dispatch loop: one article after the other, or all at once.
StartArticle(a) ==
  /\ run = "running"
  /\ article[a] = "planned"
  /\ Sequential => \A b \in Articles : b < a => article[b] \in Outcomes
  /\ article' = [article EXCEPT ![a] = "chunks"]
  /\ task' = [c \in Chunks |-> IF ArticleOf[c] = a THEN "queued" ELSE task[c]]
  /\ UNCHANGED <<run, failed, raised, tokens, slot, free, status, valid, attempt,
                 via, outOfCredits, engineVars, exhausted>>

\* slot_queue.get() returns: any waiter may be the one that is served.
TakeSlot(c) ==
  /\ run # "ended"
  /\ task[c] = "queued"
  /\ \E s \in free : Invoke(c, s, 0, LlmClient)
  /\ UNCHANGED <<run, engineVars, exhausted>>

\* translate_chunk returns a text that passed validation, perhaps repaired.
CallSucceeds(c) ==
  /\ run # "ended"
  /\ task[c] = "calling"
  /\ via[c] \notin exhausted
  /\ \E st \in {"TRANSLATED", "REPAIRED"}, u \in Usage : Succeed(c, slot[c], st, u)
  /\ UNCHANGED <<run, attempt, via, engineVars, exhausted>>

\* translate_chunk raises an EngineError other than InsufficientCreditsError,
\* or returns a text still invalid after its repair attempts.
CallFails(c) ==
  /\ run # "ended"
  /\ task[c] = "calling"
  /\ Lose(c, slot[c], "FAILED")
  /\ UNCHANGED <<run, attempt, via, outOfCredits, engineVars, exhausted>>

\* translate_chunk raises InsufficientCreditsError: the first time the task
\* asks for the fallback engine, the second time the chunk is lost.
CallOutOfCredits(c) ==
  /\ run # "ended"
  /\ task[c] = "calling"
  /\ via[c] \in exhausted
  /\ \/ /\ attempt[c] = 0
        /\ task' = [task EXCEPT ![c] = "locking"]
        /\ UNCHANGED <<articleVars, slot, free, status, valid, attempt, via, outOfCredits>>
     \/ /\ attempt[c] = 1
        /\ GiveUpForCredits(c)
  /\ UNCHANGED <<run, engineVars, exhausted>>

\* translate_chunk raises something else (a reply without content, an error
\* of the cache database): the chunk stays PENDING.
CallRaises(c) ==
  /\ run # "ended"
  /\ task[c] = "calling"
  /\ Raise(c)
  /\ UNCHANGED <<run, engineVars, exhausted>>

-----------------------------------------------------------------------------
(* ensure_fallback_engine                                                  *)

\* The lock is free and the matter already settled, or there is no target.
LockAndReturn(c) ==
  /\ run # "ended"
  /\ task[c] = "locking"
  /\ lock = NoTask
  /\ \/ /\ fb = "switched"
        /\ Invoke(c, slot[c], 1, LlmClient)
     \/ /\ fb # "switched"
        /\ fb = "declined" \/ ~HasTarget
        /\ GiveUpForCredits(c)
  /\ UNCHANGED <<run, engineVars, exhausted>>

\* Mutant of LockAndSwitch: the flags are not read again under the lock.
LockAndSwitchBlindly(c) ==
  /\ run # "ended"
  /\ task[c] = "locking"
  /\ lock = NoTask
  /\ HasTarget
  /\ lock' = c
  /\ task' = [task EXCEPT ![c] = IF Interactive THEN "asking" ELSE "switching"]
  /\ UNCHANGED <<run, articleVars, slot, free, status, valid, attempt, via,
                 outOfCredits, fb, exhausted>>

\* The lock is free and the switch still possible: ask, or just build the
\* new client and await its price list.
LockAndSwitch(c) ==
  /\ run # "ended"
  /\ task[c] = "locking"
  /\ lock = NoTask
  /\ fb = "open" /\ HasTarget
  /\ lock' = c
  /\ task' = [task EXCEPT ![c] = IF Interactive THEN "asking" ELSE "switching"]
  /\ UNCHANGED <<run, articleVars, slot, free, status, valid, attempt, via,
                 outOfCredits, fb, exhausted>>

AnswerYes(c) ==
  /\ run # "ended"
  /\ task[c] = "asking"
  /\ task' = [task EXCEPT ![c] = "switching"]
  /\ UNCHANGED <<run, articleVars, slot, free, status, valid, attempt, via,
                 outOfCredits, engineVars, exhausted>>

AnswerNo(c) ==
  /\ run # "ended"
  /\ task[c] = "asking"
  /\ fb' = "declined"
  /\ lock' = NoTask
  /\ GiveUpForCredits(c)
  /\ UNCHANGED <<run, exhausted>>

\* Mutant of SwitchDone: the retry keeps the client it had.
SwitchDoneStaleClient(c) ==
  /\ run # "ended"
  /\ task[c] = "switching"
  /\ fb' = "switched"
  /\ lock' = NoTask
  /\ Invoke(c, slot[c], 1, LlmClient)
  /\ UNCHANGED <<run, exhausted>>

\* The price list arrived: llm_client, pricing and config are replaced, and
\* the task leaves the lock and calls translate_chunk again.
SwitchDone(c) ==
  /\ run # "ended"
  /\ task[c] = "switching"
  /\ fb' = "switched"
  /\ lock' = NoTask
  /\ Invoke(c, slot[c], 1, "fallback")
  /\ UNCHANGED <<run, exhausted>>

\* Mutant of SwitchRaises: the exception leaves the lock taken.
SwitchRaisesLocked(c) ==
  /\ run # "ended"
  /\ task[c] \in InLock
  /\ Raise(c)
  /\ UNCHANGED <<run, fb, lock, exhausted>>

\* input() hits end-of-file, or the new client cannot be built: the
\* exception leaves the lock and the task, and nothing was settled.
SwitchRaises(c) ==
  /\ run # "ended"
  /\ task[c] \in InLock
  /\ lock' = NoTask
  /\ Raise(c)
  /\ UNCHANGED <<run, fb, exhausted>>

-----------------------------------------------------------------------------
(* process_article, from the end of its chunks                             *)

PendingFails(a) ==
  status' = [c \in Chunks |-> IF ArticleOf[c] = a /\ status[c] = "PENDING"
                              THEN "FAILED" ELSE status[c]]

\* Mutant of GatherReturns: return_exceptions=True, the exceptions ignored.
GatherCollects(a) ==
  /\ run # "ended"
  /\ article[a] = "chunks"
  /\ \A c \in ChunksOf(a) : task[c] = "over"
  /\ article' = [article EXCEPT ![a] =
       IF failed[a] \/ \E c \in ChunksOf(a) : status[c] = "FAILED"
       THEN "failed" ELSE "finishing"]
  /\ UNCHANGED <<run, failed, raised, tokens, chunkVars, engineVars, exhausted>>

\* The gather returns: every chunk task of the article is over.
GatherReturns(a) ==
  /\ run # "ended"
  /\ article[a] = "chunks"
  /\ raised[a] = "none"
  /\ \A c \in ChunksOf(a) : task[c] = "over"
  /\ article' = [article EXCEPT ![a] =
       IF failed[a] \/ \E c \in ChunksOf(a) : status[c] = "FAILED"
       THEN "failed" ELSE "finishing"]
  /\ UNCHANGED <<run, failed, raised, tokens, chunkVars, engineVars, exhausted>>

\* The gather raises ArticleLimitExceeded or an unexpected exception.  The
\* article is over; the gather's other tasks are not cancelled.
GatherRaises(a) ==
  /\ run # "ended"
  /\ article[a] = "chunks"
  /\ raised[a] # "none"
  /\ PendingFails(a)
  /\ failed' = [failed EXCEPT ![a] = TRUE]
  /\ article' = [article EXCEPT ![a] = "failed"]
  /\ UNCHANGED <<run, raised, tokens, task, slot, free, valid, attempt, via,
                 outOfCredits, engineVars, exhausted>>

\* Mutant of Cancel: slot_queue.get() is inside the try block, so a task that
\* was still waiting puts back an id it never had.
CancelInsideTry(S) ==
  /\ task' = [c \in Chunks |-> IF c \in S THEN "over" ELSE task[c]]
  /\ free' = free \cup {slot[c] : c \in S}
  /\ slot' = [c \in Chunks |-> IF c \in S THEN NoSlot ELSE slot[c]]
  /\ lock' = IF lock \in S THEN NoTask ELSE lock

\* Cancelling the tasks in S runs their finally blocks and leaves the lock.
Cancel(S) ==
  /\ task' = [c \in Chunks |-> IF c \in S THEN "over" ELSE task[c]]
  /\ free' = free \cup {slot[c] : c \in {d \in S : slot[d] # NoSlot}}
  /\ slot' = [c \in Chunks |-> IF c \in S THEN NoSlot ELSE slot[c]]
  /\ lock' = IF lock \in S THEN NoTask ELSE lock

Unfinished(a) == {c \in ChunksOf(a) : task[c] # "over"}

\* Mutant of Timeout: the wait ends but the tasks are not cancelled.
TimeoutWithoutCancel(a) ==
  /\ run # "ended"
  /\ article[a] = "chunks"
  /\ raised[a] = "none"
  /\ Unfinished(a) # {}
  /\ PendingFails(a)
  /\ failed' = [failed EXCEPT ![a] = TRUE]
  /\ article' = [article EXCEPT ![a] = "timed_out"]
  /\ UNCHANGED <<run, raised, tokens, task, slot, free, lock, valid, attempt, via,
                 outOfCredits, fb, exhausted>>

\* article_timeout_s is up: wait_for cancels the gather and its tasks.
Timeout(a) ==
  /\ run # "ended"
  /\ article[a] = "chunks"
  /\ raised[a] = "none"
  /\ Unfinished(a) # {}
  /\ Cancel(Unfinished(a))
  /\ PendingFails(a)
  /\ failed' = [failed EXCEPT ![a] = TRUE]
  /\ article' = [article EXCEPT ![a] = "timed_out"]
  /\ UNCHANGED <<run, raised, tokens, valid, attempt, via, outOfCredits, fb,
                 exhausted>>

\* Mutant of Finish: the return after articles_failed += 1 is missing.
FinishFailedToo(a) ==
  /\ run # "ended"
  /\ article[a] \in {"finishing", "failed"}
  /\ \E o \in {"completed", "needs_human_review", "raised"} :
       article' = [article EXCEPT ![a] = o]
  /\ UNCHANGED <<run, failed, raised, tokens, chunkVars, engineVars, exhausted>>

\* Assembly repair, review and saving: the article is saved or withheld, or
\* an engine or file error leaves process_article.
Finish(a) ==
  /\ run # "ended"
  /\ article[a] = "finishing"
  /\ \E o \in {"completed", "needs_human_review", "raised"} :
       article' = [article EXCEPT ![a] = o]
  /\ UNCHANGED <<run, failed, raised, tokens, chunkVars, engineVars, exhausted>>

-----------------------------------------------------------------------------
(* run_pipeline's end                                                      *)

\* Mutant of CloseRun: only the normal end of the dispatch loop is handled.
CloseRunWhenSettled ==
  /\ run = "running"
  /\ \A a \in Articles : article[a] \in Settled
  /\ run' = "closing"
  /\ UNCHANGED <<articleVars, chunkVars, engineVars, exhausted>>

\* Every article is settled, or one of them raised: the finally block starts.
CloseRun ==
  /\ run = "running"
  /\ \/ \A a \in Articles : article[a] \in Settled
     \/ \E a \in Articles : article[a] = "raised"
  /\ run' = "closing"
  /\ UNCHANGED <<articleVars, chunkVars, engineVars, exhausted>>

\* The clients and caches are closed and asyncio.run() cancels what is left.
EndRun ==
  /\ run = "closing"
  /\ run' = "ended"
  /\ Cancel({c \in Chunks : task[c] # "none"})
  /\ UNCHANGED <<articleVars, status, valid, attempt, via, outOfCredits, fb,
                 exhausted>>

\* Environment: an account runs out of credits, for the rest of the run.
RunOutOfCredits(e) ==
  /\ run # "ended"
  /\ e \notin exhausted
  /\ exhausted' = exhausted \cup {e}
  /\ UNCHANGED <<run, articleVars, chunkVars, engineVars>>

ChunkStep(c) ==
  \/ TakeSlot(c) \/ CallSucceeds(c) \/ CallFails(c) \/ CallOutOfCredits(c)
  \/ CallRaises(c) \/ LockAndReturn(c) \/ LockAndSwitch(c) \/ AnswerYes(c)
  \/ AnswerNo(c) \/ SwitchDone(c) \/ SwitchRaises(c)

ArticleStep(a) ==
  \/ StartArticle(a) \/ GatherReturns(a) \/ GatherRaises(a) \/ Timeout(a) \/ Finish(a)

RunStep == CloseRun \/ EndRun

Next ==
  \/ \E c \in Chunks : ChunkStep(c)
  \/ \E a \in Articles : ArticleStep(a)
  \/ RunStep
  \/ \E e \in Engines : RunOutOfCredits(e)

Spec == Init /\ [][Next]_vars

-----------------------------------------------------------------------------
(* Safety                                                                  *)

\* Every task that works holds a worker id, no id is held by two tasks, and
\* no id is lost or put back twice, whatever path a task leaves on:
\* success, failure, exception, timeout, shutdown.  So at most `workers`
\* chunks are being translated at any time.
SlotsConserved ==
  /\ \A c \in Chunks : task[c] \in Working <=> slot[c] # NoSlot
  /\ \A c, d \in Chunks : c # d /\ slot[c] # NoSlot => slot[c] # slot[d]
  /\ \A c \in Chunks : slot[c] \notin free
  /\ \A s \in Slots : s \in free \/ \E c \in Chunks : slot[c] = s

\* One task at a time is inside ensure_fallback_engine's lock, it is the one
\* that asks or switches, and it got there because nothing was settled: of
\* several workers that hit the empty account at once only one switches.
OneSwitch ==
  /\ \A c \in Chunks : task[c] \in InLock <=> lock = c
  /\ lock # NoTask => fb = "open"

\* An article that goes on to assembly has all its chunks translated, with a
\* text that validated, and no task of it is left that could change one.
AssembledIsComplete ==
  \A a \in Articles :
    article[a] \in {"finishing", "raised", "completed", "needs_human_review"} =>
      \A c \in ChunksOf(a) : /\ task[c] = "over"
                             /\ status[c] \notin {"PENDING", "FAILED"}
                             /\ valid[c]

\* A timeout leaves nothing of its article behind: every task has run its
\* finally block, no worker id is held, no chunk is still PENDING.
TimedOutIsQuiet ==
  \A a \in Articles : article[a] = "timed_out" =>
    \A c \in ChunksOf(a) : /\ task[c] = "over"
                           /\ slot[c] = NoSlot
                           /\ status[c] # "PENDING"

\* No article is assembled whose chunks cost more than the limits allow,
\* however their results interleaved.
WithinLimits ==
  \A a \in Articles :
    article[a] \in {"finishing", "completed", "needs_human_review"} =>
      ~ExceedsLimit(tokens[a])

\* A chunk of the main engine is given up for lack of credits only when the
\* operator declined, there is no fallback, or the fallback itself is empty.
CreditsExcuse ==
  \A c \in outOfCredits \ ComplexChunks :
    \/ fb = "declined" \/ ~HasTarget
    \/ fb = "switched" /\ via[c] = "fallback" /\ "fallback" \in exhausted

\* An article is counted once: the outcome of a settled article never
\* changes, and in sequential mode no article starts before the ones listed
\* before it are settled.
OutcomesFinal ==
  [][\A a \in Articles :
       /\ article[a] \in Settled => article'[a] = article[a]
       /\ Sequential /\ article[a] = "planned" /\ article'[a] # "planned" =>
            \A b \in Articles : b < a => article[b] \in Outcomes]_vars

\* The run as RunContract sees it: a chunk is done when its task ended with
\* a text that validated; the fallback lock, the engines, the attempts and
\* the token counts are invisible.
LedgerEntry == [planned |-> "planned", chunks |-> "opened", finishing |-> "accepted",
                completed |-> "delivered", needs_human_review |-> "withheld",
                raised |-> "broken", failed |-> "failed", timed_out |-> "timed_out"]

DoneChunks ==
  {c \in Chunks : task[c] = "over" /\ status[c] \notin {"PENDING", "FAILED"} /\ valid[c]}

Contract == INSTANCE RunContract WITH
  open    <- run # "ended",
  ledger  <- [a \in Articles |-> LedgerEntry[article[a]]],
  waiting <- {c \in Chunks : task[c] = "queued"},
  seat    <- slot,
  done    <- DoneChunks,
  Seats   <- Slots,
  NoSeat  <- NoSlot

\* Every step of the run is a step its contract allows, or is invisible.
Implements == Contract!Spec

-----------------------------------------------------------------------------
(* Liveness                                                                *)

\* asyncio resumes every task that can run, wait_for's timer fires, and every
\* coroutine of process_article after its chunks is bounded by its round
\* limits and request timeouts (ArticleDelivery's RunsSettle).  Nothing is
\* assumed of an engine call or of the operator.
ArticlesAdvance == (\A a \in Articles : WF_vars(ArticleStep(a))) /\ WF_vars(RunStep)

\* asyncio serves the waiters of a queue and of a lock, the engine clients
\* bound every call, and the operator answers.  No timeout is assumed.
ChunksAdvance == \A c \in Chunks : WF_vars(ChunkStep(c))

\* The run always ends, even when engines hang and nobody answers the
\* prompt, and every article that was started is settled by then.
RunEnds ==
  ArticlesAdvance => <>(run = "ended" /\ \A a \in Articles : article[a] # "chunks")

\* No path loses a worker id or leaves the lock taken: every chunk that waits
\* for an id is served and finishes without the help of a timeout.
ChunkServed ==
  ChunksAdvance => \A c \in Chunks : task[c] = "queued" ~> task[c] = "over"

-----------------------------------------------------------------------------
(* What the documentation says and the code does not do                    *)

\* pipeline.py on ensure_fallback_engine: True means the chunk retries
\* against the switched engine.
RetryUsesSwitchedEngine ==
  \A c \in Chunks : task[c] = "calling" /\ attempt[c] = 1 => via[c] = "fallback"

\* README: if one article fails the others are not affected.  A run that
\* ends has settled every article it planned.
OthersUnaffected == run = "ended" => \A a \in Articles : article[a] \in Settled

=============================================================================
