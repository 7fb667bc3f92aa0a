# Verification of wiki-translate-harness

wiki-translate-harness translates Wikipedia articles section by section with a
language model, checks and repairs the wikitext, and saves files for a human
reviewer. This directory models its control with TLA+: what happens in which
order, what may interleave, fail, time out, be killed or be run again, and what
the program promises about the files, caches and counters it leaves behind.

Everything the program does runs on one asyncio event loop (plus threads for
command-line engines, the parse request and the operator's prompt), so an
action is the code a task runs between two awaits; where a kill may strike
between two writes, an action is one write.

Paths without a directory are under `src/wiki_translation_harness/`.

## 1. The system

```
inputs -> run_pipeline: skip finished -> plan (fetch, verify, split) -> per article:
   chunks (workers, cache, engine, fallback) -> assembly repair -> review -> save
```

| Component | State it keeps | Operations | What is hard | What makes it correct |
|---|---|---|---|---|
| Run orchestration (`pipeline.py`) | worker ids in `slot_queue`, `article_stats`, fallback flags and lock, `llm_client` | dispatch, chunk tasks, fallback switch, timeout, limits, shutdown | cancellation at any await, `gather` that returns early, flags read before a lock, stale clients | ids conserved, one switch, only complete articles assembled, limits hold, run ends |
| Chunk translation (`translator.py`, `repair.py`) | `Chunk.status`, `translated_text`, repair budget | look up, call, validate, repair, relay renderings, store | what a chunk is told depends on which chunks ended before it began | told and recorded renderings agree; only valid texts stored by it |
| Translation memory (`cache.py`) | table `translations`, over all runs | `compute_key`, `get`, `set` | key computed before the call, used after it; several writers; outlives kills | paid work is found again; a rerun's keys are the last run's |
| Fact verification (`verification.py`) and its cache | sitelinks, parameters, sibling links, counts; renderings of the article | check, cache, build the facts block | timeouts halfway, several articles at once, transient failures cached | what is called existing exists; an article has all of its facts or none |
| Assembly repair and fixes (`pipeline.py`, `citation_language.py`) | text of the chunks, assembled text, findings, rounds | fix, validate, localise, repair, re-cache | fixes live in one text, repairs in another; findings without a place | fixes applied to what is saved; bounded rounds; withheld if not clean |
| Semantic review (`review.py`) | findings, rounds | review, check structure, repair | a repair may break structure; the call may raise | nothing shipped silently; bounded rounds |
| Output and snapshots (`output.py`) | `.wiki`, snapshot in `partial_output_dir` | save, snapshot, discard, skip finished | kill between writes, reruns, `--force`, title/file-name collisions | work is always on disk; only finished articles skipped |
| Human-review records (`review_queue.py`) | `.review.md`, `.review-flags.md`, index | record, upsert | articles of one run share the index | index and files agree, no entry without a file |
| Engine clients (`openrouter.py`, `claude_code_client.py`, `opencode_go_client.py`) | shared HTTP client, attempts | call with retries, reset, parse streams | reset under concurrent calls; late replies; what may be retried | attempts bounded, credits errors never retried, no caller starves another |
| Engine pool (`engines.py`), configuration (`config.py`, `models.py`) | one client per provider | merge settings, build, close, resolve | settings of one layer that outlive a provider given in another | every tier has a client and the main model is one its provider knows |
| Queue mode (`queue_runner.py`) | claim in a shared repository | claim, run, finish | tasks that survive a run; result that cannot be pushed; stale claims | each claim answered; usage counted once |
| Chunking (`parser.py`), joining (`output.py`), table and pair checks (`validator.py`, `live_validator.py`) | none (pure) | split, merge, join with line spans, check | thresholds, empty chunks, spans across rows | nothing lost or reordered; a line belongs to the chunk it came from |
| Statistics, progress, report, logging | counters, display, text | count, merge, write | articles that fail half way | what was spent is in a total |
| Benchmark and evaluation, command line, inputs, MediaWiki access, skill loading | none of their own that survives a call | - | - | - |

Interactions: `run_pipeline` calls everything else directly. Chunk tasks of all
articles share the worker ids, the engine client, the translation memory and
the statistics; chunks of one article share its renderings and counters;
articles share the index file; runs share the memory, the output directory and
the snapshots. The operator is asked from a thread while the lock is held.

## 2. Modules

| Module | What it models |
|---|---|
| `RunPipeline` | one run: articles, chunk tasks, worker ids, fallback switch, limits, timeout, shutdown |
| `RunContract` | what a run promises, without engines, locks or attempts; `RunPipeline` implements it |
| `TranslationMemory` | one article's translations over several runs: lookup, relay of renderings, repair, store, re-caching |
| `ArticleDelivery` | from ended chunks to files: repair, review, records, save, snapshots, over runs that may be killed |
| `EngineClient` | several calls at once on a shared HTTP client, or on processes in threads: retries, resets, cancellation, closing |
| `EngineReplies` | what a response, a stream or an exit code means and costs; used by `EngineClient` |
| `VerifiedFacts` | the planning phase: facts of several articles looked up through one cache, over several runs |
| `QueueRunner` | machines that drain a shared list of articles |
| `ArticleText` | chunking, joining with line spans, findings to chunks (no state) |
| `WikitextChecks` | structural and live checks, findings of the review; extends `ArticleText` (no state) |
| `CitationFixes` | the deterministic fixes of citations and footnotes (no state) |
| `RunSettings` | layers of settings, what is refused, the clients of a run (no state) |
| `Loops` | the loop over a list that the algorithms of the modules without state are |
| `LoopLaws` | what such a loop does, for any turn: instantiated wherever something is proved about one |
| `RunPipelineProofs` (with the refinement of `RunContract`), `TranslationMemoryProofs`, `DeliveryAndQueueProofs`, `EngineClientProofs`, `VerifiedFactsProofs`, `PurePartsProofs` (chunking, joining, findings, settings, replies), `ChecksAndFixesProofs` (citations and tables) | the theorems |
| `MC...` | the instances TLC checks; `MCPureParts` puts the modules without state on all small inputs |

The models with state are views of the same program, cut where the others have
a single step. `RunPipeline` has one step (`Finish`) for everything
`ArticleDelivery` details, and plans an article or not where `VerifiedFacts`
shows how; `ArticleDelivery` has one step (`ChunkEnds`) for everything
`RunPipeline` and `TranslationMemory` detail; a call's outcomes in `RunPipeline`
are those the calls of `EngineClient` end in; a pipeline in `QueueRunner` ends
in the outcomes of `RunPipeline`. `RunEnds` of `RunPipeline` assumes that
`Finish` happens and that calls return: that both repair loops end is
`RunsSettle` of `ArticleDelivery`, that calls end is `CallsEnd` of `EngineClient`.

### RunPipeline

| Variable | Code |
|---|---|
| `run` | dispatch loop, `finally` block, after `asyncio.run` |
| `article` | progress of `process_article` and the outcome it counts |
| `task`, `slot`, `free` | where `process_chunk` is, its id, `slot_queue` |
| `status`, `valid` | `Chunk.status`, `outcome.validation.valid` |
| `attempt`, `via` | `engine_attempt`, the engine passed to this call |
| `failed`, `raised`, `tokens` | `article_stats` and the first exception of the `gather` |
| `fb`, `lock` | `fallback_switched`/`fallback_declined`, `fallback_lock` |
| `exhausted`, `outOfCredits` | environment; history |

Two rules of asyncio carry the model: `wait_for` cancels the children of the
`gather` it gives up on (`Timeout` cancels every task of the article), and a
`gather` whose child raises returns at once and leaves its other children
running (`GatherRaises` cancels none). `TakeSlot` includes the cache lookup,
because nothing is awaited between taking the id and the engine call. The lock
is taken and the flags read again in one step, as there is no await between.

### RunContract

`open`, `ledger`, `waiting`, `seat`, `done` and nine actions. It allows any
order of service, any failure and any timing; it does not allow a seat used
twice, a chunk served twice, an article accepted with a chunk missing, or an
outcome revised. The mapping (`RunPipeline!Contract`) hides everything about
engines, attempts and tokens.

### TranslationMemory

An article of `NumChunks` chunks over `MaxRuns` runs. A text is what validation
will say of it (`defect`) and the renderings it uses (`ill`); a key is the
model, the chunk and the renderings the chunk was told, as `compute_key` hashes
the facts block. `Hit`, `Miss`, `Reply` (`Accept` or `Refuse`) and `Repair` are
the paths of `translate_chunk`; `Validate`, `Patch` and `PatchFails` are
`run_assembly_repair` with its re-caching, `Review` with the same two
`run_review_pass`, which re-caches under the review's model; `Rerun` may come at any point and
keeps the memory only. Sources are English (renderings are read off
`{{ill|...|lt=...}}` templates), the cache is on, and model, skill and verified
links are the same in every run.

### ArticleDelivery

A text is its set of flaws: `static` (found by `validator.py`), `live` (found by
the parse API when it answers), and two that no check finds: `footnote`, removed
by the sfn fixes, and `language`, a citation without `|language=`, which is
looked up on the network. `PostProcess` is what the fixes may make of a text:
each has its own `try`, the lookup may fail, the fixes that work on the text
alone are taken not to raise. The chunks' text is any text in each round;
`assembled` is the joined one, and the fixes change only that. `wiki` and
`reviewMd` may be `Missing`, `Torn` (opened for writing, not written) or written,
as both are rewritten in place; a snapshot is the set of chunks it shows as
done, written atomically, and so is the index. `index` is the findings of each
article's entry as `_load_index` reads them: `IndexSpoiled` is an edit by hand,
outside the program, after which it reads none and the next withheld article's
entry is the only one. `NextRun` may come at any point: a kill, an exception of
another article, or an orderly end whose cancelled tasks write their snapshot.
Review findings beyond the structural ones are the finding `remark`, which may
come and go. A round may repair any chunks: which ones a finding reaches is
`ArticleText`'s and `WikitextChecks`'. The run leaves out `language`, for the
size of its state space; the theorem `FixesSurviveRepair` has it.

### EngineClient, EngineReplies

HTTP clients are numbered as they are built, `conn` is `self._client`, `on` the
client a request was sent on. `Reset` makes the new client current at once and
closes the old one while others still use it; `CutOff` is what that does to
them. `ServerAnswers` and `Receive` are apart, so an answer may be billed and
come too late (`ConnectionFails`). A process keeps its executor thread when its
call is cancelled (`proc`, `AbandonedEnds`). `EngineReplies` has one operator per
kind of answer (`HttpVerdict`, `ClaudeVerdict`, `OpenCodeVerdict`) and one per
way of counting cost.

### VerifiedFacts

A question is a kind and a title; `Stages` is the order `verify_wikitext` asks
in, `Advance` goes through the stages the cache answers up to the next request,
because nothing is awaited on the way: it stops at the first stage that still
has something to fetch, with what was read on entering it (`Entered`). `AnswerBatch` and `ReadPage` are the
requests, `VerificationFails` the deadline and every exception, which leave the
article with no facts. Cache entries are written where the code writes them:
after the last batch of a stage. The answer `none` of `ReadPage` is a page
without links or parameters and a page that could not be read alike, as the
code caches `[]` for both. `WikiGrows` creates a page at any moment; pages
are not deleted.

### QueueRunner

`Claim`, one pipeline per claimed line, `FinishLine` and `Merge` on both paths
out of it. `GoesStale` lets a second machine claim a line that is still being
worked on; `FinishLine` may fail to push. `leftover` are machines whose event
loop still runs chunk tasks of an article that failed (`SpendLate`). `queue_lib`
is not in the repository: what is modelled of it is what this code relies on.

### The parts without state

A text in `ArticleText` is a sequence of letters (source texts: one letter per
token, of the kind of markup it is in; translated texts: newline or not), in
`WikitextChecks` a sequence of the delimiters the checks count, in
`CitationFixes` a sequence of template calls, in `RunSettings` a configuration
is a function from names to values and a layer lies over another (`Over`). What
the code does in a `for` over a list is a `Loop` with an operator for one turn
(`AddNode`, `AddParagraph`, `AddUnit`, `PackUnit`, `PackSection`, `AddPiece`,
`TakeToken`, `TakeEntry`, `TakeLine`, `AddRow`, `LeaveRow`, `KeepOnce`,
`KeepButPs`). What a title shows of its language and what a page declares
(`guess_language_from_title`, `detect_source_language`) are the operators
`Shows` and `Declares`, constants of `CitationFixes`: they answer a round of
fixes as they answered the one before. Each definition is the function of the same name;
their reference definitions (`CutsAreClean`, `WithinWindow`,
`JoinsByLine`, `FindingsArrive`, `ReviewArrives`, `TablesAreJudged`,
`FixesAreRight`, ...) say what is expected without following the code's way.

## 3. Runs

| Run | Shows |
|---|---|
| `run_concurrent` | two articles at once, two workers, a complex-routed chunk, automatic switch, limits: worker ids, lock, limits, outcomes; and every step is one `RunContract` allows |
| `run_liveness` | one worker, articles in turn: the run ends though engines hang and nobody answers; every waiting chunk is served without a timeout if calls return |
| `memory_shared` | three chunks, two sharing a title and a complex-routed one without, two workers, repair, a review by the main model, two runs |
| `delivery` | two articles, two runs, kills, `--force`, review on and off |
| `engine` | two calls at once, HTTP and command-line engines, hanging servers and processes, cancellation, a pool closed under them |
| `verified_facts` | two articles at once, then again, over one cache: lookups fail, hang or are killed while the wiki changes |
| `queue` | two machines, two lines: stale claims, lost reports, crashes, left-over tasks |
| `pure_parts` | chunking, joining, checks, routing of findings, citations, tables, settings, replies on every small input |

| Run that must fail | Shows |
|---|---|
| `complex_retry` | a complex-routed chunk retries on the engine that has just run out of credits |
| `run_aborts` | one article's review error ends the run for the articles after it |
| `invalid_hit` | assembly repair stores an unvalidated text that fails every later run |
| `fixes_undone` | a review round undoes the sfn fixes in the saved article |

The source lines and the statements they contradict are in `PROJECT.json`,
`findings`.

### Properties

`RunPipeline`: `SlotsConserved` (no id lost, shared or doubled on any path),
`OneSwitch`, `AssembledIsComplete`, `TimedOutIsQuiet`, `WithinLimits`,
`CreditsExcuse` (credits fail a chunk only if the switch could not help),
`OutcomesFinal`, `Implements`, `RunEnds`, `ChunkServed`.

`TranslationMemory`: `LaterChunksAreTold` (a rendering established before a chunk
began is in its facts), `FactsStayTrue` (it is never replaced by another),
`EstablishedIsAccepted` (only accepted texts establish one), `ProgressPersisted`
(what was paid for is stored under the key it was looked up with),
`TranslationsCachedValid` (outside the repairs of the assembled article only valid texts are stored),
`ReplayIsFree` (a chunk without unconfirmed titles is never paid for twice; nor
is any other, as long as the chunks of the article were done in order and none
was lost or patched).

`ArticleDelivery`: `ProgressOnDisk` (a kill at any point loses no work of the
run), `NothingShipsSilently` (a structural defect in a delivered article is
listed), `CleanWithoutReview`, `RecordsAgree` (over kills,
runs and articles recorded in turn, the index lists the articles that have a
`.review.md`, with the findings of that file; excepted are records being written
or cut short by a kill and entries lost with an index that did not parse),
`FinishedIsKept` (no run without `--force` touches a whole `.wiki`), `RunsSettle`.

`EngineClient`: `FreshClient` (a retry goes out on a client built after the one
it failed on, however many calls replace the shared one meanwhile),
`CutOnlyByOthers` (another call's reset costs a call at most one attempt),
`CallsEnd`.

`VerifiedFacts`: `ConfirmedExists` (what a prompt calls existing exists),
`DeliveredIsWhole` (an article has all of its facts or none, whatever earlier
lookups left in the cache and wherever they were cut short).

`QueueRunner`: `DoneMeansSaved`, `SpendAccounted` (what was paid for is in a
total, on success and on every failure; what left-over tasks spend later is
counted apart and in none).

`MCPureParts`: `ChunkingIsLossless` (every text once and in order, nothing
protected cut, sizes within the window), `JoiningIsFaithful` (a line is found at
the chunk it came from; texts that pass the checks and close what they open pass
them together), `FindingsAreRouted` (every finding reaches a chunk: one that can
be placed that one alone, a quotation the chunk where its words first begin, and
words of one line of a single chunk that chunk), `CitationsAreFixed` (below),
`TablesJudgedRight` (the width of a row is the number of squares its cells and
those above cover on a grid; equally wide rows are not reported, and of more
than two a single odd one is), `TiersHaveEngines` (every tier has a client of its provider,
and the main tier a model that provider knows), `RepliesAreJudged` (no printed block is lost, a
usage limit is not retried).

`CitationsAreFixed` has two parts. `Settles`: the fixes run again after every
repair round and are meant to be no-ops then (`pipeline.py:205`); as long as
every page that is needed can be asked (`max_citation_url_fetches`), one round
is enough if no citation whose language is left open hides its title under an
Albanian name, and two are in any case. `FixesAreRight`: footnotes written alike
show one quotation, none is wrapped twice, and no citation loses a value, has its
language replaced or a parameter hidden behind another of its name.

### Bounds, and why they are enough

* Two articles, three chunks, two ids: a competitor for every id, an article to
  outlive, and a sibling to leave behind. More articles add no new pair of
  actors. `Usage` has a normal and a runaway cost; the limits lie between them.
* One worker where waiting matters (`run_liveness`), two where overlap matters.
* `memory_shared` has a defect of each kind (one a repair helps against, one
  only assembly sees) spread over its chunks; two renderings are enough to
  disagree, and they are interchangeable (symmetry; no liveness is checked under
  it). The chunk without links is the one whose key never moves.
* Two runs: a rerun after a rerun repeats the state of a rerun. `MaxRuns`,
  `MaxEdits`, `MaxSpend` bound environments, not the code.
* In `delivery` one article has a fixable and a static flaw and two chunks (so
  one task can outlive the other), the other a live flaw; one repair and one
  review round separate "round" from "cap reached".
* `engine`: two calls are the one that resets and the one it hits; two retries
  let a call be hit and reset; one thread makes the executor full.
* `verified_facts`: `BatchSize` 1, so that a stage takes several requests;
  titles that share a canonical form, a redirect and an infobox; one edit.
* `queue`: two machines that may hold the same line; each may process two.
* `pure_parts`: each part has its own length (`Lengths`), 2 to 6 elements, long
  enough for a piece on each side of each threshold and for a neighbour on each
  side of that; the thresholds are scaled down to it.
* `CHECK_DEADLOCK FALSE` everywhere: runs, calls and inputs end.

### Fairness

`RunPipeline` is specified without fairness, and each liveness property names
what it assumes. `ArticlesAdvance`: the timer of `wait_for` fires, and the code
after the chunks is bounded by round caps and request timeouts; nothing about
engines or the operator. `ChunksAdvance`: `asyncio.Queue` and `asyncio.Lock`
serve their waiters in order, clients bound their calls, the operator answers.
`ArticleDelivery` has weak fairness of each article's steps for the first reason;
`NextRun`, the kill, has none. `EngineClient` has weak fairness of `Goes(c)`: a
request ends by its hard timeout, closing by its five seconds, a process by
`subprocess.run`'s timeout. Servers that never answer are allowed: `ServerAnswers`
has no fairness. The other modules state none.

## 4. Proofs

For every number of articles, chunks, workers, calls, machines and runs, and
every configuration the assumptions of the modules admit. The assumptions:
`RunPipeline` an article for each chunk, limits that are natural numbers,
markers that are no ids; `TranslationMemory` and `ArticleDelivery` natural
bounds and markers that are no renderings or texts, the former also a review
model if chunks are routed to a complex one (`config.py:138-144`); `EngineClient` a natural
retry budget and at least one thread; `QueueRunner` natural bounds; `ArticleText`
integer thresholds (`WindowAssumption`); `RunSettings` that `None` is no
provider's name and no address (`UnsetAssumption`); `CitationFixes` an integer
number of pages to ask (`FetchesAssumption`) and that no Albanian name has two
translations or is one (`TableAssumption`, a fact about the constant table of
the code, which TLC evaluates); `VerifiedFacts` links,
templates and canonical forms that are titles, and requests of at least one
title (`PlanningAssumption`). `EveryTierIsServed` has hypotheses of its own:
addresses in the settings are the provider's or the user's, and the environment
sets keys and the contact only (`IsLayer`, `EnvironmentNames`;
`config.py:66-81`).

| Theorem | Inductive invariant and why it is needed |
|---|---|
| `TypeCorrect`, `SlotsAreConserved` | `SlotInv == TypeOK /\ SlotsConserved /\ PlannedIsIdle`: starting an article must not reset a task that holds an id, so a planned article has only idle tasks |
| `SwitchIsExclusive` | `OneSwitch` relative to `SlotInv` |
| `AssembledAreComplete` | `AssemblyInv == OverIsGood /\ AssembledIsComplete`: a task that is over without `failed` or `raised` of its article set left a translated, valid chunk |
| `LimitsHold` | with `LimitsReported`: tokens beyond the limit are never without a raised exception |
| `CreditsAreExcused` | with `CreditInv`: what `via` and `fb` may be in each state of the task inside the lock |
| `TimeoutsAreQuiet`, `OutcomesAreFinal` | relative to `SlotInv` |
| `RunKeepsItsContract` | `Spec => Implements`: each action maps to a contract action or a stutter, under `ContractInv == UnfinishedIsInvalid /\ ClosedForAReason` |
| `MemoryTypeCorrect`, `StoredIsValid` | `TypeOK`; entries change only where a valid text or a patch is stored |
| `EstablishedByAccepted`, `FactsAreKept`, `LaterChunksTold` | `RelayInv`: a chunk that is done has its renderings recorded (`DoneIsRecorded`), what a chunk counts as earlier is done, and replies are awaited only while the article is translated (`Flying`) |
| `PaidIsPersisted` | `PersistInv`: an accepted text is in the memory under the key its chunk was looked up with (`Stored`) |
| `ReplayCostsNothing` | `ReplayInv`: as long as every chunk was done in order, each chunk has one key over all runs (`Remembered`), its renderings are the first of those its forerunners use, and what is done in this run is a prefix of the article (`InOrder`); a chunk without links needs none of this (`PlainIsStored`) |
| `DeliveryTypeCorrect` | `TypeOK` with the domains of the text functions |
| `WorkIsOnDisk` | `ProgressInv`: a delivered file is what was assembled (`WrittenAsAssembled`), so a step that disturbs the snapshot finds the work in the file |
| `DefectsAreListed`, `FixesSurviveRepair` | `Validated`: inside the loops `found` has what the last validation saw of the text; past them the flags file has it, or the text is clean |
| `RecordsStayInStep` | `RecordsInv`: `RecordsAgree`, and an article whose index entry is about to be written (`withholding`) has this run's findings in its file, so the entry matches it; a record left before that is one a kill cut short |
| `FinishedStaysWhole` | `KeptInv`: without `--force` only articles without a file are worked on |
| `RetriesAreFresh`, `CutsAreBounded`, `EngineTypeCorrect` | a call that is not over has attempts left (`AttemptsLeft`); a call's cuts and resets together stay below the number of the client it is on, because being cut off means that there is a newer one and a reset makes one (`Budget`) |
| `SpendIsAccounted`, `DoneLinesAreSaved` | `SpendAccounted` is inductive with its types; `CompletedIsSaved`: the article counted as completed is saved on the engine now in force, and only an article not completed may switch engines |
| `FactsInvariant`, `FactsAreConfirmed`, `FactsAreWhole` | `IInv`: the cache outlives the lookup that filled it, so it must say of every title what the answers in hand say (`True`); an article at a stage has answered the stages before it (`Complete`), and what it is asked next depends on answers of earlier stages only (`EarlierStagesDecide`), so later answers open no hole; pages are only ever added, so what was true stays true |

Of the parts without state, for inputs of every length:

| Theorem | Argument |
|---|---|
| `ChunksAreTheText`, `InputChunksAreTheText` | nodes, paragraphs, units and chunks keep the joined text; while units are packed (`Packed`), the chunks and what is pending are the text so far, the cuts between them are cuts the nodes allow, and each chunk is within the window or has a piece that is never cut |
| `JoinsStayValid` | a text that closes what it opens is one the loop over tokens and the template parser pass through and leave as they entered (`ClosesItself`), so each count over the whole is the sum of the counts over the pieces; what is put between two pieces is a newline, which closes and opens nothing and only lets a heading begin its line |
| `PiecesKeepTheirLines` | invariant of the join (`Whole`): each piece stands in the text at its place (`Placed`), every letter but the added newlines is a piece's, and the span recorded for a piece is that of its lines; then what separates two neighbours that say something has a newline in it |
| `InputJoinsAreFaithful` | both, of the inputs the run enumerates |
| `EveryFindingArrives` | by cases on how a finding can be placed: line, reference name, not at all |
| `EveryQuoteArrives` | a letter of a chunk is on a line of its span and of no other's (`LetterIsFound`), because between the letters of two chunks there is a newline (`ChunksApart`); the quotation stripped of white space begins with a letter, so it is found where that is. The hypothesis `EmptiesFollowLines` says that an empty chunk comes after a line end: nothing is put between it and its neighbours (section 5) |
| `InputFindingsAreRouted` | both, of the inputs the run enumerates |
| `EveryTierIsServed`, `InputTiersAreServed` | by layers: whatever gives the provider, the model is given beside it or above it, or is the provider's own; the pool has each provider a tier resolves to |
| `EveryRunIsJudged`, `InputRepliesAreJudged` | by cases on how a process ends |
| `EveryTableIsJudged`, `InputTablesAreJudged` | `Squared`, an invariant of the loop over rows: after row k what is carried on are the cells of the rows so far that reach row k + 1, each shorter by a row for each it was carried past, and the widths so far are those of the grid. Squares of different cells differ, so the squares of a row are as many as the columns of its cells and of what is carried on. Then the width expected of a table whose rows but one are alike is theirs, the first row's or the most frequent one |
| `EveryCitationIsFixed`, `InputCitationsAreFixed` | fix by fix, then together. Setting a parameter or removing it is a loop (`KeepOnce`, `KeepButPs`) whose result has the name once, or not, and everything else in its order (`SaidAfter`). Correcting names is a no-op where it was done: a name corrected is no Albanian one, and an Albanian one is left only where its translation stands beside it. Correcting names never takes a language, a page or a title away, so that a citation asked for its language once is asked the same in the next round unless its title comes to light in between; what was given then is given. Reconciling footnotes changes no identity, so the first footnote of an identity stays the first and keeps its quotation |

The provers know no induction over lists and cannot be given an operator. The
way round it is `LoopLaws`: it proves for a constant operator `Op` that a loop
over nothing ends where it starts and over one more element takes one more turn,
from the well-founded order of the numbers (`AllNumbers`), and a proof about a
particular loop instantiates it with the loop's turn (`JoinLaws`, `UnitLaws`,
...). `AllSequences` then turns a set of lists that has the empty one and is
closed under one more element into all lists. An invariant of a loop is proved
like one of a specification: it holds at the start, and each turn keeps it.

Steps on a chunk, an article or a call are first shown to be local, and helpers
that occur in several actions (releasing an id, recording a rendering, ending a
stage, failing an attempt) are lemmas, so that the case split over the actions
is short.

Only model-checked: liveness (`RunEnds`, `ChunkServed`, `RunsSettle`,
`CallsEnd`; out of the prover's reach). Every other property of a passing run is
stated by a theorem.

## 5. Seen and not run as a property

Runs and articles:

* A task whose article failed by an exception in `gather` (`pipeline.py:904`)
  lives on into the next article; its worker id comes back only when it ends,
  and what it spends is in no total (`queue_runner.py:96` speaks of "real
  spend"). `models.py:345` "bounds the blast radius" of one article only.
* An article that raises after it was saved is reported FAILED.
* Each article of a queue starts on the configured engine again and meets the
  exhausted account again.
* No credits in a repair or review round is logged like any failed repair: no
  switch is tried and the round is lost (`pipeline.py:390`).
* `max_article_tokens` counts chunk translations only (`pipeline.py:872`).
* The comment at `pipeline.py:708` promises a single prompt; a prompt that is
  cancelled or fails settles nothing, and the next chunk asks again.

Memory and facts:

* After a partial failure a rerun can pay again for chunks it had
  (`translator.py:54`; `README.md:145`): what a chunk is told, and so its key,
  depends on which chunks were done before it. `ReplayIsFree` has the condition.
* The re-caching key of assembly repair is computed from facts and model that
  have moved on, so the entry its comment wants overwritten
  (`pipeline.py:379-383`) may stay beside the new one. The review re-caches in
  the same way (`pipeline.py:528-541`), under its own model: where that is not
  the model a chunk is translated with, no run looks the entry up.
* A rerun with `--force` takes its chunks from the memory, while `README.md`
  says it translates "again from scratch".
* Titles are looked up twice, against `cache.py:138-139`, by articles planned at
  once, when a lookup ends before its batch is written, and when Wikidata
  answers under another title. An older "not there" may overwrite a newer
  answer. Nothing expires, and a page that could not be read for a moment is
  cached as having no links or parameters, like one that has none
  (`verification.py:393`, `:456`): no later run asks again.

Files:

* A kill inside `write_text` (`output.py:73`) leaves a truncated `.wiki`, and
  `article_already_done` asks only whether it exists: every later run skips it.
  The model has the state (stage `skipped` with `wiki` torn).
* A kill inside the rewrite of a `.review.md` (`review_queue.py:95`), in a run
  over an article withheld before, leaves the index entry without findings in
  its file until the article is withheld again; if it is saved by then, for good.
* An index edited into something that is not a list is replaced by the entry of
  the next withheld article, without a warning (`review_queue.py:50-54`).
* An article that is saved after having been withheld keeps its entry in
  `needs_human_review.json`, and flags of an earlier review stay beside a clean
  one: nothing removes either (`review_queue.py`).
* The skip looks for the title as asked, the save uses MediaWiki's, and
  `sanitize_filename` gives two titles one file (`pipeline.py:659`).

Texts:

* A heading or a short text before an oversized section is still shipped alone,
  which the comment at `parser.py:211` wants to avoid.
* An empty chunk between two texts lets them run into each other
  (`output.py:44-49`); engines accept empty replies. The two then share a line,
  and a finding on it goes to the first of them: `EveryQuoteArrives` is without
  the hypothesis about empty chunks not true.
* Texts that pass validation one by one need not pass it together. A verbatim
  tag that one chunk leaves open is closed by the next one's (`validator.py:41`),
  and hides what is between from the counts; a stray `}}` before a stray `{{`
  balances each for itself (`validator.py:83`), and joined the parser takes
  what lies between two chunks for a template and masks a table's end. The
  assembly check reports such an article, without a line, so every chunk is
  asked to repair it.
* A fix that removes a line shifts the lines findings are placed by against the
  spans of the chunks (`pipeline.py:296`), and a review finding about the second
  place its words occur at goes to the first.
* A review reply without a readable array counts as a clean review
  (`review.py:129-132`).
* A citation's language is filled before its parameter names are corrected, so
  `|gjuha=` gets a guessed `language=` beside it. Footnotes are reconciled
  across kinds of template, to the first occurrence.
* Languages are filled before names are corrected, so a citation whose title
  stands under `titulli` is not seen to have one. It gets its language in the
  next round, if there is one: the fixes are not the no-op on fixed input that
  `pipeline.py:205` says, and `Settles` has the condition. A
  doubly wrapped footnote, which the model does not have, needs two rounds as
  well. A page that could not
  be asked within `max_citation_url_fetches` is asked in a later round, and each
  of those changes the article again. The model takes titles and pages to
  answer the same each time; the detector of a title's language is not seeded.
* Table rows before the first `|-` are ignored, `||` in header lines is not
  split, and a doubled `|-` is an empty row. `rowspan="0"`, which in HTML
  reaches to the end of the table, counts as one row.

Engines and settings:

* Resets of two other calls can use up a call's attempts (`openrouter.py:81`); a
  reset after the pool was closed builds a client nobody closes; the pool's
  closing stops at the first client that fails to close.
* A choice without content makes `run_completion` raise an `AttributeError`.
* `--base-url` goes to the setting of the `--provider` flag, not of the provider
  in force (`cli.py:89`); models of the complex and review tiers follow the
  provider without one of their own (`config.py:83-89`); only the main
  provider's key is asked for.

## 6. Not modelled, and what is left

Not modelled: wording of prompts, reports and logs; building HTTP requests and
parsing JSON (a call has outcomes); the letter-by-letter part of regular
expressions and the compression test for repetition; language detection of
titles and pages (an input); the display, which feeds nothing back; input lists
(`sources.py`), which are parsed before a run begins and keep nothing; benchmark
and judge, a separate command that runs models one after the other, each with a
semaphore around `translate_chunk`, and shares only the translation memory; the
queue's own library, which is not in the repository. `PROJECT.json` has the
status of each component and, under `hazards`, each place in the code that is
hard to test, with the properties that cover it or the reason why none does.

Left for later, in this order: titles as asked and as answered as
two names in `ArticleDelivery`; credits that run out during repair; deletions
and expiry in `VerifiedFacts`, and its keys composed with those of
`TranslationMemory`; a contract of the memory (`TranslationMemory` as a function
from requests to texts) and the refinement that shows it.
