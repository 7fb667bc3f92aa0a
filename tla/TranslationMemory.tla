------------------------- MODULE TranslationMemory -------------------------
(***************************************************************************)
(* The translations of one article over several runs: translator.py's      *)
(* translate_chunk, the SQLite translation memory behind it (cache.py),    *)
(* the renderings that chunks of an article relay to each other            *)
(* (VerifiedFacts.established_renderings) and the re-caching done by the   *)
(* repair loops of assembly and review (pipeline.py).                      *)
(*                                                                         *)
(* A chunk is looked up under a key that hashes what it would be told, and *)
(* what it is told depends on which chunks finished before it began.  The  *)
(* memory outlives a run; the renderings do not.                           *)
(*                                                                         *)
(* Chunks are numbered in article order, the order in which asyncio serves *)
(* their tasks when a worker is free.  Model, language pair, skill and the *)
(* verified links are the same in every run.                               *)
(***************************************************************************)
EXTENDS Naturals, FiniteSets

CONSTANTS
  NumChunks,    \* length of the article's list of chunks
  Titles,       \* source titles without an article on the target wiki
  Links,        \* the titles each chunk links to
  Renderings,   \* display texts a model may choose for a title
  NoRendering,  \* "no {{ill}} for this title"
  Complex,      \* the chunks routed to config.complex_model
  Workers,      \* config.workers
  Defects,      \* what may be wrong with a chunk's replies, see Texts
  MaxRepairs,   \* config.max_repair_attempts
  MaxRounds,    \* config.max_assembly_repair_rounds
  ReviewModel,  \* resolve_review_model: "none", or the model reviews go to
  MaxReviews,   \* config.review_max_repair_attempts
  MaxRuns       \* bound: how often the program is run

Chunks == 1..NumChunks

ASSUME ArticleAssumption ==
  /\ NumChunks \in Nat
  /\ Links \in [Chunks -> SUBSET Titles]
  /\ Complex \subseteq Chunks
  /\ NoRendering \notin Renderings
  \* a review model inherits complex_model
  /\ ReviewModel \in {"none", "main", "complex", "other"}
  /\ ReviewModel = "none" => Complex = {}

ASSUME BoundsAssumption ==
  /\ Workers \in Nat \ {0}
  /\ MaxRepairs \in Nat
  /\ MaxRounds \in Nat
  /\ MaxReviews \in Nat
  /\ MaxRuns \in Nat \ {0}
  /\ Defects \in [Chunks -> SUBSET {"none", "chunk", "whole"}]

\* A reply: what validation will say of it ("chunk": invalid by itself,
\* "whole": only the assembled article shows the defect) and the {{ill}}
\* renderings it uses.
Texts(c) ==
  [defect : Defects[c], ill : [Links[c] -> Renderings \cup {NoRendering}]]

Facts(c) == [Links[c] -> Renderings \cup {NoRendering}]

Models == {"main", "complex", ReviewModel}

\* compute_key: the model, the chunk's source text and its facts.
Keys == UNION {[model : Models, chunk : {c}, facts : Facts(c)] :
                 c \in Chunks}

VARIABLES
  runs,         \* how many runs were started
  phase,        \* of the article: see TypeOK
  inFlight,     \* chunks whose translate_chunk awaits a reply
  status,       \* Chunk.status
  text,         \* Chunk.translated_text, of the chunks that have one
  repairs,      \* repair_attempts
  told,         \* the renderings in the facts block of the chunk's request
  established,  \* VerifiedFacts.established_renderings
  failed,       \* article_stats["failed"]
  rounds,       \* rounds_used of the repair loop the article is in
  todo,         \* chunks this round still has to repair
  cache,        \* the table `translations`
  earlier,      \* the chunks done when each chunk began (history)
  paid,         \* chunks whose accepted translation was paid for (history)
  patched,      \* keys last written by one of these loops (history)
  smooth        \* no chunk was lost, patched or begun beside another (history)

partVars == <<status, text, repairs, told, inFlight, established, failed>>
asmVars  == <<rounds, todo>>
history  == <<earlier, paid, patched, smooth>>
vars == <<runs, phase, partVars, asmVars, cache, history>>

Done == {"TRANSLATED", "REPAIRED", "CACHED"}

TypeOK ==
  /\ runs \in 1..MaxRuns
  /\ phase \in {"translate", "assembly", "review", "failed", "withheld", "saved"}
  /\ inFlight \in SUBSET Chunks
  /\ status \in [Chunks -> Done \cup {"PENDING", "FAILED"}]
  /\ DOMAIN text \subseteq Chunks /\ \A c \in DOMAIN text : text[c] \in Texts(c)
  /\ repairs \in [Chunks -> 0..MaxRepairs]
  /\ DOMAIN told = Chunks /\ \A c \in Chunks : told[c] \in Facts(c)
  /\ established \in [Titles -> Renderings \cup {NoRendering}]
  /\ failed \in BOOLEAN
  /\ rounds \in 0..(IF phase \in {"review", "saved"} THEN MaxReviews ELSE MaxRounds)
  /\ todo \in SUBSET Chunks
  /\ DOMAIN cache \subseteq Keys /\ \A k \in DOMAIN cache : cache[k] \in Texts(k.chunk)
  /\ earlier \in [Chunks -> SUBSET Chunks]
  /\ paid \in SUBSET Chunks
  /\ patched \in SUBSET Keys
  /\ smooth \in BOOLEAN

AllPending  == [c \in Chunks |-> "PENDING"]
NoTexts     == [c \in {} |-> c]
ToldNothing == [c \in Chunks |-> [t \in Links[c] |-> NoRendering]]

Init ==
  /\ runs = 1
  /\ phase = "translate"
  /\ inFlight = {}
  /\ status = AllPending
  /\ text = NoTexts
  /\ repairs = [c \in Chunks |-> 0]
  /\ told = ToldNothing
  /\ established = [t \in Titles |-> NoRendering]
  /\ failed = FALSE
  /\ rounds = 0
  /\ todo = {}
  /\ earlier = [c \in Chunks |-> {}]
  /\ cache = [k \in {} |-> k]
  /\ paid = {}
  /\ patched = {}
  /\ smooth = TRUE

-----------------------------------------------------------------------------
\* f with x mapped to y.
Put(f, x, y) == [z \in DOMAIN f \cup {x} |-> IF z = x THEN y ELSE f[z]]

\* The part of the facts block that changes during a run.
FactsOf(c) == [t \in Links[c] |-> established[t]]

Key(model, c, facts) == [model |-> model, chunk |-> c, facts |-> facts]

\* The model translate_chunk uses for a chunk.
EffectiveModel(c) == IF c \in Complex THEN "complex" ELSE "main"

KeyFor(c) == Key(EffectiveModel(c), c, FactsOf(c))

\* Mutant of Record: the last rendering wins.
RecordLast(c, x) ==
  established' = [t \in Titles |->
    IF t \in Links[c] /\ x.ill[t] # NoRendering THEN x.ill[t] ELSE established[t]]

\* record_established_renderings: the first rendering of a title stays.
Record(c, x) ==
  established' = [t \in Titles |->
    IF established[t] = NoRendering /\ t \in Links[c] THEN x.ill[t] ELSE established[t]]

-----------------------------------------------------------------------------
(* translate_chunk                                                         *)

\* A free worker serves the chunk tasks in article order.
CanBegin(c) ==
  /\ phase = "translate"
  /\ status[c] = "PENDING" /\ c \notin inFlight
  /\ \A d \in Chunks : d < c => d \in inFlight \/ status[d] # "PENDING"
  /\ Cardinality(inFlight) < Workers

\* The facts block is built and the key computed from it.
Ask(c) ==
  /\ told' = [told EXCEPT ![c] = FactsOf(c)]
  /\ earlier' = [earlier EXCEPT ![c] = {d \in Chunks : status[d] \in Done}]

\* Mutant of Hit: the renderings of a cached text are not recorded.
HitUnrecorded(c) ==
  /\ CanBegin(c)
  /\ KeyFor(c) \in DOMAIN cache
  /\ Ask(c)
  /\ LET x == cache[KeyFor(c)]
     IN /\ text' = Put(text, c, x)
        /\ failed' = (failed \/ x.defect = "chunk")
  /\ status' = [status EXCEPT ![c] = "CACHED"]
  /\ smooth' = (smooth /\ inFlight = {})
  /\ UNCHANGED <<runs, phase, inFlight, established, repairs, asmVars, cache,
                 paid, patched>>

\* The key is in the memory: its text is taken whatever validation says of
\* it, and an invalid one fails the article.  Nothing is awaited.
Hit(c) ==
  /\ CanBegin(c)
  /\ KeyFor(c) \in DOMAIN cache
  /\ Ask(c)
  /\ LET x == cache[KeyFor(c)]
     IN /\ text' = Put(text, c, x)
        /\ Record(c, x)
        /\ failed' = (failed \/ x.defect = "chunk")
  /\ status' = [status EXCEPT ![c] = "CACHED"]
  /\ smooth' = (smooth /\ inFlight = {})
  /\ UNCHANGED <<runs, phase, inFlight, repairs, asmVars, cache, paid, patched>>

Miss(c) ==
  /\ CanBegin(c)
  /\ KeyFor(c) \notin DOMAIN cache
  /\ Ask(c)
  /\ inFlight' = inFlight \cup {c}
  /\ smooth' = (smooth /\ inFlight = {})
  /\ UNCHANGED <<runs, phase, status, text, repairs, established, failed,
                 asmVars, cache, paid, patched>>

\* Mutant of Accept: the key is computed again when the reply is stored.
AcceptRehashed(c, x) ==
  /\ x.defect # "chunk"
  /\ status' = [status EXCEPT ![c] = IF repairs[c] > 0 THEN "REPAIRED" ELSE "TRANSLATED"]
  /\ Record(c, x)
  /\ LET k == Key(EffectiveModel(c), c, [t \in Links[c] |-> established'[t]])
     IN cache' = Put(cache, k, x) /\ patched' = patched \ {k}
  /\ paid' = paid \cup {c}
  /\ UNCHANGED <<failed, smooth>>

\* Mutant of Accept: a complex chunk is stored under the main model.
AcceptUnderMain(c, x) ==
  /\ x.defect # "chunk"
  /\ status' = [status EXCEPT ![c] = IF repairs[c] > 0 THEN "REPAIRED" ELSE "TRANSLATED"]
  /\ Record(c, x)
  /\ LET k == Key("main", c, told[c])
     IN cache' = Put(cache, k, x) /\ patched' = patched \ {k}
  /\ paid' = paid \cup {c}
  /\ UNCHANGED <<failed, smooth>>

\* The reply (or its repair) is valid: it is recorded, and stored under the
\* key computed before the call.
Accept(c, x) ==
  /\ x.defect # "chunk"
  /\ status' = [status EXCEPT ![c] = IF repairs[c] > 0 THEN "REPAIRED" ELSE "TRANSLATED"]
  /\ Record(c, x)
  /\ LET k == Key(EffectiveModel(c), c, told[c])
     IN cache' = Put(cache, k, x) /\ patched' = patched \ {k}
  /\ paid' = paid \cup {c}
  /\ UNCHANGED <<failed, smooth>>

\* Mutant of Refuse: a failed translation is recorded and cached as well.
RefuseButCache(c, x) ==
  /\ x.defect = "chunk" /\ repairs[c] = MaxRepairs
  /\ status' = [status EXCEPT ![c] = "FAILED"]
  /\ Record(c, x)
  /\ cache' = Put(cache, Key(EffectiveModel(c), c, told[c]), x)
  /\ failed' = TRUE /\ smooth' = FALSE
  /\ UNCHANGED <<paid, patched>>

\* Still invalid after the last repair attempt: not recorded, not cached.
Refuse(c, x) ==
  /\ x.defect = "chunk" /\ repairs[c] = MaxRepairs
  /\ status' = [status EXCEPT ![c] = "FAILED"]
  /\ failed' = TRUE /\ smooth' = FALSE
  /\ UNCHANGED <<established, cache, paid, patched>>

Reply(c) ==
  /\ c \in inFlight
  /\ \E x \in Texts(c) :
       /\ text' = Put(text, c, x)
       /\ Accept(c, x) \/ Refuse(c, x)
  /\ inFlight' = inFlight \ {c}
  /\ UNCHANGED <<runs, phase, repairs, told, asmVars, earlier>>

\* Mutant of Repair: the number of attempts is not bounded.
RepairForever(c) ==
  /\ c \in inFlight
  /\ "chunk" \in Defects[c]
  /\ repairs[c] <= MaxRepairs
  /\ repairs' = [repairs EXCEPT ![c] = @ + 1]
  /\ UNCHANGED <<runs, phase, status, text, told, inFlight, established,
                 failed, asmVars, cache, history>>

\* The reply is invalid and may be repaired: the next call is awaited.
Repair(c) ==
  /\ c \in inFlight
  /\ "chunk" \in Defects[c]
  /\ repairs[c] < MaxRepairs
  /\ repairs' = [repairs EXCEPT ![c] = @ + 1]
  /\ UNCHANGED <<runs, phase, status, text, told, inFlight, established,
                 failed, asmVars, cache, history>>

\* The engine gives up: the chunk is lost, with whatever it had paid for.
CallFails(c) ==
  /\ c \in inFlight
  /\ inFlight' = inFlight \ {c}
  /\ status' = [status EXCEPT ![c] = "FAILED"]
  /\ failed' = TRUE
  /\ smooth' = FALSE
  /\ UNCHANGED <<runs, phase, text, repairs, told, established, asmVars,
                 cache, earlier, paid, patched>>

-----------------------------------------------------------------------------
(* The article                                                             *)

\* Every chunk task is over.
EndChunks ==
  /\ phase = "translate"
  /\ inFlight = {}
  /\ \A c \in Chunks : status[c] # "PENDING"
  /\ phase' = IF failed THEN "failed" ELSE "assembly"
  /\ UNCHANGED <<runs, partVars, asmVars, cache, history>>

\* The article times out: its tasks are cancelled where they wait.
TimeOut ==
  /\ phase = "translate"
  /\ inFlight # {}
  /\ phase' = "failed"
  /\ inFlight' = {}
  /\ status' = [c \in Chunks |-> IF status[c] = "PENDING" THEN "FAILED" ELSE status[c]]
  /\ failed' = TRUE
  /\ UNCHANGED <<runs, text, repairs, told, established, asmVars, cache, history>>

Broken == {c \in Chunks : text[c].defect # "none"}

\* The assembled article is validated: it goes on to its review, if there is
\* one, or a round starts for the chunks its issues are traced to (their own,
\* one that mentions the ref, or all), or it is withheld.
Validate ==
  /\ phase = "assembly"
  /\ todo = {}
  /\ \/ /\ Broken = {}
        /\ phase' = IF ReviewModel = "none" THEN "saved" ELSE "review"
        /\ rounds' = 0
        /\ UNCHANGED todo
     \/ /\ Broken # {} /\ rounds < MaxRounds
        /\ rounds' = rounds + 1
        /\ \E S \in {Broken, Chunks} \cup {{c} : c \in Chunks} : todo' = S
        /\ UNCHANGED phase
     \/ /\ Broken # {} /\ rounds = MaxRounds
        /\ phase' = "withheld"
        /\ UNCHANGED asmVars
  /\ UNCHANGED <<runs, partVars, cache, history>>

\* A round of the review: its findings, which are a model's, and the defects
\* that validation sees are traced to some chunks.  The article is saved when
\* nothing is found, and after the last round whatever is.
Review ==
  /\ phase = "review"
  /\ todo = {}
  /\ \/ /\ Broken = {} \/ rounds = MaxReviews
        /\ phase' = "saved"
        /\ UNCHANGED asmVars
     \/ /\ rounds < MaxReviews
        /\ rounds' = rounds + 1
        /\ todo' \in (SUBSET Chunks) \ {{}}
        /\ UNCHANGED phase
  /\ UNCHANGED <<runs, partVars, cache, history>>

NextToPatch(c) ==
  /\ phase \in {"assembly", "review"}
  /\ c \in todo
  /\ \A d \in todo : c <= d
  /\ todo' = todo \ {c}

\* The model a repaired chunk is stored under: not the one it is looked up
\* with.
PatchModel == IF phase = "review" THEN ReviewModel ELSE "main"

\* A repair of the assembled article rewrites a chunk: the reply is stored
\* as it is, under the facts the chunk would be told now.
Patch(c) ==
  /\ NextToPatch(c)
  /\ \E x \in Texts(c) :
       /\ text' = Put(text, c, x)
       /\ LET k == Key(PatchModel, c, FactsOf(c))
          IN cache' = Put(cache, k, x) /\ patched' = patched \cup {k}
  /\ smooth' = FALSE
  /\ UNCHANGED <<runs, phase, status, repairs, told, inFlight, established,
                 failed, rounds, earlier, paid>>

\* The repair call raises: logged, the chunk stays as it is.
PatchFails(c) ==
  /\ NextToPatch(c)
  /\ UNCHANGED <<runs, phase, partVars, rounds, cache, history>>

\* The program is killed, or has ended, and is run again (for an article it
\* has saved, with --force).  Only the cache is kept.
Rerun ==
  /\ runs < MaxRuns
  /\ runs' = runs + 1
  /\ phase' = "translate"
  /\ inFlight' = {}
  /\ status' = AllPending
  /\ text' = NoTexts
  /\ repairs' = [c \in Chunks |-> 0]
  /\ told' = ToldNothing
  /\ established' = [t \in Titles |-> NoRendering]
  /\ failed' = FALSE
  /\ rounds' = 0
  /\ todo' = {}
  /\ earlier' = [c \in Chunks |-> {}]
  /\ UNCHANGED <<cache, paid, patched, smooth>>

ChunkStep(c) == Hit(c) \/ Miss(c) \/ Reply(c) \/ Repair(c) \/ CallFails(c)

ArticleStep ==
  \/ EndChunks \/ TimeOut \/ Validate \/ Review
  \/ \E c \in Chunks : Patch(c) \/ PatchFails(c)

Next ==
  \/ \E c \in Chunks : ChunkStep(c)
  \/ ArticleStep
  \/ Rerun

Spec == Init /\ [][Next]_vars

-----------------------------------------------------------------------------
(* Safety                                                                  *)

\* VerifiedFacts: every later chunk is told.  A chunk that links to a title
\* which a chunk already done when it began has rendered is told a rendering
\* of it, whether that other chunk was translated, repaired or cached.
LaterChunksAreTold ==
  phase = "translate" =>
    \A c \in Chunks : \A d \in earlier[c] : \A t \in Links[c] \cap Links[d] :
      text[d].ill[t] # NoRendering => told[c][t] # NoRendering

\* What a chunk was told to reuse is never taken back: two chunks of a run
\* are never told different renderings of one title.
FactsStayTrue ==
  \A c \in Chunks : \A t \in Links[c] :
    told[c][t] # NoRendering => told[c][t] = established[t]

\* Only a text the article uses decides a rendering: an invalid reply, or
\* one that was repaired since, does not.
EstablishedIsAccepted ==
  phase = "translate" =>
    \A t \in Titles : established[t] # NoRendering =>
      \E c \in Chunks : /\ status[c] \in Done
                       /\ t \in Links[c]
                       /\ text[c].ill[t] = established[t]

\* A translation that was paid for is in the memory, under the facts it was
\* made with, before anything else happens: a run killed at any point, or
\* an article that failed for another chunk, has kept it.
ProgressPersisted ==
  phase \in {"translate", "failed"} =>
    \A c \in Chunks : status[c] \in {"TRANSLATED", "REPAIRED"} =>
      LET k == Key(EffectiveModel(c), c, told[c])
      IN k \in DOMAIN cache /\ cache[k] = text[c]

\* test_translator.py: a failed translation is not cached.  What
\* translate_chunk stored is valid, whatever was stored before.
TranslationsCachedValid ==
  \A k \in DOMAIN cache \ patched : cache[k].defect # "chunk"

\* README, "if a run stops halfway": a chunk paid for in an earlier run is
\* not paid for again if it links to no unconfirmed title, or if the chunks
\* were done one after the other and none was lost or patched so far.
ReplayIsFree == \A c \in inFlight \cap paid : Links[c] # {} /\ ~smooth

-----------------------------------------------------------------------------
(* What the documentation says and the code does not do                    *)

\* test_translator.py: a failed translation must not be cached, so a rerun
\* retries it.  A text found in the cache is valid.
HitsAreValid ==
  phase = "translate" =>
    \A c \in Chunks : status[c] = "CACHED" => text[c].defect # "chunk"

=============================================================================
