-------------------------- MODULE ArticleDelivery --------------------------
(***************************************************************************)
(* What reaches the disk: the way of each article from its chunks through  *)
(* assembly repair and the semantic review into output_dir, over several   *)
(* runs of the program, each of which may be killed between any two steps  *)
(* (pipeline.py's process_article, run_assembly_repair, run_review_pass;   *)
(* output.py; review_queue.py).                                            *)
(*                                                                         *)
(* The articles of a run interleave freely, as with sequential: false; one *)
(* at a time is a special case.  A text is the set of flaws it has.  How a *)
(* chunk gets its translation is RunPipeline's and TranslationMemory's     *)
(* matter: here a chunk ends well or badly.                                *)
(***************************************************************************)
EXTENDS Naturals

CONSTANTS
  Articles,         \* the articles every run asks for
  Chunks,           \* per article, its chunks
  Flaws,            \* per article, the flaws a model may leave in its text
  MaxRounds,        \* config.max_assembly_repair_rounds
  MaxReviewRounds,  \* config.review_max_repair_attempts
  MaxRuns,          \* bound: how often the program is run
  Missing,          \* "no such file", or no entry in the index
  Torn              \* a file opened for writing and not written

\* "static": found by validator.py; "live": found by the parse API when it
\* answers.  Found by no check: "footnote", removed by the sfn fixes, and
\* "language", a citation without |language=, looked up on the network.
Kinds == {"static", "live", "footnote", "language"}

\* What validation, live validation and the review may report.
Findings == {"static", "live", "remark"}

ASSUME DeliveryAssumption ==
  /\ Flaws \in [Articles -> SUBSET Kinds] /\ DOMAIN Chunks = Articles
  /\ MaxRounds \in Nat /\ MaxReviewRounds \in Nat /\ MaxRuns \in Nat \ {0}

\* The marks for a file's state are not mistaken for its content.
ASSUME MarksAssumption ==
  /\ Missing # Torn
  /\ \A mark \in {Missing, Torn} :
       /\ \A content \in SUBSET (Kinds \cup Findings) : mark # content
       /\ \A a \in Articles : \A content \in SUBSET Chunks[a] : mark # content

VARIABLES
  runs,       \* how many runs were started
  force,      \* --force was given to this run
  review,     \* config.review_model is set in this run
  stage,      \* per article, see TypeOK
  running,    \* per article, the chunks whose task is not over
  status,     \* per article, Chunk.status of its chunks
  failed,     \* articles with article_stats["failed"]
  assembled,  \* per article, the flaws in the assembled text
  found,      \* per article, combined_issues
  rounds,     \* per article, rounds_used of the loop it is in
  wiki,       \* output_dir/{title}.wiki
  partial,    \* partial_output_dir/{title}.wiki: the chunks it shows done
  reviewMd,   \* {title}.review.md: the findings it lists
  flagsMd,    \* {title}.review-flags.md: the findings it lists
  index,      \* per article, the findings of its entry in
              \* needs_human_review.json as _load_index reads it
  broken      \* history: articles whose record was cut short by a kill, or
              \* whose entry went with an index that no longer parses

setting == <<runs, force, review>>
chunkVars == <<running, status, failed>>
textVars == <<assembled, found, rounds>>
memory == <<stage, chunkVars, textVars>>
records == <<reviewMd, flagsMd, index, broken>>
disk == <<wiki, partial, records>>
vars == <<setting, memory, disk>>

Settled == {"skipped", "failed", "abandoned", "withheld", "completed"}
Recording == {"explaining", "withholding"}
Lists == {Missing} \cup SUBSET Findings
Whole(file) == file \notin {Missing, Torn}

TypeOK ==
  /\ runs \in 1..MaxRuns /\ force \in BOOLEAN /\ review \in BOOLEAN
  /\ stage \in [Articles -> Settled \cup
       {"chunks", "repair", "explaining", "withholding", "review",
        "save", "writing", "saved"}]
  /\ \A a \in Articles :
       /\ running[a] \subseteq Chunks[a]
       /\ status[a] \in [Chunks[a] -> {"PENDING", "DONE", "FAILED"}]
       /\ Whole(wiki[a]) => wiki[a] \subseteq Flaws[a]
       /\ Whole(partial[a]) => partial[a] \subseteq Chunks[a]
       /\ partial[a] # Torn
  /\ reviewMd \in [Articles -> {Torn} \cup Lists]
  /\ flagsMd \in [Articles -> Lists] /\ index \in [Articles -> Lists]
  /\ assembled \in [Articles -> SUBSET Kinds]
  /\ found \in [Articles -> SUBSET Findings]
  /\ rounds \in [Articles -> 0..(IF MaxRounds > MaxReviewRounds THEN MaxRounds ELSE MaxReviewRounds)]
  /\ broken \subseteq Articles /\ failed \subseteq Articles

-----------------------------------------------------------------------------
(* A run starts: finished articles are skipped, the others are planned.    *)

DoneOf(a) == {c \in Chunks[a] : status[a][c] = "DONE"}

\* Mutant of Pending: an article whose snapshot is still there is resumed.
PendingByPartial(a) == force' \/ wiki[a] = Missing \/ partial[a] # Missing

Pending(a) == force' \/ wiki[a] = Missing

FreshMemory ==
  /\ running' = [a \in Articles |-> IF stage'[a] = "chunks" THEN Chunks[a] ELSE {}]
  /\ status' = [a \in Articles |-> [c \in Chunks[a] |-> "PENDING"]]
  /\ failed' = {}
  /\ assembled' = [a \in Articles |-> {}]
  /\ found' = [a \in Articles |-> {}]
  /\ rounds' = [a \in Articles |-> 0]

Init ==
  /\ runs = 1 /\ force = FALSE /\ review \in BOOLEAN
  /\ stage = [a \in Articles |-> "chunks"]
  /\ running = Chunks /\ failed = {}
  /\ status = [a \in Articles |-> [c \in Chunks[a] |-> "PENDING"]]
  /\ assembled = [a \in Articles |-> {}]
  /\ found = [a \in Articles |-> {}]
  /\ rounds = [a \in Articles |-> 0]
  /\ wiki = [a \in Articles |-> Missing]
  /\ partial = [a \in Articles |-> Missing]
  /\ reviewMd = [a \in Articles |-> Missing]
  /\ flagsMd = [a \in Articles |-> Missing]
  /\ index = [a \in Articles |-> Missing] /\ broken = {}

\* The run before ended, or was killed where it stands (a review call that
\* raises ends it too); tasks it cancelled on its way out wrote their
\* snapshot.  Planning an article may fail.
NextRun ==
  /\ runs < MaxRuns
  /\ runs' = runs + 1
  /\ force' \in BOOLEAN /\ review' \in BOOLEAN
  /\ \E planned \in SUBSET Articles :
       stage' = [a \in Articles |->
         IF ~Pending(a) THEN "skipped" ELSE IF a \in planned THEN "chunks" ELSE "failed"]
  /\ FreshMemory
  /\ \E cancelled \in SUBSET {a \in Articles : running[a] # {}} :
       partial' = [a \in Articles |-> IF a \in cancelled THEN DoneOf(a) ELSE partial[a]]
  /\ broken' = broken \cup {a \in Articles : stage[a] \in Recording}
  /\ UNCHANGED <<wiki, reviewMd, flagsMd, index>>

\* The index is edited by hand, outside the program, into something that is
\* not a list of entries: from then on _load_index reads no entry.
IndexSpoiled ==
  /\ \E a \in Articles : index[a] # Missing
  /\ index' = [a \in Articles |-> Missing]
  /\ broken' = broken \cup {a \in Articles : index[a] # Missing}
  /\ UNCHANGED <<setting, memory, wiki, partial, reviewMd, flagsMd>>

-----------------------------------------------------------------------------
(* The chunks.  Whatever way a task ends, its finally block writes the     *)
(* snapshot of the whole article.                                          *)

SavePartial(a) ==
  partial' = [partial EXCEPT ![a] = {c \in Chunks[a] : status'[a][c] = "DONE"}]

\* process_chunk returns.  A chunk found invalid in the memory counts as done
\* and yet fails the article.  The tasks of an abandoned article still run.
ChunkEnds(a, c) ==
  /\ stage[a] \in {"chunks", "abandoned"} /\ c \in running[a]
  /\ running' = [running EXCEPT ![a] = @ \ {c}]
  /\ \E s \in {"DONE", "FAILED"} :
       /\ status' = [status EXCEPT ![a][c] = s]
       /\ failed' \in {failed \cup {a}} \cup IF s = "DONE" THEN {failed} ELSE {}
  /\ SavePartial(a)
  /\ UNCHANGED <<setting, stage, textVars, wiki, records>>

\* The statuses s once the chunks that are still pending are marked failed.
PendingFail(s) == [c \in DOMAIN s |-> IF s[c] = "PENDING" THEN "FAILED" ELSE s[c]]

\* The article timeout cancels the tasks; those that were inside their try
\* block write the snapshot.
TimeOut(a) ==
  /\ stage[a] = "chunks" /\ running[a] # {}
  /\ stage' = [stage EXCEPT ![a] = "failed"]
  /\ running' = [running EXCEPT ![a] = {}]
  /\ failed' = failed \cup {a}
  /\ status' = [status EXCEPT ![a] = PendingFail(@)]
  /\ SavePartial(a) \/ UNCHANGED partial
  /\ UNCHANGED <<setting, textVars, wiki, records>>

\* A chunk's task raises, done (a limit) or not (an unexpected exception):
\* gather returns and the article has failed, with its other tasks running.
Abandon(a) ==
  /\ stage[a] = "chunks"
  /\ stage' = [stage EXCEPT ![a] = "abandoned"]
  /\ failed' = failed \cup {a}
  /\ \E c \in running[a], s \in {"DONE", "FAILED"} :
       /\ running' = [running EXCEPT ![a] = @ \ {c}]
       /\ status' = [status EXCEPT ![a] = PendingFail([@ EXCEPT ![c] = s])]
  /\ SavePartial(a)
  /\ UNCHANGED <<setting, textVars, wiki, records>>

ChunksFailed(a) ==
  /\ stage[a] = "chunks" /\ running[a] = {} /\ a \in failed
  /\ stage' = [stage EXCEPT ![a] = "failed"]
  /\ UNCHANGED <<setting, chunkVars, textVars, disk>>

-----------------------------------------------------------------------------
(* Assembly repair                                                         *)

\* What the fixes may make of a text.  They work on the assembled text, not on
\* the chunks, and each goes on without the others: the citation languages
\* need the network, which may fail or time out, the sfn fixes need the text
\* only.
PostProcess(t) == {t \ {"footnote"}, t \ {"footnote", "language"}}
AsIs(t) == {t}

\* _validate_assembled: the static checks always run, the live ones may fail.
Detected(t, f) == f \cap Kinds \in {t \cap {"static"}, t \cap {"static", "live"}}

\* The chunks are joined into one of `results` and checked.
Reassemble(a, results, remarks) ==
  \E joined \in results, f \in SUBSET Findings :
    /\ assembled' = [assembled EXCEPT ![a] = joined]
    /\ Detected(joined, f) /\ f \subseteq Kinds \cup remarks
    /\ found' = [found EXCEPT ![a] = f]

Assemble(a) ==
  /\ stage[a] = "chunks" /\ running[a] = {} /\ a \notin failed
  /\ stage' = [stage EXCEPT ![a] = "repair"]
  /\ \E t \in SUBSET Flaws[a] : Reassemble(a, PostProcess(t), {})
  /\ UNCHANGED <<setting, chunkVars, rounds, disk>>

\* Mutant of RepairRound: the fixes run once, before the loop.
RepairRoundUnfixed(a) ==
  /\ stage[a] = "repair" /\ found[a] # {} /\ rounds[a] < MaxRounds
  /\ rounds' = [rounds EXCEPT ![a] = @ + 1]
  /\ \E t \in SUBSET Flaws[a] : Reassemble(a, AsIs(t), {})
  /\ UNCHANGED <<setting, stage, chunkVars, disk>>

\* One round: repair calls to the implicated chunks, which may fail or
\* return any text.
RepairRound(a) ==
  /\ stage[a] = "repair" /\ found[a] # {} /\ rounds[a] < MaxRounds
  /\ rounds' = [rounds EXCEPT ![a] = @ + 1]
  /\ \E t \in SUBSET Flaws[a] : Reassemble(a, PostProcess(t), {})
  /\ UNCHANGED <<setting, stage, chunkVars, disk>>

\* Mutant of Withhold: the index first, the article's file after it.
WithholdIndexFirst(a) ==
  /\ stage[a] = "repair" /\ found[a] # {} /\ rounds[a] = MaxRounds
  /\ stage' = [stage EXCEPT ![a] = "explaining"]
  /\ index' = [index EXCEPT ![a] = found[a]]
  /\ UNCHANGED <<setting, chunkVars, textVars, wiki, partial, flagsMd, reviewMd, broken>>

\* record_needs_human_review: first the article's file, written in place ...
Withhold(a) ==
  /\ stage[a] = "repair" /\ found[a] # {} /\ rounds[a] = MaxRounds
  /\ stage' = [stage EXCEPT ![a] = "explaining"]
  /\ reviewMd' = [reviewMd EXCEPT ![a] = Torn]
  /\ UNCHANGED <<setting, chunkVars, textVars, wiki, partial, flagsMd, index, broken>>

Explain(a) ==
  /\ stage[a] = "explaining"
  /\ stage' = [stage EXCEPT ![a] = "withholding"]
  /\ reviewMd' = [reviewMd EXCEPT ![a] = found[a]]
  /\ UNCHANGED <<setting, chunkVars, textVars, wiki, partial, flagsMd, index, broken>>

\* Mutant of UpdateIndex: the entries on disk are not loaded first.
UpdateIndexBlindly(a) ==
  /\ stage[a] = "withholding"
  /\ stage' = [stage EXCEPT ![a] = "withheld"]
  /\ index' = [b \in Articles |-> IF b = a THEN found[a] ELSE Missing]
  /\ broken' = broken \ {a}
  /\ UNCHANGED <<setting, chunkVars, textVars, wiki, partial, reviewMd, flagsMd>>

\* ... then its entry in the shared index, which replaces the one it had.
\* Reading the index and replacing the file is one step.
UpdateIndex(a) ==
  /\ stage[a] = "withholding"
  /\ stage' = [stage EXCEPT ![a] = "withheld"]
  /\ index' = [index EXCEPT ![a] = found[a]]
  /\ broken' = broken \ {a}
  /\ UNCHANGED <<setting, chunkVars, textVars, wiki, partial, reviewMd, flagsMd>>

-----------------------------------------------------------------------------
(* The semantic review.  Its rounds assemble again without the fixes.      *)

ReviewOrSave(a) ==
  /\ stage[a] = "repair" /\ found[a] = {}
  /\ \/ ~review /\ stage' = [stage EXCEPT ![a] = "save"] /\ UNCHANGED <<found, rounds>>
     \/ /\ review /\ stage' = [stage EXCEPT ![a] = "review"]
        /\ \E f \in SUBSET Findings :
             Detected(assembled[a], f) /\ found' = [found EXCEPT ![a] = f]
        /\ rounds' = [rounds EXCEPT ![a] = 0]
  /\ UNCHANGED <<setting, chunkVars, assembled, disk>>

\* Mutant of ReviewRound: no structural check after the review's repairs.
ReviewRoundUnchecked(a) ==
  /\ stage[a] = "review" /\ found[a] # {} /\ rounds[a] < MaxReviewRounds
  /\ rounds' = [rounds EXCEPT ![a] = @ + 1]
  /\ \E t \in SUBSET Flaws[a] : assembled' = [assembled EXCEPT ![a] = t]
  /\ \E f \in SUBSET {"remark"} : found' = [found EXCEPT ![a] = f]
  /\ UNCHANGED <<setting, stage, chunkVars, disk>>

\* Mutant of ReviewRound: the cap is compared after counting.
ReviewRoundTooMany(a) ==
  /\ stage[a] = "review" /\ found[a] # {} /\ rounds[a] <= MaxReviewRounds
  /\ rounds' = [rounds EXCEPT ![a] = @ + 1]
  /\ \E t \in SUBSET Flaws[a] : Reassemble(a, AsIs(t), {"remark"})
  /\ UNCHANGED <<setting, stage, chunkVars, disk>>

\* Mutant of ReviewRound: a round that changed the text gives the budget back.
ReviewRoundRefunded(a) ==
  /\ stage[a] = "review" /\ found[a] # {} /\ rounds[a] < MaxReviewRounds
  /\ \E t \in SUBSET Flaws[a] : Reassemble(a, AsIs(t), {"remark"})
  /\ rounds' = [rounds EXCEPT ![a] = IF assembled'[a] = assembled[a] THEN @ + 1 ELSE 0]
  /\ UNCHANGED <<setting, stage, chunkVars, disk>>

ReviewRound(a) ==
  /\ stage[a] = "review" /\ found[a] # {} /\ rounds[a] < MaxReviewRounds
  /\ rounds' = [rounds EXCEPT ![a] = @ + 1]
  /\ \E t \in SUBSET Flaws[a] : Reassemble(a, AsIs(t), {"remark"})
  /\ UNCHANGED <<setting, stage, chunkVars, disk>>

\* Unresolved findings are recorded and do not stop the article.  Their file is
\* written in place too; that is one step here, as a kill within it leaves an
\* article this run has not delivered.
EndReview(a) ==
  /\ stage[a] = "review" /\ (found[a] = {} \/ rounds[a] = MaxReviewRounds)
  /\ stage' = [stage EXCEPT ![a] = "save"]
  /\ flagsMd' = IF found[a] = {} THEN flagsMd ELSE [flagsMd EXCEPT ![a] = found[a]]
  /\ UNCHANGED <<setting, chunkVars, textVars, wiki, partial, reviewMd, index, broken>>

-----------------------------------------------------------------------------
(* Saving: the .wiki is written in place, then the snapshot is deleted.    *)

\* Mutant of SaveOpen: the snapshot is discarded before the save.
SaveOpenDiscarding(a) ==
  /\ stage[a] = "save"
  /\ stage' = [stage EXCEPT ![a] = "writing"]
  /\ wiki' = [wiki EXCEPT ![a] = Torn]
  /\ partial' = [partial EXCEPT ![a] = Missing]
  /\ UNCHANGED <<setting, chunkVars, textVars, records>>

SaveOpen(a) ==
  /\ stage[a] = "save"
  /\ stage' = [stage EXCEPT ![a] = "writing"]
  /\ wiki' = [wiki EXCEPT ![a] = Torn]
  /\ UNCHANGED <<setting, chunkVars, textVars, partial, records>>

SaveWrite(a) ==
  /\ stage[a] = "writing"
  /\ stage' = [stage EXCEPT ![a] = "saved"]
  /\ wiki' = [wiki EXCEPT ![a] = assembled[a]]
  /\ UNCHANGED <<setting, chunkVars, textVars, partial, records>>

\* The article is completed (its report, written last, is not modelled).
DiscardPartial(a) ==
  /\ stage[a] = "saved"
  /\ stage' = [stage EXCEPT ![a] = "completed"]
  /\ partial' = [partial EXCEPT ![a] = Missing]
  /\ UNCHANGED <<setting, chunkVars, textVars, wiki, records>>

ArticleStep(a) ==
  \/ \E c \in Chunks[a] : ChunkEnds(a, c)
  \/ TimeOut(a) \/ Abandon(a) \/ ChunksFailed(a)
  \/ Assemble(a) \/ RepairRound(a) \/ Withhold(a) \/ Explain(a) \/ UpdateIndex(a)
  \/ ReviewOrSave(a) \/ ReviewRound(a) \/ EndReview(a)
  \/ SaveOpen(a) \/ SaveWrite(a) \/ DiscardPartial(a)

Next == NextRun \/ IndexSpoiled \/ \E a \in Articles : ArticleStep(a)

\* The calls of an article return or time out, so a run does not stop in the
\* middle of an article unless it is killed.
Spec == Init /\ [][Next]_vars /\ \A a \in Articles : WF_vars(ArticleStep(a))

-----------------------------------------------------------------------------
(* Properties                                                              *)

Delivered(a) == stage[a] \in {"saved", "completed"}

\* Whenever the program dies, the work of the run on an article is on disk:
\* in the snapshot up to the last chunk that ended, or in a .wiki that holds
\* the whole assembled text.  Stragglers of an abandoned article included.
ProgressOnDisk ==
  \A a \in Articles : DoneOf(a) # {} =>
    \/ partial[a] = DoneOf(a)
    \/ stage[a] = "completed" /\ wiki[a] = assembled[a]

\* A review-driven repair that breaks the structure again "must not ship
\* that silently" (run_review_pass): a static defect in a delivered .wiki is
\* listed in its review-flags.md.
NothingShipsSilently ==
  \A a \in Articles : Delivered(a) /\ "static" \in wiki[a] =>
    flagsMd[a] # Missing /\ "static" \in flagsMd[a]

\* Without a review, no repair round undoes the deterministic fixes: a
\* delivered .wiki is statically clean and has those applied that cannot fail.
CleanWithoutReview ==
  \A a \in Articles : Delivered(a) /\ ~review => wiki[a] \subseteq {"live", "language"}

\* The two records of withheld articles agree: over all runs, the index lists
\* the articles that have a .review.md, each with the findings of its file,
\* whatever other articles were recorded meanwhile.  Excepted are a record that
\* is being written, one that a kill cut short, and entries lost with an index
\* that did not parse; even then no entry is without a file, and a withheld
\* article's file lists what this run found.
RecordsAgree ==
  \A a \in Articles :
    /\ stage[a] \notin Recording /\ a \notin broken => reviewMd[a] = index[a]
    /\ index[a] # Missing => reviewMd[a] # Missing
    /\ stage[a] = "withheld" => reviewMd[a] = found[a]

\* Only --force touches a finished translation: no run without it rewrites,
\* truncates or removes a whole .wiki, whatever state it is killed in.
FinishedIsKept ==
  [][\A a \in Articles : Whole(wiki[a]) /\ ~force => wiki'[a] = wiki[a]]_vars

\* Both repair loops and the save end: unless it is killed, every run
\* settles every article.
RunsSettle == \A a \in Articles : <>[](stage[a] \in Settled)

-----------------------------------------------------------------------------
(* What the documentation says and the code does not do                    *)

\* README: "The two sfn fixes always run."
FixesAlwaysRun == \A a \in Articles : Delivered(a) => "footnote" \notin wiki[a]
=============================================================================
