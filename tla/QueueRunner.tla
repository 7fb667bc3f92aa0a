---------------------------- MODULE QueueRunner ----------------------------
(***************************************************************************)
(* Queue mode (queue_runner.py): machines drain a shared list of articles, *)
(* each claiming a line, running the pipeline on that one article, and     *)
(* reporting the result and its own spending.  The list and its protocol   *)
(* (queue_lib: claim, finish, stale claims, pushes that fail) belong to    *)
(* another repository and are modelled as this code uses them.             *)
(*                                                                         *)
(* run_pipeline is RunPipeline's; here it spends, may switch engines, and  *)
(* completes, fails or raises.  An article that failed may leave chunk     *)
(* tasks running: the machine's event loop runs on for the next articles.  *)
(***************************************************************************)
EXTENDS Naturals, FiniteSets

CONSTANTS
  Machines,    \* the machines that drain the queue
  Lines,       \* the lines of totranslate.txt
  MaxArticles, \* --max-articles
  MaxSpend     \* bound: what a machine spends in all

ASSUME QueueAssumption == MaxArticles \in Nat /\ MaxSpend \in Nat

Engines == {"configured", "fallback"}

VARIABLES
  queue,     \* per line [state, engine]: "pending", "claimed", "DONE" or "FAILED"
  stale,     \* the claims older than stale_hours
  pc,        \* "looping", "translating" a claimed line, "stopped"
  line,      \* the line a machine translates
  engine,    \* the engine in force in the machine's pipeline
  completed, \* article_stats: machines whose article counts as completed
  current,   \* article_stats: what the present article spent
  total,     \* stats_tracker: what the machine reports in the end
  processed, \* articles this run of the machine has reported
  saved,     \* <<line, engine>> of the articles each machine has on disk
  leftover,  \* machines with chunk tasks of an earlier article that failed
  paid, late \* history: what the machine spent; the part spent after a merge

money == <<current, total, paid, late>>
shared == <<queue, stale>>
articleVars == <<line, engine, completed>>
queueVars == <<shared, pc, articleVars, money, processed, saved, leftover>>

Set(f, m, v) == [f EXCEPT ![m] = v]

QueueInit ==
  /\ queue = [l \in Lines |-> [state |-> "pending", engine |-> "configured"]]
  /\ stale = {}
  /\ pc = [m \in Machines |-> "looping"]
  /\ line = [m \in Machines |-> CHOOSE l \in Lines : TRUE]
  /\ engine = [m \in Machines |-> "configured"]
  /\ current = [m \in Machines |-> 0] /\ total = [m \in Machines |-> 0]
  /\ paid = [m \in Machines |-> 0] /\ late = [m \in Machines |-> 0]
  /\ processed = [m \in Machines |-> 0]
  /\ completed = {} /\ saved = {} /\ leftover = {}

-----------------------------------------------------------------------------
Claimable == {l \in Lines : queue[l].state = "pending" \/ l \in stale}

\* The next line is claimed and its article starts with fresh statistics and
\* the configured engine, whatever the last article switched to.
Claim(m) ==
  /\ pc[m] = "looping" /\ processed[m] < MaxArticles
  /\ \E l \in Claimable :
       /\ queue' = [queue EXCEPT ![l].state = "claimed"]
       /\ stale' = stale \ {l}
       /\ line' = Set(line, m, l)
  /\ pc' = Set(pc, m, "translating")
  /\ engine' = Set(engine, m, "configured")
  /\ completed' = completed \ {m}
  /\ current' = Set(current, m, 0)
  /\ UNCHANGED <<total, paid, late, processed, saved, leftover>>

\* Nothing is claimable or enough was processed: asyncio.run() cancels the
\* tasks that are left.
Stop(m) ==
  /\ pc[m] = "looping"
  /\ processed[m] >= MaxArticles \/ Claimable = {}
  /\ pc' = Set(pc, m, "stopped")
  /\ leftover' = leftover \ {m}
  /\ UNCHANGED <<shared, articleVars, money, processed, saved>>

\* A call of the article is paid for (record_usage).
Spend(m) ==
  /\ pc[m] = "translating" /\ paid[m] < MaxSpend
  /\ current' = Set(current, m, current[m] + 1)
  /\ paid' = Set(paid, m, paid[m] + 1)
  /\ UNCHANGED <<shared, pc, articleVars, total, late, processed, saved, leftover>>

\* A task an earlier article left behind is answered while the present one is
\* translated: its usage goes to statistics that have been merged already.
SpendLate(m) ==
  /\ pc[m] = "translating" /\ m \in leftover /\ paid[m] < MaxSpend
  /\ paid' = Set(paid, m, paid[m] + 1)
  /\ late' = Set(late, m, late[m] + 1)
  /\ UNCHANGED <<shared, pc, articleVars, current, total, processed, saved, leftover>>

LeftoverEnds(m) ==
  /\ pc[m] = "translating" /\ m \in leftover
  /\ leftover' = leftover \ {m}
  /\ UNCHANGED <<shared, pc, articleVars, money, processed, saved>>

SwitchEngine(m) ==
  /\ pc[m] = "translating" /\ m \notin completed /\ engine[m] = "configured"
  /\ engine' = Set(engine, m, "fallback")
  /\ UNCHANGED <<shared, pc, line, completed, money, processed, saved, leftover>>

\* process_article saves its text and counts the article as completed.
Save(m) ==
  /\ pc[m] = "translating" /\ m \notin completed
  /\ completed' = completed \cup {m}
  /\ saved' = saved \cup {[line |-> line[m], engine |-> engine[m]]}
  /\ UNCHANGED <<shared, pc, line, engine, money, processed, leftover>>

\* finish_line commits and pushes the result, whoever holds the claim by now;
\* when it cannot (QueueSyncError) the error is logged and the line stays.
FinishLine(m, state) ==
  \/ /\ queue' = Set(queue, line[m], [state |-> state, engine |-> engine[m]])
     /\ stale' = stale \ {line[m]}
  \/ UNCHANGED shared

\* merge_usage_from: the article's spending joins the queue run's.
Merge(m) ==
  /\ total' = Set(total, m, total[m] + current[m])
  /\ UNCHANGED <<current, paid, late>>

\* The way to the next claim, on either path.
NextArticle(m) ==
  /\ processed' = Set(processed, m, processed[m] + 1)
  /\ pc' = Set(pc, m, "looping")
  /\ UNCHANGED <<articleVars, saved>>

\* Mutant of PipelineReturns: no exception counts as a translation.
PipelineReturnsDone(m) ==
  /\ pc[m] = "translating"
  /\ FinishLine(m, "DONE")
  /\ Merge(m) /\ NextArticle(m)
  /\ UNCHANGED leftover

\* run_pipeline returns: the line is DONE only if the article completed; one
\* that failed may have left tasks in the event loop.
PipelineReturns(m) ==
  /\ pc[m] = "translating"
  /\ FinishLine(m, IF m \in completed THEN "DONE" ELSE "FAILED")
  /\ Merge(m) /\ NextArticle(m)
  /\ \/ UNCHANGED leftover
     \/ m \notin completed /\ leftover' = leftover \cup {m}

\* Mutant of PipelineRaises: the crashed article's spending is forgotten.
PipelineRaisesUnmerged(m) ==
  /\ pc[m] = "translating"
  /\ FinishLine(m, "FAILED")
  /\ NextArticle(m)
  /\ UNCHANGED <<money, leftover>>

\* run_pipeline raises, perhaps after the article was saved: FAILED.
PipelineRaises(m) ==
  /\ pc[m] = "translating"
  /\ FinishLine(m, "FAILED")
  /\ Merge(m) /\ NextArticle(m)
  /\ UNCHANGED leftover

\* The machine is killed or its claim or report raises something else.
Killed(m) ==
  /\ pc[m] \in {"looping", "translating"}
  /\ pc' = Set(pc, m, "killed")
  /\ leftover' = leftover \ {m}
  /\ UNCHANGED <<shared, articleVars, money, processed, saved>>

\* A claim grows older than stale_hours.
GoesStale(l) ==
  /\ queue[l].state = "claimed" /\ l \notin stale
  /\ stale' = stale \cup {l}
  /\ UNCHANGED <<queue, pc, articleVars, money, processed, saved, leftover>>

QueueNext ==
  \/ \E m \in Machines :
       \/ Claim(m) \/ Stop(m) \/ Spend(m) \/ SpendLate(m) \/ LeftoverEnds(m)
       \/ SwitchEngine(m) \/ Save(m) \/ PipelineReturns(m) \/ PipelineRaises(m) \/ Killed(m)
  \/ \E l \in Lines : GoesStale(l)

QueueSpec == QueueInit /\ [][QueueNext]_queueVars

-----------------------------------------------------------------------------
\* A line says DONE only if some machine saved its article, and it names the
\* engine that article was finished on: machines that translate one line twice
\* because its claim went stale, reports that were not pushed and articles
\* that raise after they were saved included.
DoneMeansSaved ==
  \A l \in Lines :
    queue[l].state = "DONE" => [line |-> l, engine |-> queue[l].engine] \in saved

\* What a machine paid for is in the statistics it returns, on success and on
\* every failure, except what tasks of an earlier failed article spent after
\* that article was reported.
SpendAccounted ==
  \A m \in Machines :
    pc[m] # "killed" =>
      paid[m] = total[m] + late[m] + IF pc[m] = "translating" THEN current[m] ELSE 0
=============================================================================
