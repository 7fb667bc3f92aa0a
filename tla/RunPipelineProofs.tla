------------------------- MODULE RunPipelineProofs -------------------------
(***************************************************************************)
(* What holds of RunPipeline for every plan, every number of workers and   *)
(* every configuration.                                                    *)
(***************************************************************************)
EXTENDS RunPipeline, TLAPS

(***************************************************************************)
(* The strengthenings.  They are conjuncts of the inductive invariants     *)
(* below, not properties of interest by themselves.                        *)
(***************************************************************************)

\* The tasks of an article exist only once it is started.
PlannedIsIdle ==
  \A c \in Chunks : article[ArticleOf[c]] = "planned" => task[c] = "none"

SlotInv == TypeOK /\ SlotsConserved /\ PlannedIsIdle

\* While the gather has nothing to report, the tasks that are over left a
\* translated and valid chunk.  Shutdown ends tasks that did not get there.
OverIsGood ==
  run # "ended" =>
    \A c \in Chunks :
      /\ article[ArticleOf[c]] = "chunks" /\ task[c] = "over"
      /\ ~failed[ArticleOf[c]] /\ raised[ArticleOf[c]] = "none"
      => status[c] \notin {"PENDING", "FAILED"} /\ valid[c]

AssemblyInv == OverIsGood /\ AssembledIsComplete

\* Counts over a limit have been reported to the gather, and an article whose
\* gather returned had nothing reported.
LimitsReported ==
  /\ \A a \in Articles : ExceedsLimit(tokens[a]) => raised[a] # "none"
  /\ \A a \in Articles :
       article[a] \in {"finishing", "completed", "needs_human_review"} => raised[a] = "none"

\* The second attempt of a main-engine chunk runs on the fallback engine, and
\* a chunk given up for lack of credits is never called again.
CreditInv ==
  /\ CreditsExcuse
  /\ \A c \in outOfCredits : task[c] = "over"
  /\ \A c \in Chunks \ ComplexChunks :
       task[c] = "calling" /\ attempt[c] = 1 => fb = "switched" /\ via[c] = "fallback"

-----------------------------------------------------------------------------
(* The worker ids                                                          *)

\* A task that ends gives back the id it held, or the one it would have
\* taken from the queue had it needed to wait.
LEMMA ReleaseKeepsSlots ==
  ASSUME TypeOK, SlotsConserved, NEW c \in Chunks, NEW s \in Slots,
         s = slot[c] \/ (s \in free /\ slot[c] = NoSlot), ReleaseSlot(c, s)
  PROVE  /\ SlotsConserved'
         /\ task' \in [Chunks -> TaskStates]
         /\ slot' \in [Chunks -> Slots \cup {NoSlot}]
         /\ free' \in SUBSET Slots
  BY NoneAssumption DEF TypeOK, SlotsConserved, ReleaseSlot, TaskStates, Working, InLock

\* translate_chunk, called with an id the task holds or has just taken,
\* either keeps that id or gives it back.
LEMMA InvokeKeepsSlots ==
  ASSUME TypeOK, SlotsConserved, NEW c \in Chunks, NEW s \in Slots,
         s = slot[c] \/ (s \in free /\ slot[c] = NoSlot),
         NEW n \in {0, 1}, NEW main \in {"primary", "fallback"}, Invoke(c, s, n, main)
  PROVE  /\ SlotsConserved'
         /\ task' \in [Chunks -> TaskStates]
         /\ slot' \in [Chunks -> Slots \cup {NoSlot}]
         /\ free' \in SUBSET Slots
<1>1. CASE ReleaseSlot(c, s)
  BY <1>1, ReleaseKeepsSlots
<1>2. CASE /\ task' = [task EXCEPT ![c] = "calling"]
           /\ slot' = [slot EXCEPT ![c] = s]
           /\ free' = free \ {s}
  BY <1>2, NoneAssumption DEF TypeOK, SlotsConserved, TaskStates, Working, InLock
<1>3. QED
  BY <1>1, <1>2 DEF Invoke, Succeed, Lose

\* A chunk that succeeds, and a chunk that is lost, keep the types of what
\* they assign.
LEMMA SucceedTypes ==
  ASSUME TypeOK, NEW c \in Chunks, NEW s \in Slots,
         NEW st \in Statuses, NEW u \in Nat \X Nat, Succeed(c, s, st, u)
  PROVE  /\ status' \in [Chunks -> Statuses]
         /\ valid' \in [Chunks -> BOOLEAN]
         /\ tokens' \in [Articles -> Nat \X Nat]
         /\ raised' \in [Articles -> {"none", "limit", "error"}]
<1>1. ArticleOf[c] \in Articles
  BY PlanAssumption
<1>2. tokens[ArticleOf[c]] \in Nat \X Nat
  BY <1>1 DEF TypeOK
<1>3. <<tokens[ArticleOf[c]][1] + u[1], tokens[ArticleOf[c]][2] + u[2]>> \in Nat \X Nat
  BY <1>2
<1>4. QED
  BY <1>1, <1>3 DEF TypeOK, Succeed

LEMMA LoseTypes ==
  ASSUME TypeOK, NEW c \in Chunks, NEW s \in Slots, NEW st \in Statuses, Lose(c, s, st)
  PROVE  /\ status' \in [Chunks -> Statuses]
         /\ valid' \in [Chunks -> BOOLEAN]
         /\ failed' \in [Articles -> BOOLEAN]
  BY DEF TypeOK, Lose

LEMMA InvokeTypes ==
  ASSUME SlotInv, NEW c \in Chunks, NEW s \in Slots,
         s = slot[c] \/ (s \in free /\ slot[c] = NoSlot),
         NEW n \in {0, 1}, NEW main \in {"primary", "fallback"}, Invoke(c, s, n, main),
         run' = run, fb' \in {"open", "switched", "declined"}, lock' \in Chunks \cup {NoTask},
         exhausted' \in SUBSET Engines
  PROVE  TypeOK' /\ SlotsConserved'
<1>1. TypeOK /\ SlotsConserved
  BY DEF SlotInv
<1>2. /\ SlotsConserved'
      /\ task' \in [Chunks -> TaskStates]
      /\ slot' \in [Chunks -> Slots \cup {NoSlot}]
      /\ free' \in SUBSET Slots
  BY <1>1, InvokeKeepsSlots
<1>3. attempt' \in [Chunks -> {0, 1}] /\ via' \in [Chunks -> Engines]
  BY <1>1, ConfigAssumption DEF TypeOK, Invoke, EngineFor, Engines
<1>4. /\ article' \in [Articles -> ArticleStates]
      /\ status' \in [Chunks -> Statuses]
      /\ valid' \in [Chunks -> BOOLEAN]
      /\ failed' \in [Articles -> BOOLEAN]
      /\ raised' \in [Articles -> {"none", "limit", "error"}]
      /\ tokens' \in [Articles -> Nat \X Nat]
      /\ outOfCredits' \in SUBSET Chunks
  <2>0. "CACHED" \in Statuses /\ <<0, 0>> \in Nat \X Nat
    BY DEF Statuses
  <2>1. CASE Succeed(c, s, "CACHED", <<0, 0>>)
    <3>1. /\ status' \in [Chunks -> Statuses]
          /\ valid' \in [Chunks -> BOOLEAN]
          /\ tokens' \in [Articles -> Nat \X Nat]
          /\ raised' \in [Articles -> {"none", "limit", "error"}]
      BY <1>1, <2>0, <2>1, SucceedTypes
    <3>2. UNCHANGED <<article, failed, outOfCredits>>
      BY <2>1 DEF Succeed
    <3>3. QED
      BY <1>1, <3>1, <3>2 DEF TypeOK
  <2>2. CASE Lose(c, s, "CACHED") /\ UNCHANGED outOfCredits
    <3>1. /\ status' \in [Chunks -> Statuses]
          /\ valid' \in [Chunks -> BOOLEAN]
          /\ failed' \in [Articles -> BOOLEAN]
      BY <1>1, <2>0, <2>2, LoseTypes
    <3>2. UNCHANGED <<article, raised, tokens, outOfCredits>>
      BY <2>2 DEF Lose
    <3>3. QED
      BY <1>1, <3>1, <3>2 DEF TypeOK
  <2>3. CASE UNCHANGED <<articleVars, status, valid, outOfCredits>>
    BY <1>1, <2>3 DEF TypeOK, articleVars
  <2>4. QED
    BY <2>1, <2>2, <2>3 DEF Invoke
<1>5. QED
  BY <1>1, <1>2, <1>3, <1>4 DEF TypeOK

\* A chunk that is lost with the id it holds, as GiveUpForCredits and
\* CallFails lose it.
LEMMA LoseKeeps ==
  ASSUME SlotInv, NEW c \in Chunks, task[c] \in Working, Lose(c, slot[c], "FAILED"),
         UNCHANGED <<run, attempt, via, exhausted>>,
         outOfCredits' \in SUBSET Chunks, fb' \in {"open", "switched", "declined"},
         lock' \in Chunks \cup {NoTask}
  PROVE  TypeOK' /\ SlotsConserved'
<1>1. TypeOK /\ SlotsConserved /\ slot[c] \in Slots
  BY DEF SlotInv, TypeOK, SlotsConserved
<1>2. "FAILED" \in Statuses
  BY DEF Statuses
<1>3. ReleaseSlot(c, slot[c]) /\ UNCHANGED <<article, raised, tokens>>
  BY DEF Lose
<1>4. /\ SlotsConserved'
      /\ task' \in [Chunks -> TaskStates]
      /\ slot' \in [Chunks -> Slots \cup {NoSlot}]
      /\ free' \in SUBSET Slots
  BY <1>1, <1>3, ReleaseKeepsSlots
<1>5. /\ status' \in [Chunks -> Statuses]
      /\ valid' \in [Chunks -> BOOLEAN]
      /\ failed' \in [Articles -> BOOLEAN]
  BY <1>1, <1>2, LoseTypes
<1>6. QED
  BY <1>1, <1>3, <1>4, <1>5 DEF TypeOK

LEMMA RaiseKeeps ==
  ASSUME SlotInv, NEW c \in Chunks, task[c] \in Working, Raise(c),
         UNCHANGED <<run, fb, exhausted>>, lock' \in Chunks \cup {NoTask}
  PROVE  TypeOK' /\ SlotsConserved'
<1>1. TypeOK /\ SlotsConserved /\ slot[c] \in Slots
  BY DEF SlotInv, TypeOK, SlotsConserved
<1>2. ReleaseSlot(c, slot[c])
  BY DEF Raise
<1>3. /\ SlotsConserved'
      /\ task' \in [Chunks -> TaskStates]
      /\ slot' \in [Chunks -> Slots \cup {NoSlot}]
      /\ free' \in SUBSET Slots
  BY <1>1, <1>2, ReleaseKeepsSlots
<1>4. raised' \in [Articles -> {"none", "limit", "error"}]
  BY <1>1 DEF Raise, TypeOK
<1>5. QED
  BY <1>1, <1>3, <1>4 DEF TypeOK, Raise

\* A task that moves on inside translate_chunk or the lock keeps its id.
LEMMA MoveKeeps ==
  ASSUME SlotInv, NEW c \in Chunks, task[c] \in Working, NEW w \in Working,
         task' = [task EXCEPT ![c] = w],
         UNCHANGED <<run, articleVars, slot, free, status, valid, attempt, via,
                     outOfCredits, fb, exhausted>>,
         lock' \in Chunks \cup {NoTask}
  PROVE  TypeOK' /\ SlotsConserved'
  BY DEF SlotInv, TypeOK, SlotsConserved, TaskStates, articleVars

\* Cancelling tasks gives back the ids they hold.
LEMMA CancelKeeps ==
  ASSUME TypeOK, SlotsConserved, NEW S \in SUBSET Chunks, Cancel(S)
  PROVE  /\ SlotsConserved'
         /\ task' \in [Chunks -> TaskStates]
         /\ slot' \in [Chunks -> Slots \cup {NoSlot}]
         /\ free' \in SUBSET Slots
         /\ lock' \in Chunks \cup {NoTask}
<1>1. /\ task' \in [Chunks -> TaskStates]
      /\ slot' \in [Chunks -> Slots \cup {NoSlot}]
      /\ free' \in SUBSET Slots
      /\ lock' \in Chunks \cup {NoTask}
  BY DEF TypeOK, Cancel, TaskStates
<1>2. \A s \in Slots : s \in free' <=> s \in free \/ \E d \in S : slot[d] = s
  BY NoneAssumption DEF TypeOK, Cancel
<1>3. \A c \in Chunks : /\ c \in S => task'[c] = "over" /\ slot'[c] = NoSlot
                        /\ c \notin S => task'[c] = task[c] /\ slot'[c] = slot[c]
  BY DEF Cancel
<1>4. "over" \notin Working
  BY DEF Working, InLock
<1>5. \A c \in Chunks : task'[c] \in Working <=> slot'[c] # NoSlot
  BY <1>3, <1>4 DEF SlotsConserved
<1>6. \A c, d \in Chunks : c # d /\ slot'[c] # NoSlot => slot'[c] # slot'[d]
  BY <1>3 DEF SlotsConserved
<1>7. \A c \in Chunks : slot'[c] \notin free'
  BY <1>1, <1>2, <1>3, NoneAssumption DEF SlotsConserved, TypeOK
<1>8. \A s \in Slots : s \in free' \/ \E c \in Chunks : slot'[c] = s
  BY <1>2, <1>3 DEF SlotsConserved
<1>9. QED
  BY <1>1, <1>5, <1>6, <1>7, <1>8 DEF SlotsConserved

\* A chunk step touches only its own task and no article's state.
LEMMA ChunkStepIsLocal ==
  ASSUME TypeOK, NEW c \in Chunks, ChunkStep(c)
  PROVE  /\ article' = article
         /\ task[c] # "none" /\ task[c] # "over"
         /\ run # "ended" /\ run' = run
         /\ \A d \in Chunks : d # c =>
              task'[d] = task[d] /\ status'[d] = status[d] /\ valid'[d] = valid[d]
         /\ \A a \in Articles : a # ArticleOf[c] =>
              failed'[a] = failed[a] /\ raised'[a] = raised[a] /\ tokens'[a] = tokens[a]
  BY DEF TypeOK, ChunkStep, TakeSlot, CallSucceeds, CallFails, CallOutOfCredits,
         CallRaises, LockAndReturn, LockAndSwitch, AnswerYes, AnswerNo, SwitchDone,
         SwitchRaises, Invoke, Succeed, Lose, Raise, GiveUpForCredits, ReleaseSlot,
         articleVars, InLock

LEMMA ChunkStepKeepsSlots ==
  ASSUME SlotInv, NEW c \in Chunks, ChunkStep(c)
  PROVE  SlotInv'
<1>1. TypeOK /\ SlotsConserved /\ PlannedIsIdle
  BY DEF SlotInv
<1>2. PlannedIsIdle'
  <2>1. ArticleOf[c] \in Articles /\ article[ArticleOf[c]] # "planned"
    BY <1>1, ChunkStepIsLocal, PlanAssumption DEF PlannedIsIdle
  <2>2. QED
    BY <1>1, <2>1, ChunkStepIsLocal DEF PlannedIsIdle
<1>3. LlmClient \in {"primary", "fallback"}
  BY DEF LlmClient
<1>4. task[c] \in Working => slot[c] \in Slots
  BY <1>1 DEF TypeOK, SlotsConserved
<1>5. CASE TakeSlot(c)
  <2>1. PICK s \in free : Invoke(c, s, 0, LlmClient)
    BY <1>5 DEF TakeSlot
  <2>2. s \in Slots /\ slot[c] = NoSlot
    BY <1>1, <1>5 DEF TakeSlot, TypeOK, SlotsConserved, Working, InLock
  <2>3. UNCHANGED <<run, fb, lock, exhausted>>
    BY <1>5 DEF TakeSlot, engineVars
  <2>4. /\ fb' \in {"open", "switched", "declined"} /\ lock' \in Chunks \cup {NoTask}
        /\ exhausted' \in SUBSET Engines
    BY <1>1, <2>3 DEF TypeOK
  <2>5. TypeOK' /\ SlotsConserved'
    BY <1>3, <2>1, <2>2, <2>3, <2>4, InvokeTypes
  <2>6. QED
    BY <1>2, <2>5 DEF SlotInv
<1>6. CASE CallSucceeds(c)
  <2>1. PICK st \in {"TRANSLATED", "REPAIRED"}, u \in Usage : Succeed(c, slot[c], st, u)
    BY <1>6 DEF CallSucceeds
  <2>2. /\ st \in Statuses /\ u \in Nat \X Nat /\ slot[c] \in Slots
        /\ ReleaseSlot(c, slot[c])
        /\ UNCHANGED <<run, article, failed, outOfCredits, attempt, via, fb, lock,
                       exhausted>>
    BY <1>4, <1>6, <2>1, ConfigAssumption
    DEF CallSucceeds, Succeed, Statuses, engineVars, Working
  <2>3. /\ SlotsConserved'
        /\ task' \in [Chunks -> TaskStates]
        /\ slot' \in [Chunks -> Slots \cup {NoSlot}]
        /\ free' \in SUBSET Slots
    BY <1>1, <2>2, ReleaseKeepsSlots
  <2>4. /\ status' \in [Chunks -> Statuses]
        /\ valid' \in [Chunks -> BOOLEAN]
        /\ tokens' \in [Articles -> Nat \X Nat]
        /\ raised' \in [Articles -> {"none", "limit", "error"}]
    BY <1>1, <2>1, <2>2, SucceedTypes
  <2>5. QED
    BY <1>1, <1>2, <2>2, <2>3, <2>4 DEF SlotInv, TypeOK
<1>7. CASE CallFails(c)
  <2>1. TypeOK' /\ SlotsConserved'
    BY <1>1, <1>7, LoseKeeps DEF CallFails, engineVars, Working, TypeOK
  <2>2. QED
    BY <1>2, <2>1 DEF SlotInv
<1>8. CASE CallOutOfCredits(c)
  <2>1. CASE task' = [task EXCEPT ![c] = "locking"]
    BY <1>1, <1>2, <1>8, <2>1, MoveKeeps
    DEF CallOutOfCredits, GiveUpForCredits, Lose, SlotInv, engineVars, Working, TypeOK,
        articleVars, ReleaseSlot
  <2>2. CASE GiveUpForCredits(c)
    <3>1. TypeOK' /\ SlotsConserved'
      BY <1>1, <1>8, <2>2, LoseKeeps
      DEF CallOutOfCredits, GiveUpForCredits, engineVars, Working, TypeOK
    <3>2. QED
      BY <1>2, <3>1 DEF SlotInv
  <2>3. QED
    BY <1>8, <2>1, <2>2 DEF CallOutOfCredits
<1>9. CASE CallRaises(c)
  <2>1. TypeOK' /\ SlotsConserved'
    BY <1>1, <1>9, RaiseKeeps DEF CallRaises, engineVars, Working, TypeOK
  <2>2. QED
    BY <1>2, <2>1 DEF SlotInv
<1>10. CASE LockAndReturn(c)
  <2>1. UNCHANGED <<run, fb, lock, exhausted>> /\ task[c] \in Working
    BY <1>10 DEF LockAndReturn, engineVars, Working
  <2>2. /\ fb' \in {"open", "switched", "declined"} /\ lock' \in Chunks \cup {NoTask}
        /\ exhausted' \in SUBSET Engines
    BY <1>1, <2>1 DEF TypeOK
  <2>3. CASE Invoke(c, slot[c], 1, LlmClient)
    <3>1. TypeOK' /\ SlotsConserved'
      BY <1>3, <1>4, <2>1, <2>2, <2>3, InvokeTypes
    <3>2. QED
      BY <1>2, <3>1 DEF SlotInv
  <2>4. CASE GiveUpForCredits(c)
    <3>1. TypeOK' /\ SlotsConserved'
      BY <1>1, <2>1, <2>2, <2>4, LoseKeeps DEF GiveUpForCredits, TypeOK
    <3>2. QED
      BY <1>2, <3>1 DEF SlotInv
  <2>5. QED
    BY <1>10, <2>3, <2>4 DEF LockAndReturn
<1>11. CASE LockAndSwitch(c)
  <2>1. PICK w \in InLock : task' = [task EXCEPT ![c] = w]
    BY <1>11 DEF LockAndSwitch, InLock
  <2>2. task[c] \in Working /\ w \in Working
    BY <1>11 DEF LockAndSwitch, Working
  <2>3. lock' \in Chunks \cup {NoTask}
    BY <1>1, <1>11 DEF LockAndSwitch, TypeOK
  <2>4. TypeOK' /\ SlotsConserved'
    BY <1>1, <1>11, <2>1, <2>2, <2>3, MoveKeeps DEF LockAndSwitch
  <2>5. QED
    BY <1>2, <2>4 DEF SlotInv
<1>12. CASE AnswerYes(c)
  <2>1. TypeOK' /\ SlotsConserved'
    BY <1>1, <1>12, MoveKeeps DEF AnswerYes, engineVars, Working, InLock, TypeOK
  <2>2. QED
    BY <1>2, <2>1 DEF SlotInv
<1>13. CASE AnswerNo(c)
  <2>1. TypeOK' /\ SlotsConserved'
    BY <1>1, <1>13, LoseKeeps DEF AnswerNo, GiveUpForCredits, Working, InLock, TypeOK
  <2>2. QED
    BY <1>2, <2>1 DEF SlotInv
<1>14. CASE SwitchDone(c)
  <2>1. TypeOK' /\ SlotsConserved'
    BY <1>1, <1>4, <1>14, InvokeTypes DEF SwitchDone, Working, InLock, TypeOK
  <2>2. QED
    BY <1>2, <2>1 DEF SlotInv
<1>15. CASE SwitchRaises(c)
  <2>1. TypeOK' /\ SlotsConserved'
    BY <1>1, <1>15, RaiseKeeps DEF SwitchRaises, Working, TypeOK
  <2>2. QED
    BY <1>2, <2>1 DEF SlotInv
<1>16. QED
  BY <1>5, <1>6, <1>7, <1>8, <1>9, <1>10, <1>11, <1>12, <1>13, <1>14, <1>15 DEF ChunkStep

LEMMA ArticleStepKeepsSlots ==
  ASSUME SlotInv, NEW a \in Articles, ArticleStep(a)
  PROVE  SlotInv'
<1>1. TypeOK /\ SlotsConserved /\ PlannedIsIdle
  BY DEF SlotInv
<1>2. CASE StartArticle(a)
  <2>1. \A c \in Chunks : task'[c] # task[c] =>
          ArticleOf[c] = a /\ task[c] = "none" /\ task'[c] = "queued"
    BY <1>1, <1>2 DEF StartArticle, PlannedIsIdle, TypeOK
  <2>2. SlotsConserved'
    BY <1>1, <1>2, <2>1 DEF StartArticle, SlotsConserved, Working, InLock
  <2>3. TypeOK'
    BY <1>1, <1>2 DEF StartArticle, TypeOK, TaskStates, ArticleStates, engineVars
  <2>4. PlannedIsIdle'
    BY <1>1, <1>2, PlanAssumption DEF StartArticle, PlannedIsIdle, TypeOK
  <2>5. QED
    BY <2>2, <2>3, <2>4 DEF SlotInv
<1>3. CASE Timeout(a)
  <2>1. Unfinished(a) \in SUBSET Chunks /\ Cancel(Unfinished(a))
    BY <1>3 DEF Timeout, Unfinished, ChunksOf
  <2>2. /\ SlotsConserved'
        /\ task' \in [Chunks -> TaskStates]
        /\ slot' \in [Chunks -> Slots \cup {NoSlot}]
        /\ free' \in SUBSET Slots
        /\ lock' \in Chunks \cup {NoTask}
    BY <1>1, <2>1, CancelKeeps
  <2>3. TypeOK'
    BY <1>1, <1>3, <2>2
    DEF Timeout, TypeOK, PendingFails, Statuses, ArticleStates, Outcomes
  <2>4. PlannedIsIdle'
    BY <1>1, <1>3, PlanAssumption
    DEF Timeout, PlannedIsIdle, Cancel, Unfinished, ChunksOf, TypeOK
  <2>5. QED
    BY <2>2, <2>3, <2>4 DEF SlotInv
<1>4. CASE GatherRaises(a)
  <2>1. TypeOK'
    BY <1>1, <1>4 DEF GatherRaises, TypeOK, PendingFails, Statuses, ArticleStates,
                      Outcomes, engineVars
  <2>2. SlotsConserved' /\ PlannedIsIdle'
    BY <1>1, <1>4, PlanAssumption
    DEF GatherRaises, SlotsConserved, PlannedIsIdle, TypeOK
  <2>3. QED
    BY <2>1, <2>2 DEF SlotInv
<1>5. CASE GatherReturns(a) \/ Finish(a)
  <2>1. TypeOK'
    BY <1>1, <1>5 DEF GatherReturns, Finish, TypeOK, ArticleStates, Outcomes,
                      engineVars, chunkVars
  <2>2. SlotsConserved' /\ PlannedIsIdle'
    BY <1>1, <1>5, PlanAssumption
    DEF GatherReturns, Finish, SlotsConserved, PlannedIsIdle, TypeOK, chunkVars
  <2>3. QED
    BY <2>1, <2>2 DEF SlotInv
<1>6. QED
  BY <1>2, <1>3, <1>4, <1>5 DEF ArticleStep

LEMMA RunStepKeepsSlots ==
  ASSUME SlotInv, RunStep
  PROVE  SlotInv'
<1>1. TypeOK /\ SlotsConserved /\ PlannedIsIdle
  BY DEF SlotInv
<1>2. CASE CloseRun
  BY <1>1, <1>2 DEF CloseRun, SlotInv, TypeOK, SlotsConserved, PlannedIsIdle,
                    articleVars, chunkVars, engineVars
<1>3. CASE EndRun
  <2> DEFINE S == {c \in Chunks : task[c] # "none"}
  <2>1. Cancel(S)
    BY <1>3 DEF EndRun
  <2>2. /\ SlotsConserved'
        /\ task' \in [Chunks -> TaskStates]
        /\ slot' \in [Chunks -> Slots \cup {NoSlot}]
        /\ free' \in SUBSET Slots
        /\ lock' \in Chunks \cup {NoTask}
    BY <1>1, <2>1, CancelKeeps
  <2>3. TypeOK'
    BY <1>1, <1>3, <2>2 DEF EndRun, TypeOK, articleVars
  <2>4. PlannedIsIdle'
    BY <1>1, <1>3 DEF EndRun, PlannedIsIdle, Cancel, articleVars
  <2>5. QED
    BY <2>2, <2>3, <2>4 DEF SlotInv
<1>4. QED
  BY <1>2, <1>3 DEF RunStep

\* Type correctness and the accounting of worker ids are inductive together
\* with "a planned article has no tasks": a task that ends must hold an id
\* for the id it puts back to be one, and only a task that does not exist
\* yet may be created without one.
THEOREM SlotInvariance == Spec => []SlotInv
<1>1. Init => SlotInv
  BY NoneAssumption, PlanAssumption
  DEF Init, SlotInv, TypeOK, SlotsConserved, PlannedIsIdle, Articles, Engines,
      ArticleStates, Statuses, TaskStates, Working, InLock
<1>2. SlotInv /\ [Next]_vars => SlotInv'
  <2> SUFFICES ASSUME SlotInv, [Next]_vars PROVE SlotInv'
    OBVIOUS
  <2>1. ASSUME NEW c \in Chunks, ChunkStep(c) PROVE SlotInv'
    BY <2>1, ChunkStepKeepsSlots
  <2>2. ASSUME NEW a \in Articles, ArticleStep(a) PROVE SlotInv'
    BY <2>2, ArticleStepKeepsSlots
  <2>3. CASE RunStep
    BY <2>3, RunStepKeepsSlots
  <2>4. ASSUME NEW e \in Engines, RunOutOfCredits(e) PROVE SlotInv'
    BY <2>4 DEF RunOutOfCredits, SlotInv, TypeOK, SlotsConserved, PlannedIsIdle,
                articleVars, chunkVars, engineVars
  <2>5. CASE UNCHANGED vars
    BY <2>5 DEF vars, SlotInv, TypeOK, SlotsConserved, PlannedIsIdle,
                articleVars, chunkVars, engineVars
  <2>6. QED
    BY <2>1, <2>2, <2>3, <2>4, <2>5 DEF Next
<1>3. QED
  BY <1>1, <1>2, PTL DEF Spec

\* Every variable keeps its type (all of run_pipeline's state).
THEOREM TypeCorrect == Spec => []TypeOK
<1>1. SlotInv => TypeOK
  BY DEF SlotInv
<1>2. QED
  BY <1>1, SlotInvariance, PTL

\* slot_queue.get() and the finally block of process_chunk: for any number of
\* workers and any plan, no worker id is lost, shared or put back twice on
\* any path, so at most `workers` chunks are translated at a time.
THEOREM SlotsAreConserved == Spec => []SlotsConserved
<1>1. SlotInv => SlotsConserved
  BY DEF SlotInv
<1>2. QED
  BY <1>1, SlotInvariance, PTL

-----------------------------------------------------------------------------
(* The fallback switch                                                     *)

LEMMA ChunkStepKeepsSwitch ==
  ASSUME TypeOK, OneSwitch, NEW c \in Chunks, ChunkStep(c)
  PROVE  OneSwitch'
<1>1. \A d \in Chunks : d # c => task'[d] = task[d]
  BY ChunkStepIsLocal
<1>2. CASE \/ TakeSlot(c) \/ CallSucceeds(c) \/ CallFails(c) \/ CallOutOfCredits(c)
           \/ CallRaises(c) \/ LockAndReturn(c)
  <2>1. UNCHANGED <<lock, fb>> /\ task[c] \notin InLock /\ task'[c] \notin InLock
    BY <1>2 DEF TakeSlot, CallSucceeds, CallFails, CallOutOfCredits, CallRaises,
                LockAndReturn, Invoke, Succeed, Lose, GiveUpForCredits, Raise,
                ReleaseSlot, engineVars, InLock, TypeOK
  <2>2. QED
    BY <1>1, <2>1 DEF OneSwitch
<1>3. CASE LockAndSwitch(c)
  <2>1. lock = NoTask /\ lock' = c /\ task'[c] \in InLock /\ fb' = "open"
    BY <1>3 DEF LockAndSwitch, InLock, TypeOK
  <2>2. QED
    BY <1>1, <2>1, NoneAssumption DEF OneSwitch
<1>4. CASE AnswerYes(c)
  BY <1>1, <1>4 DEF AnswerYes, OneSwitch, InLock, TypeOK, engineVars
<1>5. CASE AnswerNo(c) \/ SwitchDone(c) \/ SwitchRaises(c)
  <2>1. lock = c /\ lock' = NoTask /\ task'[c] \notin InLock
    BY <1>5 DEF AnswerNo, SwitchDone, SwitchRaises, Invoke, Succeed, Lose,
                GiveUpForCredits, Raise, ReleaseSlot, InLock, OneSwitch, TypeOK
  <2>2. QED
    BY <1>1, <2>1, NoneAssumption DEF OneSwitch
<1>6. QED
  BY <1>2, <1>3, <1>4, <1>5 DEF ChunkStep

LEMMA CancelKeepsSwitch ==
  ASSUME TypeOK, OneSwitch, NEW S \in SUBSET Chunks, Cancel(S), UNCHANGED fb
  PROVE  OneSwitch'
  BY NoneAssumption DEF TypeOK, OneSwitch, Cancel, InLock

\* ensure_fallback_engine: whatever number of workers hit the empty account
\* together, one task at a time is inside the lock, and only while neither
\* fallback_switched nor fallback_declined is set.
THEOREM SwitchIsExclusive == Spec => []OneSwitch
<1>1. Init => OneSwitch
  BY NoneAssumption DEF Init, OneSwitch, InLock
<1>2. SlotInv /\ OneSwitch /\ [Next]_vars => OneSwitch'
  <2> SUFFICES ASSUME SlotInv, OneSwitch, [Next]_vars PROVE OneSwitch'
    OBVIOUS
  <2>1. TypeOK /\ PlannedIsIdle
    BY DEF SlotInv
  <2>2. ASSUME NEW c \in Chunks, ChunkStep(c) PROVE OneSwitch'
    BY <2>1, <2>2, ChunkStepKeepsSwitch
  <2>3. ASSUME NEW a \in Articles, ArticleStep(a) PROVE OneSwitch'
    <3>1. CASE StartArticle(a)
      BY <2>1, <3>1 DEF StartArticle, OneSwitch, InLock, PlannedIsIdle, TypeOK, engineVars
    <3>2. CASE Timeout(a)
      <4>1. Unfinished(a) \in SUBSET Chunks
        BY DEF Unfinished, ChunksOf
      <4>2. QED
        BY <2>1, <3>2, <4>1, CancelKeepsSwitch DEF Timeout
    <3>3. CASE GatherReturns(a) \/ GatherRaises(a) \/ Finish(a)
      BY <3>3 DEF GatherReturns, GatherRaises, Finish, OneSwitch, chunkVars, engineVars
    <3>4. QED
      BY <2>3, <3>1, <3>2, <3>3 DEF ArticleStep
  <2>4. CASE RunStep
    BY <2>1, <2>4, CancelKeepsSwitch
    DEF RunStep, CloseRun, EndRun, OneSwitch, chunkVars, engineVars
  <2>5. CASE (\E e \in Engines : RunOutOfCredits(e)) \/ UNCHANGED vars
    BY <2>5 DEF RunOutOfCredits, vars, OneSwitch, chunkVars, engineVars
  <2>6. QED
    BY <2>2, <2>3, <2>4, <2>5 DEF Next
<1>3. QED
  BY <1>1, <1>2, SlotInvariance, PTL DEF Spec

-----------------------------------------------------------------------------
(* Assembled articles                                                      *)

LEMMA ChunkStepKeepsAssembly ==
  ASSUME SlotInv, AssemblyInv, NEW c \in Chunks, ChunkStep(c)
  PROVE  AssemblyInv'
<1>1. TypeOK
  BY DEF SlotInv
<1>2. ArticleOf \in [Chunks -> Articles]
  BY PlanAssumption
<1>3. /\ article' = article /\ task[c] # "over" /\ run # "ended" /\ run' = run
      /\ \A d \in Chunks : d # c =>
           task'[d] = task[d] /\ status'[d] = status[d] /\ valid'[d] = valid[d]
      /\ \A a \in Articles : a # ArticleOf[c] =>
           failed'[a] = failed[a] /\ raised'[a] = raised[a]
  BY <1>1, ChunkStepIsLocal
<1>4. \/ task'[c] # "over" /\ UNCHANGED <<failed, raised>>
      \/ /\ task'[c] = "over"
         /\ failed[ArticleOf[c]] => failed'[ArticleOf[c]]
         /\ raised[ArticleOf[c]] # "none" => raised'[ArticleOf[c]] # "none"
         /\ \/ failed'[ArticleOf[c]] \/ raised'[ArticleOf[c]] # "none"
            \/ status'[c] \notin {"PENDING", "FAILED"} /\ valid'[c]
  BY <1>1, <1>2 DEF ChunkStep, TakeSlot, CallSucceeds, CallFails, CallOutOfCredits,
     CallRaises, LockAndReturn, LockAndSwitch, AnswerYes, AnswerNo, SwitchDone,
     SwitchRaises, Invoke, Succeed, Lose, Raise, GiveUpForCredits, ReleaseSlot,
     articleVars, TypeOK
<1>5. OverIsGood'
  BY <1>2, <1>3, <1>4 DEF AssemblyInv, OverIsGood
<1>6. AssembledIsComplete'
  BY <1>2, <1>3 DEF AssemblyInv, AssembledIsComplete, ChunksOf
<1>7. QED
  BY <1>5, <1>6 DEF AssemblyInv

LEMMA ArticleStepKeepsAssembly ==
  ASSUME SlotInv, AssemblyInv, NEW a \in Articles, ArticleStep(a)
  PROVE  AssemblyInv'
<1>1. TypeOK /\ PlannedIsIdle /\ OverIsGood /\ AssembledIsComplete
  BY DEF SlotInv, AssemblyInv
<1>2. ArticleOf \in [Chunks -> Articles]
  BY PlanAssumption
<1>3. CASE StartArticle(a)
  <2>1. /\ run # "ended" /\ run' = run /\ UNCHANGED <<failed, raised, status, valid>>
        /\ article' = [article EXCEPT ![a] = "chunks"]
        /\ \A c \in Chunks : task'[c] = IF ArticleOf[c] = a THEN "queued" ELSE task[c]
    BY <1>3 DEF StartArticle
  <2>2. QED
    BY <1>1, <1>2, <2>1 DEF AssemblyInv, OverIsGood, AssembledIsComplete, ChunksOf, TypeOK
<1>4. CASE GatherReturns(a)
  <2>1. /\ run # "ended" /\ run' = run /\ article[a] = "chunks" /\ raised[a] = "none"
        /\ UNCHANGED <<failed, raised, task, status, valid>>
        /\ \A c \in ChunksOf(a) : task[c] = "over"
        /\ \/ article' = [article EXCEPT ![a] = "failed"]
           \/ article' = [article EXCEPT ![a] = "finishing"] /\ ~failed[a]
    BY <1>4 DEF GatherReturns, chunkVars
  <2>2. QED
    BY <1>1, <1>2, <2>1 DEF AssemblyInv, OverIsGood, AssembledIsComplete, ChunksOf, TypeOK
<1>5. CASE GatherRaises(a) \/ Timeout(a)
  <2>1. /\ run # "ended" /\ run' = run /\ article[a] = "chunks"
        /\ UNCHANGED <<raised, valid>> /\ failed' = [failed EXCEPT ![a] = TRUE]
        /\ \A c \in Chunks : ArticleOf[c] # a =>
             task'[c] = task[c] /\ status'[c] = status[c]
        /\ \E o \in {"failed", "timed_out"} : article' = [article EXCEPT ![a] = o]
    BY <1>5 DEF GatherRaises, Timeout, PendingFails, Cancel, Unfinished, ChunksOf
  <2>2. QED
    BY <1>1, <1>2, <2>1 DEF AssemblyInv, OverIsGood, AssembledIsComplete, ChunksOf, TypeOK
<1>6. CASE Finish(a)
  <2>1. /\ run # "ended" /\ run' = run /\ article[a] = "finishing"
        /\ UNCHANGED <<failed, raised, task, status, valid>>
        /\ \E o \in {"completed", "needs_human_review", "raised"} :
             article' = [article EXCEPT ![a] = o]
    BY <1>6 DEF Finish, chunkVars
  <2>2. QED
    BY <1>1, <1>2, <2>1 DEF AssemblyInv, OverIsGood, AssembledIsComplete, ChunksOf, TypeOK
<1>7. QED
  BY <1>3, <1>4, <1>5, <1>6 DEF ArticleStep

\* process_article, lines 917-934: for every plan and every interleaving, an
\* article reaches assembly only with all its chunks translated and valid,
\* and with no task left that could still write one.
THEOREM AssemblyInvariance == Spec => []AssemblyInv
<1>1. Init => AssemblyInv
  BY PlanAssumption DEF Init, AssemblyInv, OverIsGood, AssembledIsComplete
<1>2. SlotInv /\ AssemblyInv /\ [Next]_vars => AssemblyInv'
  <2> SUFFICES ASSUME SlotInv, AssemblyInv, [Next]_vars PROVE AssemblyInv'
    OBVIOUS
  <2>1. ASSUME NEW c \in Chunks, ChunkStep(c) PROVE AssemblyInv'
    BY <2>1, ChunkStepKeepsAssembly
  <2>2. ASSUME NEW a \in Articles, ArticleStep(a) PROVE AssemblyInv'
    BY <2>2, ArticleStepKeepsAssembly
  <2>3. CASE RunStep
    <3>1. CASE CloseRun
      BY <3>1 DEF CloseRun, AssemblyInv, OverIsGood, AssembledIsComplete,
                  articleVars, chunkVars
    <3>2. CASE EndRun
      BY <3>2 DEF EndRun, Cancel, AssemblyInv, OverIsGood, AssembledIsComplete,
                  articleVars, ChunksOf
    <3>3. QED
      BY <2>3, <3>1, <3>2 DEF RunStep
  <2>4. CASE (\E e \in Engines : RunOutOfCredits(e)) \/ UNCHANGED vars
    BY <2>4 DEF RunOutOfCredits, vars, AssemblyInv, OverIsGood, AssembledIsComplete,
                articleVars, chunkVars
  <2>5. QED
    BY <2>1, <2>2, <2>3, <2>4 DEF Next
<1>3. QED
  BY <1>1, <1>2, SlotInvariance, PTL DEF Spec

\* The part of it the runs check.
THEOREM AssembledAreComplete == Spec => []AssembledIsComplete
<1>1. AssemblyInv => AssembledIsComplete
  BY DEF AssemblyInv
<1>2. QED
  BY <1>1, AssemblyInvariance, PTL

-----------------------------------------------------------------------------
(* Token limits                                                            *)

LEMMA ChunkStepKeepsLimits ==
  ASSUME SlotInv, AssemblyInv, LimitsReported, NEW c \in Chunks, ChunkStep(c)
  PROVE  LimitsReported'
<1>1. TypeOK /\ AssembledIsComplete
  BY DEF SlotInv, AssemblyInv
<1>2. ArticleOf[c] \in Articles
  BY PlanAssumption
<1>3. /\ article' = article /\ task[c] # "over"
      /\ \A a \in Articles : a # ArticleOf[c] =>
           raised'[a] = raised[a] /\ tokens'[a] = tokens[a]
  BY <1>1, ChunkStepIsLocal
<1>4. article[ArticleOf[c]] \notin {"finishing", "completed", "needs_human_review"}
  BY <1>1, <1>2, <1>3 DEF AssembledIsComplete, ChunksOf
<1>5. \/ UNCHANGED <<tokens, raised>>
      \/ \E s \in Slots, st \in Statuses, u \in Nat \X Nat : Succeed(c, s, st, u)
      \/ tokens' = tokens /\ raised'[ArticleOf[c]] # "none"
  <2>1. ASSUME NEW s \in Slots, NEW n \in {0, 1}, NEW main, Invoke(c, s, n, main)
        PROVE  \/ UNCHANGED <<tokens, raised>>
               \/ \E t \in Slots, st \in Statuses, u \in Nat \X Nat : Succeed(c, t, st, u)
    <3>1. "CACHED" \in Statuses /\ <<0, 0>> \in Nat \X Nat
      BY DEF Statuses
    <3>2. QED
      BY <2>1, <3>1 DEF Invoke, Lose, articleVars
  <2>2. task[c] \in Working => slot[c] \in Slots
    BY DEF SlotInv, TypeOK, SlotsConserved
  <2>3. CASE TakeSlot(c) \/ LockAndReturn(c) \/ SwitchDone(c)
    BY <1>1, <2>1, <2>2, <2>3 DEF TakeSlot, LockAndReturn, SwitchDone, GiveUpForCredits,
       Lose, TypeOK, Working, InLock
  <2>4. CASE CallSucceeds(c)
    <3>1. PICK st \in {"TRANSLATED", "REPAIRED"}, u \in Usage : Succeed(c, slot[c], st, u)
      BY <2>4 DEF CallSucceeds
    <3>2. st \in Statuses /\ u \in Nat \X Nat /\ slot[c] \in Slots
      BY <2>2, <2>4, ConfigAssumption DEF CallSucceeds, Statuses, Working
    <3>3. QED
      BY <3>1, <3>2
  <2>5. CASE CallFails(c) \/ CallOutOfCredits(c) \/ LockAndSwitch(c) \/ AnswerYes(c) \/ AnswerNo(c)
    BY <2>5 DEF CallFails, CallOutOfCredits, LockAndSwitch, AnswerYes, AnswerNo,
                GiveUpForCredits, Lose, articleVars
  <2>6. CASE CallRaises(c) \/ SwitchRaises(c)
    BY <1>1, <1>2, <2>6 DEF CallRaises, SwitchRaises, Raise, TypeOK
  <2>7. QED
    BY <2>3, <2>4, <2>5, <2>6 DEF ChunkStep
<1>6. CASE UNCHANGED <<tokens, raised>>
  BY <1>3, <1>6 DEF LimitsReported, ExceedsLimit
<1>7. ASSUME NEW s \in Slots, NEW st \in Statuses, NEW u \in Nat \X Nat, Succeed(c, s, st, u)
      PROVE  LimitsReported'
  <2> DEFINE t == <<tokens[ArticleOf[c]][1] + u[1], tokens[ArticleOf[c]][2] + u[2]>>
  <2>1. tokens' = [tokens EXCEPT ![ArticleOf[c]] = t]
    BY <1>7 DEF Succeed
  <2>2. raised'[ArticleOf[c]] = IF ExceedsLimit(t) /\ raised[ArticleOf[c]] = "none"
                                THEN "limit" ELSE raised[ArticleOf[c]]
    BY <1>1, <1>2, <1>7 DEF Succeed, TypeOK
  <2>3. tokens'[ArticleOf[c]] = t
    BY <1>1, <1>2, <2>1 DEF TypeOK
  <2>4. ExceedsLimit(tokens'[ArticleOf[c]]) => raised'[ArticleOf[c]] # "none"
    BY <2>2, <2>3
  <2>5. \A a \in Articles : (ExceedsLimit(tokens[a]))' <=> ExceedsLimit(tokens'[a])
    BY DEF ExceedsLimit
  <2> HIDE DEF t
  <2>6. ASSUME NEW a \in Articles, ExceedsLimit(tokens'[a]) PROVE raised'[a] # "none"
    BY <1>3, <2>4, <2>6 DEF LimitsReported
  <2>7. QED
    BY <1>2, <1>3, <1>4, <2>5, <2>6 DEF LimitsReported
<1>8. CASE tokens' = tokens /\ raised'[ArticleOf[c]] # "none"
  BY <1>2, <1>3, <1>4, <1>8 DEF LimitsReported, ExceedsLimit
<1>9. QED
  BY <1>5, <1>6, <1>7, <1>8

\* The checks after each chunk (lines 861-880) keep every article that is
\* assembled within max_token_ratio and max_article_tokens, in whatever
\* order its chunks finish.
THEOREM LimitsHold == Spec => []WithinLimits
<1>1. Init => LimitsReported
  BY ConfigAssumption DEF Init, LimitsReported, ExceedsLimit
<1>2. SlotInv /\ AssemblyInv /\ LimitsReported /\ [Next]_vars => LimitsReported'
  <2> SUFFICES ASSUME SlotInv, AssemblyInv, LimitsReported, [Next]_vars
               PROVE  LimitsReported'
    OBVIOUS
  <2>1. ASSUME NEW c \in Chunks, ChunkStep(c) PROVE LimitsReported'
    BY <2>1, ChunkStepKeepsLimits
  <2>2. ASSUME NEW a \in Articles, ArticleStep(a) PROVE LimitsReported'
    <3>1. TypeOK /\ UNCHANGED <<tokens, raised>>
      BY <2>2 DEF SlotInv, ArticleStep, StartArticle, GatherReturns, GatherRaises, Timeout, Finish
    <3>2. \A b \in Articles :
            article'[b] \in {"finishing", "completed", "needs_human_review"} =>
              article[b] \in {"finishing", "completed", "needs_human_review"} \/ raised[b] = "none"
      BY <2>2, <3>1 DEF ArticleStep, StartArticle, GatherReturns, GatherRaises, Timeout,
         Finish, TypeOK
    <3>3. QED
      BY <3>1, <3>2 DEF LimitsReported, ExceedsLimit
  <2>3. CASE RunStep \/ (\E e \in Engines : RunOutOfCredits(e)) \/ UNCHANGED vars
    <3>1. UNCHANGED articleVars
      BY <2>3 DEF RunStep, CloseRun, EndRun, RunOutOfCredits, vars
    <3>2. QED
      BY <3>1 DEF LimitsReported, ExceedsLimit, articleVars
  <2>4. QED
    BY <2>1, <2>2, <2>3 DEF Next
<1>3. LimitsReported => WithinLimits
  BY DEF LimitsReported, WithinLimits
<1>4. QED
  BY <1>1, <1>2, <1>3, SlotInvariance, AssemblyInvariance, PTL DEF Spec

-----------------------------------------------------------------------------
(* Credits                                                                 *)

LEMMA ChunkStepKeepsCredit ==
  ASSUME TypeOK, OneSwitch, CreditInv, NEW c \in Chunks, ChunkStep(c)
  PROVE  CreditInv'
<1>1. /\ \A d \in Chunks : d # c => task'[d] = task[d]
      /\ task[c] # "over"
  BY ChunkStepIsLocal
<1>2. \A d \in Chunks : d # c => via'[d] = via[d] /\ attempt'[d] = attempt[d]
  BY DEF TypeOK, ChunkStep, TakeSlot, CallSucceeds, CallFails, CallOutOfCredits,
         CallRaises, LockAndReturn, LockAndSwitch, AnswerYes, AnswerNo, SwitchDone,
         SwitchRaises, Invoke, Raise, GiveUpForCredits
<1>3. c \notin outOfCredits
  BY <1>1 DEF CreditInv
<1>4. exhausted' = exhausted /\ (fb = "switched" => fb' = "switched")
      /\ (fb = "declined" => fb' = "declined")
  BY NoneAssumption DEF ChunkStep, TakeSlot, CallSucceeds, CallFails, CallOutOfCredits,
     CallRaises, LockAndReturn, LockAndSwitch, AnswerYes, AnswerNo, SwitchDone,
     SwitchRaises, engineVars, OneSwitch, InLock
<1>5. CASE outOfCredits' = outOfCredits
  <2>1. task'[c] = "calling" /\ attempt'[c] = 1 /\ c \notin ComplexChunks =>
          fb' = "switched" /\ via'[c] = "fallback"
    BY <1>5 DEF TypeOK, ChunkStep, TakeSlot, CallSucceeds, CallFails, CallOutOfCredits,
       CallRaises, LockAndReturn, LockAndSwitch, AnswerYes, AnswerNo, SwitchDone,
       SwitchRaises, Invoke, Succeed, Lose, Raise, GiveUpForCredits, ReleaseSlot,
       EngineFor, LlmClient, CreditInv, engineVars
  <2>2. QED
    BY <1>1, <1>2, <1>3, <1>4, <1>5, <2>1 DEF CreditInv, CreditsExcuse, TypeOK
<1>6. CASE outOfCredits' # outOfCredits
  <2>1. GiveUpForCredits(c)
    BY <1>6 DEF ChunkStep, TakeSlot, CallSucceeds, CallFails, CallOutOfCredits,
       CallRaises, LockAndReturn, LockAndSwitch, AnswerYes, AnswerNo, SwitchDone,
       SwitchRaises, Invoke, Succeed, Lose, Raise, GiveUpForCredits, articleVars
  <2>2. task'[c] = "over" /\ outOfCredits' = outOfCredits \cup {c} /\ UNCHANGED <<via, attempt>>
    BY <2>1 DEF GiveUpForCredits, Lose, ReleaseSlot, TypeOK
  <2>3. c \notin ComplexChunks => \/ fb' = "declined" \/ ~HasTarget
                                  \/ fb' = "switched" /\ via[c] = "fallback" /\ "fallback" \in exhausted
    <3>1. \/ CallOutOfCredits(c) /\ attempt[c] = 1
          \/ LockAndReturn(c) /\ (fb = "declined" \/ ~HasTarget)
          \/ AnswerNo(c)
      BY <1>6 DEF ChunkStep, TakeSlot, CallSucceeds, CallFails, CallOutOfCredits,
         CallRaises, LockAndReturn, LockAndSwitch, AnswerYes, AnswerNo, SwitchDone,
         SwitchRaises, Invoke, Succeed, Lose, Raise, GiveUpForCredits, articleVars
    <3>2. QED
      BY <3>1, <1>4 DEF CallOutOfCredits, AnswerNo, CreditInv, TypeOK
  <2>4. QED
    BY <1>1, <1>2, <1>4, <2>2, <2>3 DEF CreditInv, CreditsExcuse, TypeOK
<1>7. QED
  BY <1>5, <1>6

\* ensure_fallback_engine and the retry in process_chunk: no chunk of the
\* main engine is failed for lack of credits while a fallback could still
\* have taken it.
THEOREM CreditsAreExcused == Spec => []CreditsExcuse
<1>1. Init => CreditInv
  BY DEF Init, CreditInv, CreditsExcuse
<1>2. SlotInv /\ OneSwitch /\ CreditInv /\ [Next]_vars => CreditInv'
  <2> SUFFICES ASSUME SlotInv, OneSwitch, CreditInv, [Next]_vars PROVE CreditInv'
    OBVIOUS
  <2>1. TypeOK /\ PlannedIsIdle
    BY DEF SlotInv
  <2>2. ASSUME NEW c \in Chunks, ChunkStep(c) PROVE CreditInv'
    BY <2>1, <2>2, ChunkStepKeepsCredit
  <2>3. ASSUME NEW a \in Articles, ArticleStep(a) PROVE CreditInv'
    <3>1. UNCHANGED <<via, attempt, outOfCredits, fb, exhausted>>
      BY <2>3 DEF ArticleStep, StartArticle, GatherReturns, GatherRaises, Timeout, Finish,
         chunkVars, engineVars
    <3>2. \A c \in Chunks : \/ task'[c] = task[c] \/ task'[c] = "over"
                            \/ task[c] = "none" /\ task'[c] = "queued"
      BY <2>1, <2>3 DEF ArticleStep, StartArticle, GatherReturns, GatherRaises, Timeout,
         Finish, Cancel, PlannedIsIdle, chunkVars, TypeOK
    <3>3. QED
      BY <2>1, <3>1, <3>2 DEF CreditInv, CreditsExcuse, TypeOK
  <2>4. CASE RunStep
    BY <2>1, <2>4 DEF RunStep, CloseRun, EndRun, Cancel, CreditInv, CreditsExcuse,
                      chunkVars, engineVars, TypeOK
  <2>5. CASE (\E e \in Engines : RunOutOfCredits(e)) \/ UNCHANGED vars
    BY <2>1, <2>5 DEF RunOutOfCredits, vars, CreditInv, CreditsExcuse, chunkVars, engineVars
  <2>6. QED
    BY <2>2, <2>3, <2>4, <2>5 DEF Next
<1>3. CreditInv => CreditsExcuse
  BY DEF CreditInv
<1>4. QED
  BY <1>1, <1>2, <1>3, SlotInvariance, SwitchIsExclusive, PTL DEF Spec

-----------------------------------------------------------------------------
(* Timeouts and outcomes                                                   *)

\* wait_for's timeout (lines 889-903): the tasks it cancelled stay over, so
\* an article that timed out is never touched again.
THEOREM TimeoutsAreQuiet == Spec => []TimedOutIsQuiet
<1>1. Init => TimedOutIsQuiet
  BY DEF Init, TimedOutIsQuiet
<1>2. SlotInv /\ TimedOutIsQuiet /\ [Next]_vars => TimedOutIsQuiet'
  <2> SUFFICES ASSUME SlotInv, TimedOutIsQuiet, [Next]_vars PROVE TimedOutIsQuiet'
    OBVIOUS
  <2>1. TypeOK /\ SlotsConserved
    BY DEF SlotInv
  <2>2. ASSUME NEW c \in Chunks, ChunkStep(c) PROVE TimedOutIsQuiet'
    <3>1. /\ article' = article /\ task[c] # "over"
          /\ \A d \in Chunks : d # c => task'[d] = task[d] /\ status'[d] = status[d]
      BY <2>1, <2>2, ChunkStepIsLocal
    <3>2. \A d \in Chunks : d # c => slot'[d] = slot[d]
      BY <2>1, <2>2 DEF TypeOK, ChunkStep, TakeSlot, CallSucceeds, CallFails,
         CallOutOfCredits, CallRaises, LockAndReturn, LockAndSwitch, AnswerYes, AnswerNo,
         SwitchDone, SwitchRaises, Invoke, Succeed, Lose, Raise, GiveUpForCredits, ReleaseSlot
    <3>3. QED
      BY <3>1, <3>2 DEF TimedOutIsQuiet, ChunksOf
  <2>3. ASSUME NEW a \in Articles, ArticleStep(a) PROVE TimedOutIsQuiet'
    <3>1. CASE Timeout(a)
      <4>1. /\ \A c \in ChunksOf(a) : task'[c] = "over"
            /\ \A c \in Chunks : ArticleOf[c] # a =>
                 task'[c] = task[c] /\ slot'[c] = slot[c] /\ status'[c] = status[c]
            /\ \A c \in ChunksOf(a) : slot'[c] = NoSlot /\ status'[c] # "PENDING"
            /\ \A b \in Articles : b # a => article'[b] = article[b]
        BY <2>1, <3>1 DEF Timeout, Cancel, PendingFails, Unfinished, ChunksOf, TypeOK,
           SlotsConserved, Working, InLock
      <4>2. QED
        BY <4>1 DEF TimedOutIsQuiet, ChunksOf
    <3>2. CASE StartArticle(a)
      <4>1. \A c \in Chunks : ArticleOf[c] # a => task'[c] = task[c]
        BY <3>2 DEF StartArticle
      <4>2. /\ \A b \in Articles : article'[b] = "timed_out" =>
                 b # a /\ article[b] = "timed_out"
            /\ UNCHANGED <<slot, status>>
        BY <2>1, <3>2 DEF StartArticle, TypeOK
      <4>3. QED
        BY <4>1, <4>2 DEF TimedOutIsQuiet, ChunksOf
    <3>3. CASE GatherReturns(a) \/ GatherRaises(a) \/ Finish(a)
      BY <2>1, <3>3 DEF GatherReturns, GatherRaises, Finish, PendingFails, TimedOutIsQuiet,
                        ChunksOf, TypeOK, chunkVars
    <3>4. QED
      BY <2>3, <3>1, <3>2, <3>3 DEF ArticleStep
  <2>4. CASE RunStep
    BY <2>1, <2>4 DEF RunStep, CloseRun, EndRun, Cancel, TimedOutIsQuiet, ChunksOf,
       articleVars, chunkVars, TypeOK, SlotsConserved
  <2>5. CASE (\E e \in Engines : RunOutOfCredits(e)) \/ UNCHANGED vars
    BY <2>5 DEF RunOutOfCredits, vars, TimedOutIsQuiet, ChunksOf, articleVars, chunkVars
  <2>6. QED
    BY <2>2, <2>3, <2>4, <2>5 DEF Next
<1>3. QED
  BY <1>1, <1>2, SlotInvariance, PTL DEF Spec

\* The counters articles_failed, articles_completed and
\* articles_needs_human_review are bumped once per article, and the
\* sequential loop starts an article after its predecessors are settled.
THEOREM OutcomesAreFinal == Spec => OutcomesFinal
<1> DEFINE Final == \A a \in Articles :
       /\ article[a] \in Settled => article'[a] = article[a]
       /\ Sequential /\ article[a] = "planned" /\ article'[a] # "planned" =>
            \A b \in Articles : b < a => article[b] \in Outcomes
<1>1. SlotInv /\ [Next]_vars => [Final]_vars
  <2> SUFFICES ASSUME SlotInv, Next PROVE Final
    OBVIOUS
  <2>1. TypeOK
    BY DEF SlotInv
  <2>2. ASSUME NEW c \in Chunks, ChunkStep(c) PROVE Final
    BY <2>1, <2>2, ChunkStepIsLocal
  <2>3. ASSUME NEW a \in Articles, ArticleStep(a) PROVE Final
    BY <2>1, <2>3 DEF ArticleStep, StartArticle, GatherReturns, GatherRaises, Timeout,
       Finish, TypeOK, Settled, Outcomes
  <2>4. CASE RunStep \/ (\E e \in Engines : RunOutOfCredits(e))
    BY <2>4 DEF RunStep, CloseRun, EndRun, RunOutOfCredits, articleVars
  <2>5. QED
    BY <2>2, <2>3, <2>4 DEF Next
<1>2. QED
  BY <1>1, SlotInvariance, PTL DEF Spec, OutcomesFinal

-----------------------------------------------------------------------------
(***************************************************************************)
(* RunPipeline implements RunContract: every step of the run is a step of  *)
(* the contract or invisible to it, for every plan, worker set and         *)
(* configuration.                                                          *)
(*                                                                         *)
(* The steps of a chunk task need only that its worker ids are conserved;  *)
(* acceptance needs AssemblyInv; the steps that end tasks early need the   *)
(* two facts of ContractInv.                                               *)
(***************************************************************************)

\* No verdict exists for a chunk whose task is not over, and the run closes
\* only for the reason the contract allows.
UnfinishedIsInvalid == \A c \in Chunks : task[c] # "over" => ~valid[c]

ClosedForAReason ==
  run # "running" => \/ \A a \in Articles : article[a] \in Settled
                     \/ \E a \in Articles : article[a] = "raised"

ContractInv == UnfinishedIsInvalid /\ ClosedForAReason

-----------------------------------------------------------------------------
(* The contract's invariant                                                *)

\* The verdict of a chunk is written by the step that ends its task.
LEMMA ChunkStepJudges ==
  ASSUME TypeOK, UnfinishedIsInvalid, NEW c \in Chunks, ChunkStep(c)
  PROVE  UnfinishedIsInvalid'
<1>1. task'[c] # "over" => valid'[c] = valid[c]
  BY DEF TypeOK, ChunkStep, TakeSlot, CallSucceeds, CallFails, CallOutOfCredits,
         CallRaises, LockAndReturn, LockAndSwitch, AnswerYes, AnswerNo, SwitchDone,
         SwitchRaises, Invoke, Succeed, Lose, Raise, GiveUpForCredits, ReleaseSlot
<1>2. task[c] # "over"
  BY ChunkStepIsLocal
<1>3. QED
  BY <1>1, <1>2, ChunkStepIsLocal DEF UnfinishedIsInvalid

\* A run never ends unexplained: settled articles stay settled.
LEMMA StepKeepsContractInv ==
  ASSUME SlotInv, ContractInv, [Next]_vars
  PROVE  ContractInv'
<1>1. TypeOK /\ PlannedIsIdle /\ UnfinishedIsInvalid /\ ClosedForAReason
  BY DEF SlotInv, ContractInv
<1>2. ASSUME NEW c \in Chunks, ChunkStep(c) PROVE ContractInv'
  <2>1. UnfinishedIsInvalid'
    BY <1>1, <1>2, ChunkStepJudges
  <2>2. article' = article /\ run' = run
    BY <1>1, <1>2, ChunkStepIsLocal
  <2>3. QED
    BY <1>1, <2>1, <2>2 DEF ContractInv, ClosedForAReason
<1>3. ASSUME NEW a \in Articles, ArticleStep(a) PROVE ContractInv'
  <2>1. valid' = valid /\ run' = run /\ \A c \in Chunks : task[c] = "over" => task'[c] = "over"
    BY <1>1, <1>3, PlanAssumption
    DEF ArticleStep, StartArticle, GatherReturns, GatherRaises, Timeout, Finish,
        Cancel, TypeOK, PlannedIsIdle, chunkVars
  <2>2. \A b \in Articles : article[b] \in Settled => article'[b] = article[b]
    BY <1>1, <1>3
    DEF ArticleStep, StartArticle, GatherReturns, GatherRaises, Timeout, Finish,
        TypeOK, Settled, Outcomes
  <2>3. ClosedForAReason'
    BY <1>1, <2>1, <2>2 DEF ClosedForAReason, Settled
  <2>4. QED
    BY <1>1, <2>1, <2>3 DEF ContractInv, UnfinishedIsInvalid
<1>4. CASE RunStep
  <2>1. UNCHANGED <<valid, article>> /\ \A c \in Chunks : task[c] = "over" => task'[c] = "over"
    BY <1>1, <1>4
    DEF RunStep, CloseRun, EndRun, Cancel, TypeOK, chunkVars, articleVars
  <2>2. ClosedForAReason'
    BY <1>1, <1>4, <2>1 DEF RunStep, CloseRun, EndRun, ClosedForAReason
  <2>3. QED
    BY <1>1, <2>1, <2>2 DEF ContractInv, UnfinishedIsInvalid
<1>5. CASE UNCHANGED vars \/ \E e \in Engines : RunOutOfCredits(e)
  BY <1>1, <1>5
  DEF vars, articleVars, chunkVars, RunOutOfCredits, ContractInv,
      UnfinishedIsInvalid, ClosedForAReason
<1>6. QED
  BY <1>2, <1>3, <1>4, <1>5 DEF Next

LEMMA ContractInvariance == Spec => []ContractInv
<1>1. Init => ContractInv
  BY DEF Init, ContractInv, UnfinishedIsInvalid, ClosedForAReason
<1>2. SlotInv /\ ContractInv /\ [Next]_vars => ContractInv'
  BY StepKeepsContractInv
<1>3. QED
  BY <1>1, <1>2, SlotInvariance, PTL DEF Spec

-----------------------------------------------------------------------------
(* The steps of a chunk task                                               *)

\* A chunk step takes a free worker id, keeps the one it has, or ends the
\* task without one.
LEMMA ChunkStepSeats ==
  ASSUME TypeOK, SlotsConserved, NEW c \in Chunks, ChunkStep(c)
  PROVE  \/ /\ task[c] = "queued" /\ task'[c] = "calling"
            /\ \E s \in free : slot' = [slot EXCEPT ![c] = s]
         \/ /\ task[c] = "queued" /\ task'[c] = "over"
            /\ free # {} /\ slot' = slot
         \/ task[c] \in Working /\ task'[c] \in Working /\ slot' = slot
         \/ /\ task[c] \in Working /\ task'[c] = "over"
            /\ slot' = [slot EXCEPT ![c] = NoSlot]
<1>1. task \in [Chunks -> TaskStates] /\ slot \in [Chunks -> Slots \cup {NoSlot}]
  BY DEF TypeOK
<1>2. CASE TakeSlot(c)
  <2>1. PICK s \in free : Invoke(c, s, 0, LlmClient)
    BY <1>2 DEF TakeSlot
  <2>2. task[c] = "queued" /\ slot[c] = NoSlot
    BY <1>2 DEF TakeSlot, SlotsConserved, Working, InLock
  <2>3. QED
    BY <1>1, <2>1, <2>2 DEF Invoke, Succeed, Lose, ReleaseSlot
<1>3. CASE \/ CallSucceeds(c) \/ CallFails(c) \/ CallOutOfCredits(c) \/ CallRaises(c)
  BY <1>1, <1>3
  DEF CallSucceeds, CallFails, CallOutOfCredits, CallRaises, Succeed, Lose, Raise,
      GiveUpForCredits, ReleaseSlot, Working
<1>4. CASE LockAndReturn(c) \/ SwitchDone(c)
  <2>1. task[c] \in Working /\ \/ \E main \in {LlmClient, "fallback"} : Invoke(c, slot[c], 1, main)
                               \/ GiveUpForCredits(c)
    BY <1>4 DEF LockAndReturn, SwitchDone, Working, InLock
  <2>2. QED
    BY <1>1, <2>1 DEF Invoke, GiveUpForCredits, Succeed, Lose, ReleaseSlot, Working
<1>5. CASE \/ LockAndSwitch(c) \/ AnswerYes(c) \/ AnswerNo(c) \/ SwitchRaises(c)
  BY <1>1, <1>5
  DEF LockAndSwitch, AnswerYes, AnswerNo, SwitchRaises, GiveUpForCredits, Lose, Raise,
      ReleaseSlot, Working, InLock
<1>6. QED
  BY <1>2, <1>3, <1>4, <1>5 DEF ChunkStep

LEMMA ChunkStepRefines ==
  ASSUME SlotInv, ContractInv, NEW c \in Chunks, ChunkStep(c)
  PROVE  Contract!Sit(c) \/ Contract!PassBy(c) \/ Contract!Leave(c)
         \/ UNCHANGED Contract!vars
<1>1. TypeOK /\ SlotsConserved
  BY DEF SlotInv
<1>2. /\ article' = article /\ run # "ended" /\ run' = run /\ task[c] # "over"
      /\ \A d \in Chunks : d # c =>
           task'[d] = task[d] /\ status'[d] = status[d] /\ valid'[d] = valid[d]
  BY <1>1, ChunkStepIsLocal
<1>3. DoneChunks' = (IF c \in DoneChunks' THEN DoneChunks \cup {c} ELSE DoneChunks)
  BY <1>2 DEF DoneChunks
<1>4. task'[c] # "over" => DoneChunks' = DoneChunks
  BY <1>2, <1>3 DEF DoneChunks
<1>5. \A s \in free : s \in Slots /\ \A d \in Chunks : slot[d] # s
  BY <1>1 DEF TypeOK, SlotsConserved
<1>6. CASE task[c] = "queued" /\ task'[c] = "calling" /\ \E s \in free : slot' = [slot EXCEPT ![c] = s]
  <2>1. {d \in Chunks : task'[d] = "queued"} = {d \in Chunks : task[d] = "queued"} \ {c}
    BY <1>2, <1>6
  <2>2. Contract!Sit(c)
    BY <1>2, <1>4, <1>5, <1>6, <2>1 DEF Contract!Sit, Contract!IsFree
  <2>3. QED
    BY <2>2
<1>7. CASE task[c] = "queued" /\ task'[c] = "over" /\ free # {} /\ slot' = slot
  <2>1. {d \in Chunks : task'[d] = "queued"} = {d \in Chunks : task[d] = "queued"} \ {c}
    BY <1>2, <1>7
  <2>2. Contract!PassBy(c)
    BY <1>2, <1>3, <1>5, <1>7, <2>1 DEF Contract!PassBy, Contract!IsFree
  <2>3. QED
    BY <2>2
<1>8. CASE task[c] \in Working
  <2>1. task[c] # "queued" /\ slot[c] # NoSlot
    BY <1>1, <1>8 DEF SlotsConserved, Working, InLock
  <2>2. CASE task'[c] \in Working /\ slot' = slot
    <3>1. task'[c] # "queued" /\ task'[c] # "over"
      BY <2>2 DEF Working, InLock
    <3>2. {d \in Chunks : task'[d] = "queued"} = {d \in Chunks : task[d] = "queued"}
      BY <1>2, <2>1, <3>1
    <3>3. UNCHANGED Contract!vars
      BY <1>2, <1>4, <2>2, <3>1, <3>2 DEF Contract!vars
    <3>4. QED
      BY <3>3
  <2>3. CASE task'[c] = "over" /\ slot' = [slot EXCEPT ![c] = NoSlot]
    <3>1. {d \in Chunks : task'[d] = "queued"} = {d \in Chunks : task[d] = "queued"}
      BY <1>2, <2>1, <2>3
    <3>2. Contract!Leave(c)
      BY <1>2, <1>3, <2>1, <2>3, <3>1 DEF Contract!Leave
    <3>3. QED
      BY <3>2
  <2>4. QED
    BY <1>1, <1>8, <2>1, <2>2, <2>3, ChunkStepSeats
<1>9. QED
  BY <1>1, <1>6, <1>7, <1>8, ChunkStepSeats

-----------------------------------------------------------------------------
(* The steps of an article and of the run                                  *)

\* Cancelling tasks does not finish a chunk.
LEMMA CancelKeepsDone ==
  ASSUME TypeOK, UnfinishedIsInvalid, NEW S \in SUBSET Chunks, Cancel(S), UNCHANGED valid,
         \A c \in Chunks : status'[c] = status[c]
                           \/ {status[c], status'[c]} = {"PENDING", "FAILED"}
  PROVE  DoneChunks' = DoneChunks
  BY DEF TypeOK, UnfinishedIsInvalid, Cancel, DoneChunks

\* An article's entry in the ledger is the image of its state.
LEMMA LedgerMoves ==
  ASSUME TypeOK, NEW a \in Articles, NEW x, article' = [article EXCEPT ![a] = x]
  PROVE  /\ [b \in Articles |-> LedgerEntry[article[b]]]'
            = [[b \in Articles |-> LedgerEntry[article[b]]] EXCEPT ![a] = LedgerEntry[x]]
         /\ [b \in Articles |-> LedgerEntry[article[b]]][a] = LedgerEntry[article[a]]
  BY DEF TypeOK

LEMMA LedgerValues ==
  /\ LedgerEntry["planned"] = "planned"     /\ LedgerEntry["chunks"] = "opened"
  /\ LedgerEntry["finishing"] = "accepted"  /\ LedgerEntry["completed"] = "delivered"
  /\ LedgerEntry["needs_human_review"] = "withheld"
  /\ LedgerEntry["raised"] = "broken"       /\ LedgerEntry["failed"] = "failed"
  /\ LedgerEntry["timed_out"] = "timed_out"
  BY DEF LedgerEntry

LEMMA ArticleStepRefines ==
  ASSUME SlotInv, AssemblyInv, ContractInv, NEW a \in Articles, ArticleStep(a)
  PROVE  Contract!Next \/ UNCHANGED Contract!vars
<1>1. TypeOK /\ SlotsConserved /\ PlannedIsIdle /\ UnfinishedIsInvalid
  BY DEF SlotInv, ContractInv
<1>2. a \in Contract!Articles /\ Contract!ChunksOf(a) = ChunksOf(a)
  BY DEF Contract!Articles, Articles, Contract!ChunksOf, ChunksOf
<1>3. run # "ended" /\ run' = run
  BY DEF ArticleStep, StartArticle, GatherReturns, GatherRaises, Timeout, Finish
<1>4. CASE StartArticle(a)
  <2>1. {c \in Chunks : task'[c] = "queued"} = {c \in Chunks : task[c] = "queued"} \cup ChunksOf(a)
    BY <1>4 DEF StartArticle, ChunksOf
  <2>2. DoneChunks' = DoneChunks
    BY <1>1, <1>4, PlanAssumption DEF StartArticle, DoneChunks, PlannedIsIdle
  <2>3. /\ [b \in Articles |-> LedgerEntry[article[b]]]'
            = [[b \in Articles |-> LedgerEntry[article[b]]] EXCEPT ![a] = LedgerEntry["chunks"]]
       /\ [b \in Articles |-> LedgerEntry[article[b]]][a] = LedgerEntry[article[a]]
    BY <1>1, <1>4, LedgerMoves DEF StartArticle
  <2>4. Contract!Open(a)
    BY <1>2, <1>3, <1>4, <2>1, <2>2, <2>3, LedgerValues DEF StartArticle, Contract!Open
  <2>5. QED
    BY <1>2, <2>4 DEF Contract!Next
<1>5. CASE GatherReturns(a)
  <2>1. UNCHANGED <<task, slot, DoneChunks>>
    BY <1>5 DEF GatherReturns, chunkVars, DoneChunks
  <2>2. CASE article' = [article EXCEPT ![a] = "failed"]
    <3>1. /\ [b \in Articles |-> LedgerEntry[article[b]]]'
              = [[b \in Articles |-> LedgerEntry[article[b]]] EXCEPT ![a] = LedgerEntry["failed"]]
         /\ [b \in Articles |-> LedgerEntry[article[b]]][a] = LedgerEntry[article[a]]
      BY <1>1, <2>2, LedgerMoves
    <3>2. Contract!Fail(a)
      BY <1>3, <1>5, <2>1, <3>1, LedgerValues DEF GatherReturns, Contract!Fail
    <3>3. QED
      BY <1>2, <3>2 DEF Contract!Next
  <2>3. CASE ~failed[a] /\ article' = [article EXCEPT ![a] = "finishing"]
    <3>1. \A c \in ChunksOf(a) : task[c] = "over" /\ c \in DoneChunks
      BY <1>3, <1>5, <2>3
      DEF GatherReturns, AssemblyInv, OverIsGood, ChunksOf, DoneChunks
    <3>2. \A c \in ChunksOf(a) : task[c] # "queued" /\ slot[c] = NoSlot
      BY <1>1, <3>1 DEF SlotsConserved, Working, InLock, ChunksOf
    <3>3. /\ [b \in Articles |-> LedgerEntry[article[b]]]'
              = [[b \in Articles |-> LedgerEntry[article[b]]] EXCEPT ![a] = LedgerEntry["finishing"]]
         /\ [b \in Articles |-> LedgerEntry[article[b]]][a] = LedgerEntry[article[a]]
      BY <1>1, <2>3, LedgerMoves
    <3>4. Contract!Accept(a)
      BY <1>2, <1>3, <1>5, <2>1, <3>1, <3>2, <3>3, LedgerValues
      DEF GatherReturns, Contract!Accept, Contract!Gone, ChunksOf
    <3>5. QED
      BY <1>2, <3>4 DEF Contract!Next
  <2>4. QED
    BY <1>5, <2>2, <2>3 DEF GatherReturns
<1>6. CASE GatherRaises(a)
  <2>1. UNCHANGED <<task, slot, DoneChunks>>
    BY <1>6 DEF GatherRaises, PendingFails, DoneChunks
  <2>2. /\ [b \in Articles |-> LedgerEntry[article[b]]]'
            = [[b \in Articles |-> LedgerEntry[article[b]]] EXCEPT ![a] = LedgerEntry["failed"]]
       /\ [b \in Articles |-> LedgerEntry[article[b]]][a] = LedgerEntry[article[a]]
    BY <1>1, <1>6, LedgerMoves DEF GatherRaises
  <2>3. Contract!Fail(a)
    BY <1>3, <1>6, <2>1, <2>2, LedgerValues DEF GatherRaises, Contract!Fail
  <2>4. QED
    BY <1>2, <2>3 DEF Contract!Next
<1>7. CASE Timeout(a)
  <2>1. DoneChunks' = DoneChunks
    BY <1>1, <1>7, CancelKeepsDone DEF Timeout, PendingFails, Unfinished, ChunksOf
  <2>2. {c \in Chunks : task'[c] = "queued"} = {c \in Chunks : task[c] = "queued"} \ ChunksOf(a)
    BY <1>7 DEF Timeout, Cancel, Unfinished, ChunksOf
  <2>3. slot' = [c \in Chunks |-> IF ArticleOf[c] = a THEN NoSlot ELSE slot[c]]
    BY <1>1, <1>7 DEF Timeout, Cancel, Unfinished, ChunksOf, SlotsConserved, Working, InLock
  <2>4. /\ [b \in Articles |-> LedgerEntry[article[b]]]'
            = [[b \in Articles |-> LedgerEntry[article[b]]] EXCEPT ![a] = LedgerEntry["timed_out"]]
       /\ [b \in Articles |-> LedgerEntry[article[b]]][a] = LedgerEntry[article[a]]
    BY <1>1, <1>7, LedgerMoves DEF Timeout
  <2>5. Contract!Expire(a)
    BY <1>2, <1>3, <1>7, <2>1, <2>2, <2>3, <2>4, LedgerValues
    DEF Timeout, Contract!Expire
  <2>6. QED
    BY <1>2, <2>5 DEF Contract!Next
<1>8. CASE Finish(a)
  <2>1. UNCHANGED <<task, slot, DoneChunks>>
    BY <1>8 DEF Finish, chunkVars, DoneChunks
  <2>2. PICK o \in {"completed", "needs_human_review", "raised"} :
          article' = [article EXCEPT ![a] = o]
    BY <1>8 DEF Finish
  <2>3. [b \in Articles |-> LedgerEntry[article[b]]]'
          = [[b \in Articles |-> LedgerEntry[article[b]]] EXCEPT ![a] = LedgerEntry[o]]
    BY <1>1, <2>2, LedgerMoves
  <2>4. [b \in Articles |-> LedgerEntry[article[b]]][a] = "accepted"
    BY <1>8, LedgerValues DEF Finish
  <2>5. LedgerEntry[o] \in {"delivered", "withheld", "broken"}
    BY <2>2, LedgerValues
  <2>6. Contract!Settle(a)
    BY <1>3, <2>1, <2>3, <2>4, <2>5 DEF Contract!Settle
  <2>7. QED
    BY <1>2, <2>6 DEF Contract!Next
<1>9. QED
  BY <1>4, <1>5, <1>6, <1>7, <1>8 DEF ArticleStep

LEMMA RunStepRefines ==
  ASSUME SlotInv, ContractInv, RunStep
  PROVE  Contract!Next \/ UNCHANGED Contract!vars
<1>1. TypeOK /\ UnfinishedIsInvalid /\ ClosedForAReason
  BY DEF SlotInv, ContractInv
<1>2. CASE CloseRun
  BY <1>2 DEF CloseRun, Contract!vars, articleVars, chunkVars, DoneChunks
<1>3. CASE EndRun
  <2>1. DoneChunks' = DoneChunks
    BY <1>1, <1>3, CancelKeepsDone DEF EndRun
  <2>2. {c \in Chunks : task'[c] = "queued"} = {}
    BY <1>3 DEF EndRun, Cancel
  <2>3. slot' = [c \in Chunks |-> NoSlot]
    BY <1>3 DEF EndRun, Cancel, SlotInv, SlotsConserved, Working, InLock
  <2>4. \/ \A a \in Articles : LedgerEntry[article[a]] \notin {"planned", "opened", "accepted"}
        \/ \E a \in Articles : LedgerEntry[article[a]] = "broken"
    BY <1>1, <1>3 DEF EndRun, ClosedForAReason, Settled, Outcomes, LedgerEntry
  <2>5. Contract!Close
    BY <1>3, <2>1, <2>2, <2>3, <2>4
    DEF EndRun, articleVars, Contract!Close, Contract!Articles, Articles
  <2>6. QED
    BY <2>5 DEF Contract!Next
<1>4. QED
  BY <1>2, <1>3 DEF RunStep

-----------------------------------------------------------------------------
\* pipeline.py's run_pipeline keeps the promises of RunContract: seats are
\* never shared, no chunk is served twice, articles are accepted only with
\* all their chunks done, outcomes are final.
THEOREM RunKeepsItsContract == Spec => Implements
<1>1. Init => Contract!Init
  BY DEF Init, Contract!Init, Contract!Articles, Articles, LedgerEntry, DoneChunks
<1>2. SlotInv /\ AssemblyInv /\ ContractInv /\ [Next]_vars => [Contract!Next]_(Contract!vars)
  <2> SUFFICES ASSUME SlotInv, AssemblyInv, ContractInv, [Next]_vars
               PROVE  Contract!Next \/ UNCHANGED Contract!vars
    OBVIOUS
  <2>1. ASSUME NEW c \in Chunks, ChunkStep(c) PROVE Contract!Next \/ UNCHANGED Contract!vars
    BY <2>1, ChunkStepRefines DEF Contract!Next
  <2>2. ASSUME NEW a \in Articles, ArticleStep(a) PROVE Contract!Next \/ UNCHANGED Contract!vars
    BY <2>2, ArticleStepRefines
  <2>3. CASE RunStep
    BY <2>3, RunStepRefines
  <2>4. CASE UNCHANGED vars \/ \E e \in Engines : RunOutOfCredits(e)
    BY <2>4 DEF vars, articleVars, chunkVars, RunOutOfCredits, Contract!vars, DoneChunks
  <2>5. QED
    BY <2>1, <2>2, <2>3, <2>4 DEF Next
<1>3. QED
  BY <1>1, <1>2, SlotInvariance, AssemblyInvariance, ContractInvariance, PTL
  DEF Spec, Implements, Contract!Spec

=============================================================================
