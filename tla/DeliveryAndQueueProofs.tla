---------------------- MODULE DeliveryAndQueueProofs ----------------------
(***************************************************************************)
(* What holds of the articles on disk: of ArticleDelivery for any          *)
(* articles, chunks, flaws, round limits and number of runs, and of        *)
(* QueueRunner for any number of machines and lines and any spending.      *)
(***************************************************************************)
EXTENDS ArticleDelivery, QueueRunner, TLAPS

Domains ==
  /\ DOMAIN running = Articles /\ DOMAIN status = Articles
  /\ DOMAIN wiki = Articles /\ DOMAIN partial = Articles

TypeInv == TypeOK /\ Domains /\ \A a \in Articles : assembled[a] \subseteq Flaws[a]

\* The last step of the article and the file it left.
WrittenAsAssembled == \A a \in Articles : Delivered(a) => wiki[a] = assembled[a]

ProgressInv == TypeInv /\ WrittenAsAssembled /\ ProgressOnDisk

\* Within the loops, what is known of the text are the findings of the last
\* validation; past them, the flags file has them.
Validated ==
  \A a \in Articles :
    /\ stage[a] \in {"repair", "review"} => Detected(assembled[a], found[a])
    /\ stage[a] = "repair" => "footnote" \notin assembled[a]
    /\ stage[a] = "review" => review
    /\ stage[a] \in {"save", "writing", "saved", "completed"} =>
         /\ "static" \in assembled[a] => flagsMd[a] # Missing /\ "static" \in flagsMd[a]
         /\ ~review => assembled[a] \subseteq {"live", "language"}

ValidInv == TypeInv /\ WrittenAsAssembled /\ Validated

\* The article's file is written before its entry.
RecordsInv ==
  /\ TypeInv /\ RecordsAgree
  /\ \A a \in Articles : stage[a] = "withholding" => reviewMd[a] = found[a]

\* Without --force only articles without a file are worked on, and the file
\* that is being written is the torn one.
KeptInv ==
  /\ TypeInv
  /\ \A a \in Articles :
       /\ stage[a] = "writing" => wiki[a] = Torn
       /\ ~force /\ stage[a] \in {"chunks", "repair", "review", "save"} => wiki[a] = Missing

-----------------------------------------------------------------------------
LEMMA MarksAreNoTexts ==
  /\ \A t \in SUBSET Kinds : t # Missing /\ t # Torn
  /\ \A f \in SUBSET Findings : f # Missing /\ f # Torn
  /\ \A a \in Articles : \A C \in SUBSET Chunks[a] : C # Missing /\ C # Torn
BY MarksAssumption

LEMMA TypeInit == Init => TypeInv
<1> SUFFICES ASSUME Init PROVE TypeInv
  OBVIOUS
<1>1. /\ runs \in 1..MaxRuns
      /\ rounds \in [Articles -> 0..(IF MaxRounds > MaxReviewRounds THEN MaxRounds ELSE MaxReviewRounds)]
  BY DeliveryAssumption DEF Init
<1>2. /\ assembled \in [Articles -> SUBSET Kinds]
      /\ found \in [Articles -> SUBSET Findings]
      /\ \A a \in Articles : assembled[a] \subseteq Flaws[a]
  BY DEF Init
<1>3. Domains
  BY DeliveryAssumption DEF Init, Domains
<1>4. \A a \in Articles : status[a] \in [Chunks[a] -> {"PENDING", "DONE", "FAILED"}]
  BY DEF Init
<1> QED
  BY <1>1, <1>2, <1>3, <1>4, MarksAssumption DEF Init, TypeInv, TypeOK, Settled, Whole, Lists

LEMMA ReassembleType ==
  ASSUME TypeInv, NEW a \in Articles, NEW results \in SUBSET (SUBSET Flaws[a]),
         NEW remarks, Reassemble(a, results, remarks)
  PROVE  /\ assembled' \in [Articles -> SUBSET Kinds]
         /\ found' \in [Articles -> SUBSET Findings]
         /\ \A b \in Articles : assembled'[b] \subseteq Flaws[b]
<1>1. Flaws[a] \subseteq Kinds
  BY DeliveryAssumption
<1> QED
  BY <1>1 DEF TypeInv, TypeOK, Reassemble

LEMMA TypeStep == TypeInv /\ [Next]_vars => TypeInv'
<1> SUFFICES ASSUME TypeInv, [Next]_vars PROVE TypeInv'
  OBVIOUS
<1> USE DEF setting, chunkVars, textVars, disk, records, records
<1>1. CASE NextRun
  <2>1. /\ runs' \in 1..MaxRuns
    BY <1>1, DeliveryAssumption DEF NextRun, TypeInv, TypeOK
  <2>2. \A a \in Articles : DoneOf(a) \in SUBSET Chunks[a]
    BY DEF DoneOf
  <2>3. /\ DOMAIN partial' = Articles
        /\ \A a \in Articles : /\ partial'[a] # Torn
                               /\ Whole(partial'[a]) => partial'[a] \subseteq Chunks[a]
    <3>1. PICK cancelled \in SUBSET Articles :
            partial' = [a \in Articles |-> IF a \in cancelled THEN DoneOf(a) ELSE partial[a]]
      BY <1>1 DEF NextRun
    <3>2. ASSUME NEW a \in Articles
          PROVE  partial'[a] # Torn /\ (Whole(partial'[a]) => partial'[a] \subseteq Chunks[a])
      <4>1. partial[a] # Torn /\ (Whole(partial[a]) => partial[a] \subseteq Chunks[a])
        BY DEF TypeInv, TypeOK
      <4>2. DoneOf(a) # Torn /\ DoneOf(a) \subseteq Chunks[a]
        BY <2>2, MarksAreNoTexts
      <4>3. partial'[a] = DoneOf(a) \/ partial'[a] = partial[a]
        BY <3>1
      <4> QED
        BY <4>1, <4>2, <4>3 DEF Whole
    <3> QED
      BY <3>1, <3>2
  <2>4. stage' \in [Articles -> {"skipped", "chunks", "failed"}]
    BY <1>1 DEF NextRun
  <2>5. /\ DOMAIN running' = Articles /\ DOMAIN status' = Articles
        /\ \A a \in Articles : /\ running'[a] \subseteq Chunks[a]
                               /\ status'[a] \in [Chunks[a] -> {"PENDING", "DONE", "FAILED"}]
    BY <1>1 DEF NextRun, FreshMemory
  <2>6. /\ assembled' \in [Articles -> SUBSET Kinds]
        /\ found' \in [Articles -> SUBSET Findings]
        /\ \A a \in Articles : assembled'[a] \subseteq Flaws[a]
        /\ failed' \subseteq Articles
        /\ rounds' \in [Articles -> 0..(IF MaxRounds > MaxReviewRounds THEN MaxRounds ELSE MaxReviewRounds)]
    BY <1>1, DeliveryAssumption DEF NextRun, FreshMemory
  <2>7. force' \in BOOLEAN /\ review' \in BOOLEAN /\ UNCHANGED <<wiki, flagsMd, reviewMd, index>>
    BY <1>1 DEF NextRun, TypeInv, TypeOK
  <2>8. /\ DOMAIN wiki' = Articles
        /\ \A a \in Articles : Whole(wiki'[a]) => wiki'[a] \subseteq Flaws[a]
        /\ broken' \subseteq Articles
    BY <1>1, <2>7 DEF NextRun, TypeInv, TypeOK, Domains, Whole
  <2> QED
    BY <2>1, <2>3, <2>4, <2>5, <2>6, <2>7, <2>8 DEF TypeInv, TypeOK, Domains, Settled, Whole
<1>2. ASSUME NEW a \in Articles, NEW c \in Chunks[a], ChunkEnds(a, c) PROVE TypeInv'
  <2>1. /\ DOMAIN status' = Articles
        /\ \A b \in Articles : status'[b] \in [Chunks[b] -> {"PENDING", "DONE", "FAILED"}]
    BY <1>2 DEF ChunkEnds, TypeInv, TypeOK, Domains
  <2>2. /\ DOMAIN partial' = Articles
        /\ \A b \in Articles : /\ partial'[b] # Torn
                               /\ Whole(partial'[b]) => partial'[b] \subseteq Chunks[b]
    BY <1>2, MarksAreNoTexts DEF ChunkEnds, SavePartial, TypeInv, TypeOK, Domains, Whole
  <2> QED
    BY <1>2, <2>1, <2>2 DEF ChunkEnds, TypeInv, TypeOK, Domains, Whole
<1>3. ASSUME NEW a \in Articles, TimeOut(a) PROVE TypeInv'
  <2>1. /\ DOMAIN status' = Articles
        /\ \A b \in Articles : status'[b] \in [Chunks[b] -> {"PENDING", "DONE", "FAILED"}]
    BY <1>3 DEF TimeOut, PendingFail, TypeInv, TypeOK, Domains
  <2>2. /\ DOMAIN partial' = Articles
        /\ \A b \in Articles : /\ partial'[b] # Torn
                               /\ Whole(partial'[b]) => partial'[b] \subseteq Chunks[b]
    <3>1. CASE SavePartial(a)
      BY <3>1, MarksAreNoTexts DEF SavePartial, TypeInv, TypeOK, Domains, Whole
    <3>2. CASE UNCHANGED partial
      BY <3>2 DEF TypeInv, TypeOK, Domains, Whole
    <3> QED BY <1>3, <3>1, <3>2 DEF TimeOut
  <2> QED
    BY <1>3, <2>1, <2>2 DEF TimeOut, TypeInv, TypeOK, Domains, Whole, Settled
<1>4. ASSUME NEW a \in Articles, Abandon(a) PROVE TypeInv'
  <2>1. PICK c \in running[a], s \in {"DONE", "FAILED"} :
          /\ running' = [running EXCEPT ![a] = @ \ {c}]
          /\ status' = [status EXCEPT ![a] = PendingFail([@ EXCEPT ![c] = s])]
    BY <1>4 DEF Abandon
  <2>2. /\ DOMAIN status' = Articles
        /\ \A b \in Articles : status'[b] \in [Chunks[b] -> {"PENDING", "DONE", "FAILED"}]
    BY <2>1 DEF PendingFail, TypeInv, TypeOK, Domains
  <2>3. /\ DOMAIN partial' = Articles
        /\ \A b \in Articles : /\ partial'[b] # Torn
                               /\ Whole(partial'[b]) => partial'[b] \subseteq Chunks[b]
    BY <1>4, MarksAreNoTexts DEF Abandon, SavePartial, TypeInv, TypeOK, Domains, Whole
  <2> QED
    BY <1>4, <2>1, <2>2, <2>3 DEF Abandon, TypeInv, TypeOK, Domains, Whole, Settled
<1>5. ASSUME NEW a \in Articles, ChunksFailed(a) PROVE TypeInv'
  BY <1>5 DEF ChunksFailed, TypeInv, TypeOK, Domains, Whole, Settled
<1>6. ASSUME NEW a \in Articles, Assemble(a) PROVE TypeInv'
  <2> PICK t \in SUBSET Flaws[a] : Reassemble(a, PostProcess(t), {})
    BY <1>6 DEF Assemble
  <2>1. PostProcess(t) \subseteq SUBSET Flaws[a]
    BY DEF PostProcess
  <2>3. /\ assembled' \in [Articles -> SUBSET Kinds]
        /\ found' \in [Articles -> SUBSET Findings]
        /\ \A b \in Articles : assembled'[b] \subseteq Flaws[b]
    BY <2>1, ReassembleType
  <2> QED
    BY <1>6, <2>3 DEF Assemble, TypeInv, TypeOK, Domains, Whole
<1>7. ASSUME NEW a \in Articles, RepairRound(a) PROVE TypeInv'
  <2> PICK t \in SUBSET Flaws[a] : Reassemble(a, PostProcess(t), {})
    BY <1>7 DEF RepairRound
  <2>1. PostProcess(t) \subseteq SUBSET Flaws[a]
    BY DEF PostProcess
  <2>2. rounds' \in [Articles -> 0..(IF MaxRounds > MaxReviewRounds THEN MaxRounds ELSE MaxReviewRounds)]
    <3>1. rounds[a] + 1 \in 0..(IF MaxRounds > MaxReviewRounds THEN MaxRounds ELSE MaxReviewRounds)
      BY <1>7, DeliveryAssumption DEF RepairRound, TypeInv, TypeOK
    <3> QED BY <1>7, <3>1 DEF RepairRound, TypeInv, TypeOK
  <2>3. /\ assembled' \in [Articles -> SUBSET Kinds]
        /\ found' \in [Articles -> SUBSET Findings]
        /\ \A b \in Articles : assembled'[b] \subseteq Flaws[b]
    BY <2>1, ReassembleType
  <2> QED
    BY <1>7, <2>2, <2>3 DEF RepairRound, TypeInv, TypeOK, Domains, Whole
<1>8. ASSUME NEW a \in Articles, Withhold(a) \/ Explain(a) \/ UpdateIndex(a)
      PROVE  TypeInv'
  <2>1. /\ reviewMd' \in [Articles -> {Torn} \cup Lists]
        /\ index' \in [Articles -> Lists] /\ broken' \subseteq Articles
    BY <1>8 DEF Withhold, Explain, UpdateIndex, TypeInv, TypeOK, Lists
  <2>2. stage' \in [Articles -> Settled \cup
          {"chunks", "repair", "explaining", "withholding", "review",
           "save", "writing", "saved"}]
    BY <1>8 DEF Withhold, Explain, UpdateIndex, TypeInv, TypeOK, Settled
  <2>3. UNCHANGED <<setting, chunkVars, textVars, wiki, partial, flagsMd>>
    BY <1>8 DEF Withhold, Explain, UpdateIndex
  <2> QED
    BY <2>1, <2>2, <2>3 DEF TypeInv, TypeOK, Domains, Whole
<1>9. ASSUME NEW a \in Articles, ReviewOrSave(a) PROVE TypeInv'
  <2>1. /\ found' \in [Articles -> SUBSET Findings]
        /\ rounds' \in [Articles -> 0..(IF MaxRounds > MaxReviewRounds THEN MaxRounds ELSE MaxReviewRounds)]
    BY <1>9, DeliveryAssumption DEF ReviewOrSave, TypeInv, TypeOK
  <2> QED
    BY <1>9, <2>1 DEF ReviewOrSave, TypeInv, TypeOK, Domains, Whole
<1>10. ASSUME NEW a \in Articles, ReviewRound(a) PROVE TypeInv'
  <2> PICK t \in SUBSET Flaws[a] : Reassemble(a, AsIs(t), {"remark"})
    BY <1>10 DEF ReviewRound
  <2>1. AsIs(t) \subseteq SUBSET Flaws[a]
    BY DEF AsIs
  <2>2. rounds' \in [Articles -> 0..(IF MaxRounds > MaxReviewRounds THEN MaxRounds ELSE MaxReviewRounds)]
    <3>1. rounds[a] + 1 \in 0..(IF MaxRounds > MaxReviewRounds THEN MaxRounds ELSE MaxReviewRounds)
      BY <1>10, DeliveryAssumption DEF ReviewRound, TypeInv, TypeOK
    <3> QED BY <1>10, <3>1 DEF ReviewRound, TypeInv, TypeOK
  <2>3. /\ assembled' \in [Articles -> SUBSET Kinds]
        /\ found' \in [Articles -> SUBSET Findings]
        /\ \A b \in Articles : assembled'[b] \subseteq Flaws[b]
    BY <2>1, ReassembleType
  <2> QED
    BY <1>10, <2>2, <2>3 DEF ReviewRound, TypeInv, TypeOK, Domains, Whole
<1>11. ASSUME NEW a \in Articles, EndReview(a) PROVE TypeInv'
  BY <1>11 DEF EndReview, TypeInv, TypeOK, Domains, Whole, Lists
<1>12. ASSUME NEW a \in Articles, SaveOpen(a) PROVE TypeInv'
  BY <1>12 DEF SaveOpen, TypeInv, TypeOK, Domains, Whole
<1>13. ASSUME NEW a \in Articles, SaveWrite(a) PROVE TypeInv'
  BY <1>13 DEF SaveWrite, TypeInv, TypeOK, Domains, Whole
<1>14. ASSUME NEW a \in Articles, DiscardPartial(a) PROVE TypeInv'
  BY <1>14, MarksAssumption DEF DiscardPartial, TypeInv, TypeOK, Domains, Whole, Settled
<1>15. CASE IndexSpoiled
  BY <1>15 DEF IndexSpoiled, memory, TypeInv, TypeOK, Domains, Whole, Lists
<1>16. CASE UNCHANGED vars
  BY <1>16 DEF vars, memory, TypeInv, TypeOK, Domains, Whole
<1> QED
  BY <1>1, <1>2, <1>3, <1>4, <1>5, <1>6, <1>7, <1>8, <1>9, <1>10, <1>11, <1>12,
     <1>13, <1>14, <1>15, <1>16 DEF Next, ArticleStep

\* Files hold what the modules say they may hold, whatever a run is killed in.
THEOREM DeliveryTypeCorrect == Spec => []TypeOK
<1>1. TypeInv => TypeOK
  BY DEF TypeInv
<1> QED BY TypeInit, TypeStep, <1>1, PTL DEF Spec

-----------------------------------------------------------------------------
LEMMA WrittenStep == TypeInv /\ WrittenAsAssembled /\ [Next]_vars => WrittenAsAssembled'
<1> SUFFICES ASSUME TypeInv, WrittenAsAssembled, [Next]_vars PROVE WrittenAsAssembled'
  OBVIOUS
<1> USE DEF setting, chunkVars, textVars, disk, records, WrittenAsAssembled, Delivered,
            TypeInv, TypeOK, Domains
<1>1. CASE NextRun
  BY <1>1 DEF NextRun
<1>2. ASSUME NEW a \in Articles,
             \/ \E c \in Chunks[a] : ChunkEnds(a, c)
             \/ TimeOut(a) \/ Abandon(a) \/ ChunksFailed(a)
             \/ Withhold(a) \/ Explain(a) \/ UpdateIndex(a) \/ ReviewOrSave(a) \/ EndReview(a)
             \/ SaveOpen(a) \/ SaveWrite(a) \/ DiscardPartial(a)
      PROVE  WrittenAsAssembled'
  BY <1>2 DEF ChunkEnds, TimeOut, Abandon, ChunksFailed, Withhold, Explain, UpdateIndex,
              ReviewOrSave, EndReview, SaveOpen, SaveWrite, DiscardPartial
<1>3. ASSUME NEW a \in Articles, Assemble(a) \/ RepairRound(a) \/ ReviewRound(a)
      PROVE  WrittenAsAssembled'
  BY <1>3 DEF Assemble, RepairRound, ReviewRound, Reassemble
<1>4. CASE UNCHANGED vars \/ IndexSpoiled
  BY <1>4 DEF vars, memory, IndexSpoiled
<1> QED
  BY <1>1, <1>2, <1>3, <1>4 DEF Next, ArticleStep

LEMMA ProgressStep == ProgressInv /\ [Next]_vars => ProgressInv'
<1> SUFFICES ASSUME ProgressInv, [Next]_vars PROVE ProgressInv'
  OBVIOUS
<1>t. TypeInv' /\ WrittenAsAssembled'
  BY TypeStep, WrittenStep DEF ProgressInv
<1> USE DEF setting, chunkVars, textVars, disk, records, ProgressInv, WrittenAsAssembled,
            Delivered, ProgressOnDisk, TypeInv, TypeOK, Domains
<1>1. CASE NextRun
  <2>1. \A a \in Articles : DoneOf(a)' = {}
    BY <1>1 DEF NextRun, FreshMemory, DoneOf
  <2> QED BY <1>t, <2>1
<1>2. ASSUME NEW a \in Articles, NEW c \in Chunks[a], ChunkEnds(a, c) PROVE ProgressInv'
  <2>1. partial'[a] = DoneOf(a)'
    BY <1>2 DEF ChunkEnds, SavePartial, DoneOf
  <2>2. \A b \in Articles \ {a} : /\ DoneOf(b)' = DoneOf(b) /\ partial'[b] = partial[b]
                                  /\ stage'[b] = stage[b] /\ wiki'[b] = wiki[b]
                                  /\ assembled'[b] = assembled[b]
    BY <1>2 DEF ChunkEnds, SavePartial, DoneOf
  <2> QED
    BY <1>t, <2>1, <2>2, SMTT(30)
<1>3. ASSUME NEW a \in Articles, TimeOut(a) PROVE ProgressInv'
  <2>1. \A b \in Articles : DoneOf(b)' = DoneOf(b)
    BY <1>3 DEF TimeOut, PendingFail, DoneOf
  <2>2. \A b \in Articles : partial'[b] \in {partial[b], DoneOf(b)'}
    BY <1>3 DEF TimeOut, SavePartial, DoneOf
  <2>3. /\ stage[a] # "completed" /\ UNCHANGED <<wiki, assembled>>
        /\ \A b \in Articles \ {a} : stage'[b] = stage[b]
    BY <1>3 DEF TimeOut
  <2> QED
    BY <1>t, <2>1, <2>2, <2>3
<1>4. ASSUME NEW a \in Articles, Abandon(a) PROVE ProgressInv'
  <2>1. partial'[a] = DoneOf(a)'
    BY <1>4 DEF Abandon, SavePartial, DoneOf
  <2>2. \A b \in Articles \ {a} : /\ DoneOf(b)' = DoneOf(b) /\ partial'[b] = partial[b]
                                  /\ stage'[b] = stage[b] /\ wiki'[b] = wiki[b]
                                  /\ assembled'[b] = assembled[b]
    BY <1>4 DEF Abandon, SavePartial, DoneOf
  <2> QED
    BY <1>t, <2>1, <2>2
<1>5. ASSUME NEW a \in Articles,
             \/ ChunksFailed(a) \/ Withhold(a) \/ Explain(a) \/ UpdateIndex(a)
             \/ ReviewOrSave(a) \/ EndReview(a)
             \/ SaveOpen(a) \/ SaveWrite(a) \/ DiscardPartial(a)
      PROVE  ProgressInv'
  <2>1. \A b \in Articles : DoneOf(b)' = DoneOf(b)
    BY <1>5 DEF ChunksFailed, Withhold, Explain, UpdateIndex, ReviewOrSave, EndReview, SaveOpen,
                SaveWrite, DiscardPartial, DoneOf
  <2>2. CASE DiscardPartial(a)
    BY <1>t, <2>1, <2>2 DEF DiscardPartial
  <2>3. CASE ~DiscardPartial(a)
    <3>1. /\ stage[a] # "completed" /\ UNCHANGED <<partial, assembled>>
          /\ \A b \in Articles \ {a} : stage'[b] = stage[b] /\ wiki'[b] = wiki[b]
      BY <1>5, <2>3 DEF ChunksFailed, Withhold, Explain, UpdateIndex, ReviewOrSave,
                        EndReview, SaveOpen, SaveWrite
    <3> QED
      BY <1>t, <2>1, <3>1
  <2> QED
    BY <2>2, <2>3
<1>6. ASSUME NEW a \in Articles, Assemble(a) \/ RepairRound(a) \/ ReviewRound(a)
      PROVE  ProgressInv'
  <2>1. \A b \in Articles : DoneOf(b)' = DoneOf(b)
    BY <1>6 DEF Assemble, RepairRound, ReviewRound, DoneOf
  <2> QED
    BY <1>6, <1>t, <2>1 DEF Assemble, RepairRound, ReviewRound, Reassemble
<1>7. CASE UNCHANGED vars \/ IndexSpoiled
  <2>1. \A b \in Articles : DoneOf(b)' = DoneOf(b)
    BY <1>7 DEF vars, memory, IndexSpoiled, DoneOf
  <2> QED
    BY <1>7, <1>t, <2>1 DEF vars, memory, IndexSpoiled
<1> QED
  BY <1>1, <1>2, <1>3, <1>4, <1>5, <1>6, <1>7 DEF Next, ArticleStep

\* Whatever step a run is killed in, what it had translated of an article is
\* on disk: in the snapshot, or in the whole .wiki (run_pipeline's finally
\* blocks, save_article before the snapshot is discarded).
THEOREM WorkIsOnDisk == Spec => []ProgressOnDisk
<1>1. Init => ProgressInv
  BY TypeInit DEF Init, ProgressInv, WrittenAsAssembled, Delivered, ProgressOnDisk, DoneOf
<1>2. ProgressInv => ProgressOnDisk
  BY DEF ProgressInv
<1> QED BY <1>1, <1>2, ProgressStep, PTL DEF Spec

-----------------------------------------------------------------------------
\* What a round leaves behind is what its validation saw.
LEMMA ReassembleDetects ==
  ASSUME TypeInv, NEW a \in Articles, NEW results, NEW remarks,
         Reassemble(a, results, remarks)
  PROVE  /\ assembled'[a] \in results /\ Detected(assembled'[a], found'[a])
         /\ \A b \in Articles \ {a} : assembled'[b] = assembled[b] /\ found'[b] = found[b]
BY DEF Reassemble, TypeInv, TypeOK

LEMMA ValidStep == ValidInv /\ [Next]_vars => ValidInv'
<1> SUFFICES ASSUME ValidInv, [Next]_vars PROVE ValidInv'
  OBVIOUS
<1>t. TypeInv' /\ WrittenAsAssembled'
  BY TypeStep, WrittenStep DEF ValidInv
<1> SUFFICES Validated'
  BY <1>t DEF ValidInv
<1> USE DEF setting, chunkVars, textVars, disk, records, ValidInv, Validated
<1>1. CASE NextRun
  BY <1>1 DEF NextRun
<1>2. ASSUME NEW a \in Articles,
             \/ \E c \in Chunks[a] : ChunkEnds(a, c)
             \/ TimeOut(a) \/ Abandon(a) \/ ChunksFailed(a)
             \/ Withhold(a) \/ Explain(a) \/ UpdateIndex(a)
             \/ SaveOpen(a) \/ SaveWrite(a) \/ DiscardPartial(a)
      PROVE  Validated'
  BY <1>2 DEF TypeInv, TypeOK, ChunkEnds, TimeOut, Abandon, ChunksFailed, Withhold,
              Explain, UpdateIndex, SaveOpen, SaveWrite, DiscardPartial, Detected
<1>3. ASSUME NEW a \in Articles, Assemble(a) \/ RepairRound(a) PROVE Validated'
  <2> PICK t \in SUBSET Flaws[a] : Reassemble(a, PostProcess(t), {})
    BY <1>3 DEF Assemble, RepairRound
  <2>1. /\ assembled'[a] \in PostProcess(t) /\ Detected(assembled'[a], found'[a])
        /\ \A b \in Articles \ {a} : assembled'[b] = assembled[b] /\ found'[b] = found[b]
    BY ReassembleDetects
  <2>2. stage'[a] = "repair" /\ \A b \in Articles \ {a} : stage'[b] = stage[b]
    BY <1>3 DEF Assemble, RepairRound, TypeInv, TypeOK
  <2>3. UNCHANGED <<setting, flagsMd>>
    BY <1>3 DEF Assemble, RepairRound
  <2> QED
    BY <2>1, <2>2, <2>3 DEF PostProcess, Detected
<1>4. ASSUME NEW a \in Articles, ReviewRound(a) PROVE Validated'
  <2> PICK t \in SUBSET Flaws[a] : Reassemble(a, AsIs(t), {"remark"})
    BY <1>4 DEF ReviewRound
  <2>1. /\ Detected(assembled'[a], found'[a])
        /\ \A b \in Articles \ {a} : assembled'[b] = assembled[b] /\ found'[b] = found[b]
    BY ReassembleDetects
  <2> QED
    BY <1>4, <2>1 DEF ReviewRound, Detected
<1>5. ASSUME NEW a \in Articles, ReviewOrSave(a) PROVE Validated'
  <2>1. found[a] = {} => assembled[a] \subseteq {"live", "language"}
    BY <1>5 DEF ReviewOrSave, Detected, TypeInv, TypeOK, Kinds
  <2>2. \A b \in Articles \ {a} : stage'[b] = stage[b] /\ found'[b] = found[b]
    BY <1>5 DEF ReviewOrSave, TypeInv, TypeOK
  <2>3. UNCHANGED <<setting, assembled, flagsMd>> /\ found[a] = {}
    BY <1>5 DEF ReviewOrSave
  <2>4. \/ ~review /\ stage'[a] = "save"
        \/ review /\ stage'[a] = "review" /\ Detected(assembled[a], found'[a])
    BY <1>5 DEF ReviewOrSave, TypeInv, TypeOK
  <2> QED
    BY <2>1, <2>2, <2>3, <2>4 DEF Detected
<1>6. ASSUME NEW a \in Articles, EndReview(a) PROVE Validated'
  <2>1. "static" \in assembled[a] => "static" \in found[a]
    BY <1>6 DEF EndReview, Detected
  <2>2. found[a] # Missing
    BY MarksAreNoTexts DEF TypeInv, TypeOK
  <2>3. flagsMd'[a] = IF found[a] = {} THEN flagsMd[a] ELSE found[a]
    BY <1>6 DEF EndReview, TypeInv, TypeOK
  <2>4. \A b \in Articles \ {a} : stage'[b] = stage[b] /\ flagsMd'[b] = flagsMd[b]
    BY <1>6 DEF EndReview, TypeInv, TypeOK, Domains
  <2>5. stage'[a] = "save" /\ review
    BY <1>6 DEF EndReview, TypeInv, TypeOK
  <2>6. UNCHANGED <<setting, assembled, found>>
    BY <1>6 DEF EndReview
  <2> QED
    BY <2>1, <2>2, <2>3, <2>4, <2>5, <2>6 DEF Detected
<1>7. CASE UNCHANGED vars \/ IndexSpoiled
  BY <1>7 DEF vars, memory, IndexSpoiled, Detected
<1> QED
  BY <1>1, <1>2, <1>3, <1>4, <1>5, <1>6, <1>7 DEF Next, ArticleStep

LEMMA ValidInit == Init => ValidInv
BY TypeInit DEF Init, ValidInv, Validated, WrittenAsAssembled, Delivered

\* A static defect in a delivered .wiki is listed in its review-flags.md:
\* run_review_pass validates again after its own repairs.
THEOREM DefectsAreListed == Spec => []NothingShipsSilently
<1>1. ValidInv => NothingShipsSilently
  BY DEF ValidInv, Validated, WrittenAsAssembled, Delivered, NothingShipsSilently
<1> QED BY <1>1, ValidInit, ValidStep, PTL DEF Spec

\* Without a review a delivered .wiki has the fixes applied and no static
\* defect: every repair round applies them again before it validates.
THEOREM FixesSurviveRepair == Spec => []CleanWithoutReview
<1>1. ValidInv => CleanWithoutReview
  BY DEF ValidInv, Validated, WrittenAsAssembled, Delivered, CleanWithoutReview
<1> QED BY <1>1, ValidInit, ValidStep, PTL DEF Spec

-----------------------------------------------------------------------------
LEMMA RecordsStep == RecordsInv /\ [Next]_vars => RecordsInv'
<1> SUFFICES ASSUME RecordsInv, [Next]_vars PROVE RecordsInv'
  OBVIOUS
<1>t. TypeInv' /\ \A a \in Articles : found[a] # Missing
  BY TypeStep, MarksAreNoTexts DEF RecordsInv, TypeInv, TypeOK
<1> USE DEF setting, chunkVars, textVars, disk, records, RecordsInv, RecordsAgree,
            Recording, TypeInv, TypeOK
\* A kill breaks the record that was being written, no other.
<1>1. CASE NextRun
  <2>1. stage' \in [Articles -> {"skipped", "chunks", "failed"}]
    BY <1>1 DEF NextRun
  <2> QED
    BY <1>1, <1>t, <2>1 DEF NextRun
<1>2. CASE IndexSpoiled
  BY <1>2, <1>t DEF IndexSpoiled, memory
<1>3. ASSUME NEW a \in Articles,
             \/ \E c \in Chunks[a] : ChunkEnds(a, c)
             \/ TimeOut(a) \/ Abandon(a) \/ ChunksFailed(a)
             \/ EndReview(a) \/ SaveOpen(a) \/ SaveWrite(a) \/ DiscardPartial(a)
      PROVE  RecordsInv'
  BY <1>3, <1>t DEF ChunkEnds, TimeOut, Abandon, ChunksFailed,
                    EndReview, SaveOpen, SaveWrite, DiscardPartial
\* The findings change of an article that is in one of the loops only.
<1>4. ASSUME NEW a \in Articles,
             Assemble(a) \/ RepairRound(a) \/ ReviewOrSave(a) \/ ReviewRound(a)
      PROVE  RecordsInv'
  <2>1. /\ stage'[a] \in {"repair", "review", "save"} /\ stage[a] \notin Recording
        /\ \A b \in Articles \ {a} : stage'[b] = stage[b] /\ found'[b] = found[b]
        /\ UNCHANGED records
    BY <1>4 DEF Assemble, RepairRound, ReviewOrSave, ReviewRound, Reassemble
  <2> QED
    BY <1>t, <2>1
<1>5. ASSUME NEW a \in Articles, Withhold(a) PROVE RecordsInv'
  BY <1>5, <1>t, MarksAssumption DEF Withhold
<1>6. ASSUME NEW a \in Articles, Explain(a) PROVE RecordsInv'
  BY <1>6, <1>t DEF Explain
<1>7. ASSUME NEW a \in Articles, UpdateIndex(a) PROVE RecordsInv'
  BY <1>7, <1>t DEF UpdateIndex
<1>8. CASE UNCHANGED vars
  BY <1>8, <1>t DEF vars, memory
<1> QED
  BY <1>1, <1>2, <1>3, <1>4, <1>5, <1>6, <1>7, <1>8 DEF Next, ArticleStep

LEMMA RecordsInit == Init => RecordsInv
BY TypeInit DEF Init, RecordsInv, RecordsAgree

\* record_needs_human_review: the file of a withheld article and its entry in
\* the shared index tell the same, over any runs and whatever other articles
\* record; a kill can only leave a record cut short behind, and a damaged index
\* only lose entries.
THEOREM RecordsStayInStep == Spec => []RecordsAgree
<1>1. RecordsInv => RecordsAgree
  BY DEF RecordsInv
<1> QED BY <1>1, RecordsInit, RecordsStep, PTL DEF Spec

-----------------------------------------------------------------------------
LEMMA KeptStep == KeptInv /\ [Next]_vars => KeptInv'
<1> SUFFICES ASSUME KeptInv, [Next]_vars PROVE KeptInv'
  OBVIOUS
<1>t. TypeInv'
  BY TypeStep DEF KeptInv
<1> USE DEF setting, chunkVars, textVars, disk, records, KeptInv, TypeInv, TypeOK, Domains
<1>1. CASE NextRun
  BY <1>1, <1>t DEF NextRun, Pending
<1>2. ASSUME NEW a \in Articles,
             \/ \E c \in Chunks[a] : ChunkEnds(a, c)
             \/ TimeOut(a) \/ Abandon(a) \/ ChunksFailed(a)
             \/ Assemble(a) \/ RepairRound(a) \/ Withhold(a) \/ Explain(a) \/ UpdateIndex(a)
             \/ ReviewOrSave(a) \/ ReviewRound(a) \/ EndReview(a)
             \/ DiscardPartial(a)
      PROVE  KeptInv'
  BY <1>2, <1>t DEF ChunkEnds, TimeOut, Abandon, ChunksFailed, Assemble, RepairRound,
                    Withhold, Explain, UpdateIndex, ReviewOrSave, ReviewRound, EndReview,
                    DiscardPartial
<1>3. ASSUME NEW a \in Articles, SaveOpen(a) \/ SaveWrite(a) PROVE KeptInv'
  BY <1>3, <1>t DEF SaveOpen, SaveWrite
<1>4. CASE UNCHANGED vars \/ IndexSpoiled
  BY <1>4, <1>t DEF vars, memory, IndexSpoiled
<1> QED
  BY <1>1, <1>2, <1>3, <1>4 DEF Next, ArticleStep

\* Only --force touches a finished translation, in whatever step earlier runs
\* were killed (article_already_done).
THEOREM FinishedStaysWhole == Spec => FinishedIsKept
<1>1. Init => KeptInv
  BY TypeInit DEF Init, KeptInv
<1>2. KeptInv /\ [Next]_vars =>
        [\A a \in Articles : Whole(wiki[a]) /\ ~force => wiki'[a] = wiki[a]]_vars
  <2> SUFFICES ASSUME KeptInv, Next, NEW b \in Articles, Whole(wiki[b]), ~force
               PROVE  wiki'[b] = wiki[b]
    BY DEF vars
  <2> USE DEF KeptInv, TypeInv, Domains, Whole, chunkVars, textVars, disk
  <2>1. CASE NextRun
    BY <2>1 DEF NextRun
  <2>2. ASSUME NEW a \in Articles, SaveOpen(a) \/ SaveWrite(a) PROVE wiki'[b] = wiki[b]
    BY <2>2 DEF SaveOpen, SaveWrite
  <2>3. ASSUME NEW a \in Articles, ArticleStep(a), ~SaveOpen(a), ~SaveWrite(a)
        PROVE  wiki'[b] = wiki[b]
    BY <2>3 DEF ArticleStep, ChunkEnds, TimeOut, Abandon, ChunksFailed, Assemble,
                RepairRound, Withhold, Explain, UpdateIndex, ReviewOrSave, ReviewRound,
                EndReview, DiscardPartial
  <2>4. CASE IndexSpoiled
    BY <2>4 DEF IndexSpoiled
  <2> QED BY <2>1, <2>2, <2>3, <2>4 DEF Next
<1> QED BY <1>1, <1>2, KeptStep, PTL DEF Spec, FinishedIsKept

-----------------------------------------------------------------------------
(* Queue mode                                                              *)

MoneyType ==
  /\ current \in [Machines -> Nat] /\ total \in [Machines -> Nat]
  /\ paid \in [Machines -> Nat] /\ late \in [Machines -> Nat]

PcType == pc \in [Machines -> {"looping", "translating", "stopped", "killed"}]

SpendInv == MoneyType /\ PcType /\ SpendAccounted

ResultType ==
  /\ queue \in [Lines -> [state : {"pending", "claimed", "DONE", "FAILED"}, engine : Engines]]
  /\ engine \in [Machines -> Engines]
  /\ line \in [Machines -> Lines]

\* The article a machine counts as completed is on its disk, under the engine
\* the machine is still on: there is no switch after the chunks.
CompletedIsSaved ==
  \A m \in Machines :
    pc[m] = "translating" /\ m \in completed =>
      [line |-> line[m], engine |-> engine[m]] \in saved

DoneInv == ResultType /\ PcType /\ CompletedIsSaved /\ DoneMeansSaved

-----------------------------------------------------------------------------
LEMMA SpendInit == QueueInit => SpendInv
BY DEF QueueInit, SpendInv, MoneyType, PcType, SpendAccounted

LEMMA SpendStep == SpendInv /\ [QueueNext]_queueVars => SpendInv'
<1> SUFFICES ASSUME SpendInv, [QueueNext]_queueVars PROVE SpendInv'
  OBVIOUS
<1> USE DEF SpendInv, MoneyType, PcType, SpendAccounted, Set
<1>1. ASSUME NEW m \in Machines, Claim(m) PROVE SpendInv'
  BY <1>1 DEF Claim
<1>2. ASSUME NEW m \in Machines, Stop(m) PROVE SpendInv'
  BY <1>2 DEF Stop, money
<1>3. ASSUME NEW m \in Machines, Spend(m) PROVE SpendInv'
  BY <1>3 DEF Spend
<1>4. ASSUME NEW m \in Machines, SpendLate(m) PROVE SpendInv'
  BY <1>4 DEF SpendLate
<1>5. ASSUME NEW m \in Machines, LeftoverEnds(m) \/ SwitchEngine(m) \/ Save(m)
      PROVE  SpendInv'
  BY <1>5 DEF LeftoverEnds, SwitchEngine, Save, money
<1>6. ASSUME NEW m \in Machines, PipelineReturns(m) \/ PipelineRaises(m)
      PROVE  SpendInv'
  <2>1. /\ pc[m] = "translating"
        /\ Merge(m) /\ NextArticle(m)
    BY <1>6 DEF PipelineReturns, PipelineRaises
  <2> QED BY <2>1 DEF Merge, NextArticle
<1>7. ASSUME NEW m \in Machines, Killed(m) PROVE SpendInv'
  BY <1>7 DEF Killed, money
<1>8. ASSUME NEW l \in Lines, GoesStale(l) PROVE SpendInv'
  BY <1>8 DEF GoesStale, money
<1>9. ASSUME UNCHANGED queueVars PROVE SpendInv'
  BY <1>9 DEF queueVars, money
<1> QED
  BY <1>1, <1>2, <1>3, <1>4, <1>5, <1>6, <1>7, <1>8, <1>9 DEF QueueNext

\* Every unit a machine paid for is in the statistics it returns, whether its
\* articles completed, failed or raised, but for what left-over tasks spent
\* after their article was reported.
THEOREM SpendIsAccounted == QueueSpec => []SpendAccounted
<1>1. QueueInit => SpendInv
  BY SpendInit
<1>2. SpendInv /\ [QueueNext]_queueVars => SpendInv'
  BY SpendStep
<1>3. SpendInv => SpendAccounted
  BY DEF SpendInv
<1> QED BY <1>1, <1>2, <1>3, PTL DEF QueueSpec

-----------------------------------------------------------------------------
LEMMA DoneInit == Lines # {} /\ QueueInit => DoneInv
BY DEF QueueInit, DoneInv, ResultType, PcType, CompletedIsSaved, DoneMeansSaved, Engines

\* A line only gets a result that is true of the machine's article.
LEMMA FinishKeepsDone ==
  ASSUME DoneInv, NEW m \in Machines, NEW state \in {"DONE", "FAILED"},
         state = "DONE" => pc[m] = "translating" /\ m \in completed,
         FinishLine(m, state), saved' = saved
  PROVE  /\ DoneMeansSaved'
         /\ (queue \in [Lines -> [state : {"pending", "claimed", "DONE", "FAILED"},
                                  engine : Engines]])'
<1> USE DEF DoneInv, ResultType, FinishLine, Set
<1>1. CASE queue' = [queue EXCEPT ![line[m]] = [state |-> state, engine |-> engine[m]]]
  BY <1>1 DEF DoneMeansSaved, CompletedIsSaved
<1>2. CASE UNCHANGED shared
  BY <1>2 DEF shared, DoneMeansSaved
<1> QED BY <1>1, <1>2

LEMMA DoneStep == DoneInv /\ [QueueNext]_queueVars => DoneInv'
<1> SUFFICES ASSUME DoneInv, [QueueNext]_queueVars PROVE DoneInv'
  OBVIOUS
<1> USE DEF DoneInv, ResultType, PcType, CompletedIsSaved, DoneMeansSaved, Set, Engines
<1>1. ASSUME NEW m \in Machines, Claim(m) PROVE DoneInv'
  BY <1>1 DEF Claim, Claimable
<1>2. ASSUME NEW m \in Machines,
             Stop(m) \/ Spend(m) \/ SpendLate(m) \/ LeftoverEnds(m) \/ Killed(m)
      PROVE  DoneInv'
  BY <1>2 DEF Stop, Spend, SpendLate, LeftoverEnds, Killed, shared, articleVars
<1>3. ASSUME NEW m \in Machines, SwitchEngine(m) PROVE DoneInv'
  BY <1>3 DEF SwitchEngine, shared
<1>4. ASSUME NEW m \in Machines, Save(m) PROVE DoneInv'
  BY <1>4 DEF Save, shared
<1>5. ASSUME NEW m \in Machines, PipelineReturns(m) PROVE DoneInv'
  <2>1. /\ FinishLine(m, IF m \in completed THEN "DONE" ELSE "FAILED")
        /\ NextArticle(m) /\ pc[m] = "translating"
    BY <1>5 DEF PipelineReturns
  <2>2. DoneMeansSaved' /\ (queue \in [Lines -> [state : {"pending", "claimed", "DONE", "FAILED"},
                                                 engine : Engines]])'
    <3> DEFINE state == IF m \in completed THEN "DONE" ELSE "FAILED"
    <3>1. /\ state \in {"DONE", "FAILED"}
          /\ state = "DONE" => pc[m] = "translating" /\ m \in completed
      BY <2>1
    <3>2. FinishLine(m, state) /\ saved' = saved
      BY <2>1 DEF NextArticle
    <3> HIDE DEF state, DoneInv, ResultType, DoneMeansSaved
    <3> QED BY <3>1, <3>2, FinishKeepsDone
  <2> QED BY <2>1, <2>2 DEF NextArticle, articleVars
<1>6. ASSUME NEW m \in Machines, PipelineRaises(m) PROVE DoneInv'
  <2>1. FinishLine(m, "FAILED") /\ NextArticle(m)
    BY <1>6 DEF PipelineRaises
  <2>2. DoneMeansSaved' /\ (queue \in [Lines -> [state : {"pending", "claimed", "DONE", "FAILED"},
                                                 engine : Engines]])'
    <3>1. saved' = saved
      BY <2>1 DEF NextArticle
    <3> HIDE DEF DoneInv, ResultType, DoneMeansSaved
    <3> QED BY <2>1, <3>1, FinishKeepsDone
  <2> QED BY <2>1, <2>2 DEF NextArticle, articleVars
<1>7. ASSUME NEW l \in Lines, GoesStale(l) PROVE DoneInv'
  BY <1>7 DEF GoesStale, articleVars
<1>8. ASSUME UNCHANGED queueVars PROVE DoneInv'
  BY <1>8 DEF queueVars, shared, articleVars
<1> QED BY <1>1, <1>2, <1>3, <1>4, <1>5, <1>6, <1>7, <1>8 DEF QueueNext

\* A line is DONE only when some machine saved its article, on the engine the
\* line names, for any number of machines that work on the same lines.
THEOREM DoneLinesAreSaved == QueueSpec => []DoneMeansSaved
<1>1. CASE Lines # {}
  <2>1. QueueInit => DoneInv
    BY <1>1, DoneInit
  <2>2. DoneInv /\ [QueueNext]_queueVars => DoneInv'
    BY DoneStep
  <2>3. DoneInv => DoneMeansSaved
    BY DEF DoneInv
  <2> QED BY <2>1, <2>2, <2>3, PTL DEF QueueSpec
<1>2. CASE Lines = {}
  <2>1. DoneMeansSaved
    BY <1>2 DEF DoneMeansSaved
  <2> QED BY <2>1, PTL DEF QueueSpec
<1> QED BY <1>1, <1>2
=============================================================================
