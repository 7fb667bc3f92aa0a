------------------------- MODULE VerifiedFactsProofs -------------------------
(***************************************************************************)
(* For every number of articles, every text and every target wiki: what an *)
(* article's facts call existing exists, and an article has all of its     *)
(* facts or none.  The cache outlives the lookup that filled it, so the    *)
(* invariant says of it what it says of the answers in hand.               *)
(***************************************************************************)
EXTENDS VerifiedFacts, TLAPS

Answers == {"unknown", "yes", "no", "none", "some", "counted"}
Answered == [Questions -> Answers]

TypeOK ==
  /\ cache \in Answered
  /\ got \in [Articles -> Answered] /\ facts \in [Articles -> Answered]
  /\ fresh \in [Articles -> SUBSET Questions]
  /\ pc \in [Articles -> Kinds \cup {"waiting", "fetching", "planned", "failed"}]

\* What answers h may say while the wiki is w.
True(h, w) == \A q \in Questions : h[q] = "yes" => PageOf(q) \in w

\* An article at stage n has answered the stages before it.
Complete(a, h, n) == \A s \in 1..n : ToFetch(a, h, Stages[s]) = {}

Whole(a, h) == h = Nothing \/ Complete(a, h, 6)

ArticleInv(a) ==
  /\ True(got[a], wiki) /\ True(facts[a], wiki)
  /\ \A s \in 1..6 : pc[a] = Stages[s] => Complete(a, got[a], s - 1)
  /\ Whole(a, facts[a])

IInv ==
  /\ TypeOK
  /\ True(cache, wiki)
  /\ \A a \in Articles : ArticleInv(a)

-----------------------------------------------------------------------------
(* Stages and questions                                                    *)

LEMMA StageNames ==
  /\ Stages[1] = "link" /\ Stages[2] = "template" /\ Stages[3] = "article"
  /\ Stages[4] = "sibling" /\ Stages[5] = "count" /\ Stages[6] = "params"
  /\ DOMAIN Stages = 1..6
BY DEF Stages

LEMMA KindNames ==
  /\ Kinds = {"link", "template", "article", "sibling", "count", "params"}
  /\ Kinds = {Stages[s] : s \in 1..6}
BY StageNames DEF Kinds

LEMMA StageOfStage ==
  ASSUME NEW s \in 1..6
  PROVE  StageOf(Stages[s]) = s /\ \A r \in 1..6 : Stages[r] = Stages[s] => r = s
<1>1. \A r \in 1..6 : Stages[r] = Stages[s] => r = s
  BY StageNames
<1>2. DOMAIN Stages = 1..6
  BY StageNames
<1>. QED
  BY <1>1, <1>2 DEF StageOf

\* Every question of a stage is a question of that kind about a title.
LEMMA AsksAreQuestions ==
  ASSUME NEW a \in Articles, NEW g, NEW kind \in Kinds
  PROVE  /\ Asks(a, g, kind) \subseteq {kind} \X Titles
         /\ ToFetch(a, g, kind) \subseteq Questions
         /\ \A q \in ToFetch(a, g, kind) : q = <<kind, q[2]>> /\ q[2] \in Titles
<1>1. Links[a] \subseteq Titles /\ Templates[a] \subseteq Titles /\ a \in Titles
  BY PlanningAssumption DEF Titles
<1>2. Asks(a, g, kind) \subseteq {kind} \X Titles
  BY <1>1, KindNames DEF Asks
<1>. QED
  BY <1>2 DEF ToFetch, Questions

\* What a stage asks depends on the answers of the stages before it only.
LEMMA EarlierStagesDecide ==
  ASSUME NEW a \in Articles, NEW g, NEW h, NEW s \in 1..6,
         \A r \in 1..s, t \in Titles : g[<<Stages[r], t>>] = h[<<Stages[r], t>>]
  PROVE  ToFetch(a, g, Stages[s]) = ToFetch(a, h, Stages[s])
<1>1. Links[a] \subseteq Titles /\ Templates[a] \subseteq Titles /\ a \in Titles
  BY PlanningAssumption DEF Titles
<1>2. Asks(a, g, Stages[s]) = Asks(a, h, Stages[s])
  <2>1. CASE s \in {1, 2, 3}
    BY <2>1, StageNames DEF Asks
  <2>2. CASE s = 4
    <3>1. g[<<"article", a>>] = h[<<"article", a>>]
      BY <2>2, <1>1, StageNames
    <3>. QED
      BY <3>1, <2>2, StageNames DEF Asks
  <2>3. CASE s = 5
    <3>1. \A t \in Titles : g[<<"link", t>>] = h[<<"link", t>>]
      BY <2>3, StageNames
    <3>. QED
      BY <3>1, <1>1, <2>3, StageNames DEF Asks
  <2>4. CASE s = 6
    <3>1. \A t \in Titles : g[<<"template", t>>] = h[<<"template", t>>]
      BY <2>4, StageNames
    <3>. QED
      BY <3>1, <1>1, <2>4, StageNames DEF Asks
  <2>. QED
    BY <2>1, <2>2, <2>3, <2>4
<1>3. \A q \in Asks(a, g, Stages[s]) : g[q] = h[q]
  <2>1. Stages[s] \in Kinds
    BY KindNames
  <2>. QED
    BY <2>1, AsksAreQuestions
<1>. QED
  BY <1>2, <1>3 DEF ToFetch

\* Answers of later stages leave the earlier ones complete.
LEMMA LaterAnswersKeep ==
  ASSUME NEW a \in Articles, NEW g, NEW h, NEW s \in 1..6, Complete(a, g, s - 1),
         \A p \in 1..s - 1, t \in Titles : g[<<Stages[p], t>>] = h[<<Stages[p], t>>]
  PROVE  Complete(a, h, s - 1)
<1>1. ASSUME NEW r \in 1..s - 1 PROVE ToFetch(a, h, Stages[r]) = {}
  <2>1. r \in 1..6 /\ \A p \in 1..r : p \in 1..s - 1
    OBVIOUS
  <2>2. ToFetch(a, g, Stages[r]) = ToFetch(a, h, Stages[r])
    BY <2>1, EarlierStagesDecide
  <2>. QED
    BY <2>2 DEF Complete
<1>. QED
  BY <1>1 DEF Complete

-----------------------------------------------------------------------------
(* Going through the stages                                                *)

LEMMA NothingSays == Nothing \in Answered /\ \A w : True(Nothing, w)
<1>1. \A q \in {"sibling", "params"} \X Titles : q \in Questions
  BY KindNames DEF Questions
<1>. QED
  BY <1>1 DEF Nothing, Answered, Answers, True

\* Reading the cache at stage s keeps what the answers say true, and what was
\* complete complete.
LEMMA ReadKeeps ==
  ASSUME TypeOK, NEW a \in Articles, NEW g \in Answered, NEW s \in 1..6, NEW w,
         True(cache, w), True(g, w), Complete(a, g, s - 1)
  PROVE  /\ Read(a, g, Stages[s]) \in Answered
         /\ True(Read(a, g, Stages[s]), w)
         /\ Complete(a, Read(a, g, Stages[s]), s - 1)
<1>. DEFINE h == Read(a, g, Stages[s])
<1>0. Stages[s] \in Kinds
  BY KindNames
<1>1. \A q \in Questions : h[q] = cache[q] \/ h[q] = g[q]
  BY DEF Read, Cached
<1>2. h \in Answered
  BY DEF Read, Cached, Answered, TypeOK
<1>3. True(h, w)
  BY <1>1 DEF True
<1>4. ASSUME NEW p \in 1..s - 1, NEW t \in Titles
      PROVE  g[<<Stages[p], t>>] = h[<<Stages[p], t>>]
  <2>1. <<Stages[p], t>> \in Questions
    BY KindNames DEF Questions
  <2>2. Stages[p] # Stages[s]
    BY StageNames
  <2>3. <<Stages[p], t>> \notin ToFetch(a, g, Stages[s])
    BY <2>2, <1>0, AsksAreQuestions
  <2>. QED
    BY <2>1, <2>3 DEF Read
<1>5. Complete(a, h, s - 1)
  <2>. HIDE DEF h
  <2>. QED
    BY <1>4, LaterAnswersKeep
<1>. QED
  BY <1>2, <1>3, <1>5

\* h is the way from g through the stages, one read of the cache after the
\* other.
Passes(h, a, g, from) ==
  /\ h[from] = Read(a, g, Stages[from])
  /\ \A k \in 1..5 : k >= from => h[k + 1] = Read(a, h[k], Stages[k + 1])

LEMMA EnteredPasses ==
  ASSUME NEW a, NEW g, NEW from \in 1..6
  PROVE  Passes(Entered(a, g, from), a, g, from)
BY SMTT(30) DEF Entered, Passes

\* An article that gets to stage n has true answers, complete before n.
LEMMA PassKeeps ==
  ASSUME TypeOK, NEW a \in Articles, NEW g \in Answered, NEW from \in 1..6, NEW w,
         True(cache, w), True(g, w), Complete(a, g, from - 1),
         NEW h, Passes(h, a, g, from),
         NEW n \in from..6,
         \A s \in from..n - 1 : ToFetch(a, h[s], Stages[s]) = {}
  PROVE  h[n] \in Answered /\ True(h[n], w) /\ Complete(a, h[n], n - 1)
<1>. DEFINE OK(k) == k <= n => h[k] \in Answered /\ True(h[k], w) /\ Complete(a, h[k], k - 1)
<1>1. OK(from)
  <2>1. h[from] = Read(a, g, Stages[from])
    BY DEF Passes
  <2>. QED
    BY <2>1, ReadKeeps
<1>2. ASSUME NEW k \in 1..5, k >= from, OK(k) PROVE OK(k + 1)
  <2>. SUFFICES ASSUME k + 1 <= n PROVE OK(k + 1)
    OBVIOUS
  <2>1. h[k] \in Answered /\ True(h[k], w) /\ Complete(a, h[k], k - 1)
    BY <1>2
  <2>2. ToFetch(a, h[k], Stages[k]) = {}
    BY <1>2
  <2>3. h[k + 1] = Read(a, h[k], Stages[k + 1])
    BY <1>2 DEF Passes
  <2>4. Complete(a, h[k], k)
    BY <2>1, <2>2 DEF Complete
  <2>5. k + 1 \in 1..6 /\ (k + 1) - 1 = k
    OBVIOUS
  <2>6. Read(a, h[k], Stages[k + 1]) \in Answered
    BY <2>1, <2>4, <2>5, ReadKeeps
  <2>7. True(Read(a, h[k], Stages[k + 1]), w)
    BY <2>1, <2>4, <2>5, ReadKeeps
  <2>8. Complete(a, Read(a, h[k], Stages[k + 1]), (k + 1) - 1)
    BY <2>1, <2>4, <2>5, ReadKeeps
  <2>. QED
    BY <2>3, <2>6, <2>7, <2>8
<1>. HIDE DEF OK
<1>3. \A k \in 1..6 : k >= from => OK(k)
  <2>1. from = 6 \/ from = 5 \/ from = 4 \/ from = 3 \/ from = 2 \/ from = 1
    OBVIOUS
  <2>2. \A k \in 1..5 : k >= from /\ OK(k) => OK(k + 1)
    BY <1>2
  <2>. QED
    BY <1>1, <2>1, <2>2
<1>. QED
  BY <1>3 DEF OK

\* The first of several stages.
LEMMA FirstStage ==
  ASSUME NEW S \in SUBSET (1..6), S # {}
  PROVE  Min(S) \in S /\ \A s \in S : Min(S) <= s
<1>1. \E m \in S : \A s \in S : m <= s
  <2>1. CASE 1 \in S
    BY <2>1
  <2>2. CASE 1 \notin S /\ 2 \in S
    BY <2>2
  <2>3. CASE S \cap {1, 2} = {} /\ 3 \in S
    BY <2>3
  <2>4. CASE S \cap {1, 2, 3} = {} /\ 4 \in S
    BY <2>4
  <2>5. CASE S \cap {1, 2, 3, 4} = {} /\ 5 \in S
    BY <2>5
  <2>6. CASE S \cap {1, 2, 3, 4, 5} = {}
    <3>1. PICK m \in S : TRUE
      OBVIOUS
    <3>2. \A s \in S : s = 6
      BY <2>6
    <3>3. \A s \in S : m <= s
      BY <3>2
    <3>. QED
      BY <3>3
  <2>. QED
    BY <2>1, <2>2, <2>3, <2>4, <2>5, <2>6
<1>. QED
  BY <1>1 DEF Min

LEMMA TrueGrows ==
  ASSUME NEW h, NEW w, NEW v, True(h, w), w \subseteq v
  PROVE  True(h, v)
BY DEF True

\* Where an article that goes on from stage `from` comes to be.
LEMMA AdvanceKeeps ==
  ASSUME IInv, NEW a \in Articles, NEW g \in Answered, NEW from \in 1..6,
         True(cache, wiki), True(g, wiki), Complete(a, g, from - 1),
         Advance(a, g, from), wiki' = wiki, cache' \in Answered
  PROVE  TypeOK' /\ \A b \in Articles : ArticleInv(b)'
<1>. DEFINE h == Entered(a, g, from)
            open == {s \in from..6 : ToFetch(a, h[s], Stages[s]) # {}}
            m == Min(open)
<1>0. TypeOK
  BY DEF IInv
<1>p. Passes(h, a, g, from)
  BY EnteredPasses
<1>1. CASE open = {}
  <2>1. /\ pc' = [pc EXCEPT ![a] = "planned"] /\ facts' = [facts EXCEPT ![a] = h[6]]
        /\ got' = [got EXCEPT ![a] = Nothing] /\ fresh' = [fresh EXCEPT ![a] = {}]
    BY <1>1 DEF Advance
  <2>2. \A s \in from..6 : ToFetch(a, h[s], Stages[s]) = {}
    BY <1>1
  <2>3. h[6] \in Answered /\ True(h[6], wiki) /\ Complete(a, h[6], 5)
    <3>1. 6 \in from..6 /\ \A s \in from..6 - 1 : ToFetch(a, h[s], Stages[s]) = {}
      BY <2>2
    <3>2. Complete(a, h[6], 6 - 1) /\ h[6] \in Answered /\ True(h[6], wiki)
      BY <1>0, <1>p, <3>1, PassKeeps
    <3>. QED
      BY <3>2
  <2>4. Whole(a, h[6])
    BY <2>2, <2>3 DEF Whole, Complete
  <2>. HIDE DEF h, open
  <2>5. TypeOK'
    BY <1>0, <2>1, <2>3, NothingSays DEF TypeOK
  <2>6. ASSUME NEW b \in Articles PROVE ArticleInv(b)'
    <3>1. CASE b = a
      <4>1. got'[b] = Nothing /\ facts'[b] = h[6] /\ pc'[b] = "planned"
        BY <1>0, <2>1, <3>1 DEF TypeOK
      <4>2. \A s \in 1..6 : pc'[b] # Stages[s]
        BY <4>1, StageNames
      <4>. QED
        BY <4>1, <4>2, <2>3, <2>4, <3>1, NothingSays DEF ArticleInv
    <3>2. CASE b # a
      <4>1. got'[b] = got[b] /\ facts'[b] = facts[b] /\ pc'[b] = pc[b]
        BY <1>0, <2>1, <3>2 DEF TypeOK
      <4>2. ArticleInv(b)
        BY DEF IInv
      <4>. QED
        BY <4>1, <4>2, TrueGrows DEF ArticleInv
    <3>. QED
      BY <3>1, <3>2
  <2>. QED
    BY <2>5, <2>6
<1>2. CASE open # {}
  <2>1. /\ pc' = [pc EXCEPT ![a] = Stages[m]] /\ got' = [got EXCEPT ![a] = h[m]]
        /\ facts' = facts /\ fresh' = [fresh EXCEPT ![a] = {}]
    BY <1>2 DEF Advance
  <2>2. m \in open /\ \A s \in open : m <= s
    <3>1. open \in SUBSET (1..6)
      OBVIOUS
    <3>. HIDE DEF open
    <3>. QED
      BY <1>2, <3>1, FirstStage
  <2>. HIDE DEF m
  <2>3. m \in from..6 /\ \A s \in from..m - 1 : ToFetch(a, h[s], Stages[s]) = {}
    <3>. HIDE DEF h
    <3>. QED
      BY <2>2
  <2>4. h[m] \in Answered /\ True(h[m], wiki) /\ Complete(a, h[m], m - 1)
    BY <1>0, <1>p, <2>3, PassKeeps
  <2>. HIDE DEF h, open
  <2>5. TypeOK'
    <3>0. m \in 1..6
      BY <2>3
    <3>1. Stages[m] \in Kinds
      BY <3>0, KindNames
    <3>. QED
      BY <1>0, <2>1, <2>4, <3>1 DEF TypeOK
  <2>6. ASSUME NEW b \in Articles PROVE ArticleInv(b)'
    <3>1. CASE b = a
      <4>1. got'[b] = h[m] /\ facts'[b] = facts[b] /\ pc'[b] = Stages[m]
        BY <1>0, <2>1, <3>1 DEF TypeOK
      <4>2. \A s \in 1..6 : pc'[b] = Stages[s] => s = m
        BY <4>1, <2>3, m \in 1..6, StageOfStage
      <4>3. True(facts[b], wiki') /\ Whole(b, facts[b])
        BY TrueGrows DEF IInv, ArticleInv
      <4>. QED
        BY <4>1, <4>2, <4>3, <2>4, <3>1 DEF ArticleInv
    <3>2. CASE b # a
      <4>1. got'[b] = got[b] /\ facts'[b] = facts[b] /\ pc'[b] = pc[b]
        BY <1>0, <2>1, <3>2 DEF TypeOK
      <4>2. ArticleInv(b)
        BY DEF IInv
      <4>. QED
        BY <4>1, <4>2, TrueGrows DEF ArticleInv
    <3>. QED
      BY <3>1, <3>2
  <2>. QED
    BY <2>5, <2>6
<1>. QED
  BY <1>1, <1>2

-----------------------------------------------------------------------------
(* The steps                                                               *)

\* An article whose answers and facts stay, and that enters no stage.
LEMMA ArticleStays ==
  ASSUME NEW b \in Articles, ArticleInv(b), got'[b] = got[b], facts'[b] = facts[b],
         pc'[b] = pc[b] \/ pc'[b] \notin Kinds,
         wiki \subseteq wiki'
  PROVE  ArticleInv(b)'
<1>1. \A s \in 1..6 : Stages[s] \in Kinds
  BY KindNames
<1>. QED
  BY <1>1, TrueGrows DEF ArticleInv

LEMMA InitHolds == Init => IInv
<1> SUFFICES ASSUME Init PROVE IInv
  OBVIOUS
<1>1. TypeOK
  BY NothingSays DEF Init, TypeOK
<1>2. \A s \in 1..6 : Stages[s] # "waiting"
  BY StageNames
<1>3. \A a \in Articles : got[a] = Nothing /\ facts[a] = Nothing /\ pc[a] = "waiting"
  BY DEF Init
<1>4. \A a \in Articles : ArticleInv(a)
  BY <1>2, <1>3, NothingSays DEF ArticleInv, Whole
<1>. QED
  BY <1>1, <1>4, NothingSays DEF IInv, Init

LEMMA FetchStep == ASSUME IInv, NEW a \in Articles, Fetch(a) PROVE IInv'
<1>1. TypeOK'
  BY DEF IInv, TypeOK, Fetch
<1>2. True(cache', wiki')
  BY DEF IInv, Fetch
<1>3. ASSUME NEW b \in Articles PROVE ArticleInv(b)'
  <2>1. pc'[b] = pc[b] \/ pc'[b] = "fetching"
    BY DEF IInv, TypeOK, Fetch
  <2>2. "fetching" \notin Kinds
    BY KindNames
  <2>. QED
    BY <2>1, <2>2, ArticleStays DEF IInv, Fetch
<1>. QED
  BY <1>1, <1>2, <1>3 DEF IInv

LEMMA FetchEndsStep == ASSUME IInv, NEW a \in Articles, FetchEnds(a) PROVE IInv'
<1>0. UNCHANGED <<wiki, cache>>
  BY DEF FetchEnds
<1>1. True(cache', wiki')
  BY <1>0 DEF IInv
<1>2. CASE Advance(a, Nothing, 1)
  <2>1. Complete(a, Nothing, 1 - 1)
    BY DEF Complete
  <2>2. cache' \in Answered
    BY <1>0 DEF IInv, TypeOK
  <2>. QED
    BY <1>0, <1>1, <1>2, <2>1, <2>2, NothingSays, AdvanceKeeps DEF IInv
<1>3. CASE pc' = [pc EXCEPT ![a] = "failed"] /\ UNCHANGED <<got, fresh, facts>>
  <2>1. TypeOK'
    BY <1>0, <1>3 DEF IInv, TypeOK
  <2>2. ASSUME NEW b \in Articles PROVE ArticleInv(b)'
    <3>1. pc'[b] = pc[b] \/ pc'[b] = "failed"
      BY <1>3 DEF IInv, TypeOK
    <3>2. "failed" \notin Kinds
      BY KindNames
    <3>. QED
      BY <1>0, <1>3, <3>1, <3>2, ArticleStays DEF IInv
  <2>. QED
    BY <1>1, <2>1, <2>2 DEF IInv
<1>. QED
  BY <1>2, <1>3 DEF FetchEnds

\* What Wikidata answers: something, and only of an existing page that it
\* exists.
LEMMA Replies ==
  ASSUME NEW q \in Questions
  PROVE  /\ Reply(q) \in Answers \ {"unknown"}
         /\ Reply(q) = "yes" => PageOf(q) \in wiki
BY DEF Reply, Answers

\* The answers in hand after a batch of stage s.
LEMMA BatchKeeps ==
  ASSUME IInv, NEW a \in Articles, NEW s \in {1, 2, 3, 5}, pc[a] = Stages[s],
         NEW batch \in SUBSET ToFetch(a, got[a], Stages[s]), NEW g,
         g = [q \in Questions |-> IF q \in batch THEN Reply(q) ELSE got[a][q]]
  PROVE  /\ g \in Answered /\ True(g, wiki) /\ Complete(a, g, s - 1)
         /\ batch = ToFetch(a, got[a], Stages[s]) => Complete(a, g, s)
<1>0. TypeOK /\ ArticleInv(a) /\ s \in 1..6 /\ Stages[s] \in Kinds
  BY KindNames DEF IInv
<1>1. \A q \in batch : q \in Questions /\ q = <<Stages[s], q[2]>>
  BY <1>0, AsksAreQuestions
<1>2. got[a] \in Answered /\ True(got[a], wiki) /\ Complete(a, got[a], s - 1)
  BY <1>0 DEF ArticleInv, TypeOK
<1>3. g \in Answered
  BY <1>2, Replies DEF Answered
<1>4. True(g, wiki)
  BY <1>2, Replies DEF True
<1>5. ASSUME NEW p \in 1..s - 1, NEW t \in Titles
      PROVE  g[<<Stages[p], t>>] = got[a][<<Stages[p], t>>]
  <2>1. <<Stages[p], t>> \in Questions
    BY KindNames DEF Questions
  <2>2. Stages[p] # Stages[s]
    <3>1. p \in 1..6 /\ p # s
      OBVIOUS
    <3>. QED
      BY <1>0, <3>1, StageOfStage
  <2>3. <<Stages[p], t>> \notin batch
    BY <1>1, <2>2
  <2>. QED
    BY <2>1, <2>3
<1>6. Complete(a, g, s - 1)
  BY <1>0, <1>2, <1>5, LaterAnswersKeep
<1>7. ASSUME batch = ToFetch(a, got[a], Stages[s])
      PROVE  ToFetch(a, g, Stages[s]) = {}
  <2>1. Asks(a, g, Stages[s]) = Asks(a, got[a], Stages[s])
    <3>1. CASE s \in {1, 2, 3}
      BY <3>1, StageNames DEF Asks
    <3>2. CASE s = 5
      <4>1. \A t \in Titles : g[<<"link", t>>] = got[a][<<"link", t>>]
        BY <1>5, <3>2, StageNames
      <4>2. Links[a] \subseteq Titles
        BY PlanningAssumption
      <4>. QED
        BY <4>1, <4>2, <3>2, StageNames DEF Asks
    <3>. QED
      BY <3>1, <3>2
  <2>2. Asks(a, g, Stages[s]) \subseteq Questions
    BY <1>0, AsksAreQuestions DEF Questions
  <2>3. \A q \in Asks(a, g, Stages[s]) : g[q] # "unknown"
    BY <1>7, <2>1, <2>2, Replies DEF ToFetch
  <2>. QED
    BY <2>3 DEF ToFetch
<1>. QED
  BY <1>3, <1>4, <1>6, <1>7 DEF Complete

LEMMA AnswerBatchStep == ASSUME IInv, NEW a \in Articles, AnswerBatch(a) PROVE IInv'
<1>0. TypeOK /\ True(cache, wiki) /\ ArticleInv(a)
  BY DEF IInv
<1>1. PICK s \in {1, 2, 3, 5} : pc[a] = Stages[s]
  BY StageNames DEF AnswerBatch
<1>2. StageOf(pc[a]) = s
  BY <1>1, s \in 1..6, StageOfStage
<1>. DEFINE todo == ToFetch(a, got[a], pc[a])
            g(batch) == [q \in Questions |-> IF q \in batch THEN Reply(q) ELSE got[a][q]]
<1>3. PICK batch \in SUBSET todo :
        IF batch = todo
        THEN /\ cache' = [q \in Questions |->
                            IF q \in Stored(g(batch), fresh[a] \cup batch)
                            THEN g(batch)[q] ELSE cache[q]]
             /\ Advance(a, g(batch), StageOf(pc[a]) + 1)
        ELSE /\ got' = [got EXCEPT ![a] = g(batch)]
             /\ fresh' = [fresh EXCEPT ![a] = fresh[a] \cup batch]
             /\ UNCHANGED <<cache, pc, facts>>
  BY DEF AnswerBatch, kSubset
<1>4. wiki' = wiki
  BY DEF AnswerBatch
<1>. DEFINE h == g(batch)
<1>5. h \in Answered /\ True(h, wiki) /\ Complete(a, h, s - 1)
  BY <1>1, BatchKeeps
<1>6. batch = todo => Complete(a, h, s)
  BY <1>1, BatchKeeps
<1>. HIDE DEF g
<1>7. CASE batch = todo
  <2>1. cache' = [q \in Questions |->
                   IF q \in Stored(h, fresh[a] \cup batch) THEN h[q] ELSE cache[q]]
    BY <1>3, <1>7
  <2>2. cache' \in Answered
    BY <1>0, <1>5, <2>1 DEF TypeOK, Answered
  <2>3. True(cache', wiki')
    BY <1>0, <1>4, <1>5, <2>1 DEF True
  <2>4. s + 1 \in 1..6 /\ Advance(a, h, s + 1) /\ Complete(a, h, (s + 1) - 1)
    BY <1>2, <1>3, <1>6, <1>7
  <2>. HIDE DEF h
  <2>5. TypeOK' /\ \A b \in Articles : ArticleInv(b)'
    BY <1>0, <1>4, <1>5, <2>2, <2>4, AdvanceKeeps
  <2>. QED
    BY <2>3, <2>5 DEF IInv
<1>8. CASE batch # todo
  <2>1. /\ got' = [got EXCEPT ![a] = h] /\ fresh' = [fresh EXCEPT ![a] = fresh[a] \cup batch]
        /\ UNCHANGED <<cache, pc, facts>>
    BY <1>3, <1>8
  <2>. HIDE DEF h
  <2>2. batch \subseteq Questions
    BY <1>1, s \in 1..6, KindNames, AsksAreQuestions
  <2>3. TypeOK'
    BY <1>0, <1>5, <2>1, <2>2 DEF TypeOK
  <2>4. ASSUME NEW b \in Articles PROVE ArticleInv(b)'
    <3>1. CASE b = a
      <4>1. got'[b] = h /\ facts'[b] = facts[b] /\ pc'[b] = Stages[s]
        BY <1>0, <1>1, <2>1, <3>1 DEF TypeOK
      <4>2. \A r \in 1..6 : pc'[b] = Stages[r] => r = s
        BY <4>1, s \in 1..6, StageOfStage
      <4>. QED
        BY <1>0, <1>4, <1>5, <3>1, <4>1, <4>2 DEF ArticleInv
    <3>2. CASE b # a
      BY <1>0, <1>4, <2>1, <3>2, ArticleStays DEF IInv, TypeOK
    <3>. QED
      BY <3>1, <3>2
  <2>. QED
    BY <1>0, <1>4, <2>1, <2>3, <2>4 DEF IInv
<1>. QED
  BY <1>7, <1>8

LEMMA ReadPageStep == ASSUME IInv, NEW a \in Articles, ReadPage(a) PROVE IInv'
<1>0. TypeOK /\ True(cache, wiki) /\ ArticleInv(a)
  BY DEF IInv
<1>1. PICK s \in {4, 6} : pc[a] = Stages[s]
  BY StageNames DEF ReadPage
<1>2. StageOf(pc[a]) = s
  BY <1>1, s \in 1..6, StageOfStage
<1>3. PICK q \in ToFetch(a, got[a], pc[a]), answer \in {"some", "none"} :
        /\ cache' = [r \in Questions |->
             CASE r = q -> answer
               [] r = <<"article", q[2]>> /\ q[1] = "sibling" -> "yes"
               [] OTHER -> cache[r]]
        /\ Advance(a, [got[a] EXCEPT ![q] = answer], StageOf(pc[a]))
  BY DEF ReadPage
<1>4. wiki' = wiki
  BY DEF ReadPage
<1>. DEFINE h == [got[a] EXCEPT ![q] = answer]
<1>5. q \in Questions /\ q = <<Stages[s], q[2]>> /\ q[2] \in Titles
  BY <1>1, s \in 1..6, KindNames, AsksAreQuestions
<1>6. q[1] = "sibling" => got[a][<<"article", q[2]>>] = "yes"
  <2>. SUFFICES ASSUME q[1] = "sibling" PROVE got[a][<<"article", q[2]>>] = "yes"
    OBVIOUS
  <2>1. s = 4
    BY <1>5, StageNames
  <2>2. q \in {"sibling"} \X {t \in {a} : got[a][<<"article", t>>] = "yes"}
    BY <1>1, <1>3, <2>1, StageNames DEF ToFetch, Asks
  <2>. QED
    BY <2>2
<1>7. got[a] \in Answered /\ True(got[a], wiki) /\ Complete(a, got[a], s - 1)
  BY <1>0, <1>1 DEF TypeOK, ArticleInv
<1>9. \A t \in Titles : <<"article", t>> \in Questions /\ PageOf(<<"article", t>>) = PageOf(<<"sibling", t>>)
  BY KindNames DEF Questions, PageOf
<1>11. cache' \in Answered /\ True(cache', wiki')
  <2>1. cache' \in Answered
    BY <1>0, <1>3 DEF TypeOK, Answered, Answers
  <2>2. ASSUME NEW r \in Questions, cache'[r] = "yes" PROVE PageOf(r) \in wiki
    <3>1. CASE r = <<"article", q[2]>> /\ q[1] = "sibling"
      BY <1>5, <1>6, <1>7, <1>9, <3>1 DEF True
    <3>2. CASE ~(r = <<"article", q[2]>> /\ q[1] = "sibling")
      <4>1. cache[r] = "yes"
        BY <1>3, <2>2, <3>2
      <4>. QED
        BY <1>0, <4>1 DEF True
    <3>. QED
      BY <3>1, <3>2
  <2>. QED
    BY <1>4, <2>1, <2>2 DEF True
<1>12. h \in Answered /\ True(h, wiki)
  <2>1. h \in Answered
    BY <1>7 DEF Answered, Answers
  <2>2. \A r \in Questions : h[r] = IF r = q THEN answer ELSE got[a][r]
    BY <1>5, <1>7 DEF Answered
  <2>. HIDE DEF h
  <2>. QED
    BY <1>3, <1>7, <2>1, <2>2 DEF True
<1>13. ASSUME NEW p \in 1..s - 1, NEW t \in Titles
       PROVE  got[a][<<Stages[p], t>>] = h[<<Stages[p], t>>]
  <2>1. Stages[p] # Stages[s]
    BY StageNames
  <2>2. <<Stages[p], t>> # q /\ <<Stages[p], t>> \in Questions
    BY <1>5, <2>1, KindNames DEF Questions
  <2>. QED
    BY <1>7, <2>2 DEF Answered
<1>. HIDE DEF h
<1>14. Complete(a, h, s - 1)
  BY <1>7, <1>13, s \in 1..6, LaterAnswersKeep
<1>15. Advance(a, h, s)
  BY <1>2, <1>3 DEF h
<1>16. TypeOK' /\ \A b \in Articles : ArticleInv(b)'
  BY <1>0, <1>4, <1>11, <1>12, <1>14, <1>15, s \in 1..6, AdvanceKeeps
<1>. QED
  BY <1>11, <1>16 DEF IInv

LEMMA VerificationFailsStep ==
  ASSUME IInv, NEW a \in Articles, VerificationFails(a) PROVE IInv'
<1>0. TypeOK /\ UNCHANGED <<wiki, cache, facts>>
  BY DEF IInv, VerificationFails
<1>1. /\ got' = [got EXCEPT ![a] = Nothing] /\ pc' = [pc EXCEPT ![a] = "planned"]
      /\ fresh' = [fresh EXCEPT ![a] = {}]
  BY DEF VerificationFails
<1>2. TypeOK'
  BY <1>0, <1>1, NothingSays DEF TypeOK
<1>3. ASSUME NEW b \in Articles PROVE ArticleInv(b)'
  <2>1. CASE b = a
    <3>1. got'[b] = Nothing /\ facts'[b] = facts[b] /\ pc'[b] = "planned"
      BY <1>0, <1>1, <2>1 DEF TypeOK
    <3>2. \A s \in 1..6 : pc'[b] # Stages[s]
      BY <3>1, StageNames
    <3>. QED
      BY <1>0, <3>1, <3>2, NothingSays DEF IInv, ArticleInv
  <2>2. CASE b # a
    BY <1>0, <1>1, <2>2, ArticleStays DEF IInv, TypeOK
  <2>. QED
    BY <2>1, <2>2
<1>. QED
  BY <1>0, <1>2, <1>3 DEF IInv

LEMMA NextRunStep == ASSUME IInv, NextRun PROVE IInv'
<1>1. \A a \in Articles : pc'[a] = "waiting" /\ got'[a] = Nothing /\ facts'[a] = Nothing
  BY DEF NextRun
<1>2. TypeOK'
  BY NothingSays DEF IInv, TypeOK, NextRun
<1>3. \A s \in 1..6 : Stages[s] # "waiting"
  BY StageNames
<1>4. \A a \in Articles : ArticleInv(a)'
  BY <1>1, <1>3, NothingSays DEF ArticleInv, Whole
<1>. QED
  BY <1>2, <1>4 DEF IInv, NextRun

LEMMA WikiGrowsStep == ASSUME IInv, WikiGrows PROVE IInv'
<1>1. wiki \subseteq wiki' /\ UNCHANGED <<cache, articleVars>>
  BY DEF WikiGrows
<1>2. TypeOK'
  BY <1>1 DEF IInv, TypeOK, articleVars
<1>3. \A a \in Articles : ArticleInv(a)'
  BY <1>1, ArticleStays DEF IInv, articleVars
<1>4. True(cache', wiki')
  BY <1>1, TrueGrows DEF IInv
<1>. QED
  BY <1>2, <1>3, <1>4 DEF IInv

LEMMA StepHolds == IInv /\ [Next]_vars => IInv'
<1> SUFFICES ASSUME IInv, [Next]_vars PROVE IInv'
  OBVIOUS
<1>1. CASE UNCHANGED vars
  BY <1>1 DEF vars, articleVars, IInv, TypeOK, ArticleInv
<1>2. CASE Next
  BY <1>2, FetchStep, FetchEndsStep, AnswerBatchStep, ReadPageStep, VerificationFailsStep,
     NextRunStep, WikiGrowsStep DEF Next
<1>. QED
  BY <1>1, <1>2

-----------------------------------------------------------------------------
\* Types, and what the cache and every article's answers may say, at any time
\* of any runs.
THEOREM FactsInvariant == Spec => []IInv
<1>1. Init => IInv
  BY InitHolds
<1>2. IInv /\ [Next]_vars => IInv'
  BY StepHolds
<1>. QED
  BY <1>1, <1>2, PTL DEF Spec

\* verify_wikitext over VerificationCache: what the prompts call existing on the
\* target wiki exists there, however old the cached row is.
THEOREM FactsAreConfirmed == Spec => []ConfirmedExists
<1>1. IInv => ConfirmedExists
  BY DEF IInv, ArticleInv, True, ConfirmedExists
<1>. QED
  BY <1>1, FactsInvariant, PTL

\* _plan_article hands over all of the facts of an article or none, whatever
\* an earlier run, the deadline or a failure cut short.
THEOREM FactsAreWhole == Spec => []DeliveredIsWhole
<1>1. ASSUME IInv PROVE DeliveredIsWhole
  <2>. SUFFICES ASSUME NEW a \in Articles, facts[a] # Nothing
                PROVE  \A kind \in Kinds : ToFetch(a, facts[a], kind) = {}
    BY DEF DeliveredIsWhole
  <2>1. Complete(a, facts[a], 6)
    BY <1>1 DEF IInv, ArticleInv, Whole
  <2>. QED
    BY <2>1, KindNames DEF Complete
<1>. QED
  BY <1>1, FactsInvariant, PTL
=============================================================================
