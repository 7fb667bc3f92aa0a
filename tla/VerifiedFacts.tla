---------------------------- MODULE VerifiedFacts ----------------------------
(***************************************************************************)
(* The planning phase of a run: every article is fetched and its facts are *)
(* looked up (verification.py, verify_wikitext), several articles at once, *)
(* through VerificationCache, which later runs share and which has no      *)
(* expiry.  The lookups of an article come in stages; any of them may hang *)
(* or fail, the whole verification has a deadline, and the process may be  *)
(* killed.  The source texts are taken as the titles they mention.         *)
(*                                                                         *)
(* A question is a <<kind, title>> pair, and so is a key of the cache.     *)
(***************************************************************************)
EXTENDS Naturals, Sequences, FiniteSetsExt

CONSTANTS
  Articles,   \* titles of the run's inputs
  Links,      \* per article, extract_link_targets of its text
  Templates,  \* per article, extract_template_names of its text
  Infoboxes,  \* the template names that start with "infobox"
  Canonical,  \* per title, _normalize_title_case
  Unanswered, \* questions Wikidata answers under another title (a redirect)
  Wikis,      \* possible first contents of the target wiki
  BatchSize,  \* _BATCH_SIZE
  Fetches,    \* _FETCH_CONCURRENCY
  MaxEdits,   \* bound: articles created on the target wiki
  MaxRuns     \* bound: runs

Titles == Articles \cup UNION {Links[a] \cup Templates[a] : a \in Articles}
Stages == <<"link", "template", "article", "sibling", "count", "params">>
Kinds == {Stages[s] : s \in DOMAIN Stages}
StageOf(kind) == CHOOSE s \in DOMAIN Stages : Stages[s] = kind
Questions == Kinds \X Titles

ASSUME PlanningAssumption ==
  /\ Links \in [Articles -> SUBSET Titles] /\ Templates \in [Articles -> SUBSET Titles]
  /\ Canonical \in [Titles -> Titles]
  /\ BatchSize \in Nat \ {0} /\ Fetches \in Nat \ {0}
  /\ MaxEdits \in Nat /\ MaxRuns \in Nat

VARIABLES
  wiki,    \* the <<namespace, title>> pairs whose item has a target sitelink
  cache,   \* VerificationCache: an answer, or "unknown"
  pc,      \* "waiting", "fetching", a stage, "planned", "failed"
  got,     \* the answers verify_wikitext holds
  fresh,   \* the questions of the present stage answered in this lookup
  facts,   \* what _plan_article returns, Nothing when verification failed
  edits, runs

articleVars == <<pc, got, fresh, facts>>
vars == <<wiki, cache, articleVars, edits, runs>>

\* No answer yet; also the facts of an article whose verification failed.
Nothing == [q \in Questions |-> "unknown"]

\* The page a question is about.
PageOf(q) ==
  <<IF q[1] \in {"template", "params"} THEN "template" ELSE "main", Canonical[q[2]]>>

\* The questions of a stage, given the answers of the stages before it.
Asks(a, g, kind) ==
  {kind} \X CASE kind = "link" -> Links[a]
              [] kind = "template" -> Templates[a]
              [] kind = "article" -> {a}
              [] kind = "sibling" -> {t \in {a} : g[<<"article", t>>] = "yes"}
              [] kind = "count" -> {t \in Links[a] : g[<<"link", t>>] = "no"}
              [] kind = "params" ->
                   {t \in Templates[a] \cap Infoboxes : g[<<"template", t>>] = "yes"}

ToFetch(a, g, kind) == {q \in Asks(a, g, kind) : g[q] = "unknown"}

\* Mutant of Cached: rows are looked up by title, whatever their kind.
CachedByTitle(q) ==
  IF cache[q] = "unknown" /\ q[1] \in {"link", "template"}
  THEN cache[<<IF q[1] = "link" THEN "template" ELSE "link", q[2]>>]
  ELSE cache[q]

Cached(q) == cache[q]

\* The answers of a stage that the cache holds when the stage is entered.
Read(a, g, kind) ==
  [q \in Questions |-> IF q \in ToFetch(a, g, kind) THEN Cached(q) ELSE g[q]]

\* The answers of article a as it goes through the stages from `from` on, those
\* of the stages before it being complete in g.
Entered(a, g, from) ==
  LET enter(h, s) == IF s < from THEN h ELSE Read(a, h, Stages[s])
      h1 == enter(g, 1)
      h2 == enter(h1, 2)
      h3 == enter(h2, 3)
      h4 == enter(h3, 4)
      h5 == enter(h4, 5)
  IN  <<h1, h2, h3, h4, h5, enter(h5, 6)>>

\* The article stops at the first stage that needs a request; past the last
\* one its facts are complete.
Advance(a, g, from) ==
  LET h    == Entered(a, g, from)
      open == {s \in from..6 : ToFetch(a, h[s], Stages[s]) # {}}
  IN /\ fresh' = [fresh EXCEPT ![a] = {}]
     /\ IF open = {}
        THEN /\ pc' = [pc EXCEPT ![a] = "planned"]
             /\ facts' = [facts EXCEPT ![a] = h[6]]
             /\ got' = [got EXCEPT ![a] = Nothing]
        ELSE /\ pc' = [pc EXCEPT ![a] = Stages[Min(open)]]
             /\ got' = [got EXCEPT ![a] = h[Min(open)]]
             /\ UNCHANGED facts

Init ==
  /\ wiki \in Wikis
  /\ cache = Nothing
  /\ pc = [a \in Articles |-> "waiting"]
  /\ got = [a \in Articles |-> Nothing]
  /\ fresh = [a \in Articles |-> {}]
  /\ facts = [a \in Articles |-> Nothing]
  /\ edits = 0 /\ runs = 1

-----------------------------------------------------------------------------
Fetch(a) ==
  /\ pc[a] = "waiting"
  /\ Cardinality({b \in Articles : pc[b] \in Kinds \cup {"fetching"}}) < Fetches
  /\ pc' = [pc EXCEPT ![a] = "fetching"]
  /\ UNCHANGED <<wiki, cache, got, fresh, facts, edits, runs>>

\* The source article arrived, or it is given up.
FetchEnds(a) ==
  /\ pc[a] = "fetching"
  /\ \/ Advance(a, Nothing, 1)
     \/ pc' = [pc EXCEPT ![a] = "failed"] /\ UNCHANGED <<got, fresh, facts>>
  /\ UNCHANGED <<wiki, cache, edits, runs>>

(***************************************************************************)
(* An entity that does not name the source title answers nothing: the      *)
(* question stays out of the facts and of the cache, but for a template or *)
(* the article itself .get() makes it a "no".                              *)
(***************************************************************************)
Reply(q) ==
  CASE q \in Unanswered /\ q[1] \in {"link", "count"} -> "none"
    [] q \in Unanswered -> "no"
    [] q[1] = "count" -> "counted"
    [] OTHER -> IF PageOf(q) \in wiki THEN "yes" ELSE "no"

\* What is cached once a stage's requests are done: an article that exists
\* has its row written only with the links of its page.
Stored(g, qs) ==
  {q \in qs : g[q] # "none" /\ ~(q[1] = "article" /\ g[q] = "yes")}

\* Wikidata answers the next batch of a stage; the answers of the stage are
\* cached when the last batch has arrived.
AnswerBatch(a) ==
  /\ pc[a] \in {"link", "template", "article", "count"}
  /\ LET todo == ToFetch(a, got[a], pc[a])
     IN \E batch \in kSubset(Min({BatchSize, Cardinality(todo)}), todo) :
          LET g == [q \in Questions |-> IF q \in batch THEN Reply(q) ELSE got[a][q]]
              all == fresh[a] \cup batch
          IN IF batch = todo
             THEN /\ cache' = [q \in Questions |->
                                 IF q \in Stored(g, all) THEN g[q] ELSE cache[q]]
                  /\ Advance(a, g, StageOf(pc[a]) + 1)
             ELSE /\ got' = [got EXCEPT ![a] = g]
                  /\ fresh' = [fresh EXCEPT ![a] = all]
                  /\ UNCHANGED <<cache, pc, facts>>
  /\ UNCHANGED <<wiki, edits, runs>>

\* The page of the existing article, or of one infobox, is read for its links
\* or parameters: "none" when it has none, and just the same when it could not
\* be read (a MediaWikiError).  Either answer is cached, the article's together
\* with its row.
ReadPage(a) ==
  /\ pc[a] \in {"sibling", "params"}
  /\ \E q \in ToFetch(a, got[a], pc[a]), answer \in {"some", "none"} :
       /\ cache' = [r \in Questions |->
            CASE r = q -> answer
              [] r = <<"article", q[2]>> /\ q[1] = "sibling" -> "yes"
              [] OTHER -> cache[r]]
       /\ Advance(a, [got[a] EXCEPT ![q] = answer], StageOf(pc[a]))
  /\ UNCHANGED <<wiki, edits, runs>>

\* Mutant of VerificationFails: what was gathered so far is used.
KeepWhatWasGathered(a) ==
  /\ pc[a] \in Kinds
  /\ pc' = [pc EXCEPT ![a] = "planned"]
  /\ facts' = [facts EXCEPT ![a] = got[a]]
  /\ got' = [got EXCEPT ![a] = Nothing]
  /\ fresh' = [fresh EXCEPT ![a] = {}]
  /\ UNCHANGED <<wiki, cache, edits, runs>>

\* A request fails or the deadline of the whole verification passes: the
\* article is planned without facts; what was cached before stays.
VerificationFails(a) ==
  /\ pc[a] \in Kinds
  /\ pc' = [pc EXCEPT ![a] = "planned"]
  /\ got' = [got EXCEPT ![a] = Nothing]
  /\ fresh' = [fresh EXCEPT ![a] = {}]
  /\ UNCHANGED <<wiki, cache, facts, edits, runs>>

\* The next run, after this one was planned or killed on the way.
NextRun ==
  /\ runs < MaxRuns
  /\ runs' = runs + 1
  /\ pc' = [a \in Articles |-> "waiting"]
  /\ got' = [a \in Articles |-> Nothing]
  /\ fresh' = [a \in Articles |-> {}]
  /\ facts' = [a \in Articles |-> Nothing]
  /\ UNCHANGED <<wiki, cache, edits>>

\* Somebody creates a page on the target wiki.
WikiGrows ==
  /\ edits < MaxEdits
  /\ edits' = edits + 1
  /\ \E p \in {PageOf(q) : q \in Questions} \ wiki : wiki' = wiki \cup {p}
  /\ UNCHANGED <<cache, articleVars, runs>>

Next ==
  \/ \E a \in Articles : \/ Fetch(a) \/ FetchEnds(a) \/ AnswerBatch(a)
                         \/ ReadPage(a) \/ VerificationFails(a)
  \/ NextRun \/ WikiGrows

Spec == Init /\ [][Next]_vars

-----------------------------------------------------------------------------
\* Whatever was looked up when, by which article or run, and however often a
\* lookup was cut short: what an article's prompts call existing on the target
\* wiki exists there.
ConfirmedExists ==
  \A a \in Articles, q \in Questions : facts[a][q] = "yes" => PageOf(q) \in wiki

\* An article is translated with all of its facts or with none: lookups that
\* an earlier run cut short leave no hole in what a later one hands over, the
\* questions that depend on cached answers (counts of the missing links,
\* parameters of the confirmed infoboxes) included.
DeliveredIsWhole ==
  \A a \in Articles :
    facts[a] # Nothing => \A kind \in Kinds : ToFetch(a, facts[a], kind) = {}
=============================================================================
