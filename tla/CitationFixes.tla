--------------------------- MODULE CitationFixes ---------------------------
(***************************************************************************)
(* The deterministic fixes of an assembled article's citations and         *)
(* footnotes (citation_language.py), in the order run_assembly_repair's    *)
(* _post_process applies them.                                             *)
(*                                                                         *)
(* A text is the sequence of its template calls: [kind, params, ref].      *)
(* kind is "cite", "sfn" (makes its own reference), "harv" (does not) or   *)
(* "quotes" (a typography template, "quoted" once it is plain text); ref   *)
(* is how the call is wrapped in a <ref>: "none", "bare", "named" or       *)
(* "mixed" (with other text).  A parameter is [name, num, value], num      *)
(* being a trailing number, 0 if none; name "" is a positional one, and    *)
(* several may have one name.  A value is [page, marked], marked if it     *)
(* reads "f. 161" with page 161; an empty one is Nothing.                  *)
(***************************************************************************)
EXTENDS Loops, SequencesExt, FiniteSetsExt

CONSTANTS
  MaxUrlFetches,  \* max_citation_url_fetches
  Shows(_),       \* guess_language_from_title: the language a title shows, if any
  Declares(_)     \* detect_source_language: the one the page at an url declares, if any

ASSUME FetchesAssumption == MaxUrlFetches \in Int

Nothing == [page |-> "", marked |-> FALSE]

-----------------------------------------------------------------------------
(* Parameters, as mwparserfromhell's Template has them                     *)

Param(name, value) == [name |-> name, num |-> 0, value |-> value]

Named(params, name) == {i \in DOMAIN params : params[i].name = name /\ params[i].num = 0}

\* has(name, ignore_empty=True): any of them says something.
Given(params, name) == \E i \in Named(params, name) : params[i].value # Nothing

\* get(name).value: the last of them.
ValueOf(params, name) ==
  IF Named(params, name) = {} THEN Nothing ELSE params[Max(Named(params, name))].value

-----------------------------------------------------------------------------
(* fill_missing_citation_languages                                         *)

Missing(call) == call.kind = "cite" /\ ~Given(call.params, "language")

\* Its page can be asked.
HasPage(call) == ValueOf(call.params, "url") # Nothing

\* The title, if it shows a language, is believed before the page.
Detected(call, fetched) ==
  LET title == Shows(ValueOf(call.params, "title"))
      page  == IF fetched /\ HasPage(call) THEN Declares(ValueOf(call.params, "url")) ELSE Nothing
  IN  IF title # Nothing THEN title ELSE page

\* add("language", ...): the first of that name gets the value and the others
\* go; without one the parameter is new.
KeepOnce(kept, p) ==
  IF p.name = "language" /\ p.num = 0 /\ Named(kept, "language") # {} THEN kept ELSE Append(kept, p)
WithLanguage(params, value) ==
  LET once == Loop(KeepOnce, << >>, params)
  IN  IF Named(once, "language") = {}
      THEN Append(once, Param("language", value))
      ELSE [once EXCEPT ![Min(Named(once, "language"))].value = value]

\* The citations before i whose pages are asked; only the first MaxUrlFetches are.
PagesBefore(text, i) == {j \in DOMAIN text : j < i /\ Missing(text[j]) /\ HasPage(text[j])}
Language(text, i) == Detected(text[i], Cardinality(PagesBefore(text, i)) < MaxUrlFetches)

FillLanguages(text) ==
  [i \in DOMAIN text |->
     IF Missing(text[i]) /\ Language(text, i) # Nothing
     THEN [text[i] EXCEPT !.params = WithLanguage(@, Language(text, i))]
     ELSE text[i]]

-----------------------------------------------------------------------------
(* fix_citation_param_names                                                *)

\* ALBANIAN_TO_ENGLISH_CS1_PARAMS by English name ("_" for "-"); spellings that
\* differ in diacritics are one.
AlbanianFor ==
  [title |-> {"titulli", "titull"}, author |-> {"autori", "autor"}, authors |-> {"autoret"},
   author_link |-> {"lidhja-e-autorit", "lidhje-autor", "lidhja-autorit", "autor-link", "autor-linku"},
   last |-> {"mbiemri", "mbiemer"}, first |-> {"emri", "emer"},
   editor |-> {"redaktori", "redaktor"}, editors |-> {"redaktoret"},
   publisher |-> {"botuesi", "botues"}, website |-> {"faqja", "uebfaqja", "faqja-e-internetit"},
   date |-> {"data"},
   access_date |-> {"data-e-perdorimit", "data-e-hyrjes", "data-qasjes", "data-e-aksesit"},
   archive_date |-> {"data-arkivimi", "data-e-arkivimit"},
   archive_url |-> {"url-arkivi", "url-i-arkivit"}, year |-> {"viti", "vit"},
   page |-> {"faqe", "faqja-e-librit", "fq"}, pages |-> {"faqet"},
   volume |-> {"vellimi", "vellim"}, issue |-> {"numri", "numer"},
   location |-> {"vendndodhja", "vendndodhje", "vendi", "vend"}, work |-> {"vepra", "veper"},
   chapter |-> {"kapitulli", "kapitull"}, quote |-> {"citimi", "citim"},
   translator |-> {"perkthyesi", "perkthyes"},
   trans_title |-> {"titulli-perkthyer", "titull-perkthyer"},
   journal |-> {"reviste", "revista"}, newspaper |-> {"gazete"}, series |-> {"seria", "seri"},
   language |-> {"gjuha"}, format |-> {"formati"}, type |-> {"lloji", "tipi"},
   edition |-> {"botimi"}, department |-> {"departamenti"}, id |-> {"identifikuesi"}]

AlbanianNames == UNION {AlbanianFor[e] : e \in DOMAIN AlbanianFor}

\* No name has two translations, and no translation is itself translated.
ASSUME TableAssumption ==
  /\ \A d, e \in DOMAIN AlbanianFor : d # e => AlbanianFor[d] \cap AlbanianFor[e] = {}
  /\ AlbanianNames \cap DOMAIN AlbanianFor = {}

\* _translate_param_name: the number stays.
English(name) == CHOOSE e \in DOMAIN AlbanianFor : name \in AlbanianFor[e]

\* An Albanian name is translated unless the translation is there already, or
\* an earlier parameter has been given it.
IsAlbanian(p) == p.name \in AlbanianNames
Renamed(params, i) ==
  /\ IsAlbanian(params[i])
  /\ ~\E j \in DOMAIN params :
         /\ params[j].num = params[i].num
         /\ \/ params[j].name = English(params[i].name)
            \/ j < i /\ IsAlbanian(params[j]) /\ English(params[j].name) = English(params[i].name)

EnglishParams(params) ==
  [i \in DOMAIN params |->
     IF Renamed(params, i) THEN [params[i] EXCEPT !.name = English(@)] ELSE params[i]]

FixParamNames(text) ==
  [i \in DOMAIN text |->
     IF text[i].kind = "cite" THEN [text[i] EXCEPT !.params = EnglishParams(@)] ELSE text[i]]

-----------------------------------------------------------------------------
(* fix_sfn_param_names                                                     *)

Footnotes == {"sfn", "harv"}

\* _SFN_PAGE_PARAM_FIXES; "f." is read as "f".
PageName(name) ==
  CASE name \in {"f", "fq", "faqe", "page"} -> "p"
    [] name \in {"ff", "faqet", "pages"}    -> "pp"
    [] OTHER                                -> name

\* The how many-th positional parameter i is.
Place(params, i) == Cardinality({j \in 1..i : params[j].name = ""})

\* Positional parameters after author and year that are marked as pages get a
\* name, "pp" if they are several.
FixPage(p, place) ==
  IF p.name # "" THEN IF p.num = 0 THEN [p EXCEPT !.name = PageName(@)] ELSE p
  ELSE IF place > 2 /\ p.value.marked
  THEN [p EXCEPT !.name = IF p.value.page = "many" THEN "pp" ELSE "p", !.value.marked = FALSE]
  ELSE p

FixPages(params) == [i \in DOMAIN params |-> FixPage(params[i], Place(params, i))]

FixFootnoteNames(text) ==
  [i \in DOMAIN text |->
     IF text[i].kind \in Footnotes THEN [text[i] EXCEPT !.params = FixPages(@)] ELSE text[i]]

-----------------------------------------------------------------------------
(* unwrap_redundant_sfn_ref, dedupe_short_footnotes, quotes                *)

Unwrap(text) ==
  [i \in DOMAIN text |->
     IF text[i].kind = "sfn" /\ text[i].ref = "bare" THEN [text[i] EXCEPT !.ref = "none"] ELSE text[i]]

\* remove("ps")
KeepButPs(kept, p) == IF p.name = "ps" /\ p.num = 0 THEN kept ELSE Append(kept, p)
WithoutPs(params) == Loop(KeepButPs, << >>, params)

\* get("ps").value = ..., or add("ps", ...) where there is none
WithPs(params, value) ==
  IF Named(params, "ps") = {} THEN Append(params, Param("ps", value))
  ELSE [params EXCEPT ![Max(Named(params, "ps"))].value = value]

\* Everything but the quotation, in the order it is written; neither the
\* template's name nor its wrapping counts.
Identity(call) == WithoutPs(call.params)

SameNote(text, i) ==
  {j \in DOMAIN text : text[j].kind \in Footnotes /\ Identity(text[j]) = Identity(text[i])}

\* None is not the same as one whose last is empty.
Quotation(call) ==
  [given |-> Given(call.params, "ps"),
   value |-> IF Given(call.params, "ps") THEN ValueOf(call.params, "ps") ELSE Nothing]

\* Each gets the quotation of the first.
Reconcile(text, i) ==
  LET ps == Quotation(text[Min(SameNote(text, i))])
  IN  IF Quotation(text[i]) = ps THEN text[i]
      ELSE IF ps.given
      THEN [text[i] EXCEPT !.params = WithPs(@, ps.value)]
      ELSE [text[i] EXCEPT !.params = WithoutPs(@)]

DedupeFootnotes(text) ==
  [i \in DOMAIN text |-> IF text[i].kind \in Footnotes THEN Reconcile(text, i) ELSE text[i]]

NormalizeQuotes(text) ==
  [i \in DOMAIN text |-> IF text[i].kind = "quotes" THEN [text[i] EXCEPT !.kind = "quoted"] ELSE text[i]]

-----------------------------------------------------------------------------
\* Mutant of PostProcess: footnotes are compared before their names are fixed.
PostProcessEarly(text) ==
  NormalizeQuotes(Unwrap(FixFootnoteNames(DedupeFootnotes(FixParamNames(FillLanguages(text))))))

\* _post_process with the settings on, and no fix failing.
PostProcess(text) ==
  NormalizeQuotes(DedupeFootnotes(Unwrap(FixFootnoteNames(FixParamNames(FillLanguages(text))))))

-----------------------------------------------------------------------------
(* What is expected of them                                                *)

\* A citation whose title stands under an Albanian name is not seen to have
\* one until the names are fixed, and languages are filled first.
HidesTitle(call) ==
  /\ Named(call.params, "title") = {}
  /\ \E i \in DOMAIN call.params :
       /\ call.params[i].name \in AlbanianFor["title"] /\ call.params[i].num = 0
       /\ Shows(call.params[i].value) # Nothing

\* "Each fix is written to be a no-op on already-fixed input"
\* (pipeline.py:205).  As long as every page that is needed was asked, so they
\* are when no citation whose language is left open hides its title; where one
\* does, its language is filled by the next round, and that is all.
Settles(text) ==
  Cardinality({i \in DOMAIN text : Missing(text[i]) /\ HasPage(text[i])}) <= MaxUrlFetches =>
    LET fixed == PostProcess(text)
        again == PostProcess(fixed)
    IN  /\ (\A i \in DOMAIN text :
              Missing(text[i]) /\ Language(text, i) = Nothing => ~HidesTitle(text[i]))
             => again = fixed
        /\ PostProcess(again) = again

\* What a citation's parameters say.
Values(call) == {call.params[j].value : j \in DOMAIN call.params} \ {Nothing}

\* Two parameters of one name.
Twice(call, a, b) ==
  call.params[a].name = call.params[b].name /\ call.params[a].num = call.params[b].num

\* Footnotes that are written alike show the same quotation, none is wrapped
\* twice, no citation has lost a value, a language that was there is not
\* replaced, and no parameter is hidden behind one it is renamed like.
FixesAreRight(text) ==
  LET fixed  == PostProcess(text)
      filled == FillLanguages(text)
  IN  /\ \A i, j \in DOMAIN fixed :
           fixed[i].kind \in Footnotes /\ j \in SameNote(fixed, i) =>
             ValueOf(fixed[i].params, "ps") = ValueOf(fixed[j].params, "ps")
      /\ ~\E i \in DOMAIN fixed : fixed[i].kind = "sfn" /\ fixed[i].ref = "bare"
      /\ \A i \in DOMAIN text : text[i].kind = "cite" =>
           /\ Values(text[i]) \subseteq Values(fixed[i])
           /\ ~Missing(text[i]) =>
                ValueOf(fixed[i].params, "language") = ValueOf(text[i].params, "language")
           /\ \A a, b \in DOMAIN filled[i].params :
                Twice(fixed[i], a, b) => Twice(filled[i], a, b)
=============================================================================
