---------------------------- MODULE MCPureParts ----------------------------
(* The parts of the program that compute and keep no state, on every input *)
(* of a few elements: an input grows by one element at a time.             *)
EXTENDS WikitextChecks, CitationFixes, RunSettings, EngineReplies

CONSTANT MaxLen  \* bound, per part: the length of an input

VARIABLES part, input

vars == <<part, input>>

-----------------------------------------------------------------------------
(* Chunking and joining                                                    *)

Repeat(x, n) == [i \in 1..n |-> x]
Node(kind, sizes) ==
  [kind |-> kind, parts |-> [i \in DOMAIN sizes |-> Repeat(kind, sizes[i])]]

\* With ChunkMin = 3 and ChunkMax = 5: pieces below, at and above both.
NodeElements ==
  {Node("heading", <<1>>), Node("blank", <<1>>), Node("para", <<2>>), Node("para", <<3>>),
   Node("para", <<3, 4>>), Node("template", <<2>>), Node("template", <<5>>), Node("list", <<6>>)}

\* Every text of at most two letters, and one of two lines.
ChunkTexts == SeqOf({"a", "n"}, 2) \cup {<<"a", "n", "a">>}

\* Texts that are balanced, or not, with what the checks look for; the last
\* ones are balanced by what another text may open or close.
CheckedTexts ==
  {<<"a">>, <<"head">>, <<"head", "n">>, <<"a", "n", "head">>, <<"{{", "|}}">>, <<"{{">>, <<"|}}", "{{">>,
   <<"{|", "n", "|}">>, <<"{{", "{|", "}}">>, <<"<ref>", "</ref>">>, <<"[[", "a", "]]", "n">>,
   <<"verb", "}}", "/verb">>, <<"a", "head">>, <<"<!--", "-->">>, <<"{{", "verb", "}}">>, <<"/verb">>,
   <<"}}", "{|", "{{", "|}">>, <<"}}", "{{">>}

-----------------------------------------------------------------------------
(* Findings about three chunks on four lines, the second of which is empty *)

ThreeTexts == <<<<"a", "n", "b", "n">>, << >>, <<"c">>>>
ThreeMentions == <<{}, {"r"}, {"r", "s"}>>
ParsedElements ==
  {[type |-> "error", cls |-> "cite", orphan |-> o, needle |-> n, quoted |-> q] :
      o \in BOOLEAN, n \in {"b", "z"}, q \in {{}, {"r"}, {"t"}}}
    \cup {[type |-> "error", cls |-> "scribunto", orphan |-> FALSE, needle |-> n, quoted |-> {}] :
            n \in {"c", "z"}}
    \cup {[type |-> "leak", needle |-> n, quoted |-> {"r"}] : n \in {"a", "z"}}
    \cup {[type |-> "template", exists |-> e, harmless |-> h, needle |-> "c", quoted |-> {"s"}] :
            e, h \in BOOLEAN}

Messages == {"", "wrong"}
Snippets == {<<"b">>, <<"n", "b", "n">>, <<"c">>, <<"b", "n", "c">>, <<"z">>, <<"n">>, << >>}
Said(message, kind, snippet) ==
  [object |-> TRUE, message |-> message, kind |-> kind, severity |-> "error", snippet |-> snippet]
Unsaid == [object |-> FALSE, message |-> "", kind |-> "", severity |-> "", snippet |-> << >>]
ReviewElements ==
  {Said(m, k, s) : m \in Messages, k \in {"grammar_case", "other"}, s \in Snippets} \cup {Unsaid}

-----------------------------------------------------------------------------
(* Citations                                                               *)

Page(n, marked) == [page |-> n, marked |-> marked]
Plain(v) == Page(v, FALSE)
Note(kind, ref, params) ==
  [kind |-> kind, ref |-> ref,
   params |-> <<Param("", Plain("author")), Param("", Plain("2001"))>> \o params]
Cite(params) == [kind |-> "cite", ref |-> "none", params |-> params]
Numbered(name, n) == [name |-> name, num |-> n, value |-> Plain("x")]

\* Titles and pages in a language, and those that do not say.
Languages == {Plain("de"), Plain("en"), Plain("fr")}
TitleShows(title) == IF title \in Languages THEN title ELSE Nothing
PageDeclares(page) == IF page = Plain("silent") THEN Nothing ELSE page

Notes ==
  {Note("sfn", r, p \o q) :
      r \in {"none", "bare"},
      p \in {<<Param("", Page("one", TRUE))>>, <<Param("faqe", Plain("one"))>>},
      q \in {<< >>, <<Param("ps", Plain("x"))>>, <<Param("ps", Nothing)>>}}
OtherNotes ==
  {Note("harv", "bare", <<Param("p", Plain("one")), Param("ps", Plain("y"))>>),
   Note("harv", "none", <<Param("p", Plain("one")), Param("ps", Plain("y")), Param("ps", Nothing)>>),
   Note("sfn", "named", <<Param("", Page("many", TRUE)), Param("f", Plain("one"))>>)}
Cites ==
  {Cite(<<Param("title", Plain("de")), Param("url", Plain("en")),
          Param("titulli", Plain("t")), Param("autori", Plain("u")), Param("autor", Plain("v"))>>),
   Cite(<<Param("url", Plain("en")), Param("gjuha", Plain("de"))>>),
   Cite(<<Param("language", Nothing), Param("url", Plain("fr")), Param("language", Nothing),
          Numbered("autor", 1), Numbered("author", 1)>>),
   Cite(<<Param("url", Plain("silent")), Param("titulli", Plain("t"))>>),
   Cite(<<Param("titulli", Plain("de")), Param("language", Plain("sq")), Param("language", Nothing),
          Numbered("autor", 2)>>),
   Cite(<<Param("titulli", Plain("fr"))>>)}
CallElements == Notes \cup OtherNotes \cup Cites

-----------------------------------------------------------------------------
(* Tables: lines after "{|"                                                *)

Line(kind, cells) == [kind |-> kind, cells |-> cells]
LineElements ==
  {Line("row", << >>), Line("text", << >>), Line("cells", <<<<1, 1>>>>),
   Line("cells", <<<<1, 1>>, <<1, 1>>>>), Line("cells", <<<<2, 1>>, <<1, 1>>>>),
   Line("cells", <<<<3, 2>>>>), Line("cells", <<<<0, 1>>, <<1, 1>>>>)}
Closed(lines) == Append(lines, Line("end", << >>))

-----------------------------------------------------------------------------
(* Settings: each element sets one name in one layer                       *)

Setting(layer, key, value) == [layer |-> layer, key |-> key, value |-> value]
SettingElements ==
  {Setting(l, "provider", p) : l \in {"file", "flag"}, p \in {"openrouter", "local", "opencode_go"}}
    \cup {Setting(l, k, "openrouter") :
            l \in {"file", "flag"}, k \in {"model", "complex_model", "review_model"}}
    \cup {Setting("file", "model", "claude_code"), Setting("file", "local_model", "local")}
    \cup {Setting(l, k, p) : l \in {"file", "flag"}, k \in {"complex_provider", "review_provider"},
                             p \in {"local", "experiential"}}
    \cup {Setting("flag", "base_url", "own"), Setting("file", "fallback_provider", "local"),
          Setting("env", "openrouter_api_key", "given"), Setting("file", "provider", "given")}

\* A name has the value it is first given; the contact is always given, as
\* nothing is built without it.
Layer(settings, l) ==
  LET given(k) == {i \in DOMAIN settings : settings[i].layer = l /\ settings[i].key = k}
      names    == {settings[i].key : i \in {j \in DOMAIN settings : settings[j].layer = l}}
      layer    == [k \in names |-> settings[Min(given(k))].value]
  IN  IF l = "file" THEN With(layer, "wikimedia_contact", "given") ELSE layer

-----------------------------------------------------------------------------
(* Replies: the lines a command-line engine prints                         *)

Result(text, output, status, failed) ==
  [type |-> "result", text |-> text, output |-> output, thinking |-> 1, stop |-> "end_turn",
   input |-> 1, cacheWrite |-> 1, cacheRead |-> 1, status |-> status, isError |-> failed]
ReplyElements ==
  {[type |-> "assistant", text |-> <<"a">>], [type |-> "assistant", text |-> <<"b", "c">>],
   [type |-> "noise"], Result(<<"c">>, 3, 0, FALSE), Result(<< >>, 9, 0, FALSE),
   Result(<<"c">>, 3, 429, TRUE), [type |-> "text", text |-> <<"a">>],
   [type |-> "error", message |-> "limit"], [type |-> "error", message |-> "other"]}

\* How the process ended, and what it printed.
Runs(lines) ==
  {[end |-> e, code |-> c, stderr |-> s, lines |-> lines] :
     e \in {"exit", "timeout", "missing"}, c \in {0, 1}, s \in {"limit", "other"}}

-----------------------------------------------------------------------------
Elements == [
  chunking  |-> NodeElements,
  joining   |-> ChunkTexts,
  checking  |-> CheckedTexts,
  routing   |-> ParsedElements,
  reviewing |-> ReviewElements,
  citations |-> CallElements,
  tables    |-> LineElements,
  settings  |-> SettingElements,
  replies   |-> ReplyElements]

Lengths == [chunking |-> 5, joining |-> 4, checking |-> 3, routing |-> 2, reviewing |-> 2,
            citations |-> 3, tables |-> 6, settings |-> 3, replies |-> 4]

Init == part \in DOMAIN Elements /\ input = << >>

Grow ==
  /\ Len(input) < MaxLen[part]
  /\ \E e \in Elements[part] : input' = Append(input, e)
  /\ UNCHANGED part

Spec == Init /\ [][Grow]_vars

-----------------------------------------------------------------------------
(* What is expected of each part, on every input                           *)

\* build_chunks (parser.py): no text is lost, doubled or reordered, no
\* template, table or list is cut, and the token window is kept but for what
\* cannot be cut and the short neighbours that are merged with it.
ChunkingIsLossless ==
  part = "chunking" => CutsAreClean(input) /\ WithinWindow(input)

\* _assemble_with_spans (output.py): the lines of a chunk are found at the
\* chunk, neighbours do not run into each other, and texts that pass
\* validate_wikitext each for themselves and close what they open pass it
\* together.
JoiningIsFaithful ==
  /\ part = "joining" => JoinsByLine(input)
  /\ part = "checking" => JoinedStaysValid(input)

\* find_live_issues, run_assembly_repair and _localize_review_issues: whatever
\* the wiki or the review reports about the joined text is handed to a chunk,
\* to one only if it can be placed: by its line, by a reference's name, or by
\* where the words it quotes begin.
FindingsAreRouted ==
  LET whole == AssembleWithSpans(ThreeTexts)
  IN  /\ part = "routing" => FindingsArrive(FindLiveIssues(input, whole.text), whole.spans, ThreeMentions)
      /\ part = "reviewing" => ReviewArrives(input, ThreeTexts)

\* _post_process (pipeline.py) with citation_language.py: repeating the fixes
\* changes nothing but the language of a citation whose title came to light,
\* footnotes written alike agree, nothing given is lost.
CitationsAreFixed == part = "citations" => Settles(input) /\ FixesAreRight(input)

\* _check_table_span_mismatches (validator.py) against the columns each row
\* has by the cells that reach it.
TablesJudgedRight == part = "tables" => TablesAreJudged(Closed(input))

\* build_config, build_client_pool and ensure_fallback_engine: every tier has
\* its client, and the main one a model its provider knows.
TiersHaveEngines ==
  part = "settings" =>
    TiersAreServed(Layer(input, "file"), Layer(input, "env"), Layer(input, "flag"))

\* run_claude_cli and run_opencode_cli: no block printed is missing from what
\* is accepted, and no usage limit is met with another attempt.
RepliesAreJudged == part = "replies" => \A run \in Runs(input) : RunsAreJudged(run)
=============================================================================
