--------------------------- MODULE WikitextChecks ---------------------------
(***************************************************************************)
(* The mechanical checks of a translated text (validator.py) and of its    *)
(* rendering by the target wiki (live_validator.py), and the findings of   *)
(* the review (review.py) with the chunks they go to (pipeline.py).        *)
(*                                                                         *)
(* A text is a sequence of tokens: the delimiters the checks count, "n"    *)
(* for a newline, "head" for a heading-like run, "verb" and "/verb" around *)
(* verbatim content, "meta" for a sentence only a model would write, the   *)
(* names of the templates that are checked, and any other word.  The       *)
(* compression test for repetition is left out.                            *)
(***************************************************************************)
EXTENDS ArticleText

-----------------------------------------------------------------------------
(* Balance                                                                 *)

\* _strip_verbatim_spans: from an opening tag to the next closing one; what
\* is never closed stays.
TakeToken(s, x) ==
  CASE s.held # << >> /\ x = "/verb" -> [s EXCEPT !.held = << >>]
    [] s.held # << >> /\ x # "/verb" -> [s EXCEPT !.held = Append(@, x)]
    [] s.held = << >> /\ x = "verb"  -> [s EXCEPT !.held = <<x>>]
    [] OTHER                         -> [s EXCEPT !.out = Append(@, x)]
Stripping(text) == Loop(TakeToken, [out |-> << >>, held |-> << >>], text)
StripVerbatim(text) == Stripping(text).out \o Stripping(text).held

CountIn(text, tokens) == Cardinality({p \in DOMAIN text : text[p] \in tokens})

\* "|}}" closes a template whose last parameter is empty; it holds "|}".
TemplateEnd == {"}}", "|}}"}

\* The positions inside a template the parser recognises: it is open from i on
\* and closed at j.
Depth(text, i, k) ==
  CountIn(SubSeq(text, i, k), {"{{"}) - CountIn(SubSeq(text, i, k), TemplateEnd)
Recognised(text, i, j) ==
  text[i] = "{{" /\ Depth(text, i, j) = 0 /\ \A k \in i..(j - 1) : Depth(text, i, k) > 0
InTemplate(text, p) == \E i \in 1..p : \E j \in p..Len(text) : Recognised(text, i, j)

\* _check_pair on the text without verbatim spans; a table's delimiters are
\* counted outside templates, on the text as it is.
Unbalanced(text) ==
  LET masked  == StripVerbatim(text)
      outside == {p \in DOMAIN text : ~InTemplate(text, p)}
      tables(tokens) == Cardinality({p \in outside : text[p] \in tokens})
  IN  {kind \in {"template", "link", "comment", "table", "reference"} :
         CASE kind = "template"  -> CountIn(masked, {"{{"}) # CountIn(masked, TemplateEnd)
           [] kind = "link"      -> CountIn(masked, {"[["}) # CountIn(masked, {"]]"})
           [] kind = "comment"   -> CountIn(masked, {"<!--"}) # CountIn(masked, {"-->"})
           [] kind = "table"     -> tables({"{|"}) # tables({"|}", "|}}"})
           [] kind = "reference" -> CountIn(text, {"<ref>"}) # CountIn(text, {"</ref>"})}

\* A heading is recognised up to the end of its line, wherever it begins.
MisplacedHeading(text) ==
  \E p \in DOMAIN text :
    /\ text[p] = "head" /\ (p = Len(text) \/ text[p + 1] = "n")
    /\ p > 1 /\ text[p - 1] # "n"

\* _check_template_based_issues, each at its own line.
BrokenTemplates == {"convert_malformed", "harvc_used", "sfn_unsupported_param"}
TemplateIssues(text) ==
  {[kind |-> text[p], line |-> 1 + CountOf(SubSeq(text, 1, p - 1), "n")] :
     p \in {q \in DOMAIN text : text[q] \in BrokenTemplates}}

\* validate_wikitext, tables apart: the kinds of issues.
Issues(text) ==
  Unbalanced(text)
    \cup (IF CountIn(text, {"meta"}) > 0 THEN {"leaked_commentary"} ELSE {})
    \cup (IF MisplacedHeading(text) THEN {"heading"} ELSE {})
    \cup {issue.kind : issue \in TemplateIssues(text)}

ValidText(text) == Issues(text) = {}

-----------------------------------------------------------------------------
(* Tables.  A table is the sequence of its lines after "{|", each with a   *)
(* kind - "row" ("|-"), "caption" ("|+"), "cells" ("|" or "!"), "text",    *)
(* "nested" ("{|") or "end" ("|}") - and its cells <<rowspan, colspan>>.   *)

\* _parse_table_rows: each row's cells and the line it is reported at, the
\* first one that has any.  What comes before the first "|-" is no row.
RowClosed(s) == IF s.open THEN Append(s.rows, s.row) ELSE s.rows
TakeLine(s, line) ==
  LET next == [s EXCEPT !.at = @ + 1]
  IN  CASE line.kind = "row" ->
             [next EXCEPT !.rows = RowClosed(s), !.open = TRUE,
                          !.row = [cells |-> << >>, line |-> s.at, placed |-> FALSE]]
        [] line.kind = "end" -> [next EXCEPT !.rows = RowClosed(s), !.open = FALSE]
        [] line.kind = "cells" /\ s.open ->
             [next EXCEPT !.row = [cells |-> @.cells \o line.cells, placed |-> TRUE,
                                   line  |-> IF @.placed THEN @.line ELSE s.at]]
        [] OTHER -> next

BeforeLines ==
  [at |-> 1, rows |-> << >>, open |-> FALSE, row |-> [cells |-> << >>, line |-> 0, placed |-> FALSE]]
TableRows(lines) ==
  IF \E i \in DOMAIN lines : lines[i].kind = "nested" THEN << >>
  ELSE Loop(TakeLine, BeforeLines, lines).rows

AddColumns(n, span) == n + span[2]
Columns(spans) == Loop(AddColumns, 0, spans)

\* What reaches into the next row, by a row less.
LeaveRow(left, span) == IF span[1] > 1 THEN Append(left, <<span[1] - 1, span[2]>>) ELSE left
LeftOver(spans) == Loop(LeaveRow, << >>, spans)

\* Mutant of AddRow: a cell spans one row more than it says.
AddRowOneMore(s, row) ==
  [widths |-> Append(s.widths, Columns(s.active) + Columns(row.cells)),
   active |-> LeftOver(s.active) \o row.cells]

\* The width of a row counts the cells of the rows above that reach into it.
AddRow(s, row) ==
  [widths |-> Append(s.widths, Columns(s.active) + Columns(row.cells)),
   active |-> LeftOver(s.active) \o LeftOver(row.cells)]

Widths(rows) == Loop(AddRow, [widths |-> << >>, active |-> << >>], rows).widths

\* The most frequent width, the first of several.
ExpectedWidth(widths) ==
  LET often(i) == CountOf(widths, widths[i])
  IN  widths[Min({i \in DOMAIN widths : \A j \in DOMAIN widths : often(j) <= often(i)})]

\* _check_table_span_mismatches: the rows reported, those whose neighbours are
\* as wide as expected.
OffWidthRows(lines) ==
  LET rows   == TableRows(lines)
      widths == Widths(rows)
      fits(i) == i \notin DOMAIN widths \/ widths[i] = ExpectedWidth(widths)
  IN  IF Len(rows) < 2 THEN {}
      ELSE {i \in DOMAIN rows : ~fits(i) /\ fits(i - 1) /\ fits(i + 1)}

-----------------------------------------------------------------------------
(* The live checks.  The wiki's answer is a sequence of what was found in  *)
(* the page: "error" spans with a class and a message, "leak"s of a flag   *)
(* template, and the "template"s it used.  needle is the token it is       *)
(* looked for by, quoted the words its message puts in quotes.             *)

\* _locate, _locate_template: the line of the first occurrence, 0 if none.
Locate(text, needle) ==
  IF needle \notin ToSet(text) THEN 0
  ELSE 1 + CountOf(SubSeq(text, 1, Min({p \in DOMAIN text : text[p] = needle}) - 1), "n")

\* Lua errors first; the other classes are no errors, and a Cite error that
\* speaks of references is an orphaned one.
ErrorKind(span) ==
  CASE span.cls = "scribunto" -> "lua_script_error"
    [] span.cls = "cite" /\ span.orphan -> "orphaned_named_ref"
    [] span.cls = "cite" /\ ~span.orphan -> "cite_error"

\* find_live_issues: errors, then leaks, each once, then missing templates
\* but those known to be harmless.
FindLiveIssues(parsed, text) ==
  LET found(type) == SelectSeq(parsed, LAMBDA x : x.type = type)
      errors  == SelectSeq(found("error"), LAMBDA x : x.needle # "")
      leaks   == found("leak")
      once    == SelectSeq([i \in DOMAIN leaks |-> <<i, leaks[i]>>],
                   LAMBDA x : ~\E j \in 1..(x[1] - 1) : leaks[j].needle = x[2].needle)
      missing == SelectSeq(found("template"), LAMBDA x : ~x.exists /\ ~x.harmless)
      issue(kind, x) == [kind |-> kind, line |-> Locate(text, x.needle), quoted |-> x.quoted]
  IN  [i \in DOMAIN errors |-> issue(ErrorKind(errors[i]), errors[i])]
        \o [i \in DOMAIN once |-> issue("country_data_leak", once[i][2])]
        \o [i \in DOMAIN missing |-> issue("unexpanded_template", missing[i])]

-----------------------------------------------------------------------------
(* The review's findings (review.py).  An entry of the reply's JSON array  *)
(* is an object or not, and what it does not give is "" or << >>.          *)

ReviewKinds == {"semantic_fidelity", "grammar_case", "entity_consistency", "infobox_param_mismatch"}

\* str.strip of a snippet.
Stripped(snippet) ==
  LET kept == {p \in DOMAIN snippet : snippet[p] # "n"}
  IN  IF kept = {} THEN << >> ELSE SubSeq(snippet, Min(kept), Max(kept))

\* parse_review_findings: entries that say nothing are dropped, unknown kinds
\* and severities replaced; a reply without an array is one without entries.
TakeEntry(issues, entry) ==
  IF entry.object /\ entry.message # ""
  THEN Append(issues,
         [kind |-> IF entry.kind \in ReviewKinds THEN entry.kind ELSE "semantic_fidelity",
          severity |-> IF entry.severity \in {"error", "warning"} THEN entry.severity ELSE "error",
          line |-> 0, snippet |-> Stripped(entry.snippet)])
  ELSE issues

ParseReviewFindings(entries) == Loop(TakeEntry, << >>, entries)

Occurrences(text, snippet) ==
  {p \in DOMAIN text : p + Len(snippet) - 1 <= Len(text)
                         /\ SubSeq(text, p, p + Len(snippet) - 1) = snippet}

\* The line a finding names, else the one its snippet first begins on.
ReviewLine(finding, text) ==
  LET found == Occurrences(text, finding.snippet)
  IN  IF finding.line # 0 \/ finding.snippet = << >> \/ found = {}
      THEN finding.line
      ELSE 1 + CountOf(SubSeq(text, 1, Min(found) - 1), "n")

\* _localize_review_issues: what chunk i is asked to repair; what cannot be
\* placed every chunk is told.
ReviewErrorsFor(i, findings, text, spans) ==
  {f \in ToSet(findings) : ChunkForLine(spans, ReviewLine(f, text)) \in {i, NoChunk}}

-----------------------------------------------------------------------------
(* What is expected of them                                                *)

\* The verbatim spans and the templates a text opens, it closes.
ClosesItself(text) ==
  /\ Stripping(text).held = << >>
  /\ \A i \in DOMAIN text : text[i] = "{{" => \E j \in i..Len(text) : Recognised(text, i, j)

\* Texts that pass each for themselves pass together, as long as none of them
\* is empty and none is continued by the next: the whole article's findings
\* are about the whole.
JoinedStaysValid(texts) ==
  (\A i \in DOMAIN texts : texts[i] # << >> /\ ValidText(texts[i]) /\ ClosesItself(texts[i]))
    => ValidText(AssembleWithSpans(texts).text)

\* The chunks the first of the quoted words are in, by the place in the whole.
Begins(found, texts) ==
  {i \in DOMAIN texts : found # {} /\ Min(found) - Before(texts, i) \in DOMAIN texts[i]}

\* Every finding of the review reaches a chunk.  One that quotes the article
\* reaches the chunk alone where the words first begin, so one that quotes
\* words of a line of a single chunk reaches that chunk.
ReviewArrives(entries, texts) ==
  LET whole == AssembleWithSpans(texts)
      findings == ParseReviewFindings(entries)
      quoting(f) == {i \in DOMAIN texts : Occurrences(texts[i], f.snippet) # {}}
      found(f) == Occurrences(whole.text, f.snippet)
  IN  \A k \in DOMAIN findings :
        LET f == findings[k]
            seen == {i \in DOMAIN texts : f \in ReviewErrorsFor(i, findings, whole.text, whole.spans)}
        IN  /\ seen # {}
            /\ f.snippet # << >> /\ found(f) # {} => seen = Begins(found(f), texts)
            /\ f.snippet # << >> /\ "n" \notin ToSet(f.snippet) /\ Cardinality(quoting(f)) = 1
                 => seen = quoting(f)

\* The squares that the cells of row k cover in row r, drawn on a grid; a cell
\* is always in its own row.
Covered(cells, k, r) ==
  UNION {{<<k, i, c>> : c \in 1..cells[i][2]} :
           i \in {j \in DOMAIN cells : r = k \/ k + cells[j][1] > r}}

\* How wide row r is: the squares in it, of its cells and of those above.
WidthAt(rows, r) == Cardinality(UNION {Covered(rows[k].cells, k, r) : k \in 1..r})

\* A table whose rows are equally wide is not reported; in one with a single
\* odd row, that row is, and no other.
TablesAreJudged(lines) ==
  LET rows == TableRows(lines)
      width(r) == WidthAt(rows, r)
      alike(rs) == \A r, s \in rs : width(r) = width(s)
  IN  /\ alike(DOMAIN rows) => OffWidthRows(lines) = {}
      /\ \A odd \in DOMAIN rows :
           Len(rows) > 2 /\ alike(DOMAIN rows \ {odd}) /\ ~alike(DOMAIN rows)
             => OffWidthRows(lines) = {odd}
=============================================================================
