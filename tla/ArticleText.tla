---------------------------- MODULE ArticleText ----------------------------
(***************************************************************************)
(* How an article's text is cut into chunks (parser.py), joined again      *)
(* (output.py), and how a finding about the joined text finds its chunk    *)
(* (pipeline.py).                                                          *)
(*                                                                         *)
(* A text is a sequence of letters.  In a source text a letter is one      *)
(* token, and what matters of it is the kind of markup it belongs to; in a *)
(* translated text the only letter that matters is "n", the newline.       *)
(* Tokens of joined texts add up, which tiktoken guarantees only nearly.   *)
(***************************************************************************)
EXTENDS Loops, SequencesExt, FiniteSets, FiniteSetsExt

CONSTANTS
  ChunkMin, ChunkMax,  \* config.chunk_min_tokens, config.chunk_max_tokens
  MinTableRows,        \* _COMPLEX_MIN_TABLE_ROWS
  RefDensity,          \* _COMPLEX_REF_DENSITY, per PerTokens tokens
  TemplateDensity,     \* _COMPLEX_TEMPLATE_DENSITY, per PerTokens tokens
  PerTokens            \* 1000

\* The settings may be any integers (models.py); that they make sense is
\* nowhere checked.
ASSUME WindowAssumption == ChunkMin \in Int /\ ChunkMax \in Int

-----------------------------------------------------------------------------
(* Sections.  The parser's nodes: a "heading" opens a section; "template"  *)
(* and "list" stand for what is protected (templates, tables, refs, list   *)
(* blocks); a "para" has sentences; a "blank" is the empty line between    *)
(* paragraphs.  node.parts are its sentences, one part for all others.     *)

Follow(text, piece) == text \o piece
Joined(texts) == Loop(Follow, << >>, texts)

NodeText(node) == Joined(node.parts)
TextOf(nodes) == Joined([i \in DOMAIN nodes |-> NodeText(nodes[i])])
IsBlank(nodes) == \A i \in DOMAIN nodes : nodes[i].kind = "blank"

\* split_into_sections: flat sections, those of white space only left out.
AddNode(secs, n) ==
  IF n.kind = "heading" \/ secs = << >> THEN Append(secs, <<n>>)
  ELSE [secs EXCEPT ![Len(secs)] = Append(@, n)]
KeepSection(secs, nodes) == IF IsBlank(nodes) THEN secs ELSE Append(secs, nodes)

SplitIntoSections(nodes) == Loop(KeepSection, << >>, Loop(AddNode, << >>, nodes))

-----------------------------------------------------------------------------
(* An oversized section                                                    *)

Protected(node) == node.kind \in {"template", "list"}

\* A heading and the lines after it are one paragraph, and it has no sentence
\* of its own; so are neighbouring paragraphs without an empty line between.
JoinedNode(a, b) ==
  [kind |-> "para",
   parts |-> IF a.kind = "heading" THEN <<NodeText(a) \o Head(b.parts)>> \o Tail(b.parts)
             ELSE a.parts \o b.parts]

AddParagraph(ns, n) ==
  IF n.kind = "para" /\ ns # << >> /\ Last(ns).kind \in {"heading", "para"}
  THEN [ns EXCEPT ![Len(ns)] = JoinedNode(@, n)]
  ELSE Append(ns, n)

\* _find_protected_spans, _merge_spans and _split_free_text in one pass: the
\* units a section may be cut between, [text, protected].  Neighbouring
\* protected nodes are one unit; an empty line goes to the unit before it
\* unless that is protected; only an oversized paragraph is cut in sentences.
Unit(t, p) == [text |-> t, protected |-> p]
Glued(us, n) == [us EXCEPT ![Len(us)].text = @ \o NodeText(n)]

AddUnit(us, n) ==
  CASE Protected(n) ->
         IF us # << >> /\ Last(us).protected THEN Glued(us, n)
         ELSE Append(us, Unit(NodeText(n), TRUE))
    [] n.kind = "blank" ->
         IF us # << >> /\ ~Last(us).protected THEN Glued(us, n)
         ELSE Append(us, Unit(NodeText(n), FALSE))
    [] OTHER ->
         IF Len(NodeText(n)) > ChunkMax
         THEN us \o [i \in DOMAIN n.parts |-> Unit(n.parts[i], FALSE)]
         ELSE Append(us, Unit(NodeText(n), FALSE))

Units(nodes) == Loop(AddUnit, << >>, Loop(AddParagraph, << >>, nodes))

Flush(s) == IF s.buf = << >> THEN s ELSE [chunks |-> Append(s.chunks, s.buf), buf |-> << >>]

\* Mutant of PackUnit: what went out with an oversized unit stays pending.
PackUnitTwice(s, u) ==
  LET full == IF Len(s.buf) + Len(u.text) > ChunkMax THEN Flush(s) ELSE s
      put  == [full EXCEPT !.buf = @ \o u.text]
  IN  IF Len(u.text) > ChunkMax
      THEN IF s.buf # << >> /\ Len(s.buf) < ChunkMin
           THEN [chunks |-> Append(s.chunks, s.buf \o u.text), buf |-> s.buf]
           ELSE [Flush(s) EXCEPT !.chunks = Append(@, u.text)]
      ELSE IF Len(put.buf) >= ChunkMin THEN Flush(put) ELSE put

\* One turn of _split_oversized_section's loop.
PackUnit(s, u) ==
  LET full == IF Len(s.buf) + Len(u.text) > ChunkMax THEN Flush(s) ELSE s
      put  == [full EXCEPT !.buf = @ \o u.text]
  IN  IF Len(u.text) > ChunkMax
      THEN IF s.buf # << >> /\ Len(s.buf) < ChunkMin
           THEN [chunks |-> Append(s.chunks, s.buf \o u.text), buf |-> << >>]
           ELSE [Flush(s) EXCEPT !.chunks = Append(@, u.text)]
      ELSE IF Len(put.buf) >= ChunkMin THEN Flush(put) ELSE put

\* A remainder that is too short joins the last chunk.
SplitOversized(nodes) ==
  LET end == Loop(PackUnit, [chunks |-> << >>, buf |-> << >>], Units(nodes))
  IN  IF end.buf # << >> /\ end.chunks # << >> /\ Len(end.buf) < ChunkMin
      THEN [end.chunks EXCEPT ![Len(end.chunks)] = @ \o end.buf]
      ELSE Flush(end).chunks

-----------------------------------------------------------------------------
(* build_chunks                                                            *)

\* One turn of its loop; pending sections are kept as their joined text.
PackSection(s, nodes) ==
  LET text == TextOf(nodes)
      full == IF Len(s.buf) + Len(text) > ChunkMax THEN Flush(s) ELSE s
      put  == [full EXCEPT !.buf = @ \o text]
  IN  IF Len(text) > ChunkMax
      THEN [Flush(s) EXCEPT !.chunks = @ \o SplitOversized(nodes)]
      ELSE IF Len(put.buf) >= ChunkMin THEN Flush(put) ELSE put

BuildChunks(nodes) ==
  Flush(Loop(PackSection, [chunks |-> << >>, buf |-> << >>], SplitIntoSections(nodes))).chunks

CountOf(text, letter) == Cardinality({p \in DOMAIN text : text[p] = letter})

\* classify_chunk_complexity; every letter is a token.
IsComplex(text) ==
  \/ CountOf(text, "infobox") > 0
  \/ CountOf(text, "navbox") > 0
  \/ CountOf(text, "row") >= MinTableRows
  \/ CountOf(text, "ref") * PerTokens > RefDensity * Len(text)
  \/ (CountOf(text, "template") + CountOf(text, "infobox") + CountOf(text, "navbox")) * PerTokens
       > TemplateDensity * Len(text)

-----------------------------------------------------------------------------
(* Joining                                                                 *)

StartsLine(text) == text # << >> /\ Head(text) = "n"
EndsLine(text) == text # << >> /\ Last(text) = "n"

\* Mutant of AddPiece: a last newline is taken for the start of one more line.
AddPieceOneMore(s, text) ==
  LET glue  == IF s.last # << >> /\ ~EndsLine(s.last) /\ text # << >> /\ ~StartsLine(text)
               THEN <<"n">> ELSE << >>
      start == s.line + Len(glue)
      next  == start + CountOf(text, "n")
  IN  [text |-> s.text \o glue \o text, last |-> text, line |-> next,
       spans |-> Append(s.spans, <<start, IF text = << >> THEN start - 1 ELSE next>>)]

\* One turn of _assemble_with_spans' loop: s.last is pieces[-1].
AddPiece(s, text) ==
  LET glue  == IF s.last # << >> /\ ~EndsLine(s.last) /\ text # << >> /\ ~StartsLine(text)
               THEN <<"n">> ELSE << >>
      start == s.line + Len(glue)
      next  == start + CountOf(text, "n")
  IN  [text |-> s.text \o glue \o text, last |-> text, line |-> next,
       spans |-> Append(s.spans,
                   <<start, CASE text = << >> -> start - 1
                              [] EndsLine(text) -> next - 1
                              [] OTHER -> next>>)]

AssembleWithSpans(texts) ==
  Loop(AddPiece, [text |-> << >>, last |-> << >>, line |-> 1, spans |-> << >>], texts)

\* assemble_chunks_partial: what is not done shows a comment of one line.
SnapshotText(done, texts) ==
  AssembleWithSpans([i \in DOMAIN texts |-> IF i \in done THEN texts[i] ELSE <<"pending">>]).text

-----------------------------------------------------------------------------
(* Findings.  A finding has a kind, a line (0: none) and the quoted words  *)
(* of its message; a chunk mentions the reference names its translation or *)
(* its source defines or uses.                                             *)

NoChunk == 0

\* _chunk_for_line: the first chunk whose span has the line.
ChunkForLine(spans, line) ==
  LET holders == {i \in DOMAIN spans : line # 0 /\ spans[i][1] <= line /\ line <= spans[i][2]}
  IN  IF holders = {} THEN NoChunk ELSE Min(holders)

\* _ref_names_in_message
RefNames(finding) ==
  IF finding.kind \in {"orphaned_named_ref", "cite_error"} THEN finding.quoted ELSE {}

\* The first chunk that mentions one of the names.
ChunkForRef(mentions, names) ==
  LET having == {i \in DOMAIN mentions : mentions[i] \cap names # {}}
  IN  IF having = {} THEN NoChunk ELSE Min(having)

\* Mutant of Targets: a finding that names a reference is never broadcast.
TargetsNamedOnly(finding, spans, mentions) ==
  LET byLine == ChunkForLine(spans, finding.line)
      byRef  == ChunkForRef(mentions, RefNames(finding))
  IN  CASE byLine # NoChunk -> {byLine}
        [] byLine = NoChunk /\ byRef # NoChunk -> {byRef}
        [] OTHER -> IF RefNames(finding) = {} THEN DOMAIN spans ELSE {}

\* The chunks that are asked to repair the finding: the one at its line, else
\* the one that may define its reference, else all.
Targets(finding, spans, mentions) ==
  LET byLine == ChunkForLine(spans, finding.line)
      byRef  == ChunkForRef(mentions, RefNames(finding))
  IN  CASE byLine # NoChunk -> {byLine}
        [] byLine = NoChunk /\ byRef # NoChunk -> {byRef}
        [] OTHER -> DOMAIN spans

\* errors_for_chunk of a round: what chunk i is asked to repair; one that is
\* asked nothing is not repaired.
ErrorsFor(i, findings, spans, mentions) ==
  {f \in ToSet(findings) : i \in Targets(f, spans, mentions)}

-----------------------------------------------------------------------------
(* What is expected of them                                                *)

KeptNodes(nodes) == Joined(SplitIntoSections(nodes))

\* The places a text is cut at, as letters before them, and the places inside
\* what must not be cut.
Ends(texts) == {Len(Joined(SubSeq(texts, 1, i))) : i \in DOMAIN texts}
Inside(nodes) ==
  LET end(i) == Len(TextOf(SubSeq(nodes, 1, i)))
  IN  UNION {end(i) - Len(NodeText(nodes[i])) + 1..end(i) - 1 :
               i \in {j \in DOMAIN nodes : Protected(nodes[j])}}

\* The chunks of an article are its text but for empty lines it begins with,
\* cut nowhere inside a template, a table, a reference or a list.
CutsAreClean(nodes) ==
  LET chunks == BuildChunks(nodes)
  IN  /\ Joined(chunks) = TextOf(KeptNodes(nodes))
      /\ Ends(chunks) \cap Inside(KeptNodes(nodes)) = {}
      /\ \E k \in 0..Len(nodes) :
           IsBlank(SubSeq(nodes, 1, k)) /\ nodes = SubSeq(nodes, 1, k) \o KeptNodes(nodes)

\* How long a pending text may be that is too short for a chunk.
Short == IF ChunkMin > 0 THEN ChunkMin - 1 ELSE 0

\* A chunk exceeds chunk_max by less than the two short neighbours it may take
\* in, and only if a piece that is never cut does or a remainder joined it.
WithinWindow(nodes) ==
  LET secs   == SplitIntoSections(nodes)
      pieces == UNION {ToSet(Units(secs[i])) : i \in DOMAIN secs}
      chunks == BuildChunks(nodes)
  IN  \A i \in DOMAIN chunks :
        \/ Len(chunks[i]) <= ChunkMax + Short
        \/ \E u \in pieces : Len(chunks[i]) <= Short + Len(u.text) + Short

\* The line each letter of a text is on.
LineAt(text, p) == 1 + CountOf(SubSeq(text, 1, p - 1), "n")

\* Where each chunk's letters are in the whole, from the texts alone.
GlueBefore(texts, i) ==
  /\ i > 1 /\ texts[i] # << >> /\ texts[i - 1] # << >>
  /\ ~EndsLine(texts[i - 1]) /\ ~StartsLine(texts[i])
Glues(texts, i) == Cardinality({j \in 1..i : GlueBefore(texts, j)})
Before(texts, i) == Len(Joined(SubSeq(texts, 1, i - 1))) + Glues(texts, i)

\* A chunk's letters are found at the chunk: of a line no other chunk has
\* letters on, every finding goes to it.  Neighbours that say something are
\* on different lines.
JoinsByLine(texts) ==
  LET whole == AssembleWithSpans(texts)
      line(i, p) == LineAt(whole.text, Before(texts, i) + p)
      lines(i) == {line(i, p) : p \in DOMAIN texts[i]}
  IN  /\ \A i \in DOMAIN texts :
           \A l \in lines(i) :
             (\A j \in DOMAIN texts \ {i} : l \notin lines(j)) => ChunkForLine(whole.spans, l) = i
      /\ \A i \in DOMAIN texts : i > 1 /\ texts[i] # << >> /\ texts[i - 1] # << >> =>
           ~\E p \in DOMAIN texts[i - 1], q \in DOMAIN texts[i] :
               texts[i - 1][p] # "n" /\ texts[i][q] # "n" /\ line(i - 1, p) = line(i, q)

\* "An issue no chunk ever sees can never be fixed" (pipeline.py:315), and one
\* that can be placed is seen by one chunk only, which keeps two chunks from
\* defining the same reference.
FindingsArrive(findings, spans, mentions) ==
  \A k \in DOMAIN findings :
    LET f == findings[k]
        seen == {i \in DOMAIN spans : f \in ErrorsFor(i, findings, spans, mentions)}
    IN  /\ seen # {}
        /\ (f.line # 0 /\ ChunkForLine(spans, f.line) # NoChunk)
             \/ (\E i \in DOMAIN mentions : mentions[i] \cap RefNames(f) # {}) => Cardinality(seen) = 1
=============================================================================
