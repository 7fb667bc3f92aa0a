------------------------ MODULE MCTranslationMemory ------------------------
(* TranslationMemory on articles of two or three chunks.                   *)
EXTENDS TranslationMemory, TLC

CONSTANTS t1, t2, r1, r2

\* No chunk links to an unconfirmed title.
NoLinks == [c \in Chunks |-> {}]
\* The last chunk links to nothing.
LastPlain == [c \in Chunks |-> IF c = NumChunks THEN {} ELSE {t1}]

LastChunk == {NumChunks}

AnyDefect == [c \in Chunks |-> {"none", "chunk", "whole"}]
\* The first chunk's replies may be invalid, the last one's may also spoil the
\* article, the others' can only spoil it.
Mixed == [c \in Chunks |->
  CASE c = 1 -> {"none", "chunk"}
    [] c = NumChunks -> {"none", "chunk", "whole"}
    [] OTHER -> {"none", "whole"}]

RenderingSymmetry == Permutations({r1, r2})
=============================================================================
