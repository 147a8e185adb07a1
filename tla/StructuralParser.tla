-------------------------- MODULE StructuralParser ---------------------------
(***************************************************************************)
(* structural_parse: the chunks the embedding stage makes of a text.  The  *)
(* loop over the lines is a function of how many were read, the two inner  *)
(* loops (to the end of a code block or a table) are modes of its state.   *)
(*                                                                         *)
(* Blank lines have no tokens, so a piece that is empty once stripped is a *)
(* piece without tokens.                                                   *)
(***************************************************************************)
EXTENDS TextLines

CONSTANTS
  ChunkTokens,   \* CHUNK_TOKENS
  OverlapTokens  \* OVERLAP_TOKENS

ASSUME ParserAssumption ==
  ChunkTokens \in Nat /\ OverlapTokens \in Nat /\ OverlapTokens < ChunkTokens

(* stack: heading_stack; prose: prose_buffer; block: the lines of the block *)
(* being read, and at the line it began.                                    *)
Start == [mode |-> "prose", mark |-> "fence", stack |-> <<>>, prose |-> <<>>,
          block |-> <<>>, at |-> 0, chunks |-> <<>>]

StructuralChunk(st, type, at, tokens) ==
  [type |-> type, heading |-> st.stack, at |-> at, tokens |-> tokens]

(* _prose_chunks: windows of ChunkTokens, each begun OverlapTokens before   *)
(* the end of the one before it.                                            *)
Windows(tokens) ==
  LET step  == ChunkTokens - OverlapTokens
      count == (Len(tokens) + step - 1) \div step
  IN  [k \in 1 .. count |->
         SubSeq(tokens, (k - 1) * step + 1,
                AtMost((k - 1) * step + ChunkTokens, Len(tokens)))]

(* _flush_prose *)
Flush(text, st) ==
  LET windows == Windows(Tokens(text, st.prose))
  IN  [st EXCEPT !.prose = <<>>,
                 !.chunks = @ \o [k \in DOMAIN windows |->
                                    StructuralChunk(st, "text", Head(windows[k]), windows[k])]]

Emit(text, st, type) ==
  [st EXCEPT !.mode = "prose", !.block = <<>>,
             !.chunks = Append(@, StructuralChunk(st, type, st.at, Tokens(text, st.block)))]

(* The end of a block; one row is no table, but prose.                      *)
EndBlock(text, st) ==
  CASE st.mode = "prose" -> st
    [] st.mode = "code"  -> Emit(text, st, "code")
    [] st.mode = "html"  -> Emit(text, st, "table")
    [] st.mode = "table" -> IF Len(st.block) >= 2 THEN Emit(text, st, "table")
                            ELSE [st EXCEPT !.mode = "prose", !.prose = st.block,
                                            !.block = <<>>]

Open(text, st, n, mode, block) ==
  [Flush(text, st) EXCEPT !.mode = mode, !.mark = text[n], !.block = block, !.at = n]

(* _update_heading_stack *)
Under(text, stack, n) ==
  Append(Only(stack, {h \in DOMAIN text : Level(text[h]) < Level(text[n])}), n)

(* A line outside of a block.                                               *)
ReadProse(text, st, n) ==
  CASE text[n] \in {"fence", "lang", "plus", "tilde"} -> Open(text, st, n, "code", <<>>)
    [] text[n] \in {"open", "both"} -> Open(text, st, n, "html", <<n>>)
    [] text[n] = "row" -> Open(text, st, n, "table", <<n>>)
    [] text[n] \in Headings -> [Flush(text, st) EXCEPT !.stack = Under(text, @, n)]
    [] OTHER -> [st EXCEPT !.prose = Append(@, n)]

(* A code block ends at a line that starts with the mark that opened it.    *)
Closes(kind, mark) == IF mark = "tilde" THEN kind = "tilde" ELSE kind \in Ticks

(* One line.  The line that opens an HTML table is not asked whether it     *)
(* closes it too.                                                           *)
Read(text, st, n) ==
  LET more == [st EXCEPT !.block = Append(@, n)]
  IN  CASE st.mode = "prose" -> ReadProse(text, st, n)
        [] st.mode = "code"  -> IF Closes(text[n], st.mark) THEN EndBlock(text, st) ELSE more
        [] st.mode = "html"  -> IF text[n] \in {"close", "both"} THEN EndBlock(text, more)
                                ELSE more
        [] st.mode = "table" -> IF text[n] = "row" THEN more
                                ELSE ReadProse(text, EndBlock(text, st), n)

StructuralParse(text) ==
  LET st[n \in 0 .. Len(text)] == IF n = 0 THEN Start ELSE Read(text, st[n - 1], n)
  IN  Flush(text, EndBlock(text, st[Len(text)])).chunks

-----------------------------------------------------------------------------
(* Properties of a text                                                     *)

LinesOf(chunk) == ToSet(chunk.tokens)

Blocks(text) ==
  UNION {LinesOf(c) : c \in {d \in ToSet(StructuralParse(text)) : d.type # "text"}}

(* Every line that is not blank, a heading or a fence is in a chunk, in     *)
(* particular after blocks that no line closes; the chunks follow the text, *)
(* and a block is one chunk, of which no other chunk repeats a line.        *)
ParsesWhole(text) ==
  LET chunks == StructuralParse(text)
  IN  /\ \A n \in DOMAIN text :
           text[n] \notin Headings \cup Ticks \cup {"blank", "tilde"} =>
             \E c \in ToSet(chunks) : n \in LinesOf(c)
      /\ \A i, j \in DOMAIN chunks : i < j =>
           /\ chunks[i].at <= chunks[j].at
           /\ chunks[i].type # "text" \/ chunks[j].type # "text" =>
                \A m \in LinesOf(chunks[i]), n \in LinesOf(chunks[j]) : m < n

(* The headings above a chunk, without those inside blocks, of which no     *)
(* later one has the same or a higher rank.                                 *)
Above(text, chunk) ==
  LET heads == {n \in DOMAIN text \ Blocks(text) : text[n] \in Headings /\ n < chunk.at}
  IN  {n \in heads : \A m \in heads : n < m => Level(text[n]) < Level(text[m])}

(* The path of a chunk is what the headings above it say: a heading in a    *)
(* code block or a table is none, and the prose before a heading is not     *)
(* under it.                                                                *)
CrumbsRight(text) ==
  \A c \in ToSet(StructuralParse(text)) :
    ToSet(c.heading) = Above(text, c)
=============================================================================
