------------------------------- MODULE Chunker -------------------------------
(***************************************************************************)
(* chunk_document without its enrichment: the chunks direct sync makes of a*)
(* contextual record.  _parse_markdown (also for a Jira record's body) is a*)
(* function of how many lines were read, _sections_to_chunks bounds the    *)
(* blocks.                                                                 *)
(***************************************************************************)
EXTENDS TextLines

CONSTANTS
  SoftMax,   \* SOFT_MAX_TOKENS
  HardMax,   \* HARD_MAX_TOKENS
  Overlap    \* OVERLAP_TOKENS

ASSUME ChunkerAssumption ==
  /\ SoftMax \in Nat /\ HardMax \in Nat /\ Overlap \in Nat
  /\ Overlap < SoftMax /\ SoftMax <= HardMax

Least(S) == CHOOSE n \in S : \A m \in S : n <= m

-----------------------------------------------------------------------------
(* Parsing.                                                                 *)

Block(type, lines) == [type |-> type, lines |-> lines]

(* head: the line of the heading, or 0.                                     *)
Section(head, blocks) == [head |-> head, blocks |-> blocks]

(* _FENCE_RE: from ``` and at most one word to the next bare ```.           *)
CodeSpans(text, from) ==
  LET spans[n \in 0 .. Len(text)] ==
        IF n < from THEN {}
        ELSE LET before == spans[n - 1]
                 ends   == {m \in n + 1 .. Len(text) : text[m] = "fence"}
             IN  IF \/ \E s \in before : n <= s[2]
                    \/ text[n] \notin {"fence", "lang"} \/ ends = {}
                 THEN before ELSE before \cup {<<n, Least(ends)>>}
  IN  spans[Len(text)]

NoSections == [sections |-> <<Section(0, <<>>)>>, para |-> <<>>, list |-> <<>>, table |-> <<>>]

AddBlock(st, type, lines) ==
  IF lines = <<>> THEN st
  ELSE [st EXCEPT !.sections[Len(st.sections)].blocks = Append(@, Block(type, lines))]

(* _flush_para, _flush_list, _flush_table *)
FlushPara(st)  == [AddBlock(st, "paragraph", st.para) EXCEPT !.para = <<>>]
FlushList(st)  == [AddBlock(st, "list", st.list) EXCEPT !.list = <<>>]
FlushTable(st) == [AddBlock(st, "table", st.table) EXCEPT !.table = <<>>]
FlushAll(st)   == FlushTable(FlushList(FlushPara(st)))

(* The line of a code block's placeholder.                                  *)
ReadCode(st, span) ==
  LET flushed == FlushAll(st)
      block   == Block("code", [i \in 1 .. span[2] - span[1] - 1 |-> span[1] + i])
  IN  [flushed EXCEPT !.sections[Len(flushed.sections)].blocks = Append(@, block)]

ReadHeading(st, n) ==
  [FlushAll(st) EXCEPT !.sections = Append(@, Section(n, <<>>))]

ReadRow(st, n) == [FlushList(FlushPara(st)) EXCEPT !.table = Append(@, n)]

(* Mutant: a list that ends at a paragraph is not flushed.                  *)
MutReadLine(text, st, n) ==
  CASE text[n] \in {"item", "longitem"} -> [FlushPara(st) EXCEPT !.list = Append(@, n)]
    [] text[n] = "cont" /\ st.list # <<>> -> [st EXCEPT !.list = Append(@, n)]
    [] text[n] = "blank" -> [FlushPara(st) EXCEPT !.list = <<>>]
    [] OTHER -> [st EXCEPT !.list = <<>>, !.para = Append(@, n)]

(* Any other line ends a table; all but an indented one end a list.         *)
ReadLine(text, st, n) ==
  CASE text[n] \in {"item", "longitem"} -> [FlushPara(st) EXCEPT !.list = Append(@, n)]
    [] text[n] = "cont" /\ st.list # <<>> -> [st EXCEPT !.list = Append(@, n)]
    [] text[n] = "blank" -> FlushPara(FlushList(st))
    [] OTHER -> [FlushList(st) EXCEPT !.para = Append(@, n)]

ReadMarkdown(text, spans, st, n) ==
  CASE \E s \in spans : n = s[1] -> ReadCode(st, CHOOSE s \in spans : n = s[1])
    [] \E s \in spans : s[1] < n /\ n <= s[2] -> st
    [] OTHER ->
       CASE text[n] \in Headings -> ReadHeading(st, n)
         [] text[n] = "row" -> ReadRow(st, n)
         [] OTHER -> ReadLine(text, FlushTable(st), n)

ParseMarkdown(text, from) ==
  LET spans == CodeSpans(text, from)
      st[n \in 0 .. Len(text)] ==
        IF n < from THEN NoSections ELSE ReadMarkdown(text, spans, st[n - 1], n)
      sections == FlushAll(st[Len(text)]).sections
  IN  Only(sections, {s \in ToSet(sections) : s.blocks # <<>> \/ s.head # 0})

(* The first line is the title; a line of fields may follow, after blanks.  *)
ParseJira(text) ==
  LET title == IF text = <<>> \/ text[1] = "blank" THEN <<>> ELSE <<1>>
      rest  == {n \in 2 .. Len(text) : text[n] # "blank"}
      meta  == rest # {} /\ text[Least(rest)] = "meta"
      from  == IF rest = {} THEN Len(text) + 1 ELSE Least(rest) + IF meta THEN 1 ELSE 0
  IN  (IF title = <<>> THEN <<>> ELSE <<Section(1, <<Block("heading", title)>>)>>)
        \o (IF meta THEN <<Section(0, <<Block("metadata", Append(title, Least(rest)))>>)>>
            ELSE <<>>)
        \o ParseMarkdown(text, from)

ParseSlack(text) == <<Section(0, <<Block("message", Lines(text, 1))>>)>>

(* _PARSERS *)
Parse(source, text) ==
  CASE source = "jira"  -> ParseJira(text)
    [] source = "slack" -> ParseSlack(text)
    [] OTHER -> ParseMarkdown(text, 1)

-----------------------------------------------------------------------------
(* Chunking.                                                                *)

(* A split that never ends is the one part Forever.                         *)
Forever == <<0>>

(* The loop over a paragraph that is longer than soft: from start, soft     *)
(* tokens at a time, until a part ends with the paragraph.                  *)
SplitTokens(tokens, soft) ==
  LET First(k) == k * (soft - Overlap)
      End(k)   == AtMost(First(k) + soft, Len(tokens))
      stops    == {k \in 0 .. Len(tokens) : End(k) = Len(tokens)}
  IN  IF stops = {} THEN <<Forever>>
      ELSE [k \in 1 .. Least(stops) + 1 |-> SubSeq(tokens, First(k - 1) + 1, End(k - 1))]

NoParts == [out |-> <<>>, paras |-> <<>>, tokens |-> 0]

Joined(paras) == Chained(paras)

(* Mutant: only a paragraph above the hard ceiling is split.                *)
MutAddPara(st, para, soft) ==
  IF Len(para) > HardMax
  THEN [out |-> st.out \o (IF st.paras = <<>> THEN <<>> ELSE <<Joined(st.paras)>>)
                  \o SplitTokens(para, soft),
        paras |-> <<>>, tokens |-> 0]
  ELSE IF st.tokens + Len(para) > soft /\ st.paras # <<>>
  THEN [out |-> Append(st.out, Joined(st.paras)),
        paras |-> <<Last(st.paras), para>>, tokens |-> Len(Last(st.paras)) + Len(para)]
  ELSE [st EXCEPT !.paras = Append(@, para), !.tokens = @ + Len(para)]

(* A paragraph too long for a part is split by tokens; another is added, or *)
(* begins the next part behind the last paragraph of this one.              *)
AddPara(st, para, soft) ==
  IF Len(para) > soft
  THEN [out |-> st.out \o (IF st.paras = <<>> THEN <<>> ELSE <<Joined(st.paras)>>)
                  \o SplitTokens(para, soft),
        paras |-> <<>>, tokens |-> 0]
  ELSE IF st.tokens + Len(para) > soft /\ st.paras # <<>>
  THEN [out |-> Append(st.out, Joined(st.paras)),
        paras |-> <<Last(st.paras), para>>, tokens |-> Len(Last(st.paras)) + Len(para)]
  ELSE [st EXCEPT !.paras = Append(@, para), !.tokens = @ + Len(para)]

(* _token_split_prose *)
SplitProse(paras, soft) ==
  LET st[k \in 0 .. Len(paras)] ==
        IF k = 0 THEN NoParts ELSE AddPara(st[k - 1], paras[k], soft)
      end == st[Len(paras)]
  IN  end.out \o IF end.paras = <<>> THEN <<>> ELSE <<Joined(end.paras)>>

(* Lines between blank ones.                                                *)
Paragraphs(text, lines) ==
  LET paras[k \in 0 .. Len(lines)] ==
        IF k = 0 THEN <<<<>>>>
        ELSE LET before == paras[k - 1]
             IN  IF text[lines[k]] = "blank" THEN Append(before, <<>>)
                 ELSE [before EXCEPT ![Len(before)] = @ \o Tokens(text, <<lines[k]>>)]
      all == paras[Len(lines)]
  IN  Only(all, ToSet(all) \ {<<>>})

(* A long list, item by item.                                               *)
AddItem(text, st, n, prefix) ==
  LET size == Size(text[n])
  IN  IF st.tokens + size > SoftMax /\ st.items # <<>>
      THEN [out |-> Append(st.out, Tokens(text, st.items)), items |-> <<n>>,
            tokens |-> prefix + size]
      ELSE [st EXCEPT !.items = Append(@, n), !.tokens = @ + size]

SplitList(text, lines, prefix) ==
  LET st[k \in 0 .. Len(lines)] ==
        IF k = 0 THEN [out |-> <<>>, items |-> <<>>, tokens |-> prefix]
        ELSE AddItem(text, st[k - 1], lines[k], prefix)
      end == st[Len(lines)]
  IN  Append(end.out, Tokens(text, end.items))

StructuredChunk(type, head, prefix, tokens) ==
  [type |-> type, head |-> head, prefix |-> prefix, tokens |-> tokens]

(* The chunks of one block.                                                 *)
BlockChunks(text, section, block) ==
  LET prefix == IF section.head = 0 THEN 0 ELSE Size(text[section.head])
      tokens == Tokens(text, block.lines)
      Whole(type, pre) == <<StructuredChunk(type, section.head, pre, tokens)>>
      Parts(type, pre, parts) ==
        [k \in DOMAIN parts |-> StructuredChunk(type, section.head, pre, parts[k])]
  IN  CASE block.type = "heading"  -> Whole("title", 0)
        [] block.type = "metadata" -> Whole("metadata", 0)
        [] block.type \in {"code", "table"} -> Whole(block.type, prefix)
        [] block.type = "message" ->
             IF Len(tokens) <= HardMax THEN Whole("message", 0)
             ELSE Parts("message", 0, SplitProse(Paragraphs(text, block.lines), SoftMax))
        [] block.type = "list" ->
             IF prefix + Len(tokens) <= HardMax THEN Whole("list", prefix)
             ELSE Parts("list", prefix, SplitList(text, block.lines, prefix))
        [] block.type = "paragraph" ->
             Parts("body", prefix,
                   SplitProse(Paragraphs(text, block.lines), SoftMax - prefix))

(* _sections_to_chunks *)
Chunks(source, text) ==
  LET OfSection(s) == Chained([b \in DOMAIN s.blocks |-> BlockChunks(text, s, s.blocks[b])])
      sections == Parse(source, text)
  IN  Chained([s \in DOMAIN sections |-> OfSection(sections[s])])

-----------------------------------------------------------------------------
(* Properties of a text                                                     *)

Endless(chunk) == chunk.tokens = Forever

Covered(chunks) == UNION {ToSet(c.tokens) : c \in chunks}

(* Every line that is not blank, a heading or a fence is in a chunk, and a  *)
(* chunk is under the last heading above it that is not code.               *)
ChunksWhole(source, text) ==
  LET chunks == ToSet(Chunks(source, text))
      code   == Covered({c \in chunks : c.type = "code"})
      first  == IF source = "jira" THEN 2 ELSE 1
      Heads(c) == {n \in first .. Least(ToSet(c.tokens)) - 1 :
                     text[n] \in Headings /\ n \notin code}
  IN  (\A c \in chunks : ~Endless(c)) =>
        /\ \A n \in DOMAIN text :
             text[n] \notin Headings \cup {"blank", "fence", "lang"} =>
               n \in Covered(chunks)
        /\ \A c \in chunks :
             c.type \in {"body", "list", "table", "code"} /\ c.tokens # <<>> =>
               IF Heads(c) = {} THEN c.head = 0
               ELSE \A n \in Heads(c) : n <= c.head /\ c.head \in Heads(c)

(* A chunk is longer than HARD_MAX_TOKENS only when it is one that is never *)
(* split, one list item, or the end of a message with the paragraph carried *)
(* over from the part before; and chunking ends, unless a paragraph has to  *)
(* be split under a heading that leaves no room beside the overlap.         *)
ChunksBounded(source, text) ==
  \A c \in ToSet(Chunks(source, text)) :
    IF Endless(c) THEN c.prefix >= SoftMax - Overlap
    ELSE \/ c.prefix + Len(c.tokens) <= HardMax
         \/ c.type \in {"code", "table", "metadata", "title"}
         \/ c.type = "list" /\ Cardinality(ToSet(c.tokens)) = 1
         \/ c.type = "message" /\ Len(c.tokens) <= 2 * SoftMax
=============================================================================
