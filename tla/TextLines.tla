------------------------------ MODULE TextLines ------------------------------
(***************************************************************************)
(* A document's text, as far as the two chunkers tell its lines apart:     *)
(* structural_parser in the Celery worker (staged records) and chunker in  *)
(* the API (direct sync).  A text is a sequence of kinds of line; a piece  *)
(* of it is a sequence of tokens, each of them given as the number of the  *)
(* line it is from.                                                        *)
(*                                                                         *)
(*   text, long    prose; a long line has LongLine tokens, others have one *)
(*   item, longitem, cont    a list item, a line indented under it         *)
(*   meta          a Jira record's line of fields ("Status: ...")          *)
(*   row           a row of a Markdown table                               *)
(*   open, close, both    the tags of an HTML table, on two lines or one   *)
(*   h1, h2, longhead     headings of level 1, 2 and 1, the last of two    *)
(*                        tokens                                           *)
(*   fence, lang, plus, info, tilde    ```, ```py, ```c++, ```py x, ~~~    *)
(***************************************************************************)
EXTENDS Integers, FiniteSets, Lists, SequencesExt

CONSTANT LongLine  \* tokens of a long line

ASSUME TextAssumption == LongLine \in Nat \ {0}

Prose    == {"text", "long", "item", "longitem", "cont", "meta"}
Headings == {"h1", "h2", "longhead"}
Ticks    == {"fence", "lang", "plus", "info"}
LineKind == Prose \cup Headings \cup Ticks
              \cup {"blank", "row", "open", "close", "both", "tilde"}

Level(kind) == IF kind = "h2" THEN 2 ELSE 1

Size(kind) ==
  CASE kind = "blank" -> 0
    [] kind \in {"long", "longitem"} -> LongLine
    [] kind = "longhead" -> 2
    [] OTHER -> 1

(* The text as a sequence of tokens, and the tokens of some of its lines.   *)
Tokens(text, lines) ==
  Chained([k \in DOMAIN lines |-> [i \in 1 .. Size(text[lines[k]]) |-> lines[k]]])

AtMost(n, m) == IF n < m THEN n ELSE m

Lines(text, from) == [i \in 1 .. Len(text) + 1 - from |-> from + i - 1]
=============================================================================
