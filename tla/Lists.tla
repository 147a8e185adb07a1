-------------------------------- MODULE Lists --------------------------------
(***************************************************************************)
(* Lists of Python as functions of their elements, where a community       *)
(* operator takes an operator or recurses.                                 *)
(***************************************************************************)
EXTENDS Naturals, Sequences

(* [x for x in list if x in S]: SelectSeq for a condition that a set says.  *)
Only(list, S) ==
  LET kept[n \in 0 .. Len(list)] ==
        IF n = 0 THEN <<>>
        ELSE IF list[n] \in S THEN Append(kept[n - 1], list[n]) ELSE kept[n - 1]
  IN  kept[Len(list)]

(* The lists of a list, each behind the one before it.                      *)
Chained(lists) ==
  LET chain[n \in 0 .. Len(lists)] == IF n = 0 THEN <<>> ELSE chain[n - 1] \o lists[n]
  IN  chain[Len(lists)]
=============================================================================
